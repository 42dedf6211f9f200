---------------------------------- MODULE Ui --------------------------------
(***************************************************************************)
(* The user interface: tokio tasks that share one UiState behind a mutex   *)
(* and talk to the core, and the UI thread that owns the window.  A task   *)
(* runs one critical section per step, and hands what it has to show to    *)
(* the UI thread, which runs the closures in order and, here, at once.     *)
(* Everything that happens to the core happens between two such sections.  *)
(***************************************************************************)
EXTENDS Naturals, Sequences

CONSTANTS
    Adapters,
    NoAdapter,    \* adapter_id "", no entry of the list box, "--"
    None,         \* no snapshot, no configuration, no list
    Lists,        \* what list_adapters can find on the machine
    AtFirst,      \* what it can find at first
    Stored,       \* configurations the core may have been left with
    MaxTasks,     \* bound: how many tasks the user's clicks keep running
    MaxClicks,    \* bound: how often the user clicks or chooses a draft
    MaxTurns,     \* bound: how often the core dies or falls back, or an
                  \* adapter comes or goes
    Tolerated     \* mishaps that do not count as such: {}

ASSUME UiAssumption ==
    /\ NoAdapter \notin Adapters
    /\ Lists \subseteq Seq(Adapters) /\ None \notin Lists
    /\ AtFirst \subseteq Lists
    /\ MaxTasks \in Nat /\ MaxClicks \in Nat /\ MaxTurns \in Nat

VARIABLES
    core,         \* the service, as far as the UI can tell
    plugged,      \* the adapters there are, in the order of list_adapters
    st,           \* Mutex<UiState>
    app,          \* the window's properties
    startup,      \* the task that connects for the first time
    poll,         \* the task the one-second timer spawns
    task,         \* the tasks the user's clicks spawn
    labels,       \* tasks that will take a "saved" label away in a while
    clicks, turns,
    astray        \* whether a mishap has happened that parts UI and core

vars == <<core, plugged, st, app, startup, poll, task, labels, clicks, turns,
          astray>>
bounds == <<clicks, turns>>

Mode == {"RouteOverlay", "AdapterReconfig"}

(* gw: whether bypass_ip is an address other than 0.0.0.0.                 *)
Config == [mode: Mode, adapter: Adapters \cup {NoAdapter}, gw: BOOLEAN]
Default == [mode |-> "RouteOverlay", adapter |-> NoAdapter, gw |-> FALSE]

Snapshot == [enabled: BOOLEAN, fallen: BOOLEAN]
StatusOf(c) == [enabled |-> c.enabled, fallen |-> c.fallen]

(* A configuration the service has loaded, or a status, is not absent.     *)
ASSUME StoredAssumption ==
    Stored \subseteq Config /\ None \notin Config \cup Snapshot

(* A closure handed to the UI thread takes the window w to a new one.      *)
(* Mutant: the label of an earlier save is taken away whatever it is now.  *)
LabelClearedAnyway(w) == [w EXCEPT !.save = ""]

(* The "saved" label goes, if it is still there.                           *)
LabelCleared(w) == [w EXCEPT !.save = IF @ = "saved" THEN "" ELSE @]

ConfigShown(w, c) == [w EXCEPT !.mode = c.mode, !.draft = c.mode, !.gw = c.gw]

(* position and find: the adapter of a configuration is looked up in the   *)
(* list; one that is not there is index -1 of the list box and "--" on the *)
(* home page.                                                              *)
Has(list, a) == \E i \in DOMAIN list : list[i] = a

(* Mutant: the first entry stands for an adapter that is not there.        *)
FoundOrFirst(list, a) ==
    IF Has(list, a) THEN a ELSE IF list = <<>> THEN NoAdapter ELSE list[1]

Found(list, a) == IF Has(list, a) THEN a ELSE NoAdapter

(* info: whose addresses the home page shows; entry: what the list box has *)
(* selected.                                                               *)
InfoShown(w, list, a) == [w EXCEPT !.info = Found(list, a)]
ListShown(w, list, a) ==
    [w EXCEPT !.info = Found(list, a), !.entry = Found(list, a)]

(* Mutant: a new configuration only fills the list box.                    *)
AdoptedListOnly(w, list, c) == ListShown(w, list, c.adapter)

AdoptedShown(w, list, c) == ListShown(ConfigShown(w, c), list, c.adapter)

StatusShown(w, s) == [w EXCEPT !.enabled = s.enabled, !.fallen = s.fallen]

-----------------------------------------------------------------------------
(* The core. validate_config refuses an incomplete configuration; any      *)
(* other request may fail before or after it took effect.                  *)
Acceptable(c) == c.adapter # NoAdapter /\ c.gw

Answers(k, c) == {[ok |-> TRUE, core |-> c], [ok |-> FALSE, core |-> k],
                  [ok |-> FALSE, core |-> c]}
Disabled(k) == Answers(k, [k EXCEPT !.enabled = FALSE, !.fallen = FALSE])

(* mark_enabled leaves the health alone, the disable before it, if the     *)
(* bypass was up, does not.                                                *)
Enabled(k) ==
    IF ~Acceptable(k.cfg) THEN {[ok |-> FALSE, core |-> k]}
    ELSE Answers(k, [k EXCEPT !.enabled = TRUE, !.fallen = @ /\ ~k.enabled])
         \cup {[ok |-> FALSE, core |-> a.core] : a \in Disabled(k)}

Updated(k, c) ==
    LET new == [k EXCEPT !.cfg = c] IN
    IF ~Acceptable(c) THEN {[ok |-> FALSE, core |-> k]}
    ELSE Answers(k, new) \cup (IF k.enabled THEN Enabled(new) ELSE {})

UpdatedEnabled(k, c) ==
    UNION {IF a.ok THEN Enabled(a.core) ELSE {a} : a \in Updated(k, c)}

CoreChanges(k) ==
    /\ core' = k
    /\ UNCHANGED <<plugged, st, app, startup, poll, task, labels, clicks,
                   astray>>

Turn == turns < MaxTurns /\ turns' = turns + 1

FallsBack ==
    /\ core.up /\ core.enabled /\ Turn
    /\ CoreChanges([core EXCEPT !.enabled = FALSE, !.fallen = TRUE])

(* The loop enables again, or reports the health of a new enable.          *)
Recovers ==
    /\ core.up /\ core.fallen /\ UNCHANGED turns
    /\ CoreChanges([core EXCEPT !.enabled = TRUE, !.fallen = FALSE])

(* Connections die with the core.                                          *)
Cut(client) == IF client = "live" THEN "dead" ELSE client

Dies ==
    /\ core.up /\ Turn
    /\ core' = [core EXCEPT !.up = FALSE]
    /\ st' = [st EXCEPT !.client = Cut(@)]
    /\ startup' = [startup EXCEPT !.client = Cut(@)]
    /\ UNCHANGED <<plugged, app, poll, task, labels, clicks, astray>>

(* reconcile_on_startup: a fallback is forgotten; a lost snapshot ends the *)
(* bypass.                                                                 *)
Restarts ==
    /\ ~core.up /\ UNCHANGED turns
    /\ \E e \in {core.enabled, FALSE} :
          CoreChanges([core EXCEPT !.up = TRUE, !.enabled = e,
                                   !.fallen = @ /\ e])

(* An adapter is plugged in or out.  The core keeps no list.               *)
Replugs ==
    /\ Turn /\ plugged' \in Lists \ {plugged}
    /\ UNCHANGED <<core, st, app, startup, poll, task, labels, clicks,
                   astray>>

-----------------------------------------------------------------------------
(* What the user is in the middle of.                                      *)
Slots == 1..MaxTasks
Idle == [pc |-> "free", on |-> FALSE, cfg |-> None, list |-> <<>>, idx |-> 0]

Waiting == \E u \in Slots : task[u] # Idle
OnlyToggles == \A u \in Slots : task[u].pc \in {"free", "who"}

(* Something is under way that will show, or store, what it read before.   *)
InFlight ==
    \/ startup.pc # "done"
    \/ poll.pc \in {"adopt", "relist"}

(* "overlap", "draft", "late", "refused" or "unlisted".                    *)
Mishap(kinds) == astray' = (astray \/ kinds \ Tolerated # {})

Overtaken(b) == IF b THEN {"overlap"} ELSE {}

(* rt.spawn: which slot a task gets does not matter.                       *)
Free(u) == task[u] = Idle /\ \A v \in 1..(u - 1) : task[v] # Idle

Click(u, t, overtaking) ==
    /\ Free(u) /\ clicks < MaxClicks
    /\ task' = [task EXCEPT ![u] = t]
    /\ clicks' = clicks + 1
    /\ Mishap(Overtaken(overtaking))
    /\ UNCHANGED <<core, plugged, st, startup, poll, labels, turns>>

(* build_config_from_ui: the draft as it stands, saved or not. A form that *)
(* does not validate, an empty one first of all, is no click.              *)
Form == [mode |-> app.draft, adapter |-> NoAdapter, gw |-> app.gw]
Unsaved == app.draft # st.cfg.mode \/ app.gw # st.cfg.gw

(* on_toggle_bypass, from the window or the tray.                          *)
ToggleClicked(u) ==
    /\ Free(u) /\ clicks < MaxClicks /\ app.gw
    /\ task' = [task EXCEPT
          ![u] = [Idle EXCEPT !.pc = "who", !.on = ~app.enabled, !.cfg = Form]]
    /\ clicks' = clicks + 1
    /\ Mishap(Overtaken(InFlight \/ ~OnlyToggles)
              \cup (IF Unsaved THEN {"draft"} ELSE {}))
    /\ UNCHANGED <<core, plugged, st, app, startup, poll, labels, turns>>

(* on_save_config                                                          *)
SaveClicked(u) ==
    /\ app.save # "saving" /\ app.gw
    /\ app' = [app EXCEPT !.save = "saving"]
    /\ Click(u, [Idle EXCEPT !.pc = "save", !.cfg = Form], InFlight \/ Waiting)

(* on_restore_default; its button is off while a save is under way.        *)
RestoreClicked(u) ==
    /\ app.save # "saving"
    /\ Click(u, [Idle EXCEPT !.pc = "restore"], InFlight \/ Waiting)
    /\ UNCHANGED app

(* The list box has the new entry selected before on_adapter_changed runs, *)
(* which gets its index.  The box has the names of UiState's list.         *)
AdapterPicked(u) ==
    \E i \in DOMAIN st.list :
        /\ st.list[i] # app.entry
        /\ app' = [app EXCEPT !.entry = st.list[i]]
        /\ Click(u, [Idle EXCEPT !.pc = "pick", !.idx = i],
                 InFlight \/ Waiting)

(* on_refresh_adapters                                                     *)
RefreshClicked(u) ==
    /\ Click(u, [Idle EXCEPT !.pc = "list", !.cfg = Default],
             InFlight \/ Waiting)
    /\ UNCHANGED app

(* A click on a mode card; entering the page, which resets the draft.      *)
DraftChosen ==
    /\ clicks < MaxClicks /\ clicks' = clicks + 1
    /\ \E m \in Mode \ {app.draft} : app' = [app EXCEPT !.draft = m]
    /\ UNCHANGED <<core, plugged, st, startup, poll, task, labels, turns,
                   astray>>

-----------------------------------------------------------------------------
(* The tasks behind the clicks.                                            *)
(* Mutant: UiState keeps the configuration of the last connection.         *)
CopiedNever(cfg) == st

Copied(cfg) == [st EXCEPT !.cfg = cfg]

At(u, p) == task[u].pc = p
Goto(u, p) == task' = [task EXCEPT ![u].pc = p]
Done(u) == task' = [task EXCEPT ![u] = Idle]

Rest == <<plugged, startup, poll, labels, bounds>>

(* An answer that says nothing changed although it did, or the reverse of  *)
(* what the window already shows.                                          *)
Bad(a, picked) ==
    (IF ~a.ok /\ a.core # core THEN {"late"} ELSE {})
    \cup (IF ~a.ok /\ picked THEN {"refused"} ELSE {})

(* send_request in a critical section: without a live client there is no   *)
(* answer but an error.                                                    *)
Answer(results) ==
    IF st.client = "live" THEN results ELSE {[ok |-> FALSE, core |-> core]}

ToggleReads(u) ==
    /\ At(u, "who")
    /\ task' = [task EXCEPT ![u].pc = "send",
                            ![u].cfg.adapter = st.cfg.adapter]
    /\ UNCHANGED <<core, st, app, astray>> /\ UNCHANGED Rest

ToggleSends(u) ==
    /\ At(u, "send")
    /\ \E a \in Answer(IF task[u].on THEN UpdatedEnabled(core, task[u].cfg)
                       ELSE Disabled(core)) :
          /\ core' = a.core
          /\ Mishap(Bad(a, FALSE))
          /\ IF a.ok THEN Goto(u, "keep") ELSE Done(u)
    /\ UNCHANGED <<st, app>> /\ UNCHANGED Rest

(* Also after a disable, which sent no configuration at all.               *)
ToggleKeeps(u) ==
    /\ At(u, "keep")
    /\ st' = Copied(task[u].cfg)
    /\ Goto(u, "list")
    /\ UNCHANGED <<core, app, astray>> /\ UNCHANGED Rest

(* refresh_adapters, in two sections.  An error and an empty list change   *)
(* nothing.                                                                *)
RefreshAsks(u) ==
    /\ At(u, "list")
    /\ \/ /\ st.client = "live" /\ plugged # <<>>
          /\ task' = [task EXCEPT ![u].pc = "relist", ![u].list = plugged,
                                  ![u].cfg.adapter = st.cfg.adapter]
       \/ Done(u)
    /\ UNCHANGED <<core, st, app, astray>> /\ UNCHANGED Rest

RefreshShows(u) ==
    /\ At(u, "relist")
    /\ st' = [st EXCEPT !.list = task[u].list]
    /\ app' = ListShown(app, task[u].list, task[u].cfg.adapter)
    /\ Done(u)
    /\ UNCHANGED <<core, astray>> /\ UNCHANGED Rest

(* Mutant: a successful save leaves the mode card alone.                   *)
SavedLabelOnly(w, c) == [w EXCEPT !.save = "saved"]

SavedShown(w, c) ==
    [w EXCEPT !.save = "saved", !.mode = c.mode, !.draft = c.mode]

(* Mutant: the label of a failure is one the window does not know.         *)
FailureLabelled(w) == [w EXCEPT !.save = "failed"]

FailureShown(w) == [w EXCEPT !.save = ""]

SaveSends(u) ==
    /\ At(u, "save")
    /\ LET cfg == [task[u].cfg EXCEPT !.adapter = st.cfg.adapter] IN
       \E a \in Answer(Updated(core, cfg)) :
          /\ core' = a.core
          /\ Mishap(Bad(a, FALSE))
          /\ \/ /\ a.ok
                /\ st' = Copied(cfg)
                /\ app' = SavedShown(app, cfg)
                /\ labels' = labels + 1
             \/ /\ ~a.ok
                /\ app' = FailureShown(app)
                /\ UNCHANGED <<st, labels>>
    /\ Done(u)
    /\ UNCHANGED <<plugged, startup, poll, bounds>>

(* Two seconds later.                                                      *)
LabelForgotten ==
    /\ labels > 0
    /\ labels' = labels - 1
    /\ app' = LabelCleared(app)
    /\ UNCHANGED <<core, plugged, st, startup, poll, task, bounds, astray>>

RestoreSends(u) ==
    /\ At(u, "restore")
    /\ LET cfg == [Default EXCEPT !.adapter = st.cfg.adapter] IN
       \E a \in Answer(Updated(core, cfg)) :
          /\ core' = a.core
          /\ Mishap(Bad(a, FALSE))
          /\ \/ /\ a.ok
                /\ st' = Copied(cfg) /\ app' = ConfigShown(app, cfg)
             \/ ~a.ok /\ UNCHANGED <<st, app>>
    /\ Done(u)
    /\ UNCHANGED Rest

(* on_adapter_changed: the index is looked up in the list there is now.    *)
(* The choice stays in UiState when it was refused.                        *)
PickSends(u) ==
    /\ At(u, "pick")
    /\ \/ /\ task[u].idx \in DOMAIN st.list
          /\ LET a == st.list[task[u].idx]
                 cfg == [st.cfg EXCEPT !.adapter = a]
             IN /\ st' = [st EXCEPT !.cfg = cfg]
                /\ \E r \in Answer(Updated(core, cfg)) :
                      /\ core' = r.core /\ Mishap(Bad(r, TRUE))
                      /\ app' = IF r.ok THEN InfoShown(app, st.list, a)
                                ELSE app
       \/ /\ task[u].idx \notin DOMAIN st.list
          /\ UNCHANGED <<core, st, app, astray>>
    /\ Done(u)
    /\ UNCHANGED Rest

TaskStep(u) ==
    \/ ToggleReads(u) \/ ToggleSends(u) \/ ToggleKeeps(u)
    \/ RefreshAsks(u) \/ RefreshShows(u)
    \/ SaveSends(u) \/ RestoreSends(u) \/ PickSends(u)

-----------------------------------------------------------------------------
Started == [pc |-> "done", client |-> "none", cfg |-> None, list |-> None]

(* The first connection: ten attempts, then the configuration and the      *)
(* adapters, all before the lock is taken.                                 *)
StartupConnects ==
    /\ startup.pc = "connect"
    /\ \/ /\ ~core.up
          /\ startup' = Started
       \/ /\ core.up
          /\ \E list \in {plugged, None} :
                startup' = [pc |-> "store", client |-> "live",
                            cfg |-> core.cfg, list |-> list]
    /\ UNCHANGED <<core, plugged, st, app, poll, task, labels, bounds, astray>>

(* The core dies before get_config was answered.                           *)
StartupCut ==
    /\ startup.pc = "connect" /\ core.up /\ Turn
    /\ core' = [core EXCEPT !.up = FALSE]
    /\ st' = [st EXCEPT !.client = Cut(@)]
    /\ startup' = [Started EXCEPT !.pc = "store", !.client = "dead"]
    /\ UNCHANGED <<plugged, app, poll, task, labels, clicks, astray>>

(* Without a list the home page shows no adapter, whatever list a poll has *)
(* shown meanwhile.                                                        *)
Unlisted == IF startup.list = None /\ st.list # <<>> THEN {"unlisted"} ELSE {}

StartupStores ==
    /\ startup.pc = "store"
    /\ LET cfg == IF startup.cfg = None THEN st.cfg ELSE startup.cfg
           list == IF startup.list = None THEN st.list ELSE startup.list
           shown == IF startup.cfg = None THEN app ELSE ConfigShown(app, cfg)
       IN /\ st' = [client |-> startup.client, cfg |-> cfg, list |-> list]
          /\ app' = IF startup.list = None
                    THEN InfoShown(shown, <<>>, cfg.adapter)
                    ELSE ListShown(shown, list, cfg.adapter)
    /\ startup' = Started
    /\ Mishap(Unlisted)
    /\ UNCHANGED <<core, plugged, poll, task, labels, bounds>>

-----------------------------------------------------------------------------
(* The poll, one critical section after the other.                         *)
PollAt(p) == poll.pc = p
Resting == [pc |-> "idle", snap |-> None, cfg |-> None, list |-> <<>>]
Polled == <<core, plugged, startup, task, labels, bounds>>

(* get_status                                                              *)
PollStatus ==
    /\ PollAt("idle")
    /\ poll' = [Resting EXCEPT !.pc = "told",
          !.snap = IF st.client = "live" THEN StatusOf(core) ELSE None]
    /\ UNCHANGED <<st, app, astray>> /\ UNCHANGED Polled

(* service_lost: whether there is a client by now, dead or alive.          *)
PollTells ==
    /\ PollAt("told")
    /\ app' = [app EXCEPT !.lost = st.client = "none"]
    /\ poll' = [poll EXCEPT
          !.pc = IF poll.snap = None THEN "reconnect" ELSE "check"]
    /\ UNCHANGED <<st, astray>> /\ UNCHANGED Polled

PollReconnectFails ==
    /\ PollAt("reconnect") /\ ~core.up
    /\ poll' = Resting
    /\ UNCHANGED <<st, app, astray>> /\ UNCHANGED Polled

(* get_status, get_config, list_adapters: the configuration is kept only   *)
(* if all three answer.                                                    *)
PollReconnects ==
    /\ PollAt("reconnect") /\ core.up
    /\ st' = [st EXCEPT !.client = "live"]
    /\ \E all \in BOOLEAN :
          poll' = [pc |-> "adopt", snap |-> StatusOf(core),
                   cfg |-> IF all THEN core.cfg ELSE None,
                   list |-> IF all THEN plugged ELSE <<>>]
    /\ Mishap(Overtaken(Waiting))
    /\ UNCHANGED app /\ UNCHANGED Polled

(* The core dies before get_status was answered.                           *)
PollReconnectCut ==
    /\ PollAt("reconnect") /\ core.up /\ Turn
    /\ core' = [core EXCEPT !.up = FALSE]
    /\ st' = [st EXCEPT !.client = "dead"]
    /\ startup' = [startup EXCEPT !.client = Cut(@)]
    /\ poll' = [Resting EXCEPT !.pc = "adopt"]
    /\ UNCHANGED <<plugged, app, task, labels, clicks, astray>>

PollAdopts ==
    /\ PollAt("adopt")
    /\ \/ /\ poll.cfg # None
          /\ st' = [st EXCEPT !.cfg = poll.cfg, !.list = poll.list]
          /\ app' = AdoptedShown(app, poll.list, poll.cfg)
       \/ /\ poll.cfg = None
          /\ st' = [st EXCEPT !.client = "none"] /\ UNCHANGED app
    /\ poll' = [poll EXCEPT
          !.pc = IF poll.snap = None THEN "retry" ELSE "check",
          !.cfg = None, !.list = <<>>]
    /\ UNCHANGED astray /\ UNCHANGED Polled

(* Only a startup that has just connected can have left a client here.     *)
PollRetries ==
    /\ PollAt("retry")
    /\ st' = [st EXCEPT !.client = IF @ = "dead" THEN "none" ELSE @]
    /\ poll' = Resting
    /\ UNCHANGED <<app, astray>> /\ UNCHANGED Polled

(* The test for an empty list and the first section of refresh_adapters.   *)
PollLists ==
    /\ PollAt("check")
    /\ \/ /\ st.list = <<>> /\ st.client = "live" /\ plugged # <<>>
          /\ poll' = [poll EXCEPT !.pc = "relist", !.cfg = st.cfg,
                                  !.list = plugged]
          /\ Mishap(Overtaken(Waiting))
       \/ /\ poll' = [poll EXCEPT !.pc = "report"]
          /\ UNCHANGED astray
    /\ UNCHANGED <<st, app>> /\ UNCHANGED Polled

PollRelists ==
    /\ PollAt("relist")
    /\ st' = [st EXCEPT !.list = poll.list]
    /\ app' = ListShown(app, poll.list, poll.cfg.adapter)
    /\ poll' = [poll EXCEPT !.pc = "report", !.cfg = None, !.list = <<>>]
    /\ UNCHANGED astray /\ UNCHANGED Polled

(* Mutant: the window is only told of a bypass that went on or off.        *)
PollReportsSwitch ==
    /\ PollAt("report")
    /\ app' = IF poll.snap.enabled = app.enabled THEN app
              ELSE StatusShown(app, poll.snap)
    /\ poll' = Resting
    /\ UNCHANGED <<st, astray>> /\ UNCHANGED Polled

PollReports ==
    /\ PollAt("report")
    /\ app' = StatusShown(app, poll.snap)
    /\ poll' = Resting
    /\ UNCHANGED <<st, astray>> /\ UNCHANGED Polled

PollStep ==
    \/ PollStatus \/ PollTells \/ PollReconnectFails \/ PollReconnects
    \/ PollReconnectCut \/ PollAdopts \/ PollRetries
    \/ PollLists \/ PollRelists \/ PollReports

-----------------------------------------------------------------------------
Init ==
    /\ \E cfg \in Stored, e \in BOOLEAN :
          core = [up |-> TRUE, cfg |-> cfg, enabled |-> e, fallen |-> FALSE]
    /\ plugged \in AtFirst
    /\ st = [client |-> "none", cfg |-> Default, list |-> <<>>]
    /\ app = [enabled |-> FALSE, fallen |-> FALSE, lost |-> FALSE,
              mode |-> "RouteOverlay", draft |-> "RouteOverlay", gw |-> FALSE,
              entry |-> NoAdapter, info |-> NoAdapter, save |-> ""]
    /\ startup = [Started EXCEPT !.pc = "connect"]
    /\ poll = Resting
    /\ task = [u \in Slots |-> Idle]
    /\ labels = 0 /\ clicks = 0 /\ turns = 0
    /\ astray = FALSE

CoreStep == FallsBack \/ Recovers \/ Dies \/ Restarts \/ Replugs

UserStep(u) ==
    \/ ToggleClicked(u) \/ SaveClicked(u) \/ RestoreClicked(u)
    \/ AdapterPicked(u) \/ RefreshClicked(u)

Next ==
    \/ CoreStep
    \/ \E u \in Slots : UserStep(u) \/ TaskStep(u)
    \/ DraftChosen \/ LabelForgotten
    \/ StartupConnects \/ StartupCut \/ StartupStores
    \/ PollStep

Spec == Init /\ [][Next]_vars

(* tokio runs its tasks, the timer fires, the event loop runs; nothing is  *)
(* assumed of the core or the user.                                        *)
FairSpec ==
    /\ Spec
    /\ \A u \in Slots : WF_vars(TaskStep(u))
    /\ WF_vars(StartupConnects \/ StartupStores)
    /\ WF_vars(PollStep) /\ WF_vars(LabelForgotten)

-----------------------------------------------------------------------------
(* The window's properties, UiState and the tasks only ever hold what the  *)
(* page and the tasks know: a label the button has, a stage of the poll.   *)
TypeOK ==
    /\ core \in [up: BOOLEAN, cfg: Config, enabled: BOOLEAN, fallen: BOOLEAN]
    /\ plugged \in Lists
    /\ st \in [client: {"none", "live", "dead"}, cfg: Config,
               list: Lists \cup {<<>>}]
    /\ app \in [enabled: BOOLEAN, fallen: BOOLEAN, lost: BOOLEAN,
                mode: Mode, draft: Mode, gw: BOOLEAN,
                entry: Adapters \cup {NoAdapter},
                info: Adapters \cup {NoAdapter},
                save: {"", "saving", "saved"}]
    /\ startup.pc \in {"connect", "store", "done"}
    /\ startup.cfg \in Config \cup {None}
    /\ startup.list \in Lists \cup {None}
    /\ poll.pc \in {"idle", "told", "reconnect", "adopt", "retry", "check",
                    "relist", "report"}
    /\ poll.snap \in Snapshot \cup {None}
    /\ \A u \in Slots : task[u].cfg \in Config \cup {None}
    /\ labels \in 0..MaxClicks
    /\ astray \in BOOLEAN

(* The save button is busy exactly while a save is: from the click until   *)
(* the answer is shown, and whatever the label of an earlier save does     *)
(* meanwhile (on_save_config's guard against a second save relies on it).  *)
SavingIsShown == app.save = "saving" <=> \E u \in Slots : At(u, "save")

(* Nothing is under way, and there is a connection.                        *)
Quiet ==
    /\ startup.pc = "done" /\ poll.pc = "idle" /\ ~Waiting
    /\ st.client = "live"

(* When nothing is under way, UiState's copy of the configuration, which   *)
(* the next choice of an adapter sends as a whole, is the core's own,      *)
(* unless one of the mishaps the README lists has happened.                *)
CopyIsCores == Quiet /\ ~astray => st.cfg = core.cfg

(* The list box and the home page are at the core's adapter if the UI's    *)
(* list has it, and at none, never at another, if it has not.              *)
AdapterIsCores ==
    /\ app.entry = app.info
    /\ app.entry = IF Has(st.list, core.cfg.adapter) THEN core.cfg.adapter
                   ELSE NoAdapter

(* Under the same conditions the mode card and the adapter shown are those *)
(* the core has in force (apply_config_to_ui, refresh_adapters).           *)
PageShowsCore ==
    Quiet /\ ~astray => app.mode = core.cfg.mode /\ AdapterIsCores

(* Whatever was clicked and however often the core died: once the core is  *)
(* up and its status steady, that status is what the window shows.         *)
StatusConverges ==
    \A s \in Snapshot :
        <>[](core.up /\ StatusOf(core) = s)
            => <>[]([enabled |-> app.enabled, fallen |-> app.fallen] = s)

(* A restart of the core while the user is idle, after the start-up, sets  *)
(* the copy and the page right, whatever had parted them before (the       *)
(* poll's reconnection, apply_config_to_ui).                               *)
RestartRepairs ==
    /\ <>(~core.up /\ startup.pc = "done" /\ [](~Waiting))
    /\ <>[](core.up /\ st.client = "live")
    => <>[](st.cfg = core.cfg /\ app.mode = core.cfg.mode /\ AdapterIsCores)

(* The window warns of a service that has gone (the poll: "service_lost is *)
(* set when disconnected, the home page shows a clear warning").           *)
LossIsShown == <>[](~core.up) => <>[](app.lost)
=============================================================================
