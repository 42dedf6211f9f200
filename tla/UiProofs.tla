------------------------------ MODULE UiProofs -----------------------------
(***************************************************************************)
(* What is proved of the user interface, for any set of adapters, any      *)
(* number of tasks the user's clicks keep running, and any number of       *)
(* clicks, falls and deaths of the core.  TypeInv says where every task    *)
(* and section can be and what it holds there; SaveInv that a save in      *)
(* flight is alone; SyncInv, of a window that no mishap has parted from    *)
(* the core, what everything in flight agrees with.                        *)
(***************************************************************************)
EXTENDS Ui, TLAPS

Core == [up: BOOLEAN, cfg: Config, enabled: BOOLEAN, fallen: BOOLEAN]
Client == {"none", "live", "dead"}
State == [client: Client, cfg: Config, list: Lists \cup {<<>>}]
Window == [enabled: BOOLEAN, fallen: BOOLEAN, lost: BOOLEAN,
           mode: Mode, draft: Mode, gw: BOOLEAN,
           entry: Adapters \cup {NoAdapter}, info: Adapters \cup {NoAdapter},
           save: {"", "saving", "saved"}]
StartupTask == [pc: {"connect", "store", "done"}, client: Client,
                cfg: Config \cup {None}, list: Lists \cup {None}]
PollTask == [pc: {"idle", "told", "reconnect", "adopt", "retry", "check",
                  "relist", "report"},
             snap: Snapshot \cup {None}, cfg: Config \cup {None},
             list: Lists \cup {<<>>}]
UserTask == [pc: {"free", "who", "send", "keep", "list", "relist",
                  "save", "restore", "pick"},
             on: BOOLEAN, cfg: Config \cup {None},
             list: Lists \cup {<<>>}, idx: Nat]

(* Types, and what each place in a task has made certain: a task that will *)
(* send or show a configuration has one, the status the poll reports was   *)
(* answered, a client the start-up left alive came with a configuration.   *)
TypeInv ==
    /\ core \in Core /\ plugged \in Lists /\ st \in State /\ app \in Window
    /\ startup \in StartupTask /\ poll \in PollTask
    /\ task \in [Slots -> UserTask]
    /\ labels \in Nat /\ clicks \in Nat /\ clicks <= MaxClicks
    /\ astray \in BOOLEAN
    /\ startup.cfg = None =>
          /\ startup.list = None
          /\ startup.pc = "store" => startup.client = "dead"
    /\ startup.cfg # None => startup.pc = "store"
    /\ poll.pc \in {"check", "relist", "report"} => poll.snap # None
    /\ poll.pc = "relist" => poll.cfg # None
    /\ poll.cfg # None => poll.pc \in {"adopt", "relist"}
    /\ \A u \in Slots :
          /\ task[u].pc \notin {"free", "restore", "pick"}
                => task[u].cfg # None
          /\ task[u].pc = "free" => task[u] = Idle

(* The label is busy for the one save there is; each label that will be    *)
(* taken away, and that save, was a click.                                 *)
SaveInv ==
    /\ SavingIsShown
    /\ \A u, v \in Slots : At(u, "save") /\ At(v, "save") => u = v
    /\ labels + (IF app.save = "saving" THEN 1 ELSE 0) <= clicks

Synced == st.cfg = core.cfg
Alone == {"save", "restore", "pick"}

(* What a task of the user's holds while nothing has gone astray.          *)
TaskAgrees(t) ==
    /\ t.pc = "who" => t.cfg.mode = st.cfg.mode /\ t.cfg.gw = st.cfg.gw
    /\ t.pc \in {"send", "keep"} => t.cfg = st.cfg
    /\ t.pc \in {"keep", "relist"} => Synced
    /\ t.pc = "relist" => t.cfg.adapter = st.cfg.adapter
    /\ t.pc = "pick" =>
          t.idx \in DOMAIN st.list /\ st.list[t.idx] = app.entry

Picking == \E u \in Slots : At(u, "pick")

(* Sends that replace the configuration are alone; what the start-up or    *)
(* the poll are about to store is the core's configuration, and no task is *)
(* in between; a list or a live client means that the copy is the core's,  *)
(* but for a poll that has connected and not stored yet.  The page shows   *)
(* the copy: its adapter is looked up in the list, and while the user has  *)
(* another one picked, that entry is still where it was.                   *)
Agreed ==
    /\ \A u, v \in Slots : task[u].pc \in Alone /\ u # v => task[v] = Idle
    /\ startup.pc # "done" => ~Waiting
    /\ startup.cfg # None => startup.cfg = core.cfg
    /\ poll.cfg # None => ~Waiting /\ poll.cfg = core.cfg
    /\ poll.pc = "relist" => Synced
    /\ st.client = "live" => Synced \/ (poll.pc = "adopt" /\ ~Waiting)
    /\ st.list # <<>> => Synced
    /\ \A u \in Slots : TaskAgrees(task[u])
    /\ app.mode = st.cfg.mode
    /\ app.info = Found(st.list, st.cfg.adapter)
    /\ ~Picking => app.entry = Found(st.list, st.cfg.adapter)

SyncInv == ~astray => Agreed

-----------------------------------------------------------------------------
(* What the core answers: a request that succeeds leaves the configuration *)
(* it was about in force, and only one that carries a configuration can    *)
(* change it.                                                              *)
LEMMA AnswersAre ==
    ASSUME NEW k \in Core, NEW c \in Core, NEW a \in Answers(k, c)
    PROVE  a.ok \in BOOLEAN /\ a.core \in {k, c} /\ (a.ok => a.core = c)
<1>1. \/ a = [ok |-> TRUE, core |-> c]
      \/ a = [ok |-> FALSE, core |-> k]
      \/ a = [ok |-> FALSE, core |-> c]
  BY DEF Answers
<1>2. \/ a.ok = TRUE /\ a.core = c
      \/ a.ok = FALSE /\ a.core \in {k, c}
  BY <1>1
<1>. QED  BY <1>2

(* A disable changes nothing of the core's configuration.                  *)
LEMMA DisabledKeepsConfig ==
    ASSUME NEW k \in Core, NEW a \in Disabled(k)
    PROVE  a.ok \in BOOLEAN /\ a.core \in Core /\ a.core.cfg = k.cfg
<1>. DEFINE c == [k EXCEPT !.enabled = FALSE, !.fallen = FALSE]
<1>1. c \in Core /\ c.cfg = k.cfg
  BY DEF Core
<1>. HIDE DEF c
<1>2. a \in Answers(k, c)
  BY DEF Disabled, c
<1>. QED  BY <1>1, <1>2, AnswersAre

(* Nor does an enable.                                                     *)
LEMMA EnabledKeepsConfig ==
    ASSUME NEW k \in Core, NEW a \in Enabled(k)
    PROVE  a.ok \in BOOLEAN /\ a.core \in Core /\ a.core.cfg = k.cfg
<1>. DEFINE c == [k EXCEPT !.enabled = TRUE, !.fallen = @ /\ ~k.enabled]
<1>1. c \in Core /\ c.cfg = k.cfg
  BY DEF Core
<1>. HIDE DEF c
<1>2. \/ a = [ok |-> FALSE, core |-> k]
      \/ a \in Answers(k, c)
      \/ \E d \in Disabled(k) : a = [ok |-> FALSE, core |-> d.core]
  BY DEF Enabled, c
<1>3. CASE a = [ok |-> FALSE, core |-> k]
  BY <1>3 DEF Core
<1>4. CASE a \in Answers(k, c)
  BY <1>1, <1>4, AnswersAre
<1>5. ASSUME NEW d \in Disabled(k), a = [ok |-> FALSE, core |-> d.core]
      PROVE  a.ok \in BOOLEAN /\ a.core \in Core /\ a.core.cfg = k.cfg
  <2>1. d.core \in Core /\ d.core.cfg = k.cfg
    BY DisabledKeepsConfig
  <2>2. a.core = d.core /\ a.ok = FALSE
    BY <1>5
  <2>. QED  BY <2>1, <2>2
<1>. QED  BY <1>2, <1>3, <1>4, <1>5

(* An update that is answered Ok has taken the configuration sent.         *)
LEMMA UpdatedTakesConfig ==
    ASSUME NEW k \in Core, NEW c \in Config, NEW a \in Updated(k, c)
    PROVE  /\ a.ok \in BOOLEAN /\ a.core \in Core
           /\ a.ok => a.core.cfg = c
           /\ a.core.cfg \in {k.cfg, c}
<1>. DEFINE new == [k EXCEPT !.cfg = c]
<1>1. new \in Core /\ new.cfg = c
  BY DEF Core
<1>. HIDE DEF new
<1>2. \/ a = [ok |-> FALSE, core |-> k]
      \/ a \in Answers(k, new)
      \/ a \in Enabled(new)
  BY DEF Updated, new
<1>3. CASE a = [ok |-> FALSE, core |-> k]
  BY <1>3 DEF Core
<1>4. CASE a \in Answers(k, new)
  <2>1. a.ok \in BOOLEAN /\ a.core \in {k, new} /\ (a.ok => a.core = new)
    BY <1>1, <1>4, AnswersAre
  <2>. QED  BY <1>1, <2>1
<1>5. CASE a \in Enabled(new)
  <2>1. a.ok \in BOOLEAN /\ a.core \in Core /\ a.core.cfg = new.cfg
    BY <1>1, <1>5, EnabledKeepsConfig
  <2>. QED  BY <1>1, <2>1
<1>. QED  BY <1>2, <1>3, <1>4, <1>5

(* So has one that is followed by an enable.                               *)
LEMMA UpdatedEnabledTakesConfig ==
    ASSUME NEW k \in Core, NEW c \in Config, NEW a \in UpdatedEnabled(k, c)
    PROVE  /\ a.ok \in BOOLEAN /\ a.core \in Core
           /\ a.ok => a.core.cfg = c
<1>1. PICK b \in Updated(k, c) : a \in IF b.ok THEN Enabled(b.core) ELSE {b}
  BY DEF UpdatedEnabled
<1>2. b.ok \in BOOLEAN /\ b.core \in Core /\ (b.ok => b.core.cfg = c)
  BY UpdatedTakesConfig
<1>3. CASE b.ok
  <2>1. a \in Enabled(b.core)
    BY <1>1, <1>3
  <2>. QED  BY <2>1, <1>2, <1>3, EnabledKeepsConfig
<1>4. CASE ~b.ok
  <2>1. a = b
    BY <1>1, <1>4
  <2>. QED  BY <2>1, <1>2, <1>4
<1>. QED  BY <1>3, <1>4

(* The same of the answer a task gets: without a live client it is an      *)
(* error that changes nothing.                                             *)
LEMMA AnswerOrError ==
    ASSUME NEW results, NEW a \in Answer(results)
    PROVE  \/ st.client = "live" /\ a \in results
           \/ a = [ok |-> FALSE, core |-> core]
  BY DEF Answer

-----------------------------------------------------------------------------
(* An adapter that is looked up is found as itself or not at all.          *)
LEMMA FoundIsTyped ==
    ASSUME NEW list, NEW a \in Adapters \cup {NoAdapter}
    PROVE  Found(list, a) \in Adapters \cup {NoAdapter}
  BY DEF Found

(* An entry of a list is found in it.                                      *)
LEMMA EntriesAreFound ==
    ASSUME NEW list \in Lists \cup {<<>>}, NEW i \in DOMAIN list
    PROVE  /\ list[i] \in Adapters /\ i \in Nat
           /\ Found(list, list[i]) = list[i]
<1>1. list \in Seq(Adapters)
  BY UiAssumption
<1>2. list[i] \in Adapters /\ i \in Nat
  BY <1>1
<1>. QED  BY <1>2 DEF Found, Has

(* In an empty list nothing is found.                                      *)
LEMMA NothingIsFound ==
    ASSUME NEW a PROVE Found(<<>>, a) = NoAdapter
  BY DEF Found, Has

(* Showing an adapter of a list leaves a window.                           *)
LEMMA ListIsWindow ==
    ASSUME NEW w \in Window, NEW list, NEW a \in Adapters \cup {NoAdapter}
    PROVE  InfoShown(w, list, a) \in Window /\ ListShown(w, list, a) \in Window
<1>1. Found(list, a) \in Adapters \cup {NoAdapter}
  BY FoundIsTyped
<1>. QED  BY <1>1 DEF Window, InfoShown, ListShown

(* So does showing a configuration.                                        *)
LEMMA ConfigIsWindow ==
    ASSUME NEW w \in Window, NEW c \in Config, NEW list
    PROVE  ConfigShown(w, c) \in Window /\ AdoptedShown(w, list, c) \in Window
<1>1. ConfigShown(w, c) \in Window /\ c.adapter \in Adapters \cup {NoAdapter}
  BY DEF Window, Config, ConfigShown
<1>. QED  BY <1>1, ListIsWindow DEF AdoptedShown

(* What a configuration changes of the mode, the adapters and the label.   *)
LEMMA ConfigFields ==
    ASSUME NEW w \in Window, NEW c
    PROVE  /\ ConfigShown(w, c).mode = c.mode
           /\ ConfigShown(w, c).entry = w.entry
           /\ ConfigShown(w, c).info = w.info
           /\ ConfigShown(w, c).save = w.save
  BY DEF ConfigShown, Window

(* What an adapter of a list changes.                                      *)
LEMMA ListFields ==
    ASSUME NEW w \in Window, NEW list, NEW a
    PROVE  /\ InfoShown(w, list, a).mode = w.mode
           /\ InfoShown(w, list, a).entry = w.entry
           /\ InfoShown(w, list, a).info = Found(list, a)
           /\ InfoShown(w, list, a).save = w.save
           /\ ListShown(w, list, a).mode = w.mode
           /\ ListShown(w, list, a).entry = Found(list, a)
           /\ ListShown(w, list, a).info = Found(list, a)
           /\ ListShown(w, list, a).save = w.save
  BY DEF InfoShown, ListShown, Window

(* What the two together change.                                           *)
LEMMA AdoptedFields ==
    ASSUME NEW w \in Window, NEW c, NEW list
    PROVE  /\ AdoptedShown(w, list, c).mode = c.mode
           /\ AdoptedShown(w, list, c).entry = Found(list, c.adapter)
           /\ AdoptedShown(w, list, c).info = Found(list, c.adapter)
           /\ AdoptedShown(w, list, c).save = w.save
  BY DEF AdoptedShown, ListShown, ConfigShown, Window

(* The types of what the tasks start from.                                 *)
LEMMA ConfigIsTyped ==
    /\ Default \in Config
    /\ \A c \in Config, a \in Adapters \cup {NoAdapter} :
          [c EXCEPT !.adapter = a] \in Config
    /\ \A c \in Config : c # None
    /\ \A k \in Core : StatusOf(k) \in Snapshot /\ StatusOf(k) # None
  BY StoredAssumption DEF Default, Config, Mode, Core, Snapshot, StatusOf

(* What the page shows makes a configuration.                              *)
LEMMA FormIsConfig ==
    ASSUME app \in Window PROVE Form \in Config
  BY DEF Form, Window, Config

(* How a task of the user's can change in the table of tasks.              *)
LEMMA TasksTyped ==
    ASSUME task \in [Slots -> UserTask], NEW u \in Slots
    PROVE  /\ Idle \in UserTask /\ Idle.pc = "free"
           /\ \A t \in UserTask :
                 /\ [task EXCEPT ![u] = t] \in [Slots -> UserTask]
                 /\ [task EXCEPT ![u] = t][u] = t
           /\ \A t \in UserTask, v \in Slots \ {u} :
                 [task EXCEPT ![u] = t][v] = task[v]
<1>1. Idle \in UserTask /\ Idle.pc = "free"
  BY DEF Idle, UserTask
<1>2. ASSUME NEW t \in UserTask
      PROVE  /\ [task EXCEPT ![u] = t] \in [Slots -> UserTask]
             /\ [task EXCEPT ![u] = t][u] = t
             /\ \A v \in Slots \ {u} : [task EXCEPT ![u] = t][v] = task[v]
  OBVIOUS
<1>. QED  BY <1>1, <1>2

(* The program starts with its types.                                      *)
LEMMA InitTyped == Init => TypeInv
<1>. SUFFICES ASSUME Init PROVE TypeInv
  OBVIOUS
<1>1. core \in Core
  <2>1. PICK cfg \in Stored, e \in BOOLEAN :
           core = [up |-> TRUE, cfg |-> cfg, enabled |-> e, fallen |-> FALSE]
    BY DEF Init
  <2>2. cfg \in Config
    BY StoredAssumption
  <2>. QED  BY <2>1, <2>2 DEF Core
<1>2. st \in State /\ plugged \in Lists
  BY ConfigIsTyped, UiAssumption DEF Init, State, Client
<1>3. app \in Window
  BY DEF Init, Window, Mode
<1>4. /\ startup \in StartupTask /\ startup.cfg = None /\ startup.pc # "store"
      /\ startup.list = None
  BY DEF Init, Started, StartupTask, Client
<1>5. poll \in PollTask /\ poll.pc = "idle" /\ poll.cfg = None
  BY DEF Init, Resting, PollTask
<1>6. task \in [Slots -> UserTask] /\ \A u \in Slots : task[u] = Idle
  BY DEF Init, Idle, UserTask
<1>7. Idle.pc = "free"
  BY DEF Idle
<1>8. labels \in Nat /\ clicks \in Nat /\ clicks <= MaxClicks
  <2>1. labels = 0 /\ clicks = 0
    BY DEF Init
  <2>. QED  BY <2>1, UiAssumption
<1>9. astray \in BOOLEAN
  BY DEF Init
<1>. QED  BY <1>1, <1>2, <1>3, <1>4, <1>5, <1>6, <1>7, <1>8, <1>9
       DEF TypeInv

-----------------------------------------------------------------------------
(* Types: the core on its own, and the user's clicks.                      *)
LEMMA CoreKeepsTypes == TypeInv /\ CoreStep => TypeInv'
<1>. SUFFICES ASSUME TypeInv, CoreStep PROVE TypeInv'
  OBVIOUS
<1>1. CASE FallsBack \/ Recovers \/ Restarts
  <2>1. /\ core' \in Core
        /\ UNCHANGED <<plugged, st, app, startup, poll, task, labels, clicks,
                       astray>>
    BY <1>1 DEF FallsBack, Recovers, Restarts, CoreChanges, TypeInv, Core
  <2>. QED  BY <2>1 DEF TypeInv
<1>2. CASE Dies
  <2>1. UNCHANGED <<plugged, app, poll, task, labels, clicks, astray>>
    BY <1>2 DEF Dies
  <2>2. core' \in Core
    BY <1>2 DEF Dies, TypeInv, Core
  <2>3. st' \in State
    BY <1>2 DEF Dies, Cut, TypeInv, State, Client
  <2>4. /\ startup' \in StartupTask /\ startup'.pc = startup.pc
        /\ startup'.cfg = startup.cfg /\ startup'.list = startup.list
        /\ startup.client = "dead" => startup'.client = "dead"
    BY <1>2 DEF Dies, Cut, TypeInv, StartupTask, Client
  <2>. QED  BY <2>1, <2>2, <2>3, <2>4 DEF TypeInv
<1>3. CASE Replugs
  BY <1>3 DEF Replugs, TypeInv
<1>. QED  BY <1>1, <1>2, <1>3 DEF CoreStep

(* A click that takes the free place u for a task with a configuration, or *)
(* for one that needs none.                                                *)
LEMMA ClickKeepsTypes ==
    ASSUME TypeInv, NEW u \in Slots, NEW t \in UserTask,
           t.pc # "free", t.pc \notin {"restore", "pick"} => t.cfg # None,
           task' = [task EXCEPT ![u] = t], clicks < MaxClicks,
           clicks' = clicks + 1, astray' \in BOOLEAN, app' \in Window,
           UNCHANGED <<core, plugged, st, startup, poll, labels>>
    PROVE  TypeInv'
<1>1. task \in [Slots -> UserTask]
  BY DEF TypeInv
<1>2. /\ task' \in [Slots -> UserTask] /\ task'[u] = t
      /\ \A v \in Slots \ {u} : task'[v] = task[v]
  BY <1>1, TasksTyped
<1>3. clicks' \in Nat /\ clicks' <= MaxClicks
  BY UiAssumption DEF TypeInv
<1>4. \A v \in Slots :
          /\ task'[v].pc \notin {"free", "restore", "pick"}
                => task'[v].cfg # None
          /\ task'[v].pc = "free" => task'[v] = Idle
  BY <1>2 DEF TypeInv
<1>. QED  BY <1>2, <1>3, <1>4 DEF TypeInv

(* A click keeps them.                                                     *)
LEMMA UserKeepsTypes ==
    ASSUME TypeInv, NEW u \in Slots, UserStep(u) PROVE TypeInv'
<1>. DEFINE Idling(p, c) == [Idle EXCEPT !.pc = p, !.cfg = c]
<1>1. /\ app \in Window /\ Form \in Config /\ Default \in Config
      /\ \A c \in Config : c # None
  BY FormIsConfig, ConfigIsTyped DEF TypeInv
<1>2. ASSUME NEW p \in {"save", "list"}, NEW c \in Config
      PROVE  Idling(p, c) \in UserTask /\ Idling(p, c).pc = p
             /\ Idling(p, c).cfg # None
  BY <1>1 DEF Idle, UserTask
<1>3. ASSUME NEW kinds, Mishap(kinds) PROVE astray' \in BOOLEAN
  BY <1>3 DEF Mishap
<1>4. CASE ToggleClicked(u)
  <2>. DEFINE t == [Idle EXCEPT !.pc = "who", !.on = ~app.enabled,
                                !.cfg = Form]
  <2>1. t \in UserTask /\ t.pc = "who" /\ t.cfg # None
    BY <1>1 DEF Idle, UserTask, Window
  <2>. HIDE DEF t
  <2>2. /\ task' = [task EXCEPT ![u] = t] /\ clicks < MaxClicks
        /\ clicks' = clicks + 1 /\ astray' \in BOOLEAN /\ app' \in Window
        /\ UNCHANGED <<core, plugged, st, startup, poll, labels>>
    BY <1>1, <1>3, <1>4 DEF ToggleClicked, t
  <2>. QED  BY <2>1, <2>2, ClickKeepsTypes
<1>5. ASSUME NEW t \in UserTask, NEW b, Click(u, t, b), app' \in Window,
             t.pc # "free", t.pc \notin {"restore", "pick"} => t.cfg # None
      PROVE  TypeInv'
  <2>1. /\ task' = [task EXCEPT ![u] = t] /\ clicks < MaxClicks
        /\ clicks' = clicks + 1 /\ astray' \in BOOLEAN
        /\ UNCHANGED <<core, plugged, st, startup, poll, labels>>
    BY <1>3, <1>5 DEF Click
  <2>. QED  BY <1>5, <2>1, ClickKeepsTypes
<1>6. CASE SaveClicked(u)
  <2>1. app' \in Window /\ Click(u, Idling("save", Form), InFlight \/ Waiting)
    BY <1>1, <1>6 DEF SaveClicked, Window
  <2>2. /\ Idling("save", Form) \in UserTask
        /\ Idling("save", Form).pc = "save" /\ Idling("save", Form).cfg # None
    BY <1>1, <1>2
  <2>. HIDE DEF Idling
  <2>. QED  BY <2>1, <2>2, <1>5
<1>7. CASE RestoreClicked(u)
  <2>. DEFINE t == [Idle EXCEPT !.pc = "restore"]
  <2>1. t \in UserTask /\ t.pc = "restore"
    BY DEF Idle, UserTask
  <2>2. app' \in Window /\ Click(u, t, InFlight \/ Waiting)
    BY <1>1, <1>7 DEF RestoreClicked
  <2>. HIDE DEF t
  <2>. QED  BY <2>1, <2>2, <1>5
<1>8. CASE AdapterPicked(u)
  <2>1. PICK i \in DOMAIN st.list :
           /\ app' = [app EXCEPT !.entry = st.list[i]]
           /\ Click(u, [Idle EXCEPT !.pc = "pick", !.idx = i],
                    InFlight \/ Waiting)
    BY <1>8 DEF AdapterPicked
  <2>. DEFINE t == [Idle EXCEPT !.pc = "pick", !.idx = i]
  <2>2. st.list \in Lists \cup {<<>>}
    BY DEF TypeInv, State
  <2>3. st.list[i] \in Adapters /\ i \in Nat
    BY <2>2, EntriesAreFound
  <2>4. app' \in Window
    BY <1>1, <2>1, <2>3 DEF Window
  <2>5. t \in UserTask /\ t.pc = "pick"
    BY <2>3 DEF Idle, UserTask
  <2>6. Click(u, t, InFlight \/ Waiting)
    BY <2>1
  <2>. HIDE DEF t
  <2>. QED  BY <2>4, <2>5, <2>6, <1>5
<1>9. CASE RefreshClicked(u)
  <2>1. /\ app' \in Window
        /\ Click(u, Idling("list", Default), InFlight \/ Waiting)
    BY <1>1, <1>9 DEF RefreshClicked
  <2>2. /\ Idling("list", Default) \in UserTask
        /\ Idling("list", Default).pc \notin {"free", "pick"}
        /\ Idling("list", Default).cfg # None
    BY <1>1, <1>2
  <2>. HIDE DEF Idling
  <2>. QED  BY <2>1, <2>2, <1>5
<1>. QED  BY <1>4, <1>6, <1>7, <1>8, <1>9 DEF UserStep

(* The tasks' part of TypeInv, when the task in place u moves on to t.     *)
LEMMA MoveKeepsTasks ==
    ASSUME TypeInv, NEW u \in Slots, NEW t \in UserTask,
           t.pc = "free" => t = Idle,
           t.pc \notin {"free", "restore", "pick"} => t.cfg # None,
           task' = [task EXCEPT ![u] = t]
    PROVE  /\ task' \in [Slots -> UserTask]
           /\ \A v \in Slots :
                 /\ task'[v].pc \notin {"free", "restore", "pick"}
                       => task'[v].cfg # None
                 /\ task'[v].pc = "free" => task'[v] = Idle
<1>1. task \in [Slots -> UserTask]
  BY DEF TypeInv
<1>2. /\ task' \in [Slots -> UserTask] /\ task'[u] = t
      /\ \A v \in Slots \ {u} : task'[v] = task[v]
  BY <1>1, TasksTyped
<1>. QED  BY <1>2 DEF TypeInv

(* A step of a task's: what it leaves of TypeInv to be shown.              *)
LEMMA TaskMoveKeepsTypes ==
    ASSUME TypeInv, NEW u \in Slots, NEW t \in UserTask,
           t.pc = "free" => t = Idle,
           t.pc \notin {"free", "restore", "pick"} => t.cfg # None,
           task' = [task EXCEPT ![u] = t],
           core' \in Core, st' \in State, app' \in Window,
           labels' \in Nat, astray' \in BOOLEAN,
           UNCHANGED <<plugged, startup, poll, bounds>>
    PROVE  TypeInv'
<1>1. /\ task' \in [Slots -> UserTask]
      /\ \A v \in Slots :
            /\ task'[v].pc \notin {"free", "restore", "pick"}
                  => task'[v].cfg # None
            /\ task'[v].pc = "free" => task'[v] = Idle
  BY MoveKeepsTasks
<1>. QED  BY <1>1 DEF TypeInv, bounds

(* A step of a task a click has started keeps them.                        *)
LEMMA TasksKeepTypes ==
    ASSUME TypeInv, NEW u \in Slots, TaskStep(u) PROVE TypeInv'
<1>. DEFINE k == task[u]
            Sent(c) == [c EXCEPT !.adapter = st.cfg.adapter]
<1>1. /\ task \in [Slots -> UserTask] /\ k \in UserTask
      /\ k.pc \notin {"free", "restore", "pick"} => k.cfg \in Config
      /\ core \in Core /\ plugged \in Lists /\ st \in State /\ app \in Window
      /\ labels \in Nat /\ astray \in BOOLEAN
      /\ st.cfg \in Config /\ st.cfg.adapter \in Adapters \cup {NoAdapter}
  BY DEF TypeInv, UserTask, State, Config
<1>2. Idle \in UserTask /\ Idle.pc = "free"
  BY <1>1, TasksTyped
<1>3. ASSUME NEW kinds, Mishap(kinds) PROVE astray' \in BOOLEAN
  BY <1>3 DEF Mishap
<1>4. \A c \in Config : Sent(c) \in Config /\ c # None
  BY <1>1, ConfigIsTyped
<1>5. ASSUME Done(u), core' \in Core, st' \in State, app' \in Window,
             labels' \in Nat, astray' \in BOOLEAN,
             UNCHANGED <<plugged, startup, poll, bounds>>
      PROVE  TypeInv'
  BY <1>2, <1>5, TaskMoveKeepsTypes DEF Done
<1>6. ASSUME NEW p \in {"keep", "list"}, Goto(u, p), k.cfg \in Config,
             core' \in Core, st' \in State, astray' \in BOOLEAN,
             UNCHANGED <<app, Rest>>
      PROVE  TypeInv'
  <2>. DEFINE t == [k EXCEPT !.pc = p]
  <2>1. t \in UserTask /\ t.pc = p /\ t.cfg = k.cfg
    BY <1>1 DEF UserTask
  <2>2. task' = [task EXCEPT ![u] = t]
    BY <1>6 DEF Goto
  <2>. HIDE DEF t
  <2>3. t.cfg # None
    BY <1>4, <1>6, <2>1
  <2>. QED  BY <1>1, <1>6, <2>1, <2>2, <2>3, TaskMoveKeepsTypes DEF Rest
<1>7. ASSUME NEW p \in {"send", "relist"}, NEW list \in Lists \cup {<<>>},
             k.cfg \in Config,
             task' = [task EXCEPT ![u] = [k EXCEPT !.pc = p, !.list = list,
                                                   !.cfg = Sent(k.cfg)]],
             UNCHANGED <<core, st, app, astray, Rest>>
      PROVE  TypeInv'
  <2>. DEFINE t == [k EXCEPT !.pc = p, !.list = list, !.cfg = Sent(k.cfg)]
  <2>1. /\ t \in UserTask /\ t.pc = p /\ t.cfg = Sent(k.cfg)
        /\ t.cfg # None
    BY <1>1, <1>4, <1>7 DEF UserTask
  <2>2. task' = [task EXCEPT ![u] = t]
    BY <1>7
  <2>. HIDE DEF t
  <2>3. /\ core' \in Core /\ st' \in State /\ app' \in Window
        /\ labels' \in Nat /\ astray' \in BOOLEAN
        /\ UNCHANGED <<plugged, startup, poll, bounds>>
    BY <1>1, <1>7 DEF Rest
  <2>. QED  BY <1>7, <2>1, <2>2, <2>3, TaskMoveKeepsTypes
<1>8. CASE ToggleReads(u)
  <2>1. k.cfg \in Config /\ k.list \in Lists \cup {<<>>}
    BY <1>1, <1>8 DEF ToggleReads, At, UserTask
  <2>2. task' = [task EXCEPT ![u] = [k EXCEPT !.pc = "send",
                                       !.list = k.list, !.cfg = Sent(k.cfg)]]
    BY <1>1, <1>8 DEF ToggleReads, UserTask
  <2>. QED  BY <1>7, <1>8, <2>1, <2>2 DEF ToggleReads
<1>9. CASE ToggleSends(u)
  <2>1. k.cfg \in Config
    BY <1>1, <1>9 DEF ToggleSends, At
  <2>2. PICK a \in Answer(IF k.on THEN UpdatedEnabled(core, k.cfg)
                          ELSE Disabled(core)) :
           /\ core' = a.core /\ Mishap(Bad(a, FALSE))
           /\ IF a.ok THEN Goto(u, "keep") ELSE Done(u)
    BY <1>9 DEF ToggleSends
  <2>3. a.core \in Core
    BY <1>1, <2>1, AnswerOrError, UpdatedEnabledTakesConfig,
       DisabledKeepsConfig
  <2>4. UNCHANGED <<st, app, Rest>>
    BY <1>9 DEF ToggleSends
  <2>5. CASE Goto(u, "keep")
    BY <1>1, <1>3, <1>6, <2>1, <2>2, <2>3, <2>4, <2>5
  <2>6. CASE Done(u)
    BY <1>1, <1>3, <1>5, <2>2, <2>3, <2>4, <2>6 DEF Rest
  <2>. QED  BY <2>2, <2>5, <2>6
<1>10. CASE ToggleKeeps(u)
  <2>1. k.cfg \in Config
    BY <1>1, <1>10 DEF ToggleKeeps, At
  <2>2. st' \in State
    BY <1>1, <1>10, <2>1 DEF ToggleKeeps, Copied, State
  <2>. QED  BY <1>1, <1>6, <1>10, <2>1, <2>2 DEF ToggleKeeps
<1>11. CASE RefreshAsks(u)
  <2>1. k.cfg \in Config
    BY <1>1, <1>11 DEF RefreshAsks, At
  <2>2. CASE Done(u)
    BY <1>1, <1>5, <1>11, <2>2 DEF RefreshAsks, Rest
  <2>3. CASE ~Done(u)
    <3>1. task' = [task EXCEPT ![u] = [k EXCEPT !.pc = "relist",
                                       !.list = plugged, !.cfg = Sent(k.cfg)]]
      BY <1>1, <1>11, <2>3 DEF RefreshAsks, UserTask
    <3>2. plugged \in Lists \cup {<<>>}
      BY <1>1
    <3>3. UNCHANGED <<core, st, app, astray, Rest>>
      BY <1>11 DEF RefreshAsks
    <3>. QED  BY <1>7, <2>1, <3>1, <3>2, <3>3
  <2>. QED  BY <2>2, <2>3
<1>12. CASE RefreshShows(u)
  <2>1. /\ k.cfg \in Config /\ k.list \in Lists \cup {<<>>}
        /\ k.cfg.adapter \in Adapters \cup {NoAdapter}
    BY <1>1, <1>12 DEF RefreshShows, At, UserTask, Config
  <2>2. st' \in State
    BY <1>1, <1>12, <2>1 DEF RefreshShows, State
  <2>3. app' \in Window
    BY <1>1, <1>12, <2>1, ListIsWindow DEF RefreshShows
  <2>. QED  BY <1>1, <1>5, <1>12, <2>2, <2>3 DEF RefreshShows, Rest
<1>13. ASSUME NEW c \in Config, NEW a \in Answer(Updated(core, c))
       PROVE  a.core \in Core
  BY <1>1, <1>13, AnswerOrError, UpdatedTakesConfig
<1>14. CASE SaveSends(u)
  <2>. DEFINE cfg == Sent(k.cfg)
  <2>1. cfg \in Config
    BY <1>1, <1>4, <1>14 DEF SaveSends, At
  <2>2. PICK a \in Answer(Updated(core, cfg)) :
           /\ core' = a.core /\ Mishap(Bad(a, FALSE))
           /\ \/ /\ a.ok
                 /\ st' = Copied(cfg)
                 /\ app' = SavedShown(app, cfg)
                 /\ labels' = labels + 1
              \/ /\ ~a.ok
                 /\ app' = FailureShown(app)
                 /\ UNCHANGED <<st, labels>>
    BY <1>14 DEF SaveSends
  <2>. HIDE DEF cfg
  <2>3. core' \in Core /\ astray' \in BOOLEAN
    BY <1>3, <1>13, <2>1, <2>2
  <2>4. st' \in State /\ labels' \in Nat
    BY <1>1, <2>1, <2>2 DEF Copied, State
  <2>5. app' \in Window
    BY <1>1, <2>1, <2>2 DEF SavedShown, FailureShown, Window, Config
  <2>. QED  BY <1>5, <1>14, <2>3, <2>4, <2>5 DEF SaveSends
<1>15. CASE RestoreSends(u)
  <2>. DEFINE cfg == Sent(Default)
  <2>1. cfg \in Config
    BY <1>4, ConfigIsTyped
  <2>2. PICK a \in Answer(Updated(core, cfg)) :
           /\ core' = a.core /\ Mishap(Bad(a, FALSE))
           /\ \/ /\ a.ok
                 /\ st' = Copied(cfg) /\ app' = ConfigShown(app, cfg)
              \/ ~a.ok /\ UNCHANGED <<st, app>>
    BY <1>15 DEF RestoreSends
  <2>. HIDE DEF cfg
  <2>3. core' \in Core /\ astray' \in BOOLEAN
    BY <1>3, <1>13, <2>1, <2>2
  <2>4. st' \in State
    BY <1>1, <2>1, <2>2 DEF Copied, State
  <2>5. app' \in Window
    BY <1>1, <2>1, <2>2 DEF ConfigShown, Window, Config
  <2>. QED  BY <1>1, <1>5, <1>15, <2>3, <2>4, <2>5 DEF RestoreSends, Rest
<1>16. CASE PickSends(u)
  <2>1. CASE k.idx \notin DOMAIN st.list
    BY <1>1, <1>5, <1>16, <2>1 DEF PickSends, Rest
  <2>2. CASE k.idx \in DOMAIN st.list
    <3>. DEFINE a == st.list[k.idx]
                cfg == [st.cfg EXCEPT !.adapter = a]
    <3>1. st.list \in Lists \cup {<<>>}
      BY <1>1 DEF State
    <3>2. a \in Adapters
      BY <2>2, <3>1, EntriesAreFound
    <3>3. cfg \in Config
      BY <1>1, <3>2, ConfigIsTyped
    <3>4. PICK r \in Answer(Updated(core, cfg)) :
             /\ core' = r.core /\ Mishap(Bad(r, TRUE))
             /\ app' = IF r.ok THEN InfoShown(app, st.list, a) ELSE app
      BY <1>16, <2>2 DEF PickSends
    <3>5. st' = [st EXCEPT !.cfg = cfg]
      BY <1>16, <2>2 DEF PickSends
    <3>. HIDE DEF a, cfg
    <3>6. core' \in Core /\ astray' \in BOOLEAN
      BY <1>3, <1>13, <3>3, <3>4
    <3>7. st' \in State
      BY <1>1, <3>3, <3>5 DEF State
    <3>8. app' \in Window
      BY <1>1, <3>2, <3>4, ListIsWindow
    <3>. QED  BY <1>1, <1>5, <1>16, <3>6, <3>7, <3>8 DEF PickSends, Rest
  <2>. QED  BY <2>1, <2>2
<1>. QED  BY <1>8, <1>9, <1>10, <1>11, <1>12, <1>14, <1>15, <1>16
          DEF TaskStep

(* A choice on the page and a forgotten label keep them.                   *)
LEMMA WindowKeepsTypes ==
    TypeInv /\ (DraftChosen \/ LabelForgotten) => TypeInv'
<1>. SUFFICES ASSUME TypeInv, DraftChosen \/ LabelForgotten PROVE TypeInv'
  OBVIOUS
<1>1. app' \in Window
  BY DEF TypeInv, DraftChosen, LabelForgotten, LabelCleared, Window
<1>2. clicks' \in Nat /\ clicks' <= MaxClicks /\ labels' \in Nat
  BY UiAssumption DEF TypeInv, DraftChosen, LabelForgotten, bounds
<1>3. UNCHANGED <<core, plugged, st, startup, poll, task, astray>>
  BY DEF DraftChosen, LabelForgotten
<1>. QED  BY <1>1, <1>2, <1>3 DEF TypeInv

(* The start-up task keeps them.                                           *)
LEMMA StartupKeepsTypes ==
    TypeInv /\ (StartupConnects \/ StartupCut \/ StartupStores) => TypeInv'
<1>. SUFFICES ASSUME TypeInv, StartupConnects \/ StartupCut \/ StartupStores
              PROVE  TypeInv'
  OBVIOUS
<1>1. /\ core \in Core /\ core.cfg \in Config /\ core.cfg # None
      /\ plugged \in Lists
      /\ st \in State /\ app \in Window /\ startup \in StartupTask
  BY ConfigIsTyped DEF TypeInv, Core
<1>2. Started \in StartupTask /\ Started.pc = "done" /\ Started.cfg = None
      /\ Started.list = None
  BY DEF Started, StartupTask, Client
<1>3. CASE StartupConnects
  <2>1. UNCHANGED <<core, plugged, st, app, poll, task, labels, bounds, astray>>
    BY <1>3 DEF StartupConnects
  <2>2. CASE startup' = Started
    BY <1>2, <2>1, <2>2 DEF TypeInv, bounds
  <2>3. ASSUME NEW list \in {plugged, None},
               startup' = [pc |-> "store", client |-> "live",
                           cfg |-> core.cfg, list |-> list]
        PROVE  TypeInv'
    <3>1. startup' \in StartupTask /\ startup'.cfg # None
          /\ startup'.pc = "store"
      BY <1>1, <2>3 DEF StartupTask, Client
    <3>. QED  BY <2>1, <3>1 DEF TypeInv, bounds
  <2>. QED  BY <1>3, <2>2, <2>3 DEF StartupConnects
<1>4. CASE StartupCut
  <2>1. UNCHANGED <<plugged, app, poll, task, labels, clicks, astray>>
    BY <1>4 DEF StartupCut
  <2>2. core' \in Core /\ st' \in State
    BY <1>1, <1>4 DEF StartupCut, Cut, Core, State, Client
  <2>3. /\ startup' \in StartupTask /\ startup'.cfg = None
        /\ startup'.client = "dead" /\ startup'.list = None
    BY <1>4 DEF StartupCut, Started, StartupTask, Client
  <2>. QED  BY <2>1, <2>2, <2>3 DEF TypeInv
<1>5. CASE StartupStores
  <2>. DEFINE cfg == IF startup.cfg = None THEN st.cfg ELSE startup.cfg
              list == IF startup.list = None THEN st.list ELSE startup.list
              shown == IF startup.cfg = None THEN app
                       ELSE ConfigShown(app, cfg)
  <2>1. UNCHANGED <<core, plugged, poll, task, labels, bounds>>
        /\ startup' = Started /\ astray' \in BOOLEAN
    BY <1>5 DEF StartupStores, Mishap
  <2>2. /\ st' = [client |-> startup.client, cfg |-> cfg, list |-> list]
        /\ app' = IF startup.list = None
                  THEN InfoShown(shown, <<>>, cfg.adapter)
                  ELSE ListShown(shown, list, cfg.adapter)
    BY <1>5 DEF StartupStores
  <2>3. cfg \in Config /\ list \in Lists \cup {<<>>}
    BY <1>1 DEF State, StartupTask
  <2>4. cfg.adapter \in Adapters \cup {NoAdapter}
    BY <2>3 DEF Config
  <2>5. shown \in Window
    BY <1>1, <2>3, ConfigIsWindow
  <2>. HIDE DEF cfg, list, shown
  <2>6. st' \in State
    BY <1>1, <2>2, <2>3 DEF State, StartupTask
  <2>7. /\ InfoShown(shown, <<>>, cfg.adapter) \in Window
        /\ ListShown(shown, list, cfg.adapter) \in Window
    BY <2>4, <2>5, ListIsWindow
  <2>. QED  BY <1>2, <2>1, <2>2, <2>6, <2>7 DEF TypeInv, bounds
<1>. QED  BY <1>3, <1>4, <1>5

(* The status poll keeps them.                                             *)
LEMMA PollKeepsTypes == TypeInv /\ PollStep => TypeInv'
<1>. SUFFICES ASSUME TypeInv, PollStep PROVE TypeInv'
  OBVIOUS
<1>1. /\ plugged \in Lists /\ core \in Core
      /\ core.cfg \in Config /\ core.cfg # None
      /\ st \in State /\ st.cfg \in Config /\ st.cfg # None
      /\ app \in Window /\ poll \in PollTask /\ startup \in StartupTask
      /\ StatusOf(core) \in Snapshot /\ StatusOf(core) # None
  BY ConfigIsTyped DEF TypeInv, Core, State
<1>2. /\ Resting \in PollTask /\ Resting.pc = "idle"
      /\ Resting.cfg = None /\ Resting.snap = None /\ Resting.list = <<>>
  BY DEF Resting, PollTask
<1>3. ASSUME NEW kinds, Mishap(kinds) PROVE astray' \in BOOLEAN
  BY <1>3 DEF Mishap
<1>4. ASSUME poll' \in PollTask, st' \in State, app' \in Window,
             astray' \in BOOLEAN, UNCHANGED Polled,
             poll'.pc \in {"check", "relist", "report"} => poll'.snap # None,
             poll'.pc = "relist" => poll'.cfg # None,
             poll'.cfg # None => poll'.pc \in {"adopt", "relist"}
      PROVE  TypeInv'
  BY <1>4 DEF TypeInv, Polled, bounds
<1>5. astray \in BOOLEAN
  BY DEF TypeInv
<1>6. CASE PollStatus
  <2>. DEFINE snap == IF st.client = "live" THEN StatusOf(core) ELSE None
  <2>1. /\ poll' = [Resting EXCEPT !.pc = "told", !.snap = snap]
        /\ UNCHANGED <<st, app, astray>> /\ UNCHANGED Polled
    BY <1>6 DEF PollStatus
  <2>2. snap \in Snapshot \cup {None}
    BY <1>1
  <2>. HIDE DEF snap
  <2>3. poll' \in PollTask /\ poll'.cfg = None /\ poll'.pc = "told"
    BY <2>1, <2>2 DEF Resting, PollTask
  <2>. QED  BY <1>1, <1>4, <1>5, <2>1, <2>3
<1>15. CASE PollTells
  <2>1. /\ poll' = [poll EXCEPT
              !.pc = IF poll.snap = None THEN "reconnect" ELSE "check"]
        /\ app' = [app EXCEPT !.lost = st.client = "none"]
        /\ UNCHANGED <<st, astray>> /\ UNCHANGED Polled
    BY <1>15 DEF PollTells
  <2>2. poll.cfg = None
    BY <1>15 DEF PollTells, PollAt, TypeInv
  <2>3. /\ poll' \in PollTask /\ poll'.cfg = None
        /\ poll'.pc \in {"check", "reconnect"}
        /\ poll'.pc = "check" => poll'.snap # None
    BY <1>1, <2>1, <2>2 DEF PollTask
  <2>4. app' \in Window
    BY <1>1, <2>1 DEF Window
  <2>. QED  BY <1>1, <1>4, <1>5, <2>1, <2>3, <2>4
<1>7. CASE PollReconnectFails
  BY <1>1, <1>2, <1>4, <1>5, <1>7 DEF PollReconnectFails
<1>8. CASE PollReconnects
  <2>1. PICK all \in BOOLEAN :
           poll' = [pc |-> "adopt", snap |-> StatusOf(core),
                    cfg |-> IF all THEN core.cfg ELSE None,
                    list |-> IF all THEN plugged ELSE <<>>]
    BY <1>8 DEF PollReconnects
  <2>2. poll' \in PollTask /\ poll'.pc = "adopt"
    BY <1>1, <2>1 DEF PollTask
  <2>3. st' \in State
    BY <1>1, <1>8 DEF PollReconnects, State, Client
  <2>4. UNCHANGED <<app, Polled>> /\ astray' \in BOOLEAN
    BY <1>3, <1>8 DEF PollReconnects
  <2>. QED  BY <1>1, <1>4, <2>2, <2>3, <2>4
<1>9. CASE PollReconnectCut
  <2>1. UNCHANGED <<plugged, app, task, labels, clicks, astray>>
    BY <1>9 DEF PollReconnectCut
  <2>2. core' \in Core /\ st' \in State
    BY <1>1, <1>9 DEF PollReconnectCut, Core, State, Client
  <2>3. /\ startup' \in StartupTask /\ startup'.pc = startup.pc
        /\ startup'.cfg = startup.cfg /\ startup'.list = startup.list
        /\ startup.client = "dead" => startup'.client = "dead"
    BY <1>1, <1>9 DEF PollReconnectCut, Cut, StartupTask, Client
  <2>4. poll' \in PollTask /\ poll'.pc = "adopt"
    BY <1>9 DEF PollReconnectCut, Resting, PollTask
  <2>. QED  BY <2>1, <2>2, <2>3, <2>4 DEF TypeInv
<1>10. CASE PollAdopts
  <2>1. /\ poll' \in PollTask /\ poll'.cfg = None
        /\ poll'.pc \in {"retry", "check"}
        /\ poll'.pc = "check" => poll'.snap # None
    BY <1>1, <1>10 DEF PollAdopts, PollTask
  <2>2. UNCHANGED <<astray, Polled>>
    BY <1>10 DEF PollAdopts
  <2>3. CASE poll.cfg # None
    <3>1. poll.cfg \in Config /\ poll.list \in Lists \cup {<<>>}
      BY <1>1, <2>3 DEF PollTask
    <3>2. /\ st' = [st EXCEPT !.cfg = poll.cfg, !.list = poll.list]
          /\ app' = AdoptedShown(app, poll.list, poll.cfg)
      BY <1>10, <2>3 DEF PollAdopts
    <3>3. st' \in State
      BY <1>1, <3>1, <3>2 DEF State
    <3>4. app' \in Window
      BY <1>1, <3>1, <3>2, ConfigIsWindow
    <3>. QED  BY <1>4, <1>5, <2>1, <2>2, <3>3, <3>4
  <2>4. CASE poll.cfg = None
    <3>1. st' = [st EXCEPT !.client = "none"] /\ UNCHANGED app
      BY <1>10, <2>4 DEF PollAdopts
    <3>2. st' \in State
      BY <1>1, <3>1 DEF State, Client
    <3>. QED  BY <1>1, <1>4, <1>5, <2>1, <2>2, <3>1, <3>2
  <2>. QED  BY <2>3, <2>4
<1>11. CASE PollRetries
  <2>1. st' \in State
    BY <1>1, <1>11 DEF PollRetries, State, Client
  <2>. QED  BY <1>1, <1>2, <1>4, <1>5, <1>11, <2>1 DEF PollRetries
<1>12. CASE PollLists
  <2>1. /\ poll' \in PollTask /\ poll'.snap # None
        /\ poll'.pc = "relist" => poll'.cfg # None
        /\ poll'.pc \in {"relist", "report"}
        /\ poll'.pc = "report" => poll'.cfg = None
    BY <1>1, <1>12 DEF PollLists, PollAt, PollTask, TypeInv
  <2>2. UNCHANGED <<st, app, Polled>> /\ astray' \in BOOLEAN
    BY <1>3, <1>5, <1>12 DEF PollLists
  <2>. QED  BY <1>1, <1>4, <2>1, <2>2
<1>13. CASE PollRelists
  <2>1. /\ poll' \in PollTask /\ poll'.snap # None /\ poll'.cfg = None
        /\ poll'.pc = "report"
    BY <1>1, <1>13 DEF PollRelists, PollAt, PollTask, TypeInv
  <2>2. /\ poll.cfg \in Config /\ poll.list \in Lists \cup {<<>>}
        /\ poll.cfg.adapter \in Adapters \cup {NoAdapter}
    BY <1>1, <1>13 DEF PollRelists, PollAt, PollTask, TypeInv, Config
  <2>3. app' \in Window
    BY <1>1, <1>13, <2>2, ListIsWindow DEF PollRelists
  <2>4. st' \in State
    BY <1>1, <1>13, <2>2 DEF PollRelists, State
  <2>. QED  BY <1>4, <1>5, <1>13, <2>1, <2>3, <2>4 DEF PollRelists
<1>14. CASE PollReports
  <2>1. poll.snap \in Snapshot
    BY <1>1, <1>14 DEF PollReports, PollAt, PollTask, TypeInv
  <2>2. app' \in Window
    BY <1>1, <1>14, <2>1 DEF PollReports, StatusShown, Window, Snapshot
  <2>. QED  BY <1>1, <1>2, <1>4, <1>5, <1>14, <2>2 DEF PollReports
<1>. QED  BY <1>6, <1>7, <1>8, <1>9, <1>10, <1>11, <1>12, <1>13, <1>14,
             <1>15
          DEF PollStep

(* So every step keeps them.                                               *)
LEMMA StepKeepsTypes == TypeInv /\ [Next]_vars => TypeInv'
<1>. SUFFICES ASSUME TypeInv, [Next]_vars PROVE TypeInv'
  OBVIOUS
<1>1. CASE UNCHANGED vars
  BY <1>1 DEF vars, TypeInv
<1>2. CASE Next
  BY <1>2, CoreKeepsTypes, UserKeepsTypes, TasksKeepTypes, WindowKeepsTypes,
     StartupKeepsTypes, PollKeepsTypes DEF Next
<1>. QED  BY <1>1, <1>2

-----------------------------------------------------------------------------
(* The save button: whatever neither begins nor ends a save and leaves the *)
(* label alone keeps SaveInv.                                              *)
LEMMA ElsewhereKeepsSave ==
    ASSUME TypeInv, SaveInv, app'.save = app.save, labels' = labels,
           clicks' \in Nat, clicks <= clicks',
           \A u \in Slots : At(u, "save")' <=> At(u, "save")
    PROVE  SaveInv'
<1>1. SavingIsShown'
  BY DEF SaveInv, SavingIsShown
<1>2. \A u, v \in Slots : At(u, "save")' /\ At(v, "save")' => u = v
  BY DEF SaveInv
<1>3. (labels + (IF app.save = "saving" THEN 1 ELSE 0) <= clicks)'
  BY DEF SaveInv, TypeInv
<1>. QED  BY <1>1, <1>2, <1>3 DEF SaveInv

(* How the table of tasks reads after the task in place u became t.        *)
LEMMA TableReads ==
    ASSUME TypeInv, NEW u \in Slots, NEW t, task' = [task EXCEPT ![u] = t]
    PROVE  /\ task'[u] = t
           /\ \A v \in Slots : v # u => task'[v] = task[v]
  BY DEF TypeInv

(* The core, a choice on the page, the poll and start-up leave the label   *)
(* and the clicks to what they are.                                        *)
LEMMA OthersKeepSave ==
    ASSUME TypeInv, SaveInv,
           \/ CoreStep \/ DraftChosen \/ PollStep
           \/ StartupConnects \/ StartupCut \/ StartupStores
    PROVE  SaveInv'
<1>1. app \in Window /\ clicks \in Nat
  BY DEF TypeInv
<1>2. UNCHANGED <<task, labels>> /\ clicks' \in Nat /\ clicks <= clicks'
  <2>1. CASE CoreStep
    BY <1>1, <2>1 DEF CoreStep, FallsBack, Recovers, Dies, Restarts, Replugs,
                      CoreChanges
  <2>2. CASE DraftChosen
    BY <1>1, <2>2 DEF DraftChosen
  <2>3. CASE PollStep
    BY <1>1, <2>3 DEF PollStep, PollStatus, PollTells, PollReconnectFails,
         PollReconnects, PollReconnectCut, PollAdopts, PollRetries,
         PollLists, PollRelists, PollReports, Polled, bounds
  <2>4. CASE StartupConnects \/ StartupCut \/ StartupStores
    BY <1>1, <2>4 DEF StartupConnects, StartupCut, StartupStores, bounds
  <2>. QED  BY <2>1, <2>2, <2>3, <2>4
<1>3. app'.save = app.save
  <2>1. CASE CoreStep \/ StartupConnects \/ StartupCut
    BY <2>1 DEF CoreStep, FallsBack, Recovers, Dies, Restarts, Replugs,
                CoreChanges, StartupConnects, StartupCut
  <2>2. CASE DraftChosen
    BY <1>1, <2>2 DEF DraftChosen, Window
  <2>3. CASE StartupStores
    <3>. DEFINE cfg == IF startup.cfg = None THEN st.cfg ELSE startup.cfg
                list == IF startup.list = None THEN st.list ELSE startup.list
                shown == IF startup.cfg = None THEN app
                         ELSE ConfigShown(app, cfg)
    <3>1. app' = IF startup.list = None
                 THEN InfoShown(shown, <<>>, cfg.adapter)
                 ELSE ListShown(shown, list, cfg.adapter)
      BY <2>3 DEF StartupStores
    <3>2. cfg \in Config
      BY DEF TypeInv, State, StartupTask
    <3>3. shown \in Window
      BY <1>1, <3>2, ConfigIsWindow
    <3>4. shown.save = app.save
      BY <1>1, ConfigFields
    <3>. HIDE DEF shown
    <3>. QED  BY <3>1, <3>3, <3>4, ListFields
  <2>4. CASE PollAdopts
    <3>1. app' = app \/ app' = AdoptedShown(app, poll.list, poll.cfg)
      BY <2>4 DEF PollAdopts
    <3>. QED  BY <1>1, <3>1, AdoptedFields
  <2>5. CASE PollRelists
    BY <1>1, <2>5, ListFields DEF PollRelists
  <2>6. CASE PollTells \/ PollReports
    BY <1>1, <2>6 DEF PollTells, PollReports, StatusShown, Window
  <2>7. CASE \/ PollStatus \/ PollReconnectFails \/ PollReconnects
             \/ PollReconnectCut \/ PollRetries \/ PollLists
    BY <2>7 DEF PollStatus, PollReconnectFails, PollReconnects,
                PollReconnectCut, PollRetries, PollLists
  <2>. QED  BY <2>1, <2>2, <2>3, <2>4, <2>5, <2>6, <2>7 DEF PollStep
<1>. QED  BY <1>1, <1>2, <1>3, ElsewhereKeepsSave DEF At

(* Only the click on Save starts a save, and shows it.                     *)
LEMMA UserKeepsSave ==
    ASSUME TypeInv, SaveInv, NEW u \in Slots, UserStep(u) PROVE SaveInv'
<1>1. /\ app \in Window /\ clicks \in Nat /\ labels \in Nat
      /\ clicks + 1 \in Nat /\ clicks <= clicks + 1
  BY DEF TypeInv
<1>2. Idle.pc = "free"
  BY DEF Idle
<1>3. ASSUME NEW t, t.pc # "save", task[u] = Idle,
             task' = [task EXCEPT ![u] = t], clicks' = clicks + 1,
             labels' = labels, app'.save = app.save
      PROVE  SaveInv'
  <2>1. \A v \in Slots : At(v, "save")' <=> At(v, "save")
    BY <1>2, <1>3, TableReads DEF At
  <2>. QED  BY <1>1, <1>3, <2>1, ElsewhereKeepsSave
<1>4. CASE ToggleClicked(u)
  <2>. DEFINE t == [Idle EXCEPT !.pc = "who", !.on = ~app.enabled,
                                !.cfg = Form]
  <2>1. t.pc # "save"
    BY DEF Idle
  <2>2. /\ task' = [task EXCEPT ![u] = t] /\ task[u] = Idle
        /\ clicks' = clicks + 1 /\ UNCHANGED <<app, labels>>
    BY <1>4 DEF ToggleClicked, Free
  <2>. HIDE DEF t
  <2>. QED  BY <1>3, <2>1, <2>2
<1>5. ASSUME NEW t, NEW b, t.pc # "save", Click(u, t, b),
             app'.save = app.save
      PROVE  SaveInv'
  BY <1>3, <1>5 DEF Click, Free
<1>6. CASE RestoreClicked(u)
  <2>1. [Idle EXCEPT !.pc = "restore"].pc # "save"
    BY DEF Idle
  <2>. QED  BY <1>5, <1>6, <2>1 DEF RestoreClicked
<1>7. CASE RefreshClicked(u)
  <2>1. [Idle EXCEPT !.pc = "list", !.cfg = Default].pc # "save"
    BY DEF Idle
  <2>. QED  BY <1>5, <1>7, <2>1 DEF RefreshClicked
<1>8. CASE AdapterPicked(u)
  <2>1. PICK i \in DOMAIN st.list :
           /\ app' = [app EXCEPT !.entry = st.list[i]]
           /\ Click(u, [Idle EXCEPT !.pc = "pick", !.idx = i],
                    InFlight \/ Waiting)
    BY <1>8 DEF AdapterPicked
  <2>2. app'.save = app.save
    BY <1>1, <2>1 DEF Window
  <2>3. [Idle EXCEPT !.pc = "pick", !.idx = i].pc # "save"
    BY DEF Idle
  <2>. QED  BY <1>5, <2>1, <2>2, <2>3
<1>9. CASE SaveClicked(u)
  <2>. DEFINE t == [Idle EXCEPT !.pc = "save", !.cfg = Form]
  <2>1. t.pc = "save"
    BY DEF Idle
  <2>2. app.save # "saving" /\ app'.save = "saving"
    BY <1>1, <1>9 DEF SaveClicked, Window
  <2>3. /\ task' = [task EXCEPT ![u] = t]
        /\ clicks' = clicks + 1 /\ UNCHANGED labels
    BY <1>9 DEF SaveClicked, Click
  <2>. HIDE DEF t
  <2>4. /\ task'[u].pc = "save"
        /\ \A v \in Slots : v # u => task'[v] = task[v]
    BY <2>1, <2>3, TableReads
  <2>5. \A v \in Slots : ~At(v, "save")
    BY <2>2 DEF SaveInv, SavingIsShown
  <2>6. \A v \in Slots : At(v, "save")' <=> v = u
    BY <2>4, <2>5 DEF At
  <2>7. labels <= clicks
    BY <1>1, <2>2 DEF SaveInv
  <2>8. (labels + (IF app.save = "saving" THEN 1 ELSE 0) <= clicks)'
    BY <1>1, <2>2, <2>3, <2>7
  <2>. QED  BY <2>2, <2>6, <2>8 DEF SaveInv, SavingIsShown
<1>. QED  BY <1>4, <1>6, <1>7, <1>8, <1>9 DEF UserStep

(* Only the end of that save takes the label away.                         *)
LEMMA TasksKeepSave ==
    ASSUME TypeInv, SaveInv, NEW u \in Slots, TaskStep(u) PROVE SaveInv'
<1>1. /\ app \in Window /\ clicks \in Nat /\ labels \in Nat
      /\ task \in [Slots -> UserTask]
  BY DEF TypeInv
<1>2. Idle.pc = "free"
  BY DEF Idle
<1>3. ASSUME NEW t, t.pc # "save", ~At(u, "save"),
             task' = [task EXCEPT ![u] = t], app'.save = app.save,
             UNCHANGED <<labels, bounds>>
      PROVE  SaveInv'
  <2>1. \A v \in Slots : At(v, "save")' <=> At(v, "save")
    BY <1>3, TableReads DEF At
  <2>. QED  BY <1>1, <1>3, <2>1, ElsewhereKeepsSave DEF bounds
<1>4. ASSUME Done(u), ~At(u, "save"), app'.save = app.save,
             UNCHANGED <<labels, bounds>>
      PROVE  SaveInv'
  BY <1>2, <1>3, <1>4 DEF Done
<1>5. ASSUME NEW p \in {"send", "keep", "list", "relist"}, NEW l, NEW c,
             task' = [task EXCEPT ![u] = [task[u] EXCEPT !.pc = p, !.list = l,
                                                         !.cfg = c]],
             ~At(u, "save"), app'.save = app.save, UNCHANGED <<labels, bounds>>
      PROVE  SaveInv'
  <2>1. [task[u] EXCEPT !.pc = p, !.list = l, !.cfg = c].pc # "save"
    BY <1>1 DEF UserTask
  <2>. QED  BY <1>3, <1>5, <2>1
<1>6. ASSUME NEW p \in {"send", "keep", "list", "relist"}, Goto(u, p),
             ~At(u, "save"), app'.save = app.save, UNCHANGED <<labels, bounds>>
      PROVE  SaveInv'
  <2>1. [task[u] EXCEPT !.pc = p].pc # "save"
    BY <1>1 DEF UserTask
  <2>. QED  BY <1>3, <1>6, <2>1 DEF Goto
<1>7. CASE ToggleReads(u)
  <2>1. task' = [task EXCEPT ![u] =
           [task[u] EXCEPT !.pc = "send", !.list = task[u].list,
                  !.cfg = [task[u].cfg EXCEPT !.adapter = st.cfg.adapter]]]
    BY <1>1, <1>7 DEF ToggleReads, UserTask
  <2>. QED  BY <1>5, <1>7, <2>1 DEF ToggleReads, At, Rest
<1>8. CASE ToggleSends(u)
  <2>1. Goto(u, "keep") \/ Done(u)
    BY <1>8 DEF ToggleSends
  <2>. QED  BY <1>4, <1>6, <1>8, <2>1 DEF ToggleSends, At, Rest
<1>9. CASE ToggleKeeps(u)
  BY <1>6, <1>9 DEF ToggleKeeps, At, Rest
<1>10. CASE RefreshAsks(u)
  <2>1. CASE Done(u)
    BY <1>4, <1>10, <2>1 DEF RefreshAsks, At, Rest
  <2>2. CASE ~Done(u)
    <3>1. task' = [task EXCEPT ![u] =
             [task[u] EXCEPT !.pc = "relist", !.list = plugged,
                  !.cfg = [task[u].cfg EXCEPT !.adapter = st.cfg.adapter]]]
      <4>1. task' = [task EXCEPT ![u].pc = "relist", ![u].list = plugged,
                                 ![u].cfg.adapter = st.cfg.adapter]
        BY <1>10, <2>2 DEF RefreshAsks
      <4>. QED  BY <1>1, <4>1 DEF UserTask
    <3>2. ~At(u, "save") /\ app'.save = app.save /\ UNCHANGED <<labels, bounds>>
      BY <1>10 DEF RefreshAsks, At, Rest
    <3>. QED  BY <1>5, <3>1, <3>2
  <2>. QED  BY <2>1, <2>2
<1>11. CASE RefreshShows(u)
  <2>1. app'.save = app.save
    BY <1>1, <1>11, ListFields DEF RefreshShows
  <2>. QED  BY <1>4, <1>11, <2>1 DEF RefreshShows, At, Rest
<1>12. CASE RestoreSends(u)
  <2>1. app'.save = app.save
    BY <1>1, <1>12 DEF RestoreSends, ConfigShown, Window
  <2>. QED  BY <1>4, <1>12, <2>1 DEF RestoreSends, At, Rest
<1>13. CASE PickSends(u)
  <2>1. app'.save = app.save
    <3>1. app' = app \/ \E a : app' = InfoShown(app, st.list, a)
      BY <1>13 DEF PickSends
    <3>. QED  BY <1>1, <3>1, ListFields
  <2>. QED  BY <1>4, <1>13, <2>1 DEF PickSends, At, Rest
<1>14. CASE SaveSends(u)
  <2>1. At(u, "save") /\ Done(u) /\ UNCHANGED bounds
    BY <1>14 DEF SaveSends
  <2>2. \/ app'.save = "saved" /\ labels' = labels + 1
        \/ app'.save = "" /\ labels' = labels
    BY <1>1, <1>14 DEF SaveSends, SavedShown, FailureShown, Window
  <2>3. app.save = "saving"
    BY <2>1 DEF SaveInv, SavingIsShown
  <2>4. \A v \in Slots : ~At(v, "save")'
    <3>1. task'[u] = Idle /\ \A v \in Slots : v # u => task'[v] = task[v]
      BY <2>1, TableReads DEF Done
    <3>2. \A v \in Slots : At(v, "save") => v = u
      BY <2>1 DEF SaveInv
    <3>. QED  BY <1>2, <3>1, <3>2 DEF At
  <2>5. labels + 1 <= clicks
    BY <2>3 DEF SaveInv
  <2>6. (labels + (IF app.save = "saving" THEN 1 ELSE 0) <= clicks)'
    <3>1. app'.save # "saving"
      BY <2>2
    <3>2. clicks' = clicks /\ (labels' = labels + 1 \/ labels' = labels)
      BY <2>1, <2>2 DEF bounds
    <3>3. labels' \in Nat /\ labels' <= clicks'
      BY <1>1, <2>5, <3>2
    <3>. QED  BY <3>1, <3>3
  <2>. QED  BY <2>2, <2>4, <2>6 DEF SaveInv, SavingIsShown
<1>. QED  BY <1>7, <1>8, <1>9, <1>10, <1>11, <1>12, <1>13, <1>14
          DEF TaskStep

(* A label that is cleared is not the one of a save under way.             *)
LEMMA LabelKeepsSave ==
    ASSUME TypeInv, SaveInv, LabelForgotten PROVE SaveInv'
<1>1. /\ app \in Window /\ clicks \in Nat /\ labels \in Nat /\ labels > 0
      /\ labels' = labels - 1 /\ UNCHANGED <<task, bounds>>
  BY DEF TypeInv, LabelForgotten
<1>2. app'.save = IF app.save = "saved" THEN "" ELSE app.save
  BY <1>1 DEF LabelForgotten, LabelCleared, Window
<1>3. app'.save = "saving" <=> app.save = "saving"
  BY <1>2
<1>4. SavingIsShown' /\ \A u, v \in Slots :
                           At(u, "save")' /\ At(v, "save")' => u = v
  BY <1>1, <1>3 DEF SaveInv, SavingIsShown, At
<1>5. (labels + (IF app.save = "saving" THEN 1 ELSE 0) <= clicks)'
  BY <1>1, <1>3 DEF SaveInv, bounds
<1>. QED  BY <1>4, <1>5 DEF SaveInv

(* So every step keeps the label true.                                     *)
LEMMA StepKeepsSave == TypeInv /\ SaveInv /\ [Next]_vars => SaveInv'
<1>. SUFFICES ASSUME TypeInv, SaveInv, [Next]_vars PROVE SaveInv'
  OBVIOUS
<1>1. CASE UNCHANGED vars
  BY <1>1, ElsewhereKeepsSave DEF vars, TypeInv, At
<1>2. CASE Next
  BY <1>2, OthersKeepSave, UserKeepsSave, TasksKeepSave, LabelKeepsSave
     DEF Next
<1>. QED  BY <1>1, <1>2

-----------------------------------------------------------------------------
(* A window no mishap has parted from the core.  A step that leaves the    *)
(* tasks, the poll and the start-up where they are, and the configurations *)
(* as they are, keeps them agreed; so does a client that is lost.          *)
LEMMA AsideKeepsAgreed ==
    ASSUME Agreed, core'.cfg = core.cfg, st'.cfg = st.cfg,
           st'.list = st.list,
           st'.client = "live" => st.client = "live",
           startup'.pc = startup.pc, startup'.cfg = startup.cfg,
           poll'.pc = poll.pc, poll'.cfg = poll.cfg, task' = task,
           app'.mode = app.mode, app'.entry = app.entry,
           app'.info = app.info
    PROVE  Agreed'
<1>1. Waiting' <=> Waiting
  BY DEF Waiting
<1>2. Picking' <=> Picking
  BY DEF Picking, At
<1>3. Synced' <=> Synced
  BY DEF Synced
<1>4. \A u \in Slots : TaskAgrees(task[u])'
  BY <1>3 DEF TaskAgrees, Agreed
<1>. QED  BY <1>1, <1>2, <1>3, <1>4 DEF Agreed

(* The core by itself changes no configuration but by dying, a choice on   *)
(* the page makes a draft, and a label is no configuration.                *)
LEMMA OthersKeepAgreed ==
    ASSUME TypeInv, Agreed, CoreStep \/ DraftChosen \/ LabelForgotten
    PROVE  Agreed'
<1>1. /\ core \in Core /\ st \in State /\ app \in Window
      /\ startup \in StartupTask
  BY DEF TypeInv
<1>2. CASE FallsBack \/ Recovers \/ Restarts
  <2>1. core'.cfg = core.cfg
    BY <1>1, <1>2 DEF FallsBack, Recovers, Restarts, CoreChanges, Core
  <2>2. UNCHANGED <<st, app, startup, poll, task>>
    BY <1>2 DEF FallsBack, Recovers, Restarts, CoreChanges
  <2>. QED  BY <2>1, <2>2, AsideKeepsAgreed
<1>3. CASE Dies
  <2>1. core'.cfg = core.cfg /\ st'.cfg = st.cfg /\ st'.list = st.list
    BY <1>1, <1>3 DEF Dies, Core, State
  <2>2. st'.client = "live" => st.client = "live"
    BY <1>1, <1>3 DEF Dies, Cut, State
  <2>3. startup'.pc = startup.pc /\ startup'.cfg = startup.cfg
    BY <1>1, <1>3 DEF Dies, StartupTask
  <2>4. UNCHANGED <<app, poll, task>>
    BY <1>3 DEF Dies
  <2>. QED  BY <2>1, <2>2, <2>3, <2>4, AsideKeepsAgreed
<1>4. CASE DraftChosen \/ LabelForgotten
  <2>1. app'.mode = app.mode /\ app'.entry = app.entry
        /\ app'.info = app.info
    BY <1>1, <1>4 DEF DraftChosen, LabelForgotten, LabelCleared, Window
  <2>2. UNCHANGED <<core, st, startup, poll, task>>
    BY <1>4 DEF DraftChosen, LabelForgotten
  <2>. QED  BY <2>1, <2>2, AsideKeepsAgreed
<1>5. CASE Replugs
  <2>1. UNCHANGED <<core, st, app, startup, poll, task>>
    BY <1>5 DEF Replugs
  <2>. QED  BY <2>1, AsideKeepsAgreed
<1>. QED  BY <1>2, <1>3, <1>4, <1>5 DEF CoreStep

(* A mishap that does not count as one needs a name in Tolerated.          *)
LEMMA NoMishap ==
    ASSUME Tolerated = {}, NEW kinds, Mishap(kinds), ~astray'
    PROVE  kinds = {}
  BY DEF Mishap

(* A click starts a task with what the page or the copy says.              *)
LEMMA ClicksKeepAgreed ==
    ASSUME TypeInv, Agreed, Tolerated = {}, ~astray',
           NEW u \in Slots, UserStep(u)
    PROVE  Agreed'
<1>0. /\ app \in Window /\ task \in [Slots -> UserTask]
      /\ startup \in StartupTask /\ poll \in PollTask /\ st \in State
  BY DEF TypeInv
<1>1. /\ Idle.pc = "free"
      /\ \A v \in Slots : task[v].pc = "free" => task[v] = Idle
  BY DEF Idle, TypeInv
<1>. DEFINE Alike(t) == /\ task[u] = Idle
                        /\ task' = [task EXCEPT ![u] = t]
                        /\ UNCHANGED <<core, st, startup, poll>>
<1>2. ASSUME ~InFlight
      PROVE  startup.pc = "done" /\ startup.cfg = None /\ poll.cfg = None
             /\ poll.pc \notin {"adopt", "relist"}
  BY <1>2 DEF InFlight, TypeInv
<1>3. CASE ToggleClicked(u)
  <2>. DEFINE t == [Idle EXCEPT !.pc = "who", !.on = ~app.enabled,
                                !.cfg = Form]
  <2>1. Alike(t) /\ UNCHANGED app
    BY <1>3 DEF ToggleClicked, Free
  <2>2. Overtaken(InFlight \/ ~OnlyToggles) = {} /\ ~Unsaved
    <3>1. Overtaken(InFlight \/ ~OnlyToggles)
          \cup (IF Unsaved THEN {"draft"} ELSE {}) = {}
      BY <1>3, NoMishap DEF ToggleClicked
    <3>. QED  BY <3>1
  <2>3. ~InFlight /\ OnlyToggles
    BY <2>2 DEF Overtaken
  <2>4. t.pc = "who" /\ t.cfg.mode = st.cfg.mode /\ t.cfg.gw = st.cfg.gw
    BY <2>2 DEF Unsaved, Form, Idle
  <2>. HIDE DEF t
  <2>5. task'[u] = t /\ \A v \in Slots : v # u => task'[v] = task[v]
    BY <2>1, TableReads
  <2>6. \A v \in Slots : task'[v].pc \in {"free", "who"}
    BY <2>3, <2>4, <2>5 DEF OnlyToggles
  <2>7. \A v \in Slots : TaskAgrees(task[v])'
    <3>1. Synced' <=> Synced
      BY <2>1 DEF Synced
    <3>2. TaskAgrees(task[u])'
      BY <2>1, <2>4, <2>5 DEF TaskAgrees
    <3>3. ASSUME NEW v \in Slots, v # u PROVE TaskAgrees(task[v])'
      <4>1. TaskAgrees(task[v]) /\ task'[v] = task[v]
        BY <2>5, <3>3 DEF Agreed
      <4>. QED  BY <2>1, <3>1, <4>1 DEF TaskAgrees
    <3>. QED  BY <3>2, <3>3
  <2>8. ~Picking /\ ~Picking'
    BY <2>3, <2>6 DEF Picking, OnlyToggles, At
  <2>. QED  BY <1>2, <2>1, <2>3, <2>6, <2>7, <2>8
            DEF Agreed, Alone, Synced
<1>4. ASSUME NEW t, Click(u, t, InFlight \/ Waiting)
      PROVE  /\ Alike(t) /\ ~InFlight /\ ~Waiting
             /\ task'[u] = t
             /\ \A v \in Slots : v # u => task'[v] = Idle
  <2>1. Alike(t) /\ Mishap(Overtaken(InFlight \/ Waiting))
    BY <1>4 DEF Click, Free
  <2>2. Overtaken(InFlight \/ Waiting) = {}
    BY <2>1, NoMishap
  <2>3. ~InFlight /\ ~Waiting
    BY <2>2 DEF Overtaken
  <2>4. task'[u] = t /\ \A v \in Slots : v # u => task'[v] = task[v]
    BY <2>1, TableReads
  <2>. QED  BY <2>1, <2>3, <2>4 DEF Waiting
<1>5. ASSUME NEW t, Alike(t), ~InFlight, ~Waiting, task'[u] = t,
             \A v \in Slots : v # u => task'[v] = Idle,
             t.pc \in {"save", "restore", "list", "pick"},
             app'.mode = app.mode, app'.info = app.info,
             t.pc # "pick" => app'.entry = app.entry,
             t.pc = "pick" => /\ t.idx \in DOMAIN st.list
                              /\ st.list[t.idx] = app'.entry
      PROVE  Agreed'
  <2>1. \A v \in Slots : TaskAgrees(task[v])'
    <3>1. TaskAgrees(task[u])'
      BY <1>5 DEF TaskAgrees
    <3>2. \A v \in Slots : v # u => task'[v].pc = "free"
      BY <1>1, <1>5
    <3>. QED  BY <3>1, <3>2 DEF TaskAgrees
  <2>2. ~Picking
    BY <1>1, <1>5 DEF Picking, Waiting, At
  <2>3. ~Picking' => t.pc # "pick"
    BY <1>5 DEF Picking, At
  <2>4. \A v, w \in Slots : task'[v].pc \in Alone /\ v # w => task'[w] = Idle
    BY <1>1, <1>5 DEF Alone
  <2>5. Synced' <=> Synced
    BY <1>5 DEF Synced
  <2>. QED  BY <1>2, <1>5, <2>1, <2>2, <2>3, <2>4, <2>5 DEF Agreed
<1>6. CASE SaveClicked(u)
  <2>. DEFINE t == [Idle EXCEPT !.pc = "save", !.cfg = Form]
  <2>1. Click(u, t, InFlight \/ Waiting) /\ t.pc = "save"
    BY <1>6 DEF SaveClicked, Idle
  <2>2. app'.mode = app.mode /\ app'.entry = app.entry
        /\ app'.info = app.info
    BY <1>0, <1>6 DEF SaveClicked, Window
  <2>. HIDE DEF t
  <2>. QED  BY <1>4, <1>5, <2>1, <2>2
<1>7. CASE RestoreClicked(u)
  <2>. DEFINE t == [Idle EXCEPT !.pc = "restore"]
  <2>1. Click(u, t, InFlight \/ Waiting) /\ t.pc = "restore" /\ UNCHANGED app
    BY <1>7 DEF RestoreClicked, Idle
  <2>. HIDE DEF t
  <2>. QED  BY <1>4, <1>5, <2>1
<1>8. CASE RefreshClicked(u)
  <2>. DEFINE t == [Idle EXCEPT !.pc = "list", !.cfg = Default]
  <2>1. Click(u, t, InFlight \/ Waiting) /\ t.pc = "list" /\ UNCHANGED app
    BY <1>8 DEF RefreshClicked, Idle
  <2>. HIDE DEF t
  <2>. QED  BY <1>4, <1>5, <2>1
<1>9. CASE AdapterPicked(u)
  <2>1. PICK i \in DOMAIN st.list :
           /\ app' = [app EXCEPT !.entry = st.list[i]]
           /\ Click(u, [Idle EXCEPT !.pc = "pick", !.idx = i],
                    InFlight \/ Waiting)
    BY <1>9 DEF AdapterPicked
  <2>. DEFINE t == [Idle EXCEPT !.pc = "pick", !.idx = i]
  <2>2. t.pc = "pick" /\ t.idx = i
    BY DEF Idle
  <2>3. app'.mode = app.mode /\ app'.info = app.info
        /\ app'.entry = st.list[i]
    BY <1>0, <2>1 DEF Window
  <2>4. Click(u, t, InFlight \/ Waiting)
    BY <2>1
  <2>. HIDE DEF t
  <2>. QED  BY <1>4, <1>5, <2>2, <2>3, <2>4
<1>. QED  BY <1>3, <1>6, <1>7, <1>8, <1>9 DEF UserStep

(* A step of the task in place u to t, which changes no configuration.     *)
LEMMA MoveKeepsAgreed ==
    ASSUME TypeInv, Agreed, NEW u \in Slots, NEW t,
           task' = [task EXCEPT ![u] = t],
           task[u].pc \notin Alone \cup {"free"},
           t.pc \notin Alone, t.pc = "free" => t = Idle,
           core'.cfg = core.cfg, st'.cfg = st.cfg,
           st'.client = st.client, UNCHANGED <<startup, poll>>,
           st'.list # <<>> => Synced,
           app'.mode = app.mode,
           \/ /\ st'.list = st.list
              /\ app'.entry = app.entry /\ app'.info = app.info
           \/ /\ app'.entry = Found(st'.list, st.cfg.adapter)
              /\ app'.info = Found(st'.list, st.cfg.adapter),
           TaskAgrees(t)
    PROVE  Agreed'
<1>1. task'[u] = t /\ \A v \in Slots : v # u => task'[v] = task[v]
  BY TableReads
<1>2. Waiting
  BY DEF Waiting, Idle
<1>3. Synced' <=> Synced
  BY DEF Synced
<1>4. \A v \in Slots : task[v].pc \notin Alone
  BY DEF Agreed, Alone, Idle
<1>5. \A v \in Slots : task'[v].pc \notin Alone
  BY <1>1, <1>4
<1>6. ~Picking /\ ~Picking'
  BY <1>4, <1>5 DEF Picking, At, Alone
<1>7. \A v \in Slots : TaskAgrees(task[v])'
  <2>1. ASSUME NEW k, TaskAgrees(k), k.pc \notin Alone
        PROVE  /\ k.pc = "who" =>
                     k.cfg.mode = st'.cfg.mode /\ k.cfg.gw = st'.cfg.gw
               /\ k.pc \in {"send", "keep"} => k.cfg = st'.cfg
               /\ k.pc \in {"keep", "relist"} => Synced'
               /\ k.pc = "relist" => k.cfg.adapter = st'.cfg.adapter
               /\ k.pc = "pick" => /\ k.idx \in DOMAIN st'.list
                                   /\ st'.list[k.idx] = app'.entry
    BY <1>3, <2>1 DEF TaskAgrees, Alone
  <2>2. \A v \in Slots : TaskAgrees(task[v])
    BY DEF Agreed
  <2>3. TaskAgrees(task[u])'
    BY <1>1, <2>1 DEF TaskAgrees
  <2>4. ASSUME NEW v \in Slots, v # u PROVE TaskAgrees(task[v])'
    BY <1>1, <1>4, <2>1, <2>2, <2>4 DEF TaskAgrees
  <2>. QED  BY <2>3, <2>4
<1>8. startup.pc = "done" /\ poll.cfg = None
  BY <1>2 DEF Agreed
<1>9. /\ app'.entry = Found(st'.list, st'.cfg.adapter)
      /\ app'.info = Found(st'.list, st'.cfg.adapter)
  BY <1>6 DEF Agreed
<1>. QED  BY <1>2, <1>3, <1>5, <1>7, <1>8, <1>9 DEF Agreed

(* A toggle takes the adapter from the copy and the rest from the page.    *)
LEMMA SameConfig ==
    ASSUME NEW c \in Config, NEW d \in Config, c.mode = d.mode, c.gw = d.gw
    PROVE  [c EXCEPT !.adapter = d.adapter] = d
  BY DEF Config

(* The steps of a toggle and of a refresh.                                 *)
LEMMA TogglesKeepAgreed ==
    ASSUME TypeInv, Agreed, Tolerated = {}, ~astray', NEW u \in Slots,
           \/ ToggleReads(u) \/ ToggleSends(u) \/ ToggleKeeps(u)
           \/ RefreshAsks(u) \/ RefreshShows(u)
    PROVE  Agreed'
<1>. DEFINE k == task[u]
<1>1. /\ task \in [Slots -> UserTask] /\ k \in UserTask
      /\ core \in Core /\ st \in State /\ app \in Window
      /\ st.cfg \in Config
  BY DEF TypeInv, State
<1>2. k.pc \in {"who", "send", "keep", "list", "relist"} /\ k.cfg \in Config
  BY <1>1 DEF ToggleReads, ToggleSends, ToggleKeeps, RefreshAsks,
              RefreshShows, At, TypeInv, UserTask
<1>3. k.pc \notin Alone \cup {"free"} /\ Waiting /\ TaskAgrees(k)
  BY <1>2 DEF Alone, Waiting, Idle, Agreed
<1>4. /\ startup.pc = "done" /\ poll.cfg = None
      /\ st.client = "live" => Synced
  BY <1>3 DEF Agreed
<1>5. Idle.pc = "free" /\ TaskAgrees(Idle)
  BY DEF Idle, TaskAgrees
<1>6. st.list # <<>> => Synced
  BY DEF Agreed
<1>7. CASE ToggleReads(u)
  <2>. DEFINE t == [k EXCEPT !.pc = "send",
                             !.cfg = [k.cfg EXCEPT !.adapter = st.cfg.adapter]]
  <2>1. k.cfg.mode = st.cfg.mode /\ k.cfg.gw = st.cfg.gw
    BY <1>3, <1>7 DEF ToggleReads, At, TaskAgrees
  <2>2. t.pc = "send" /\ t.cfg = st.cfg
    BY <1>1, <1>2, <2>1, SameConfig DEF UserTask
  <2>3. task' = [task EXCEPT ![u] = t] /\ UNCHANGED <<core, st, app, Rest>>
    BY <1>1, <1>7 DEF ToggleReads, UserTask
  <2>. HIDE DEF t
  <2>4. TaskAgrees(t)
    BY <2>2 DEF TaskAgrees
  <2>. QED  BY <1>3, <1>6, <2>2, <2>3, <2>4, MoveKeepsAgreed DEF Rest, Alone
<1>8. CASE ToggleSends(u)
  <2>1. k.cfg = st.cfg
    BY <1>3, <1>8 DEF ToggleSends, At, TaskAgrees
  <2>2. PICK a \in Answer(IF k.on THEN UpdatedEnabled(core, k.cfg)
                          ELSE Disabled(core)) :
           /\ core' = a.core /\ Mishap(Bad(a, FALSE))
           /\ IF a.ok THEN Goto(u, "keep") ELSE Done(u)
    BY <1>8 DEF ToggleSends
  <2>3. UNCHANGED <<st, app, Rest>>
    BY <1>8 DEF ToggleSends
  <2>4. Bad(a, FALSE) = {}
    BY <2>2, NoMishap
  <2>5. CASE a = [ok |-> FALSE, core |-> core]
    <3>1. core' = core /\ Done(u)
      BY <2>2, <2>5
    <3>. QED  BY <1>3, <1>5, <1>6, <2>3, <3>1, MoveKeepsAgreed
              DEF Done, Rest, Alone
  <2>6. CASE st.client = "live"
              /\ a \in (IF k.on THEN UpdatedEnabled(core, k.cfg)
                        ELSE Disabled(core))
    <3>1. Synced
      BY <1>4, <2>6
    <3>2. a.ok \in BOOLEAN /\ (a.ok => a.core.cfg = core.cfg)
      <4>1. CASE k.on
        <5>1. a.ok \in BOOLEAN /\ (a.ok => a.core.cfg = k.cfg)
          BY <1>1, <1>2, <2>6, <4>1, UpdatedEnabledTakesConfig
        <5>. QED  BY <2>1, <3>1, <5>1 DEF Synced
      <4>2. CASE ~k.on
        BY <1>1, <2>6, <4>2, DisabledKeepsConfig
      <4>. QED  BY <4>1, <4>2
    <3>3. CASE a.ok
      <4>. DEFINE t == [k EXCEPT !.pc = "keep"]
      <4>1. t.pc = "keep" /\ t.cfg = k.cfg
        BY <1>1 DEF UserTask
      <4>2. task' = [task EXCEPT ![u] = t]
        BY <2>2, <3>3 DEF Goto
      <4>. HIDE DEF t
      <4>3. TaskAgrees(t)
        BY <2>1, <3>1, <4>1 DEF TaskAgrees
      <4>4. core'.cfg = core.cfg
        BY <2>2, <3>2, <3>3
      <4>. QED  BY <1>3, <2>3, <3>1, <4>1, <4>2, <4>3, <4>4, MoveKeepsAgreed
                DEF Rest, Alone
    <3>4. CASE ~a.ok
      <4>1. a.core = core
        BY <2>4, <3>4 DEF Bad
      <4>2. core' = core /\ Done(u)
        BY <2>2, <3>4, <4>1
      <4>. QED  BY <1>3, <1>5, <1>6, <2>3, <4>2, MoveKeepsAgreed
                DEF Done, Rest, Alone
    <3>. QED  BY <3>3, <3>4
  <2>. QED  BY <2>5, <2>6, AnswerOrError
<1>9. CASE ToggleKeeps(u)
  <2>1. k.cfg = st.cfg /\ Synced
    BY <1>3, <1>9 DEF ToggleKeeps, At, TaskAgrees
  <2>2. /\ st'.cfg = st.cfg /\ st'.client = st.client
        /\ st'.list = st.list
    BY <1>1, <1>9, <2>1 DEF ToggleKeeps, Copied, State
  <2>. DEFINE t == [k EXCEPT !.pc = "list"]
  <2>3. t.pc = "list"
    BY <1>1 DEF UserTask
  <2>4. task' = [task EXCEPT ![u] = t] /\ UNCHANGED <<core, app, Rest>>
    BY <1>9 DEF ToggleKeeps, Goto
  <2>. HIDE DEF t
  <2>5. TaskAgrees(t)
    BY <2>3 DEF TaskAgrees
  <2>. QED  BY <1>3, <1>6, <2>2, <2>3, <2>4, <2>5, MoveKeepsAgreed
            DEF Rest, Alone
<1>10. CASE RefreshAsks(u)
  <2>1. UNCHANGED <<core, st, app, Rest>>
    BY <1>10 DEF RefreshAsks
  <2>2. CASE Done(u)
    BY <1>3, <1>5, <1>6, <2>1, <2>2, MoveKeepsAgreed DEF Done, Rest, Alone
  <2>3. CASE ~Done(u)
    <3>. DEFINE t == [k EXCEPT !.pc = "relist", !.list = plugged,
                         !.cfg = [k.cfg EXCEPT !.adapter = st.cfg.adapter]]
    <3>1. Synced /\ task' = [task EXCEPT ![u] = t]
      BY <1>1, <1>4, <1>10, <2>3 DEF RefreshAsks, UserTask
    <3>2. t.pc = "relist" /\ t.cfg.adapter = st.cfg.adapter
      BY <1>1, <1>2 DEF UserTask, Config
    <3>. HIDE DEF t
    <3>3. TaskAgrees(t)
      BY <3>1, <3>2 DEF TaskAgrees
    <3>. QED  BY <1>3, <1>6, <2>1, <3>1, <3>2, <3>3, MoveKeepsAgreed
              DEF Rest, Alone
  <2>. QED  BY <2>2, <2>3
<1>11. CASE RefreshShows(u)
  <2>1. Synced /\ k.cfg.adapter = st.cfg.adapter
    BY <1>3, <1>11 DEF RefreshShows, At, TaskAgrees
  <2>2. st'.cfg = st.cfg /\ st'.client = st.client /\ st'.list = k.list
    BY <1>1, <1>11 DEF RefreshShows, State
  <2>3. /\ app'.entry = Found(st'.list, st.cfg.adapter)
        /\ app'.info = Found(st'.list, st.cfg.adapter)
        /\ app'.mode = app.mode
    BY <1>1, <1>11, <2>1, <2>2, ListFields DEF RefreshShows
  <2>. QED  BY <1>3, <1>5, <1>11, <2>1, <2>2, <2>3, MoveKeepsAgreed
            DEF RefreshShows, Done, Rest, Alone
<1>. QED  BY <1>7, <1>8, <1>9, <1>10, <1>11

(* The one task there is ends, with the same configuration in force, kept  *)
(* and shown.                                                              *)
LEMMA EndKeepsAgreed ==
    ASSUME TypeInv, Agreed, NEW u \in Slots, task[u].pc \in Alone, Done(u),
           UNCHANGED <<startup, poll>>, st'.client = st.client,
           st'.client = "live" \/ st'.list # <<>> => Synced',
           app'.mode = st'.cfg.mode,
           app'.entry = Found(st'.list, st'.cfg.adapter),
           app'.info = Found(st'.list, st'.cfg.adapter)
    PROVE  Agreed'
<1>1. Idle.pc = "free" /\ TaskAgrees(Idle)'
  BY DEF Idle, TaskAgrees
<1>2. task'[u] = Idle /\ \A v \in Slots : v # u => task'[v] = task[v]
  BY TableReads DEF Done
<1>3. \A v \in Slots : task'[v] = Idle
  BY <1>2 DEF Agreed
<1>4. Waiting
  BY <1>1 DEF Waiting, Alone
<1>5. startup.pc = "done" /\ startup.cfg = None /\ poll.cfg = None
      /\ poll.pc # "relist"
  BY <1>4 DEF Agreed, TypeInv
<1>6. \A v \in Slots : TaskAgrees(task[v])'
  BY <1>1, <1>3 DEF TaskAgrees
<1>. QED  BY <1>1, <1>3, <1>5, <1>6 DEF Agreed, Alone

(* The steps that send a configuration and keep it once it is taken.       *)
LEMMA SendsKeepAgreed ==
    ASSUME TypeInv, Agreed, Tolerated = {}, ~astray', NEW u \in Slots,
           SaveSends(u) \/ RestoreSends(u) \/ PickSends(u)
    PROVE  Agreed'
<1>. DEFINE k == task[u]
<1>1. /\ task \in [Slots -> UserTask] /\ k \in UserTask
      /\ core \in Core /\ st \in State /\ app \in Window
      /\ st.cfg \in Config
      /\ Idle.pc = "free"
  BY DEF TypeInv, State, Idle
<1>2. k.pc \in Alone /\ Done(u) /\ UNCHANGED <<startup, poll>>
  BY DEF SaveSends, RestoreSends, PickSends, At, Alone, Rest
<1>3. Waiting
  BY <1>1, <1>2 DEF Waiting, Alone
<1>4. /\ st.client = "live" => Synced
      /\ st.list # <<>> => Synced
      /\ app.mode = st.cfg.mode
      /\ app.info = Found(st.list, st.cfg.adapter)
      /\ TaskAgrees(k)
  BY <1>3 DEF Agreed
<1>5. k.pc # "pick" => ~Picking
  BY <1>1, <1>2 DEF Agreed, Picking, At, Alone
<1>6. ASSUME NEW c \in Config, NEW a \in Answer(Updated(core, c)), a.ok
      PROVE  a.core.cfg = c
  <2>1. CASE a = [ok |-> FALSE, core |-> core]
    BY <1>6, <2>1
  <2>2. CASE a \in Updated(core, c)
    BY <1>1, <1>6, <2>2, UpdatedTakesConfig
  <2>. QED  BY <2>1, <2>2, AnswerOrError
<1>7. ASSUME NEW a, Mishap(Bad(a, FALSE)), ~a.ok PROVE a.core = core
  <2>1. Bad(a, FALSE) = {}
    BY <1>7, NoMishap
  <2>. QED  BY <1>7, <2>1 DEF Bad
<1>8. ASSUME NEW a, Mishap(Bad(a, TRUE)) PROVE a.ok
  <2>1. Bad(a, TRUE) = {}
    BY <1>8, NoMishap
  <2>. QED  BY <2>1 DEF Bad
<1>9. ASSUME NEW c \in Config, NEW a \in Answer(Updated(core, c)),
             Mishap(Bad(a, FALSE)), core' = a.core, k.pc # "pick",
             c.adapter = st.cfg.adapter,
             \/ /\ a.ok /\ st' = Copied(c)
                /\ app' = SavedShown(app, c) \/ app' = ConfigShown(app, c)
             \/ /\ ~a.ok /\ st' = st
                /\ app' = FailureShown(app) \/ app' = app
      PROVE  Agreed'
  <2>1. CASE a.ok
    <3>1. core'.cfg = c
      BY <1>6, <1>9, <2>1
    <3>2. /\ st'.cfg = c /\ st'.client = st.client
          /\ st'.list = st.list
      BY <1>1, <1>9, <2>1 DEF Copied, State
    <3>3. app'.mode = c.mode /\ app'.entry = app.entry
          /\ app'.info = app.info
      BY <1>1, <1>9, <2>1 DEF SavedShown, ConfigShown, Window
    <3>4. app.entry = Found(st.list, st.cfg.adapter)
      BY <1>5, <1>9 DEF Agreed
    <3>5. Synced'
      BY <3>1, <3>2 DEF Synced
    <3>. QED  BY <1>2, <1>4, <1>9, <3>2, <3>3, <3>4, <3>5, EndKeepsAgreed
  <2>2. CASE ~a.ok
    <3>1. core' = core /\ st' = st
      <4>1. a.core = core
        BY <1>9, <1>7, <2>2
      <4>. QED  BY <1>9, <2>2, <4>1
    <3>2. app'.mode = app.mode /\ app'.entry = app.entry
          /\ app'.info = app.info
      <4>1. app' = FailureShown(app) \/ app' = app
        BY <1>9, <2>2
      <4>. QED  BY <1>1, <4>1 DEF FailureShown, Window
    <3>3. app.entry = Found(st.list, st.cfg.adapter)
      BY <1>5, <1>9 DEF Agreed
    <3>4. Synced' <=> Synced
      BY <3>1 DEF Synced
    <3>. QED  BY <1>2, <1>4, <3>1, <3>2, <3>3, <3>4, EndKeepsAgreed
  <2>. QED  BY <2>1, <2>2
<1>10. \A c \in Config :
         /\ [c EXCEPT !.adapter = st.cfg.adapter] \in Config
         /\ [c EXCEPT !.adapter = st.cfg.adapter].adapter = st.cfg.adapter
  BY <1>1 DEF Config
<1>11. CASE SaveSends(u)
  <2>. DEFINE c == [k.cfg EXCEPT !.adapter = st.cfg.adapter]
  <2>1. k.pc = "save" /\ k.cfg \in Config
    BY <1>1, <1>11 DEF SaveSends, At, TypeInv, UserTask
  <2>2. c \in Config /\ c.adapter = st.cfg.adapter
    BY <1>10, <2>1
  <2>3. \E a \in Answer(Updated(core, c)) :
           /\ core' = a.core /\ Mishap(Bad(a, FALSE))
           /\ \/ /\ a.ok /\ st' = Copied(c) /\ app' = SavedShown(app, c)
              \/ /\ ~a.ok /\ st' = st /\ app' = FailureShown(app)
    BY <1>11 DEF SaveSends
  <2>. HIDE DEF c
  <2>. QED  BY <1>9, <2>1, <2>2, <2>3
<1>12. CASE RestoreSends(u)
  <2>. DEFINE c == [Default EXCEPT !.adapter = st.cfg.adapter]
  <2>1. k.pc = "restore"
    BY <1>12 DEF RestoreSends, At
  <2>2. c \in Config /\ c.adapter = st.cfg.adapter
    BY <1>10, ConfigIsTyped
  <2>3. \E a \in Answer(Updated(core, c)) :
           /\ core' = a.core /\ Mishap(Bad(a, FALSE))
           /\ \/ /\ a.ok /\ st' = Copied(c) /\ app' = ConfigShown(app, c)
              \/ /\ ~a.ok /\ st' = st /\ app' = app
    BY <1>12 DEF RestoreSends
  <2>. HIDE DEF c
  <2>. QED  BY <1>9, <2>1, <2>2, <2>3
<1>13. CASE PickSends(u)
  <2>. DEFINE a == st.list[k.idx]
              c == [st.cfg EXCEPT !.adapter = a]
  <2>1. k.pc = "pick" /\ k.idx \in DOMAIN st.list /\ a = app.entry
    BY <1>4, <1>13 DEF PickSends, At, TaskAgrees
  <2>2. st.list \in Lists \cup {<<>>}
    BY <1>1 DEF State
  <2>3. a \in Adapters /\ Found(st.list, a) = a
    BY <2>1, <2>2, EntriesAreFound
  <2>4. c \in Config /\ c.adapter = a /\ c.mode = st.cfg.mode
    BY <1>1, <2>3 DEF Config
  <2>5. PICK r \in Answer(Updated(core, c)) :
           /\ core' = r.core /\ Mishap(Bad(r, TRUE))
           /\ app' = IF r.ok THEN InfoShown(app, st.list, a) ELSE app
    BY <1>13, <2>1 DEF PickSends
  <2>6. st' = [st EXCEPT !.cfg = c]
    BY <1>13, <2>1 DEF PickSends
  <2>. HIDE DEF a, c
  <2>7. r.ok /\ core'.cfg = c
    BY <1>6, <1>8, <2>4, <2>5
  <2>8. st'.cfg = c /\ st'.client = st.client /\ st'.list = st.list
    BY <1>1, <2>6 DEF State
  <2>9. app' = InfoShown(app, st.list, a)
    BY <2>5, <2>7
  <2>10. app'.mode = app.mode /\ app'.entry = a /\ app'.info = a
    BY <1>1, <2>1, <2>3, <2>9, ListFields
  <2>. QED  BY <1>2, <1>4, <2>3, <2>4, <2>7, <2>8, <2>10, EndKeepsAgreed
            DEF Synced
<1>. QED  BY <1>11, <1>12, <1>13

(* Start-up stores what it has read from the core.                         *)
LEMMA StartupKeepsAgreed ==
    ASSUME TypeInv, Agreed, Tolerated = {}, ~astray',
           StartupConnects \/ StartupCut \/ StartupStores
    PROVE  Agreed'
<1>1. /\ core \in Core /\ st \in State /\ app \in Window
      /\ startup \in StartupTask
  BY DEF TypeInv
<1>2. ~Waiting
  BY DEF Agreed, StartupConnects, StartupCut, StartupStores
<1>3. ASSUME task' = task
      PROVE  /\ ~Waiting' /\ ~Picking /\ ~Picking'
             /\ \A u \in Slots : task'[u] = Idle /\ TaskAgrees(task[u])'
  <2>1. \A u \in Slots : task'[u] = Idle /\ task[u] = Idle
    BY <1>2, <1>3 DEF Waiting
  <2>2. Idle.pc = "free"
    BY DEF Idle
  <2>. QED  BY <2>1, <2>2 DEF Waiting, Picking, At, TaskAgrees
<1>4. CASE StartupConnects
  <2>1. UNCHANGED <<core, st, app, poll, task>>
    BY <1>4 DEF StartupConnects
  <2>2. startup'.cfg # None => startup'.cfg = core.cfg
    BY <1>4 DEF StartupConnects, Started
  <2>. QED  BY <1>2, <1>3, <2>1, <2>2 DEF Agreed, Synced
<1>5. CASE StartupCut
  <2>1. UNCHANGED <<app, poll, task>> /\ core'.cfg = core.cfg
    BY <1>1, <1>5 DEF StartupCut, Core
  <2>2. /\ st'.cfg = st.cfg /\ st'.list = st.list
        /\ st'.client = "live" => st.client = "live"
    BY <1>1, <1>5 DEF StartupCut, Cut, State
  <2>3. startup'.cfg = None
    BY <1>5 DEF StartupCut, Started
  <2>. QED  BY <1>2, <1>3, <2>1, <2>2, <2>3 DEF Agreed, Synced
<1>6. CASE StartupStores
  <2>. DEFINE cfg == IF startup.cfg = None THEN st.cfg ELSE startup.cfg
              list == IF startup.list = None THEN st.list ELSE startup.list
              shown == IF startup.cfg = None THEN app
                       ELSE ConfigShown(app, cfg)
  <2>1. /\ UNCHANGED <<core, poll, task>>
        /\ startup'.pc = "done" /\ startup'.cfg = None
        /\ startup.pc = "store"
    BY <1>6 DEF StartupStores, Started
  <2>2. /\ st' = [client |-> startup.client, cfg |-> cfg, list |-> list]
        /\ app' = IF startup.list = None
                  THEN InfoShown(shown, <<>>, cfg.adapter)
                  ELSE ListShown(shown, list, cfg.adapter)
    BY <1>6 DEF StartupStores
  <2>3. startup.list = None => st.list = <<>>
    <3>1. Unlisted = {}
      BY <1>6, NoMishap DEF StartupStores
    <3>. QED  BY <3>1 DEF Unlisted
  <2>4. st'.client = startup.client /\ st'.cfg = cfg /\ st'.list = list
    BY <2>2
  <2>5. cfg \in Config
    BY <1>1 DEF State, StartupTask
  <2>6. shown \in Window
    BY <1>1, <2>5, ConfigIsWindow
  <2>7. shown.mode = cfg.mode /\ shown.entry = app.entry
    <3>1. CASE startup.cfg = None
      BY <3>1 DEF Agreed
    <3>2. CASE startup.cfg # None
      BY <1>1, <3>2, ConfigFields
    <3>. QED  BY <3>1, <3>2
  <2>8. \/ startup.cfg # None /\ cfg = core.cfg
        \/ /\ startup.cfg = None /\ startup.client = "dead"
           /\ cfg = st.cfg /\ list = st.list
    BY <2>1 DEF Agreed, TypeInv
  <2>9. startup.list = None => list = <<>>
    BY <2>3
  <2>10. startup.list = None => app.entry = NoAdapter
    BY <1>3, <2>1, <2>3, NothingIsFound DEF Agreed
  <2>. HIDE DEF cfg, list, shown
  <2>11. app'.mode = cfg.mode /\ app'.info = Found(list, cfg.adapter)
         /\ app'.entry = Found(list, cfg.adapter)
    <3>1. CASE startup.list = None
      <4>1. app' = InfoShown(shown, <<>>, cfg.adapter)
        BY <2>2, <3>1
      <4>2. /\ app'.mode = cfg.mode /\ app'.entry = app.entry
            /\ app'.info = Found(<<>>, cfg.adapter)
        BY <2>6, <2>7, <4>1, ListFields
      <4>. QED  BY <2>9, <2>10, <3>1, <4>2, NothingIsFound
    <3>2. CASE startup.list # None
      <4>1. app' = ListShown(shown, list, cfg.adapter)
        BY <2>2, <3>2
      <4>. QED  BY <2>6, <2>7, <4>1, ListFields
    <3>. QED  BY <3>1, <3>2
  <2>12. st'.client = "live" \/ st'.list # <<>> => Synced'
    <3>1. CASE startup.cfg # None
      BY <2>1, <2>4, <2>8, <3>1 DEF Synced
    <3>2. CASE startup.cfg = None
      <4>1. /\ st'.client = "dead" /\ st'.cfg = st.cfg
            /\ st'.list = st.list
        BY <2>4, <2>8, <3>2
      <4>. QED  BY <2>1, <4>1 DEF Agreed, Synced
    <3>. QED  BY <3>1, <3>2
  <2>13. poll.pc = "relist" => Synced'
    <3>1. CASE startup.cfg # None
      BY <2>1, <2>4, <2>8, <3>1 DEF Synced
    <3>2. CASE startup.cfg = None
      BY <2>1, <2>4, <2>8, <3>2 DEF Agreed, Synced
    <3>. QED  BY <3>1, <3>2
  <2>. QED  BY <1>2, <1>3, <2>1, <2>4, <2>11, <2>12, <2>13 DEF Agreed
<1>. QED  BY <1>4, <1>5, <1>6

(* A poll that reconnects adopts what it has read from the core.           *)
LEMMA PollKeepsAgreed ==
    ASSUME TypeInv, Agreed, Tolerated = {}, ~astray', PollStep
    PROVE  Agreed'
<1>1. /\ core \in Core /\ st \in State /\ app \in Window
      /\ poll \in PollTask /\ startup \in StartupTask
      /\ core.cfg # None /\ st.cfg # None
  BY ConfigIsTyped DEF TypeInv, Core, State
<1>2. ASSUME ~Waiting, task' = task
      PROVE  /\ ~Waiting' /\ ~Picking /\ ~Picking'
             /\ \A u \in Slots : task'[u] = Idle /\ TaskAgrees(task[u])'
  <2>1. \A u \in Slots : task'[u] = Idle /\ task[u] = Idle
    BY <1>2 DEF Waiting
  <2>2. Idle.pc = "free"
    BY DEF Idle
  <2>. QED  BY <2>1, <2>2 DEF Waiting, Picking, At, TaskAgrees
<1>3. ASSUME core'.cfg = core.cfg, UNCHANGED <<startup, task>>,
             st'.cfg = st.cfg, st'.list = st.list,
             st'.client = "live" => st.client = "live",
             poll'.cfg = None, poll'.pc # "relist",
             st'.client = "live" => poll.pc # "adopt" \/ poll'.pc = "adopt",
             app'.mode = app.mode, app'.entry = app.entry,
             app'.info = app.info
      PROVE  Agreed'
  <2>1. (Waiting' <=> Waiting) /\ (Picking' <=> Picking)
    BY <1>3 DEF Waiting, Picking, At
  <2>2. Synced' <=> Synced
    BY <1>3 DEF Synced
  <2>3. \A u \in Slots : TaskAgrees(task[u])'
    BY <1>3, <2>2 DEF TaskAgrees, Agreed
  <2>. QED  BY <1>3, <2>1, <2>2, <2>3 DEF Agreed
<1>4. Resting.pc = "idle" /\ Resting.cfg = None
  BY DEF Resting
<1>5. CASE PollStatus
  <2>1. poll'.cfg = None /\ poll'.pc = "told"
    BY <1>5 DEF PollStatus, Resting
  <2>. QED  BY <1>3, <1>5, <2>1 DEF PollStatus, PollAt, Polled
<1>14. CASE PollTells
  <2>1. poll.cfg = None
    BY <1>14 DEF PollTells, PollAt, TypeInv
  <2>2. poll'.cfg = None /\ poll'.pc \in {"reconnect", "check"}
    BY <1>1, <1>14, <2>1 DEF PollTells, PollTask
  <2>3. app'.mode = app.mode /\ app'.entry = app.entry
        /\ app'.info = app.info
    BY <1>1, <1>14 DEF PollTells, Window
  <2>. QED  BY <1>3, <1>14, <2>2, <2>3 DEF PollTells, PollAt, Polled
<1>6. CASE PollReconnectFails
  BY <1>3, <1>4, <1>6 DEF PollReconnectFails, PollAt, Polled
<1>7. CASE PollReconnects
  <2>1. Overtaken(Waiting) = {}
    BY <1>7, NoMishap DEF PollReconnects
  <2>2. ~Waiting
    BY <2>1 DEF Overtaken
  <2>3. /\ UNCHANGED <<core, app, startup, task>> /\ st'.cfg = st.cfg
        /\ st'.list = st.list
    BY <1>1, <1>7 DEF PollReconnects, Polled, State
  <2>4. poll'.pc = "adopt" /\ poll'.cfg \in {core.cfg, None}
    BY <1>7 DEF PollReconnects
  <2>. QED  BY <1>2, <2>2, <2>3, <2>4 DEF Agreed, Synced
<1>8. CASE PollReconnectCut
  <2>1. UNCHANGED <<app, task>> /\ core'.cfg = core.cfg
    BY <1>1, <1>8 DEF PollReconnectCut, Core
  <2>2. /\ st'.cfg = st.cfg /\ st'.list = st.list
        /\ st'.client = "dead"
    BY <1>1, <1>8 DEF PollReconnectCut, State
  <2>3. startup'.pc = startup.pc /\ startup'.cfg = startup.cfg
    BY <1>1, <1>8 DEF PollReconnectCut, StartupTask
  <2>4. poll'.pc = "adopt" /\ poll'.cfg = None
    BY <1>8 DEF PollReconnectCut, Resting
  <2>5. (Waiting' <=> Waiting) /\ (Picking' <=> Picking)
    BY <2>1 DEF Waiting, Picking, At
  <2>6. Synced' <=> Synced
    BY <2>1, <2>2 DEF Synced
  <2>7. \A u \in Slots : TaskAgrees(task[u])'
    BY <2>1, <2>2, <2>6 DEF TaskAgrees, Agreed
  <2>. QED  BY <2>1, <2>2, <2>3, <2>4, <2>5, <2>6, <2>7 DEF Agreed
<1>9. CASE PollAdopts
  <2>1. /\ poll'.cfg = None /\ poll'.pc \in {"retry", "check"}
        /\ UNCHANGED <<core, startup, task>>
    BY <1>1, <1>9 DEF PollAdopts, PollTask, Polled
  <2>2. CASE poll.cfg = None
    <3>1. /\ UNCHANGED app /\ st'.cfg = st.cfg /\ st'.list = st.list
          /\ st'.client = "none"
      BY <1>1, <1>9, <2>2 DEF PollAdopts, State
    <3>. QED  BY <1>3, <2>1, <3>1
  <2>3. CASE poll.cfg # None
    <3>1. ~Waiting /\ poll.cfg = core.cfg
      BY <2>3 DEF Agreed
    <3>2. /\ st'.cfg = core.cfg /\ st'.list = poll.list
          /\ app' = AdoptedShown(app, poll.list, core.cfg)
      BY <1>1, <1>9, <2>3, <3>1 DEF PollAdopts, State
    <3>3. /\ app'.mode = core.cfg.mode
          /\ app'.entry = Found(st'.list, core.cfg.adapter)
          /\ app'.info = Found(st'.list, core.cfg.adapter)
      BY <1>1, <3>2, AdoptedFields
    <3>. QED  BY <1>2, <2>1, <3>1, <3>2, <3>3 DEF Agreed, Synced
  <2>. QED  BY <2>2, <2>3
<1>10. CASE PollRetries
  <2>1. /\ st'.cfg = st.cfg /\ st'.list = st.list
        /\ st'.client = "live" => st.client = "live"
    BY <1>1, <1>10 DEF PollRetries, State
  <2>. QED  BY <1>3, <1>4, <1>10, <2>1 DEF PollRetries, PollAt, Polled
<1>11. CASE PollLists
  <2>1. UNCHANGED <<core, st, app, startup, task>> /\ poll.pc = "check"
    BY <1>11 DEF PollLists, Polled, PollAt
  <2>2. poll.cfg = None
    BY <2>1 DEF TypeInv
  <2>3. CASE poll' = [poll EXCEPT !.pc = "report"]
    <3>1. poll'.pc = "report" /\ poll'.cfg = None
      BY <1>1, <2>2, <2>3 DEF PollTask
    <3>. QED  BY <1>3, <2>1, <3>1
  <2>4. CASE /\ st.client = "live" /\ Mishap(Overtaken(Waiting))
             /\ poll' = [poll EXCEPT !.pc = "relist", !.cfg = st.cfg,
                                      !.list = plugged]
    <3>1. Overtaken(Waiting) = {}
      BY <2>4, NoMishap
    <3>2. ~Waiting
      BY <3>1 DEF Overtaken
    <3>3. Synced
      BY <2>1, <2>4 DEF Agreed
    <3>4. poll'.pc = "relist" /\ poll'.cfg = core.cfg
      BY <1>1, <2>4, <3>3 DEF PollTask, Synced
    <3>. QED  BY <1>2, <2>1, <3>2, <3>3, <3>4 DEF Agreed, Synced
  <2>. QED  BY <1>11, <2>3, <2>4 DEF PollLists
<1>12. CASE PollRelists
  <2>1. UNCHANGED <<core, startup, task>> /\ poll.pc = "relist"
    BY <1>12 DEF PollRelists, Polled, PollAt
  <2>2. Synced /\ ~Waiting /\ poll.cfg = core.cfg
    BY <2>1 DEF Agreed, TypeInv
  <2>3. st'.cfg = st.cfg /\ st'.list = poll.list
    BY <1>1, <1>12 DEF PollRelists, State
  <2>4. /\ app'.entry = Found(st'.list, core.cfg.adapter)
        /\ app'.info = Found(st'.list, core.cfg.adapter)
        /\ app'.mode = app.mode
    BY <1>1, <1>12, <2>2, <2>3, ListFields DEF PollRelists
  <2>5. poll'.pc = "report" /\ poll'.cfg = None
    BY <1>1, <1>12 DEF PollRelists, PollTask
  <2>. QED  BY <1>2, <2>1, <2>2, <2>3, <2>4, <2>5 DEF Agreed, Synced
<1>13. CASE PollReports
  <2>1. app'.mode = app.mode /\ app'.entry = app.entry
        /\ app'.info = app.info
    BY <1>1, <1>13 DEF PollReports, StatusShown, Window
  <2>. QED  BY <1>3, <1>4, <1>13, <2>1 DEF PollReports, PollAt, Polled
<1>. QED  BY <1>5, <1>6, <1>7, <1>8, <1>9, <1>10, <1>11, <1>12, <1>13,
             <1>14
          DEF PollStep

-----------------------------------------------------------------------------
(* The program starts with the invariant.                                  *)
LEMMA InitHasInv == Init => TypeInv /\ SaveInv /\ SyncInv
<1>. SUFFICES ASSUME Init PROVE TypeInv /\ SaveInv /\ SyncInv
  OBVIOUS
<1>1. TypeInv
  BY InitTyped
<1>2. /\ \A u \in Slots : task[u] = Idle
      /\ Idle.pc = "free"
  BY DEF Init, Idle
<1>3. labels = 0 /\ clicks = 0
  BY DEF Init
<1>4. SaveInv
  <2>1. \A u \in Slots : ~At(u, "save")
    BY <1>2 DEF At
  <2>2. app.save # "saving"
    BY DEF Init
  <2>3. labels + (IF app.save = "saving" THEN 1 ELSE 0) <= clicks
    <3>1. (IF app.save = "saving" THEN 1 ELSE 0) = 0
      BY <2>2
    <3>. QED  BY <1>3, <3>1
  <2>. QED  BY <2>1, <2>2, <2>3 DEF SaveInv, SavingIsShown
<1>5. Agreed
  <2>1. /\ ~Waiting /\ ~Picking
        /\ \A u \in Slots : TaskAgrees(task[u])
    BY <1>2 DEF Waiting, Picking, At, TaskAgrees
  <2>2. /\ startup.cfg = None /\ poll.cfg = None /\ poll.pc = "idle"
        /\ st.client = "none" /\ st.list = <<>>
        /\ app.mode = st.cfg.mode
        /\ app.entry = NoAdapter /\ app.info = NoAdapter
    BY DEF Init, Started, Resting, Default
  <2>3. \A u, v \in Slots : task[u].pc \notin Alone
    BY <1>2 DEF Alone
  <2>4. Found(st.list, st.cfg.adapter) = NoAdapter
    BY <2>2, NothingIsFound
  <2>. QED  BY <2>1, <2>2, <2>3, <2>4 DEF Agreed
<1>. QED  BY <1>1, <1>4, <1>5 DEF SyncInv

(* Once astray, always astray.                                             *)
LEMMA AstrayStays == TypeInv /\ [Next]_vars /\ ~astray' => ~astray
<1>. SUFFICES ASSUME TypeInv, [Next]_vars, astray PROVE astray'
  BY DEF TypeInv
<1>1. ASSUME NEW kinds, Mishap(kinds) PROVE astray'
  BY <1>1 DEF Mishap
<1>2. CASE UNCHANGED astray
  BY <1>2
<1>3. ASSUME NEW u \in Slots, UserStep(u) PROVE astray'
  BY <1>1, <1>3 DEF UserStep, ToggleClicked, SaveClicked, RestoreClicked,
                    AdapterPicked, RefreshClicked, Click
<1>4. ASSUME NEW u \in Slots, TaskStep(u) PROVE astray'
  <2>1. CASE ToggleReads(u) \/ ToggleKeeps(u) \/ RefreshAsks(u)
             \/ RefreshShows(u)
    BY <1>2, <2>1 DEF ToggleReads, ToggleKeeps, RefreshAsks, RefreshShows
  <2>2. CASE ToggleSends(u)
    BY <1>1, <2>2 DEF ToggleSends
  <2>3. CASE SaveSends(u)
    BY <1>1, <2>3 DEF SaveSends
  <2>4. CASE RestoreSends(u)
    BY <1>1, <2>4 DEF RestoreSends
  <2>5. CASE PickSends(u)
    BY <1>1, <1>2, <2>5 DEF PickSends
  <2>. QED  BY <1>4, <2>1, <2>2, <2>3, <2>4, <2>5 DEF TaskStep
<1>5. CASE PollStep
  BY <1>1, <1>2, <1>5
     DEF PollStep, PollStatus, PollTells, PollReconnectFails, PollReconnects,
         PollReconnectCut, PollAdopts, PollRetries, PollLists, PollRelists,
         PollReports
<1>6. CASE CoreStep \/ DraftChosen \/ LabelForgotten
           \/ StartupConnects \/ StartupCut \/ StartupStores
  BY <1>1, <1>2, <1>6 DEF CoreStep, FallsBack, Recovers, Dies, Restarts,
     Replugs, CoreChanges, DraftChosen, LabelForgotten, StartupConnects,
     StartupCut, StartupStores
<1>. QED  BY <1>2, <1>3, <1>4, <1>5, <1>6 DEF Next, vars

(* Without a mishap every step keeps the copy and the page in agreement    *)
(* with the core.                                                          *)
LEMMA StepKeepsSync ==
    Tolerated = {} => (TypeInv /\ SyncInv /\ [Next]_vars => SyncInv')
<1>. SUFFICES ASSUME Tolerated = {}, TypeInv, SyncInv, [Next]_vars, ~astray'
              PROVE  Agreed'
  BY DEF SyncInv
<1>1. Agreed /\ ~astray
  BY AstrayStays DEF SyncInv
<1>2. CASE UNCHANGED vars
  BY <1>1, <1>2, AsideKeepsAgreed DEF vars
<1>3. CASE Next
  <2>1. ASSUME NEW u \in Slots, TaskStep(u) PROVE Agreed'
    <3>1. CASE \/ ToggleReads(u) \/ ToggleSends(u) \/ ToggleKeeps(u)
               \/ RefreshAsks(u) \/ RefreshShows(u)
      BY <1>1, <3>1, TogglesKeepAgreed
    <3>2. CASE SaveSends(u) \/ RestoreSends(u) \/ PickSends(u)
      BY <1>1, <3>2, SendsKeepAgreed
    <3>. QED  BY <2>1, <3>1, <3>2 DEF TaskStep
  <2>2. ASSUME NEW u \in Slots, UserStep(u) PROVE Agreed'
    BY <1>1, <2>2, ClicksKeepAgreed
  <2>3. CASE StartupConnects \/ StartupCut \/ StartupStores
    BY <1>1, <2>3, StartupKeepsAgreed
  <2>4. CASE CoreStep \/ DraftChosen \/ LabelForgotten
    BY <1>1, <2>4, OthersKeepAgreed
  <2>5. CASE PollStep
    BY <1>1, <2>5, PollKeepsAgreed
  <2>. QED  BY <1>3, <2>1, <2>2, <2>3, <2>4, <2>5 DEF Next
<1>. QED  BY <1>2, <1>3

(* The invariant is stronger than the types the runs check.                *)
LEMMA InvGivesTypeOK == TypeInv /\ SaveInv => TypeOK
<1>. SUFFICES ASSUME TypeInv, SaveInv PROVE TypeOK
  OBVIOUS
<1>1. labels \in 0..MaxClicks
  <2>1. labels <= clicks
    BY DEF TypeInv, SaveInv
  <2>. QED  BY <2>1, UiAssumption DEF TypeInv
<1>2. \A u \in Slots : task[u].cfg \in Config \cup {None}
  BY DEF TypeInv, UserTask
<1>3. /\ startup.pc \in {"connect", "store", "done"}
      /\ startup.cfg \in Config \cup {None}
      /\ startup.list \in Lists \cup {None}
  BY DEF TypeInv, StartupTask
<1>4. /\ poll.pc \in {"idle", "told", "reconnect", "adopt", "retry", "check",
                      "relist", "report"}
      /\ poll.snap \in Snapshot \cup {None}
  BY DEF TypeInv, PollTask
<1>. QED  BY <1>1, <1>2, <1>3, <1>4
          DEF TypeInv, TypeOK, Core, State, Client, Window

(* And it says what the user is promised.                                  *)
LEMMA InvGivesSynced ==
    ASSUME SyncInv PROVE CopyIsCores /\ PageShowsCore
<1>. SUFFICES ASSUME Quiet, ~astray
              PROVE  /\ st.cfg = core.cfg
                     /\ app.mode = core.cfg.mode
                     /\ AdapterIsCores
  BY DEF CopyIsCores, PageShowsCore
<1>1. Agreed
  BY DEF SyncInv
<1>2. Synced
  BY <1>1 DEF Agreed, Quiet
<1>3. ~Picking
  BY DEF Quiet, Waiting, Picking, At, Idle
<1>4. /\ app.entry = Found(st.list, core.cfg.adapter)
      /\ app.info = app.entry
  BY <1>1, <1>2, <1>3 DEF Agreed, Synced
<1>5. AdapterIsCores
  BY <1>4 DEF AdapterIsCores, Found
<1>. QED  BY <1>1, <1>2, <1>5 DEF Agreed, Synced

-----------------------------------------------------------------------------
(* The window, UiState and the tasks hold what they know, and no more      *)
(* labels wait to be taken away than there were saves (main.rs: apply_     *)
(* config_to_ui, the callbacks and the poll).                              *)
THEOREM UiTyped == Spec => []TypeOK
<1>1. Init => TypeInv /\ SaveInv
  BY InitHasInv
<1>2. TypeInv /\ SaveInv /\ [Next]_vars => (TypeInv /\ SaveInv)'
  BY StepKeepsTypes, StepKeepsSave
<1>. QED  BY <1>1, <1>2, InvGivesTypeOK, PTL DEF Spec

(* The save button is busy exactly while a save is under way, however many *)
(* labels of earlier saves are still to be taken away (main.rs             *)
(* on_save_config).                                                        *)
THEOREM SavingAlwaysShown == Spec => []SavingIsShown
<1>1. Init => TypeInv /\ SaveInv
  BY InitHasInv
<1>2. TypeInv /\ SaveInv /\ [Next]_vars => (TypeInv /\ SaveInv)'
  BY StepKeepsTypes, StepKeepsSave
<1>3. SaveInv => SavingIsShown
  BY DEF SaveInv
<1>. QED  BY <1>1, <1>2, <1>3, PTL DEF Spec

(* However many tasks the user keeps running, and however often the core   *)
(* falls back, dies and comes back: unless a mishap of one of the five     *)
(* kinds has happened, everything in flight agrees with the core, and what *)
(* rests is the core's own configuration (main.rs: UiState, the callbacks  *)
(* and the poll).                                                          *)
THEOREM InFlightAgrees == Tolerated = {} => (Spec => []SyncInv)
<1>. SUFFICES ASSUME Tolerated = {} PROVE Spec => []SyncInv
  OBVIOUS
<1>1. Init => TypeInv /\ SyncInv
  BY InitHasInv
<1>2. TypeInv /\ SyncInv /\ [Next]_vars => (TypeInv /\ SyncInv)'
  BY StepKeepsTypes, StepKeepsSync
<1>. QED  BY <1>1, <1>2, PTL DEF Spec

(* At rest, UiState's copy of the configuration, which the next choice of  *)
(* an adapter sends as a whole, is the core's (main.rs on_adapter_changed).*)
THEOREM CopyAlwaysCores == Tolerated = {} => (Spec => []CopyIsCores)
<1>. SUFFICES ASSUME Tolerated = {} PROVE Spec => []CopyIsCores
  OBVIOUS
<1>1. Spec => []SyncInv
  BY InFlightAgrees
<1>2. SyncInv => CopyIsCores
  BY InvGivesSynced
<1>. QED  BY <1>1, <1>2, PTL

(* At rest, the page shows the core's mode, and the core's adapter if the  *)
(* UI's list has it, no adapter if it has not (main.rs apply_config_to_ui, *)
(* refresh_adapters, update_adapter_info_display).                         *)
THEOREM PageAlwaysCores == Tolerated = {} => (Spec => []PageShowsCore)
<1>. SUFFICES ASSUME Tolerated = {} PROVE Spec => []PageShowsCore
  OBVIOUS
<1>1. Spec => []SyncInv
  BY InFlightAgrees
<1>2. SyncInv => PageShowsCore
  BY InvGivesSynced
<1>. QED  BY <1>1, <1>2, PTL
=============================================================================
