------------------------------ MODULE Plugins ------------------------------
(***************************************************************************)
(* The plugin host: PluginLoaderService, PluginManagementService,          *)
(* PluginBootstrapService, ContributionRegistry, the GraphQL bridge, and   *)
(* JobsService with its registry and queue.                                *)
(*                                                                         *)
(* Enabling and disabling await the plugin's hooks and a row of the        *)
(* database between changes of what is held in memory; the updates of      *)
(* scheduled jobs are started and not awaited.  A restart loses the memory *)
(* and restores the plugins whose rows say enabled.                        *)
(***************************************************************************)
EXTENDS Integers

CONSTANTS
    PluginIds,
    LifecycleCalls,     \* calls of enable, disable and updateConfig under way at a time
    JobUpdates,         \* updates of scheduled jobs under way at a time
    MaxPluginEdits      \* bound: requests and restarts

VARIABLES
    state, booted,      \* PluginRuntimeRecord of each plugin
    offer,              \* what the plugin registered: in the registries of
                        \* contributions, admin extensions and providers
    served,             \* plugins whose fields are in the GraphQL schema
    job, cron,          \* ScheduledJobRegistry, and the queue's cron jobs
    pluginState,        \* the rows of plugin_states
    definition, run,    \* job_definitions (enabled?), job_runs (the latest)
    lifecycle, jobUpdate,
    starting,           \* "up", or how far onApplicationBootstrap is
    contested,          \* ghost: plugins switched by two calls at once
    failed,             \* ghost: plugins with a hook, or a save of their row, that failed
    crossed,            \* ghost: plugins switched and configured at the same time
    late,               \* ghost: plugins disabled before their job was registered
    pluginEdits

memory == <<state, booted, offer, served, job, cron>>
records == <<pluginState, definition, run>>
ghosts == <<contested, failed, crossed, late>>
pluginVars == <<memory, records, lifecycle, jobUpdate, starting, ghosts, pluginEdits>>

PluginLifecycleStates == {"discovered", "installed", "enabled", "disabled"}
IdleLifecycle == [at |-> "idle"]
IdleUpdate == [at |-> "idle"]

\* The memory of a process that has only discovered its plugins.
Forgotten ==
    /\ state' = [p \in PluginIds |-> "discovered"]
    /\ booted' = [p \in PluginIds |-> FALSE]
    /\ offer' = [p \in PluginIds |-> "none"]
    /\ served' = {}
    /\ job' = [p \in PluginIds |-> "none"]
    /\ cron' = {}
    /\ lifecycle' = [k \in LifecycleCalls |-> IdleLifecycle]
    /\ jobUpdate' = [j \in JobUpdates |-> IdleUpdate]

PluginsInit ==
    /\ state = [p \in PluginIds |-> "discovered"]
    /\ booted = [p \in PluginIds |-> FALSE]
    /\ offer = [p \in PluginIds |-> "none"]
    /\ served = {}
    /\ job = [p \in PluginIds |-> "none"]
    /\ cron = {}
    /\ pluginState = [p \in PluginIds |-> "none"]
    /\ definition = [p \in PluginIds |-> "none"]
    /\ run = [p \in PluginIds |-> "none"]
    /\ lifecycle = [k \in LifecycleCalls |-> IdleLifecycle]
    /\ jobUpdate = [j \in JobUpdates |-> IdleUpdate]
    /\ starting = "up"
    /\ contested = {} /\ failed = {} /\ crossed = {} /\ late = {}
    /\ pluginEdits = 0

PluginEdit ==
    /\ pluginEdits < MaxPluginEdits
    /\ pluginEdits' = pluginEdits + 1

CallsOn(p) == {k \in LifecycleCalls : lifecycle[k] # IdleLifecycle /\ lifecycle[k].id = p}
ConfigsOn(p) == {k \in CallsOn(p) : lifecycle[k].at = "config"}
SwitchesOn(p) == CallsOn(p) \ ConfigsOn(p)
UpdatesOn(p) == {j \in JobUpdates : jobUpdate[j] # IdleUpdate /\ jobUpdate[j].id = p}

GoLifecycle(k, at) ==
    lifecycle' = [lifecycle EXCEPT ![k] = IF at = "idle" THEN IdleLifecycle
                                          ELSE [@ EXCEPT !.at = at]]

\* void this.jobsService.<...>: an update that runs on its own.
StartUpdate(update) ==
    \E j \in JobUpdates :
        /\ jobUpdate[j] = IdleUpdate
        /\ jobUpdate' = [jobUpdate EXCEPT ![j] = update]

SetActive(p, to) ==
    /\ offer' = [offer EXCEPT ![p] = IF @ = "none" THEN @ ELSE to]
    /\ job' = [job EXCEPT ![p] = IF @ = "none" THEN @ ELSE to]
    /\ IF job[p] = "none" THEN UNCHANGED jobUpdate
       ELSE StartUpdate([at |-> "row", id |-> p, active |-> to])

\* What else is under way on p as a call begins to switch it.
Overlapping(p) ==
    /\ contested' = IF SwitchesOn(p) # {} THEN contested \cup {p} ELSE contested
    /\ crossed' = IF ConfigsOn(p) # {} THEN crossed \cup {p} ELSE crossed

-----------------------------------------------------------------------------
(***************************************************************************)
(* PluginManagementService.enable: install if needed, enable, boot on the  *)
(* first time, activate what is registered, then the plugin's own hook.    *)
(***************************************************************************)
\* The state changes before anything is awaited.
EnableFrom(k, p) ==
    \/ /\ state[p] = "discovered"
       /\ state' = [state EXCEPT ![p] = "installed"]
       /\ lifecycle' = [lifecycle EXCEPT ![k] = [at |-> "install", id |-> p]]
    \/ /\ state[p] \in {"installed", "disabled"}
       /\ state' = [state EXCEPT ![p] = "enabled"]
       /\ lifecycle' = [lifecycle EXCEPT ![k] =
              [at |-> IF booted[p] THEN "activate" ELSE "boot", id |-> p]]
    \/ /\ state[p] = "enabled"
       /\ UNCHANGED state
       /\ lifecycle' = [lifecycle EXCEPT ![k] = [at |-> "store", id |-> p, as |-> "enabled"]]

EnablePlugin(k, p) ==
    /\ starting = "up"
    /\ lifecycle[k] = IdleLifecycle
    /\ PluginEdit
    /\ EnableFrom(k, p)
    /\ Overlapping(p)
    /\ UNCHANGED <<booted, offer, served, job, cron, records, jobUpdate, starting, failed, late>>

\* The install hook settles; what it registers is inactive.
InstallHook(k) ==
    /\ lifecycle[k].at = "install"
    /\ LET p == lifecycle[k].id
       IN  \/ /\ EnableFrom(k, p)
              /\ UNCHANGED failed
           \/ /\ GoLifecycle(k, "idle")
              /\ failed' = failed \cup {p}
              /\ UNCHANGED state
    /\ UNCHANGED <<booted, offer, served, job, cron, records, jobUpdate, starting,
                   contested, crossed, late, pluginEdits>>

\* The boot hook registers a job and everything else as active when the plugin was
\* enabled at the call.  It may fail before or after.
BootHook(k) ==
    /\ lifecycle[k].at \in {"boot", "bootAll"}
    /\ LET p == lifecycle[k].id
           as == IF lifecycle[k].at = "boot" \/ state[p] = "enabled" THEN "active" ELSE "inactive"
       IN  \/ /\ offer' = [offer EXCEPT ![p] = as]
              /\ StartUpdate([at |-> "define", id |-> p, active |-> as])
              /\ \/ /\ booted' = [booted EXCEPT ![p] = TRUE]
                    /\ GoLifecycle(k, IF lifecycle[k].at = "boot" THEN "activate" ELSE "idle")
                    /\ UNCHANGED failed
                 \/ /\ failed' = failed \cup {p}
                    /\ GoLifecycle(k, "idle")
                    /\ UNCHANGED booted
           \/ /\ failed' = failed \cup {p}
              /\ GoLifecycle(k, "idle")
              /\ UNCHANGED <<booted, offer, jobUpdate>>
    /\ UNCHANGED <<state, served, job, cron, records, starting, contested, crossed, late,
                   pluginEdits>>

ActivatePlugin(k) ==
    /\ lifecycle[k].at = "activate"
    /\ SetActive(lifecycle[k].id, "active")
    /\ lifecycle' = [lifecycle EXCEPT ![k] = [at |-> "hook", id |-> @.id, as |-> "enabled"]]
    /\ UNCHANGED <<state, booted, served, cron, records, starting, ghosts, pluginEdits>>

\* Wrong on purpose: what the plugin has registered is left as it is.
DisableStateOnly(k, p) ==
    /\ starting = "up"
    /\ lifecycle[k] = IdleLifecycle
    /\ PluginEdit
    /\ state' = [state EXCEPT ![p] = IF @ = "enabled" THEN "disabled" ELSE @]
    /\ lifecycle' = [lifecycle EXCEPT ![k] = [at |-> "store", id |-> p, as |-> "disabled"]]
    /\ Overlapping(p)
    /\ UNCHANGED <<booted, offer, job, jobUpdate, served, cron, records, starting, failed, late>>

\* The registration of its job as active, which boot started, is still under way.
Registering(p) ==
    \E j \in UpdatesOn(p) :
        jobUpdate[j].at \in {"define", "register"} /\ jobUpdate[j].active = "active"

DisablePlugin(k, p) ==
    /\ starting = "up"
    /\ lifecycle[k] = IdleLifecycle
    /\ PluginEdit
    /\ IF state[p] = "enabled"
       THEN /\ state' = [state EXCEPT ![p] = "disabled"]
            /\ SetActive(p, "inactive")
            /\ late' = IF Registering(p) THEN late \cup {p} ELSE late
            /\ lifecycle' = [lifecycle EXCEPT ![k] = [at |-> "hook", id |-> p, as |-> "disabled"]]
       ELSE /\ lifecycle' = [lifecycle EXCEPT ![k] = [at |-> "store", id |-> p, as |-> "disabled"]]
            /\ UNCHANGED <<state, offer, job, jobUpdate, late>>
    /\ Overlapping(p)
    /\ UNCHANGED <<booted, served, cron, records, starting, failed>>

\* The enable or disable hook settles.
LifecycleHook(k) ==
    /\ lifecycle[k].at = "hook"
    /\ \/ GoLifecycle(k, "store") /\ UNCHANGED failed
       \/ GoLifecycle(k, "idle") /\ failed' = failed \cup {lifecycle[k].id}
    /\ UNCHANGED <<memory, records, jobUpdate, starting, contested, crossed, late, pluginEdits>>

\* graphqlBridge.sync: the fields of the plugins whose contributions are active.
Synced == {p \in PluginIds : offer[p] = "active"}

\* upsertState reads the row, changes what it is asked to, and saves all of it.  Here
\* that is all that is modelled of the row.
StoreState(k) ==
    /\ lifecycle[k].at = "store"
    /\ \/ /\ pluginState' = [pluginState EXCEPT ![lifecycle[k].id] = lifecycle[k].as]
          /\ served' = Synced
          /\ UNCHANGED failed
       \/ /\ failed' = failed \cup {lifecycle[k].id}
          /\ UNCHANGED <<pluginState, served>>
    /\ GoLifecycle(k, "idle")
    /\ UNCHANGED <<state, booted, offer, job, cron, definition, run, jobUpdate, starting,
                   contested, crossed, late, pluginEdits>>

\* updateConfig: the row is read, or made up as disabled...
UpdateConfig(k, p) ==
    /\ starting = "up"
    /\ lifecycle[k] = IdleLifecycle
    /\ PluginEdit
    /\ lifecycle' = [lifecycle EXCEPT ![k] =
           [at |-> "config", id |-> p,
            as |-> IF pluginState[p] = "enabled" THEN "enabled" ELSE "disabled"]]
    /\ crossed' = IF SwitchesOn(p) # {} THEN crossed \cup {p} ELSE crossed
    /\ UNCHANGED <<memory, records, jobUpdate, starting, contested, failed, late>>

\* ... and saved with the configuration, as enabled or disabled as it was read.
SaveConfig(k) ==
    /\ lifecycle[k].at = "config"
    /\ \/ pluginState' = [pluginState EXCEPT ![lifecycle[k].id] = lifecycle[k].as]
       \/ UNCHANGED pluginState
    /\ GoLifecycle(k, "idle")
    /\ UNCHANGED <<memory, definition, run, jobUpdate, starting, ghosts, pluginEdits>>

-----------------------------------------------------------------------------
(***************************************************************************)
(* Scheduled jobs, one for each plugin.                                    *)
(***************************************************************************)
GoUpdate(j, update) == jobUpdate' = [jobUpdate EXCEPT ![j] = update]

\* registerScheduledJob: the row...
DefineJob(j) ==
    /\ jobUpdate[j].at = "define"
    /\ definition' = [definition EXCEPT ![jobUpdate[j].id] = jobUpdate[j].active]
    /\ GoUpdate(j, [jobUpdate[j] EXCEPT !.at = "register"])
    /\ UNCHANGED <<memory, pluginState, run, lifecycle, starting, ghosts, pluginEdits>>

\* ... then the registry and the queue, as active as the plugin was at the call.
RegisterJob(j) ==
    /\ jobUpdate[j].at = "register"
    /\ LET p == jobUpdate[j].id
       IN  /\ job' = [job EXCEPT ![p] = jobUpdate[j].active]
           /\ cron' = IF jobUpdate[j].active = "active" THEN cron \cup {p} ELSE cron \ {p}
    /\ GoUpdate(j, IdleUpdate)
    /\ UNCHANGED <<state, booted, offer, served, records, lifecycle, starting, ghosts, pluginEdits>>

\* setPluginJobsActive: the row...
UpdateJobRow(j) ==
    /\ jobUpdate[j].at = "row"
    /\ LET p == jobUpdate[j].id
           enabled == IF jobUpdate[j].active = "active" THEN job[p] ELSE "inactive"
       IN  definition' = [definition EXCEPT ![p] = IF @ = "none" THEN @ ELSE enabled]
    /\ GoUpdate(j, [jobUpdate[j] EXCEPT !.at = "queue"])
    /\ UNCHANGED <<memory, pluginState, run, lifecycle, starting, ghosts, pluginEdits>>

\* Wrong on purpose: the queue is given what the call was made for.
UpdateQueueAsAsked(j) ==
    /\ jobUpdate[j].at = "queue"
    /\ LET p == jobUpdate[j].id
       IN  cron' = IF jobUpdate[j].active = "active" THEN cron \cup {p} ELSE cron \ {p}
    /\ GoUpdate(j, IdleUpdate)
    /\ UNCHANGED <<state, booted, offer, served, job, records, lifecycle, starting, ghosts,
                   pluginEdits>>

\* ... then the queue, which asks the registry again.
UpdateQueue(j) ==
    /\ jobUpdate[j].at = "queue"
    /\ LET p == jobUpdate[j].id
       IN  cron' = IF jobUpdate[j].active = "active" /\ job[p] = "active"
                   THEN cron \cup {p} ELSE cron \ {p}
    /\ GoUpdate(j, IdleUpdate)
    /\ UNCHANGED <<state, booted, offer, served, job, records, lifecycle, starting, ghosts,
                   pluginEdits>>

\* The queue fires a job: recordExecution opens a run, and closes it as it ended.
TriggerJob(p) ==
    /\ starting = "up"
    /\ p \in cron /\ definition[p] # "none"
    /\ PluginEdit
    /\ run' = [run EXCEPT ![p] = "running"]
    /\ UNCHANGED <<memory, pluginState, definition, lifecycle, jobUpdate, starting, ghosts>>

FinishRun(p) ==
    /\ run[p] = "running"
    /\ \E as \in {"succeeded", "failed"} : run' = [run EXCEPT ![p] = as]
    /\ UNCHANGED <<memory, pluginState, definition, lifecycle, jobUpdate, starting, ghosts, pluginEdits>>

-----------------------------------------------------------------------------
(***************************************************************************)
(* A restart, and onApplicationBootstrap: enable what the rows say, then   *)
(* boot what is installed and has not been, then sync.  Requests wait.     *)
(***************************************************************************)
Restart ==
    /\ PluginEdit
    /\ Forgotten
    /\ starting' = "restore"
    /\ contested' = {} /\ failed' = {} /\ crossed' = {} /\ late' = {}
    /\ UNCHANGED records

NobodyBusy == \A k \in LifecycleCalls : lifecycle[k] = IdleLifecycle

\* Each plugin once, one after the other.
Restore(k, p) ==
    /\ starting = "restore" /\ NobodyBusy
    /\ pluginState[p] = "enabled" /\ state[p] = "discovered" /\ p \notin failed
    /\ EnableFrom(k, p)
    /\ UNCHANGED <<booted, offer, served, job, cron, records, jobUpdate, starting,
                   ghosts, pluginEdits>>

Bootable(p) == state[p] # "discovered" /\ ~booted[p]

Restored ==
    /\ starting = "restore" /\ NobodyBusy
    /\ \A p \in PluginIds : pluginState[p] = "enabled" => state[p] # "discovered" \/ p \in failed
    /\ starting' = "boot"
    /\ UNCHANGED <<memory, records, lifecycle, jobUpdate, ghosts, pluginEdits>>

\* A hook that fails here stops the process, which starts again.
BootRemaining(k, p) ==
    /\ starting = "boot" /\ NobodyBusy
    /\ Bootable(p)
    /\ lifecycle' = [lifecycle EXCEPT ![k] = [at |-> "bootAll", id |-> p]]
    /\ UNCHANGED <<memory, records, jobUpdate, starting, ghosts, pluginEdits>>

Up ==
    /\ starting = "boot" /\ NobodyBusy
    /\ \A p \in PluginIds : ~Bootable(p)
    /\ starting' = "up"
    /\ served' = Synced
    /\ UNCHANGED <<state, booted, offer, job, cron, records, lifecycle, jobUpdate, ghosts,
                   pluginEdits>>

PluginRequest(k, p) == EnablePlugin(k, p) \/ DisablePlugin(k, p) \/ UpdateConfig(k, p)
Bootstrap(k, p) == Restore(k, p) \/ BootRemaining(k, p)

PluginsNext ==
    \/ \E k \in LifecycleCalls :
           \/ \E p \in PluginIds : PluginRequest(k, p) \/ Bootstrap(k, p)
           \/ InstallHook(k) \/ BootHook(k) \/ ActivatePlugin(k)
           \/ LifecycleHook(k) \/ StoreState(k) \/ SaveConfig(k)
    \/ \E j \in JobUpdates :
           DefineJob(j) \/ RegisterJob(j) \/ UpdateJobRow(j) \/ UpdateQueue(j)
    \/ \E p \in PluginIds : TriggerJob(p) \/ FinishRun(p)
    \/ Restart \/ Restored \/ Up

PluginsSpec == PluginsInit /\ [][PluginsNext]_pluginVars

-----------------------------------------------------------------------------
(***************************************************************************)
(* A disabled plugin does nothing: once its calls are over nothing it      *)
(* registered is active, also when its hooks fail, unless it was disabled  *)
(* while its job was being registered (plugin-definition.ts line 177 does  *)
(* not await that, and makes the job active afterwards).  Unless a hook or *)
(* a save failed the schema serves no field of it, and its row says        *)
(* disabled unless an updateConfig saved the one it had read before.  Only *)
(* switches that overlap can leave more of it on.  "Disabled plugins keep  *)
(* records but deactivate runtime wiring", contribution-registry.ts says.  *)
(***************************************************************************)
DisabledPluginsAreSilent ==
    \A p \in PluginIds \ contested :
        state[p] = "disabled" /\ SwitchesOn(p) = {} =>
            /\ offer[p] # "active"
            /\ p \notin late => job[p] # "active"
            /\ p \notin failed => p \notin served
            /\ p \notin failed \cup crossed => pluginState[p] = "disabled"

(***************************************************************************)
(* Once the updates of a plugin's job are over, the queue fires it only    *)
(* while the registry has it active, in whatever order enabling, disabling *)
(* and registering it ran: their updates are not awaited and overtake each *)
(* other (plugin-loader.service.ts lines 261 and 283).                     *)
(***************************************************************************)
CronFollowsRegistry ==
    \A p \in PluginIds : UpdatesOn(p) = {} /\ p \in cron => job[p] = "active"
=============================================================================
