-------------------------- MODULE StreamingManager --------------------------
(***************************************************************************)
(* The two output slots of src/src/streaming_manager.cpp (class Impl),     *)
(* driven by the calls of the plugin and by OBS.                           *)
(*                                                                         *)
(* One slot at most owns the built-in OBS stream (the frontend); Backup    *)
(* may instead run on an auxiliary native output next to a Primary         *)
(* stream.  Every method runs on the Qt UI thread, so a method is one      *)
(* action.  OBS changes the activity of an output on its own threads and   *)
(* tells the plugin later, through frontend events that the UI thread      *)
(* delivers in order: between the change and its event the manager works   *)
(* with what it read before, and the model interleaves calls there.        *)
(*                                                                         *)
(* Left out: wording of failures and logs, byte/bitrate samples, start     *)
(* times, and the credentials of a configuration.                          *)
(***************************************************************************)
EXTENDS Naturals, Sequences

CONSTANTS
    Endpoint,      \* endpoints that pass the scheme and host check
    NoEndpoint,    \* the endpoint of a slot nothing has configured
    Config,        \* the configurations callers may pass in
    Delay,         \* program delays in whole seconds
    NoRole,        \* no slot
    MaxBacklog,    \* bound: undelivered events when OBS accepts a start
    MaxReconnects  \* bound: reconnect signals counted per slot

Role     == {"Primary", "Backup"}
Protocol == {"RTMP", "RTMPS", "SRT"}

AnyConfig == [enabled  : BOOLEAN,
              protocol : Protocol,
              endpoint : Endpoint \cup {NoEndpoint}]

ASSUME ConfigAssumption == Config \subseteq AnyConfig
ASSUME EndpointAssumption == NoEndpoint \notin Endpoint
ASSUME RoleAssumption == NoRole \notin Role
ASSUME DelayAssumption == Delay \subseteq 0..10 /\ 0 \in Delay
ASSUME BoundAssumption == MaxBacklog \in Nat /\ MaxReconnects \in Nat

VARIABLES
    config,         \* [Role -> AnyConfig]   Slot::config
    state,          \* [Role -> SlotState]   Slot::state
    requested,      \* [Role -> BOOLEAN]     Slot::requested
    reconnects,     \* [Role -> Nat]         Slot::reconnectAttempts
    frontendRole,   \* the owner of the OBS stream; NoRole is !hasFrontendRole
    pendingBackup,  \* Backup waits for the encoders of Primary
    tracked,        \* the slot the frontend's reconnect signals are counted for
    delaySeconds,
    aux,            \* the auxiliary output of Backup
    frontend,       \* the built-in OBS streaming output
    events          \* frontend events OBS raised and the UI has not delivered

slots   == <<config, state, requested, reconnects>>
roles   == <<frontendRole, pendingBackup, tracked, delaySeconds>>
outputs == <<aux, frontend, events>>
vars    == <<slots, roles, outputs>>

SlotState == {"Disabled", "Idle", "Starting", "Live", "Stopping", "Error"}

(* Phases of an output.  "requested": OBS accepted a start of the frontend *)
(* and has not announced it; "connecting": not active yet.                 *)
Phase == {"off", "requested", "connecting", "active", "stopping"}
Event == {"STARTED", "STOPPING", "STOPPED"}

NewConfig     == [enabled |-> TRUE,  protocol |-> "RTMP", endpoint |-> NoEndpoint]
ClearedConfig == [enabled |-> FALSE, protocol |-> "RTMP", endpoint |-> NoEndpoint]
SlotConfig    == Config \cup {NewConfig, ClearedConfig}

(* The auxiliary output: the output object with its service and reconnect  *)
(* handler, the encoders dedicated to it, the configuration and delay it   *)
(* was given.  An output object exists only with its service and handler.  *)
Auxiliary == [output : BOOLEAN, encoders : BOOLEAN, phase : Phase \ {"requested"},
              config : SlotConfig, delay : Delay]
NoAux == [output |-> FALSE, encoders |-> FALSE, phase |-> "off",
          config |-> ClearedConfig, delay |-> 0]

Frontend == [phase : Phase, exists : BOOLEAN, delay : Delay]

TypeOK ==
    /\ config \in [Role -> SlotConfig]
    /\ state \in [Role -> SlotState]
    /\ requested \in [Role -> BOOLEAN]
    /\ reconnects \in [Role -> 0..MaxReconnects]
    /\ frontendRole \in Role \cup {NoRole}
    /\ pendingBackup \in BOOLEAN
    /\ tracked \in Role \cup {NoRole}
    /\ delaySeconds \in Delay
    /\ aux \in Auxiliary
    /\ frontend \in Frontend
    /\ events \in Seq(Event)

Init ==
    /\ config = [r \in Role |-> NewConfig]
    /\ state = [r \in Role |-> "Disabled"]
    /\ requested = [r \in Role |-> FALSE]
    /\ reconnects = [r \in Role |-> 0]
    /\ frontendRole = NoRole
    /\ pendingBackup = FALSE
    /\ tracked = NoRole
    /\ delaySeconds = 0
    /\ aux = NoAux
    /\ frontend = [phase |-> "off", exists |-> FALSE, delay |-> 0]
    /\ events = <<>>

-----------------------------------------------------------------------------
(* What the code reads from OBS.  An output stays active until its stop is *)
(* complete; one that is connecting is not active.                         *)
FrontendActive == frontend.phase \in {"active", "stopping"}
AuxActive      == aux.phase \in {"active", "stopping"}

SlotActive(r) ==
    \/ frontendRole = r /\ FrontendActive
    \/ r = "Backup" /\ AuxActive

RestState(c) == IF c.enabled THEN "Idle" ELSE "Disabled"
Valid(c)     == c.enabled => c.endpoint \in Endpoint

(* obs_frontend_streaming_start: OBS ignores it unless the stream is off.  *)
StartFrontend ==
    frontend' = IF frontend.phase = "off" /\ Len(events) <= MaxBacklog
                THEN [frontend EXCEPT !.phase = "requested"]
                ELSE frontend

(* obs_frontend_streaming_stop: the stream stays active until OBS is done. *)
StopFrontend ==
    IF frontend.phase = "active"
    THEN /\ frontend' = [frontend EXCEPT !.phase = "stopping"]
         /\ events' = Append(events, "STOPPING")
    ELSE UNCHANGED <<frontend, events>>

(* Releasing the last reference to an output ends it, active or not, so a  *)
(* forced and an unforced release leave the same state.                    *)
ReleaseAuxiliary ==
    /\ pendingBackup' = FALSE
    /\ aux' = NoAux
    /\ reconnects' = [reconnects EXCEPT !["Backup"] = 0]

ReleaseFrontendTracking == tracked' = NoRole

-----------------------------------------------------------------------------
(* Configuration.                                                          *)

Accepts(r, c) == ~SlotActive(r) /\ Valid(c)

\* bug: the old auxiliary output survives a new configuration
ConfigureSlotsKeepingAux(new) ==
    /\ config' = [r \in Role |-> IF r \in DOMAIN new THEN new[r] ELSE config[r]]
    /\ state' = [r \in Role |-> IF r \in DOMAIN new THEN RestState(new[r]) ELSE state[r]]
    /\ UNCHANGED <<requested, reconnects, roles, outputs>>

(* configureSlot on every slot of DOMAIN new.                              *)
ConfigureSlots(new) ==
    /\ config' = [r \in Role |-> IF r \in DOMAIN new THEN new[r] ELSE config[r]]
    /\ state' = [r \in Role |-> IF r \in DOMAIN new THEN RestState(new[r]) ELSE state[r]]
    /\ IF "Backup" \in DOMAIN new
       THEN ReleaseAuxiliary
       ELSE UNCHANGED <<pendingBackup, aux, reconnects>>
    /\ UNCHANGED <<requested, frontendRole, tracked, delaySeconds, frontend, events>>

ConfigureOutput(r, c) ==
    /\ Accepts(r, c)
    /\ ConfigureSlots([x \in {r} |-> c])

(* configure: Primary first; a refusal of Backup leaves Primary changed.   *)
Configure(primary, backup) ==
    /\ primary.enabled \/ backup.enabled
    /\ Accepts("Primary", primary)
    /\ ConfigureSlots(IF Accepts("Backup", backup)
                      THEN [r \in Role |-> IF r = "Primary" THEN primary ELSE backup]
                      ELSE [r \in {"Primary"} |-> primary])

\* bug: the reconnect handler of the frontend stays connected
ClearConfigurationStillTracking ==
    /\ IF frontendRole # NoRole /\ FrontendActive
       THEN StopFrontend
       ELSE UNCHANGED <<frontend, events>>
    /\ ReleaseAuxiliary
    /\ frontendRole' = NoRole
    /\ config' = [r \in Role |-> ClearedConfig]
    /\ state' = [r \in Role |-> "Disabled"]
    /\ UNCHANGED <<requested, tracked, delaySeconds>>

ClearConfiguration ==
    /\ IF frontendRole # NoRole /\ FrontendActive
       THEN StopFrontend
       ELSE UNCHANGED <<frontend, events>>
    /\ ReleaseAuxiliary
    /\ ReleaseFrontendTracking
    /\ frontendRole' = NoRole
    /\ config' = [r \in Role |-> ClearedConfig]
    /\ state' = [r \in Role |-> "Disabled"]
    /\ UNCHANGED <<requested, delaySeconds>>

\* bug: an exact number of seconds is rounded up too
SetProgramDelayRoundedUp(d) ==
    /\ delaySeconds' = d + 1
    /\ UNCHANGED <<slots, frontendRole, pendingBackup, tracked, aux, frontend, events>>

(* An active output keeps its delay; a frontend output that does not exist *)
(* yet is not told.                                                        *)
SetProgramDelay(d) ==
    /\ delaySeconds' = d
    /\ frontend' = IF frontend.exists /\ ~FrontendActive
                   THEN [frontend EXCEPT !.delay = d]
                   ELSE frontend
    /\ aux' = IF aux.output /\ ~AuxActive THEN [aux EXCEPT !.delay = d] ELSE aux
    /\ UNCHANGED <<slots, frontendRole, pendingBackup, tracked, events>>

-----------------------------------------------------------------------------
(* Starting and stopping.                                                  *)

CreatedAux(phase) ==
    [output   |-> TRUE,
     encoders |-> config["Backup"].protocol = "SRT",
     phase    |-> phase,
     config   |-> config["Backup"],
     delay    |-> delaySeconds]

(* startAuxiliary without an active auxiliary output.  before is the state *)
(* of the slots when it is called; a failure that comes before             *)
(* obs_output_start leaves Backup as early says, later ones set it.        *)
StartAuxiliary(before, early) ==
    LET Leave(s, q) == /\ state' = [before EXCEPT !["Backup"] = s]
                       /\ requested' = [requested EXCEPT !["Backup"] = q]
    IN  /\ pendingBackup' = FALSE
        /\ reconnects' = [reconnects EXCEPT !["Backup"] = 0]
        /\ \/ \* frontend inactive; no encoders, no dedicated ones, no service
              aux' = NoAux /\ Leave(early.state, early.requested)
           \/ \* obs_output_create failed: dedicated encoders are kept
              /\ FrontendActive
              /\ aux' = [NoAux EXCEPT !.encoders = (config["Backup"].protocol = "SRT")]
              /\ Leave(early.state, early.requested)
           \/ \* obs_output_start failed: the stopped output is kept
              /\ FrontendActive
              /\ aux' = CreatedAux("off")
              /\ Leave("Error", FALSE)
           \/ /\ FrontendActive
              /\ aux' = CreatedAux("connecting")
              /\ Leave("Starting", TRUE)

StartPrimary ==
    /\ config["Primary"].enabled
    /\ ~FrontendActive /\ ~requested["Primary"]
    /\ frontendRole' = "Primary"
    /\ requested' = [requested EXCEPT !["Primary"] = TRUE]
    /\ state' = [state EXCEPT !["Primary"] = "Starting"]
    /\ StartFrontend
    /\ UNCHANGED <<config, reconnects, pendingBackup, tracked, delaySeconds, aux, events>>

(* The auxiliary output already runs.                                      *)
StartBackupAgain ==
    /\ config["Backup"].enabled
    /\ AuxActive
    /\ requested' = [requested EXCEPT !["Backup"] = TRUE]
    /\ UNCHANGED <<config, state, reconnects, roles, outputs>>

\* bug: waits by the state of the slot instead of the activity of the output
StartBackupBySlotState ==
    /\ config["Backup"].enabled
    /\ ~AuxActive
    /\ frontendRole = "Primary"
    /\ \/ /\ state["Primary"] # "Live"
          /\ requested' = [requested EXCEPT !["Backup"] = TRUE]
          /\ state' = [state EXCEPT !["Backup"] = "Starting"]
          /\ pendingBackup' = TRUE
          /\ UNCHANGED <<reconnects, aux>>
       \/ /\ state["Primary"] = "Live"
          /\ StartAuxiliary(state, [state |-> "Starting", requested |-> TRUE])
    /\ UNCHANGED <<config, frontendRole, tracked, delaySeconds, frontend, events>>

(* Primary owns the frontend: wait for its stream, or join it.             *)
StartBackupBesidePrimary ==
    /\ config["Backup"].enabled
    /\ ~AuxActive
    /\ frontendRole = "Primary"
    /\ \/ /\ ~FrontendActive
          /\ requested' = [requested EXCEPT !["Backup"] = TRUE]
          /\ state' = [state EXCEPT !["Backup"] = "Starting"]
          /\ pendingBackup' = TRUE
          /\ UNCHANGED <<reconnects, aux>>
       \/ /\ FrontendActive
          /\ StartAuxiliary(state, [state |-> "Starting", requested |-> TRUE])
    /\ UNCHANGED <<config, frontendRole, tracked, delaySeconds, frontend, events>>

\* bug: takes the OBS stream while somebody streams on it
StartBackupOnAnyFrontend ==
    /\ config["Backup"].enabled
    /\ ~AuxActive
    /\ frontendRole # "Primary"
    /\ frontendRole' = "Backup"
    /\ requested' = [requested EXCEPT !["Backup"] = TRUE]
    /\ state' = [state EXCEPT !["Backup"] = "Starting"]
    /\ StartFrontend
    /\ UNCHANGED <<config, reconnects, pendingBackup, tracked, delaySeconds, aux, events>>

StartBackupOnFrontend ==
    /\ config["Backup"].enabled
    /\ ~AuxActive
    /\ frontendRole # "Primary"
    /\ ~FrontendActive
    /\ frontendRole' = "Backup"
    /\ requested' = [requested EXCEPT !["Backup"] = TRUE]
    /\ state' = [state EXCEPT !["Backup"] = "Starting"]
    /\ StartFrontend
    /\ UNCHANGED <<config, reconnects, pendingBackup, tracked, delaySeconds, aux, events>>

StopPrimary ==
    /\ requested' = [requested EXCEPT !["Primary"] = FALSE]
    /\ \/ /\ frontendRole = "Primary"
          /\ pendingBackup' = FALSE
          /\ \/ /\ FrontendActive
                /\ state' = [state EXCEPT !["Primary"] = "Stopping"]
                /\ StopFrontend
             \/ /\ ~FrontendActive
                /\ state' = [state EXCEPT !["Primary"] = "Idle"]
                /\ UNCHANGED <<frontend, events>>
       \/ /\ frontendRole # "Primary"
          /\ UNCHANGED <<state, pendingBackup, frontend, events>>
    /\ UNCHANGED <<config, reconnects, frontendRole, tracked, delaySeconds, aux>>

\* bug: a waiting Backup is not withdrawn
StopBackupStillPending ==
    /\ requested' = [requested EXCEPT !["Backup"] = FALSE]
    /\ state' = [state EXCEPT !["Backup"] = "Idle"]
    /\ UNCHANGED <<config, reconnects, roles, outputs>>

(* obs_output_stop acts on an active output only.                          *)
StopBackup ==
    /\ pendingBackup' = FALSE
    /\ requested' = [requested EXCEPT !["Backup"] = FALSE]
    /\ state' = [state EXCEPT !["Backup"] =
                    IF SlotActive("Backup") THEN "Stopping" ELSE "Idle"]
    /\ \/ /\ frontendRole = "Backup" /\ FrontendActive
          /\ StopFrontend
          /\ UNCHANGED aux
       \/ /\ frontendRole # "Backup" /\ AuxActive
          /\ aux' = [aux EXCEPT !.phase = "stopping"]
          /\ UNCHANGED <<frontend, events>>
       \/ /\ ~(frontendRole = "Backup" /\ FrontendActive)
          /\ ~(frontendRole # "Backup" /\ AuxActive)
          /\ UNCHANGED <<aux, frontend, events>>
    /\ UNCHANGED <<config, reconnects, frontendRole, tracked, delaySeconds>>

\* bug: the auxiliary output outlives the manager's role
ShutdownKeepingAux ==
    /\ requested' = [r \in Role |-> FALSE]
    /\ pendingBackup' = FALSE
    /\ frontendRole' = NoRole
    /\ ReleaseFrontendTracking
    /\ UNCHANGED <<config, state, reconnects, delaySeconds, outputs>>

Shutdown ==
    /\ requested' = [r \in Role |-> FALSE]
    /\ ReleaseAuxiliary
    /\ IF frontendRole # NoRole /\ FrontendActive
       THEN StopFrontend
       ELSE UNCHANGED <<frontend, events>>
    /\ ReleaseFrontendTracking
    /\ frontendRole' = NoRole
    /\ UNCHANGED <<config, state, delaySeconds>>

(* health: the poll completes a stop OBS has finished.                     *)
HasFrontendOutput(r) == frontendRole = r /\ frontend.exists  \* bug: Backup's own output

HasOutput(r) == \/ frontendRole = r /\ frontend.exists
                \/ r = "Backup" /\ frontendRole # "Backup" /\ aux.output

(* The state that health shows of a slot: Live while its output is active, *)
(* else the slot's own.  Reconnecting and Error of OBS may take its place. *)
Shown(r) == IF HasOutput(r) /\ SlotActive(r) THEN "Live" ELSE state[r]

Health ==
    LET stopped == {r \in Role : HasOutput(r) /\ ~SlotActive(r) /\ state[r] = "Stopping"}
    IN  /\ stopped # {}
        /\ state' = [r \in Role |-> IF r \in stopped THEN RestState(config[r]) ELSE state[r]]
        /\ UNCHANGED <<config, requested, reconnects, roles, outputs>>

-----------------------------------------------------------------------------
(* Frontend events, on the UI thread.                                      *)

(* STREAMING_STARTING: by now OBS has created its output.                  *)
OnStreamingStarting ==
    LET role == IF frontendRole = NoRole THEN "Primary" ELSE frontendRole
    IN  /\ frontend.phase = "requested"
        /\ frontend' = [frontend EXCEPT !.phase = "connecting", !.exists = TRUE]
        /\ frontendRole' = role
        /\ requested' = [requested EXCEPT ![role] = TRUE]
        /\ state' = [state EXCEPT ![role] = "Starting"]
        /\ tracked' = role
        /\ UNCHANGED <<config, reconnects, pendingBackup, delaySeconds, aux, events>>

Deliver(e) == /\ events # <<>>
              /\ Head(events) = e
              /\ events' = Tail(events)
              /\ UNCHANGED frontend

\* bug: the waiting Backup is forgotten
OnStreamingStartedAlone ==
    /\ Deliver("STARTED")
    /\ state' = IF frontendRole = NoRole
                THEN state
                ELSE [state EXCEPT ![frontendRole] = "Live"]
    /\ UNCHANGED <<config, requested, reconnects, roles, aux>>

OnStreamingStarted ==
    /\ Deliver("STARTED")
    /\ \/ /\ frontendRole = NoRole
          /\ UNCHANGED <<state, requested, reconnects, pendingBackup, aux>>
       \/ /\ frontendRole # NoRole
          /\ LET live == [state EXCEPT ![frontendRole] = "Live"]
             IN  \/ /\ pendingBackup /\ frontendRole = "Primary" /\ ~AuxActive
                    /\ StartAuxiliary(live, [state |-> "Error", requested |-> FALSE])
                 \/ /\ ~(pendingBackup /\ frontendRole = "Primary" /\ ~AuxActive)
                    /\ state' = live
                    /\ pendingBackup' = (pendingBackup /\ frontendRole # "Primary")
                    /\ UNCHANGED <<requested, reconnects, aux>>
    /\ UNCHANGED <<config, frontendRole, tracked, delaySeconds>>

OnStreamingStopping ==
    /\ Deliver("STOPPING")
    /\ state' = IF frontendRole = NoRole
                THEN state
                ELSE [state EXCEPT ![frontendRole] = "Stopping"]
    /\ UNCHANGED <<config, requested, reconnects, roles, aux>>

\* bug: only a stop that was asked for resets the slot
OnStreamingStoppedIfStopping ==
    /\ Deliver("STOPPED")
    /\ \/ /\ ~(frontendRole # NoRole /\ state[frontendRole] = "Stopping")
          /\ UNCHANGED <<state, requested, pendingBackup, tracked>>
       \/ /\ frontendRole # NoRole /\ state[frontendRole] = "Stopping"
          /\ requested' = [requested EXCEPT ![frontendRole] = FALSE]
          /\ state' = [state EXCEPT ![frontendRole] = RestState(config[frontendRole])]
          /\ pendingBackup' = FALSE
          /\ ReleaseFrontendTracking
    /\ UNCHANGED <<config, reconnects, frontendRole, delaySeconds, aux>>

OnStreamingStopped ==
    /\ Deliver("STOPPED")
    /\ \/ /\ frontendRole = NoRole
          /\ UNCHANGED <<state, requested, pendingBackup, tracked>>
       \/ /\ frontendRole # NoRole
          /\ requested' = [requested EXCEPT ![frontendRole] = FALSE]
          /\ state' = [state EXCEPT ![frontendRole] = RestState(config[frontendRole])]
          /\ pendingBackup' = FALSE
          /\ ReleaseFrontendTracking
    /\ UNCHANGED <<config, reconnects, frontendRole, delaySeconds, aux>>

-----------------------------------------------------------------------------
(* OBS: the activity of the outputs, on threads of its own.                *)

FrontendMoves(from, to) ==
    /\ frontend.phase = from
    /\ frontend' = [frontend EXCEPT !.phase = to]
    /\ UNCHANGED <<slots, roles, aux>>

(* The Start and Stop Streaming buttons of OBS itself.                     *)
UserStarts == frontend.phase = "off" /\ StartFrontend
              /\ UNCHANGED <<slots, roles, aux, events>>
UserStops  == frontend.phase = "active" /\ StopFrontend /\ UNCHANGED <<slots, roles, aux>>

(* A start may be refused without any event, and a connection attempt may  *)
(* fail with or without STREAMING_STOPPED.                                 *)
FrontendRefused   == FrontendMoves("requested", "off") /\ UNCHANGED events
FrontendConnected == FrontendMoves("connecting", "active")
                     /\ events' = Append(events, "STARTED")
FrontendFailed    == FrontendMoves("connecting", "off")
                     /\ events' \in {events, Append(events, "STOPPED")}
FrontendDropped   == FrontendMoves("active", "off")
                     /\ events' = Append(events, "STOPPED")
FrontendStopped   == FrontendMoves("stopping", "off")
                     /\ events' = Append(events, "STOPPED")

AuxMoves(from, to) ==
    /\ aux.phase \in from
    /\ aux' = [aux EXCEPT !.phase = to]
    /\ UNCHANGED <<slots, roles, frontend, events>>

AuxConnected == AuxMoves({"connecting"}, "active")
AuxDied      == AuxMoves({"connecting", "active"}, "off")
AuxStopped   == AuxMoves({"stopping"}, "off")

(* onReconnect, on an output thread.                                       *)
OnReconnect(r) ==
    /\ \/ tracked = r /\ frontend.phase = "active"
       \/ r = "Backup" /\ aux.phase = "active"
    /\ reconnects[r] < MaxReconnects
    /\ reconnects' = [reconnects EXCEPT ![r] = @ + 1]
    /\ UNCHANGED <<config, state, requested, roles, outputs>>

-----------------------------------------------------------------------------
PluginCall ==
    \/ \E r \in Role, c \in Config : ConfigureOutput(r, c)
    \/ \E primary, backup \in Config : Configure(primary, backup)
    \/ ClearConfiguration
    \/ \E d \in Delay : SetProgramDelay(d)
    \/ StartPrimary
    \/ StartBackupAgain
    \/ StartBackupBesidePrimary
    \/ StartBackupOnFrontend
    \/ StopPrimary
    \/ StopBackup
    \/ Shutdown
    \/ Health

EventDelivery ==
    \/ OnStreamingStarting
    \/ OnStreamingStarted
    \/ OnStreamingStopping
    \/ OnStreamingStopped

ObsStep ==
    \/ UserStarts
    \/ UserStops
    \/ FrontendRefused
    \/ FrontendConnected
    \/ FrontendFailed
    \/ FrontendDropped
    \/ FrontendStopped
    \/ AuxConnected
    \/ AuxDied
    \/ AuxStopped
    \/ \E r \in Role : OnReconnect(r)

Next == PluginCall \/ EventDelivery \/ ObsStep

Spec == Init /\ [][Next]_vars

-----------------------------------------------------------------------------
(* Safety.                                                                 *)

(* Backup waits only behind Primary, and nothing that changes its slot     *)
(* leaves it waiting: a disabled, idle or withdrawn Backup never starts by *)
(* itself when Primary goes live (onStreamingStarted).                     *)
PendingBackupIsWanted ==
    pendingBackup => /\ frontendRole = "Primary"
                     /\ config["Backup"].enabled
                     /\ requested["Backup"]
                     /\ state["Backup"] = "Starting"

(* Backup never holds the OBS stream and auxiliary resources at once: one  *)
(* slot would send twice, and sendCaption would queue each caption twice.  *)
OnePathPerSlot ==
    aux.output \/ aux.encoders => frontendRole = "Primary"

(* What the auxiliary output sends is what the slot shows: a configuration *)
(* accepted while the output is connecting replaces the output, and the    *)
(* dedicated encoders match the protocol.  About to go live it has the     *)
(* current delay, however the delay changed since (setProgramDelay).       *)
AuxFollowsSlot ==
    /\ aux.output => /\ aux.config = config["Backup"]
                     /\ aux.config.enabled
                     /\ aux.encoders = (aux.config.protocol = "SRT")
    /\ aux.phase = "connecting" => aux.delay = delaySeconds

(* No wakeup is lost: while Backup waits and the stream is up, the event   *)
(* that starts Backup is still to be delivered.                            *)
Queued(e) == \E i \in DOMAIN events : events[i] = e
NoLostWakeup ==
    pendingBackup /\ FrontendActive => Queued("STARTED")

(* Health shows Live only for a slot that streams, or whose stream has just *)
(* ended with its STOPPED still to be delivered.  Two calls break that: a  *)
(* shutdown, after which nothing is shown, and startPrimary, which takes   *)
(* the stream of a Backup whose STOPPED is on its way.  The event then     *)
(* resets Primary, and Backup goes on showing Live without a stream.       *)
ShownFalsely(r) ==
    /\ Shown(r) = "Live" /\ ~SlotActive(r)
    /\ ~(frontendRole = r /\ Queued("STOPPED"))
LiveMeansStreaming ==
    [][\A r \in Role : ShownFalsely(r)' =>
          \/ ShownFalsely(r)
          \/ Shutdown
          \/ r = "Backup" /\ frontendRole = "Backup" /\ StartPrimary]_vars

(* The reconnects of OBS's stream are counted for the slot that owns it,   *)
(* or for none: whatever moves or drops the role, the handler is withdrawn *)
(* with it.  One call does not: startPrimary takes the stream that is      *)
(* connecting for Backup and leaves Backup's handler, which counts what    *)
(* are now Primary's reconnects until the stream stops or starts again.    *)
TrackingFollowsOwner ==
    [][\/ tracked' \in {NoRole, frontendRole'}
       \/ UNCHANGED <<tracked, frontendRole>>
       \/ tracked = "Backup" /\ frontendRole = "Backup" /\ StartPrimary]_vars

(* The stream OBS runs never changes hands: while it is active its owner   *)
(* may be dropped (clearConfiguration, shutdown), never replaced, so a     *)
(* viewer of one destination is never reported under the other slot.       *)
ActiveStreamKeepsOwner ==
    [][FrontendActive /\ FrontendActive' => frontendRole' \in {frontendRole, NoRole}]_vars

(* The manager keeps what the plugin counts on: OutputSlots, with the slot  *)
(* states, delays, encoders and the queue of events hidden.                *)
Slots == INSTANCE OutputSlots WITH
    SlotConfigs <- Config, FirstConfig <- NewConfig, EmptyConfig <- ClearedConfig,
    NoOwner <- NoRole, owner <- frontendRole, waiting <- pendingBackup,
    stream <- frontend.phase, aux <- aux.phase
SlotsSpec == Slots!SlotsSpec

-----------------------------------------------------------------------------
(* Liveness.  The UI thread keeps delivering events and the one-second     *)
(* health timer keeps polling; OBS completes what it was asked to stop.    *)
(* Nothing is assumed of users, of connection attempts or of the network.  *)

Fairness ==
    /\ WF_vars(OnStreamingStarted)
    /\ WF_vars(OnStreamingStopping)
    /\ WF_vars(OnStreamingStopped)
    /\ WF_vars(FrontendStopped)
    /\ WF_vars(AuxStopped)
    /\ WF_vars(Health)

FairSpec == Spec /\ Fairness

(* A Backup that waits for a stream which is up is started or given up;    *)
(* it does not keep waiting through the stream (onStreamingStarted).       *)
PendingBackupResolved == (pendingBackup /\ FrontendActive) ~> ~pendingBackup

(* A stop ends.  The owner of the OBS stream leaves Stopping, and so does  *)
(* Backup when its auxiliary output has stopped, which OBS announces by no *)
(* frontend event: only the poll of readHealth can notice.                 *)
StopCompletes ==
    /\ \A r \in Role : (frontendRole = r /\ state[r] = "Stopping")
                         ~> (frontendRole # r \/ state[r] # "Stopping")
    /\ aux.phase = "stopping" ~> (state["Backup"] # "Stopping" \/ ~aux.output)

=============================================================================
