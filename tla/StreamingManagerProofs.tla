----------------------- MODULE StreamingManagerProofs -----------------------
(***************************************************************************)
(* The invariants of StreamingManager, for every set of configurations,    *)
(* every set of delays and every bound.                                    *)
(***************************************************************************)
EXTENDS StreamingManager, SequenceTheorems, TLAPS

USE RoleAssumption DEF Role

-----------------------------------------------------------------------------
(* Configurations and records.                                             *)

(* Every configuration a slot can hold is a configuration record, so its   *)
(* fields have their types.                                                *)
LEMMA SlotConfigType == SlotConfig \subseteq AnyConfig
<1>1. NewConfig \in AnyConfig
  BY Z3 DEF AnyConfig, NewConfig, Protocol
<1>2. ClearedConfig \in AnyConfig
  BY Z3 DEF AnyConfig, ClearedConfig, Protocol
<1> QED
  BY <1>1, <1>2, ConfigAssumption DEF SlotConfig

(* The empty auxiliary output, and one made for Backup's slot in any phase *)
(* but "requested", are well formed.                                       *)
LEMMA AuxType ==
    ASSUME TypeOK
    PROVE  /\ NoAux \in Auxiliary
           /\ [NoAux EXCEPT !.encoders = (config["Backup"].protocol = "SRT")] \in Auxiliary
           /\ \A p \in Phase \ {"requested"} : CreatedAux(p) \in Auxiliary
BY DelayAssumption DEF TypeOK, NoAux, Auxiliary, CreatedAux, Phase, SlotConfig

(* Clearing Backup's reconnect counter keeps the counters in range.        *)
LEMMA ClearedCounterType ==
    ASSUME TypeOK
    PROVE  [reconnects EXCEPT !["Backup"] = 0] \in [Role -> 0..MaxReconnects]
<1>1. reconnects \in [Role -> 0..MaxReconnects]
  BY DEF TypeOK
<1> QED
  BY <1>1, BoundAssumption

(* The rest state of a slot is a slot state.                               *)
LEMMA RestStateType == \A c : RestState(c) \in SlotState
BY DEF RestState, SlotState

(* The next undelivered event is an event, and delivering or raising an    *)
(* event keeps the queue a sequence of events.                             *)
LEMMA EventQueueType ==
    ASSUME events \in Seq(Event)
    PROVE  /\ events # <<>> => Tail(events) \in Seq(Event)
           /\ \A e \in Event : Append(events, e) \in Seq(Event)
BY HeadTailProperties, AppendProperties

-----------------------------------------------------------------------------
(* Type correctness.                                                       *)

(* Asking OBS for a start keeps the frontend record well typed.            *)
LEMMA StartFrontendType ==
    ASSUME TypeOK, StartFrontend
    PROVE  frontend' \in Frontend
BY DEF TypeOK, StartFrontend, Frontend, Phase

(* Asking OBS for a stop keeps the frontend record and the events well     *)
(* typed.                                                                  *)
LEMMA StopFrontendType ==
    ASSUME TypeOK, StopFrontend
    PROVE  frontend' \in Frontend /\ events' \in Seq(Event)
BY EventQueueType DEF TypeOK, StopFrontend, Frontend, Phase, Event

(* However startAuxiliary ends, the slots and the auxiliary output stay    *)
(* well typed.                                                             *)
LEMMA StartAuxiliaryType ==
    ASSUME TypeOK,
           NEW before \in [Role -> SlotState],
           NEW early \in [state : SlotState, requested : BOOLEAN],
           StartAuxiliary(before, early)
    PROVE  /\ state' \in [Role -> SlotState]
           /\ requested' \in [Role -> BOOLEAN]
           /\ reconnects' \in [Role -> 0..MaxReconnects]
           /\ pendingBackup' \in BOOLEAN
           /\ aux' \in Auxiliary
<1>1. NoAux \in Auxiliary /\ CreatedAux("off") \in Auxiliary
      /\ CreatedAux("connecting") \in Auxiliary
      /\ [NoAux EXCEPT !.encoders = (config["Backup"].protocol = "SRT")] \in Auxiliary
  BY AuxType DEF Phase
<1>2. aux' \in Auxiliary
  BY <1>1 DEF StartAuxiliary
<1>3. \A s \in SlotState : [before EXCEPT !["Backup"] = s] \in [Role -> SlotState]
  OBVIOUS
<1>4. \A q \in BOOLEAN : [requested EXCEPT !["Backup"] = q] \in [Role -> BOOLEAN]
  BY DEF TypeOK
<1>5. early.state \in SlotState /\ early.requested \in BOOLEAN
  OBVIOUS
<1>6. state' \in [Role -> SlotState]
  BY <1>3, <1>5 DEF StartAuxiliary, SlotState
<1>7. requested' \in [Role -> BOOLEAN]
  BY <1>4, <1>5 DEF StartAuxiliary
<1> QED
  BY <1>2, <1>6, <1>7, ClearedCounterType DEF StartAuxiliary

(* Configuring any set of slots with accepted configurations keeps the     *)
(* types.                                                                  *)
LEMMA ConfigureSlotsType ==
    ASSUME TypeOK,
           NEW new, \A r \in DOMAIN new : new[r] \in Config,
           ConfigureSlots(new)
    PROVE  TypeOK'
<1>1. config' \in [Role -> SlotConfig]
  BY DEF ConfigureSlots, TypeOK, SlotConfig
<1>2. state' \in [Role -> SlotState]
  BY RestStateType DEF ConfigureSlots, TypeOK
<1>3. pendingBackup' \in BOOLEAN /\ aux' \in Auxiliary
  BY AuxType DEF ConfigureSlots, ReleaseAuxiliary, TypeOK
<1>4. reconnects' \in [Role -> 0..MaxReconnects]
  BY ClearedCounterType DEF ConfigureSlots, ReleaseAuxiliary, TypeOK
<1> QED
  BY <1>1, <1>2, <1>3, <1>4 DEF ConfigureSlots, TypeOK

(* A new manager is well typed.                                            *)
LEMMA TypeOKInit == Init => TypeOK
<1> SUFFICES ASSUME Init PROVE TypeOK
  OBVIOUS
<1>1. config \in [Role -> SlotConfig] /\ state \in [Role -> SlotState]
  BY DEF Init, SlotConfig, SlotState
<1>2. reconnects \in [Role -> 0..MaxReconnects]
  BY BoundAssumption DEF Init
<1>3. aux \in Auxiliary
  BY DelayAssumption DEF Init, Auxiliary, NoAux, Phase, SlotConfig
<1>4. frontend \in Frontend /\ delaySeconds \in Delay
  BY DelayAssumption DEF Init, Frontend, Phase
<1>5. events \in Seq(Event)
  BY DEF Init
<1> QED
  BY <1>1, <1>2, <1>3, <1>4, <1>5 DEF Init, TypeOK

(* One step per method of the manager.                                     *)
LEMMA TypeOKPluginCall == TypeOK /\ PluginCall => TypeOK'
<1> SUFFICES ASSUME TypeOK, PluginCall PROVE TypeOK'
  OBVIOUS
<1> USE AuxType, ClearedCounterType, RestStateType
<1>1. ASSUME NEW r \in Role, NEW c \in Config, ConfigureOutput(r, c) PROVE TypeOK'
  BY <1>1, ConfigureSlotsType DEF ConfigureOutput
<1>2. ASSUME NEW p \in Config, NEW b \in Config, Configure(p, b) PROVE TypeOK'
  <2> DEFINE new == IF Accepts("Backup", b)
                    THEN [r \in Role |-> IF r = "Primary" THEN p ELSE b]
                    ELSE [r \in {"Primary"} |-> p]
  <2>1. \A r \in DOMAIN new : new[r] \in Config
    OBVIOUS
  <2>2. ConfigureSlots(new)
    BY <1>2 DEF Configure
  <2> QED
    BY <2>1, <2>2, ConfigureSlotsType
<1>3. CASE ClearConfiguration
  <2>1. frontend' \in Frontend /\ events' \in Seq(Event)
    BY <1>3, StopFrontendType DEF ClearConfiguration, TypeOK
  <2>2. config' \in [Role -> SlotConfig] /\ state' \in [Role -> SlotState]
    BY <1>3 DEF ClearConfiguration, SlotConfig, SlotState
  <2> QED
    BY <1>3, <2>1, <2>2
    DEF ClearConfiguration, ReleaseAuxiliary, ReleaseFrontendTracking, TypeOK
<1>4. ASSUME NEW d \in Delay, SetProgramDelay(d) PROVE TypeOK'
  <2>1. frontend' \in Frontend
    BY <1>4 DEF SetProgramDelay, TypeOK, Frontend
  <2>2. aux' \in Auxiliary
    BY <1>4 DEF SetProgramDelay, TypeOK, Auxiliary
  <2> QED
    BY <1>4, <2>1, <2>2 DEF SetProgramDelay, slots, TypeOK
<1>5. CASE StartPrimary
  BY <1>5, StartFrontendType DEF StartPrimary, TypeOK, SlotState
<1>6. CASE StartBackupAgain
  BY <1>6 DEF StartBackupAgain, roles, outputs, TypeOK
<1>7. CASE StartBackupBesidePrimary
  <2>1. CASE FrontendActive
    <3>1. [state |-> "Starting", requested |-> TRUE]
             \in [state : SlotState, requested : BOOLEAN]
      BY DEF SlotState
    <3>2. state \in [Role -> SlotState]
      BY DEF TypeOK
    <3>3. StartAuxiliary(state, [state |-> "Starting", requested |-> TRUE])
      BY <1>7, <2>1 DEF StartBackupBesidePrimary
    <3> QED
      BY <1>7, <3>1, <3>2, <3>3, StartAuxiliaryType DEF StartBackupBesidePrimary, TypeOK
  <2>2. CASE ~FrontendActive
    BY <1>7, <2>2 DEF StartBackupBesidePrimary, TypeOK, SlotState
  <2> QED
    BY <2>1, <2>2
<1>8. CASE StartBackupOnFrontend
  BY <1>8, StartFrontendType DEF StartBackupOnFrontend, TypeOK, SlotState
<1>9. CASE StopPrimary
  <2>1. frontend' \in Frontend /\ events' \in Seq(Event)
    BY <1>9, StopFrontendType DEF StopPrimary, TypeOK
  <2>2. state' \in [Role -> SlotState]
    BY <1>9 DEF StopPrimary, TypeOK, SlotState
  <2> QED
    BY <1>9, <2>1, <2>2 DEF StopPrimary, TypeOK
<1>10. CASE StopBackup
  <2>1. frontend' \in Frontend /\ events' \in Seq(Event)
    BY <1>10, StopFrontendType DEF StopBackup, TypeOK
  <2>2. state' \in [Role -> SlotState]
    BY <1>10 DEF StopBackup, TypeOK, SlotState
  <2>3. aux' \in Auxiliary
    BY <1>10 DEF StopBackup, TypeOK, Auxiliary, Phase
  <2> QED
    BY <1>10, <2>1, <2>2, <2>3 DEF StopBackup, TypeOK
<1>11. CASE Shutdown
  <2>1. frontend' \in Frontend /\ events' \in Seq(Event)
    BY <1>11, StopFrontendType DEF Shutdown, TypeOK
  <2> QED
    BY <1>11, <2>1 DEF Shutdown, ReleaseAuxiliary, ReleaseFrontendTracking, TypeOK
<1>12. CASE Health
  BY <1>12 DEF Health, roles, outputs, TypeOK
<1> QED
  BY <1>1, <1>2, <1>3, <1>4, <1>5, <1>6, <1>7, <1>8, <1>9, <1>10, <1>11, <1>12 DEF PluginCall

(* One step per frontend event.                                            *)
LEMMA TypeOKEventDelivery == TypeOK /\ EventDelivery => TypeOK'
<1> SUFFICES ASSUME TypeOK, EventDelivery PROVE TypeOK'
  OBVIOUS
<1>1. CASE OnStreamingStarting
  <2>1. frontend' \in Frontend
    BY <1>1 DEF OnStreamingStarting, TypeOK, Frontend, Phase
  <2> QED
    BY <1>1, <2>1 DEF OnStreamingStarting, TypeOK, SlotState
<1>2. CASE OnStreamingStarted
  <2> DEFINE live == [state EXCEPT ![frontendRole] = "Live"]
  <2>1. events' \in Seq(Event) /\ frontend' \in Frontend
    BY <1>2, EventQueueType DEF OnStreamingStarted, Deliver, TypeOK
  <2>2. live \in [Role -> SlotState]
    BY DEF TypeOK, SlotState
  <2>3. /\ state' \in [Role -> SlotState]
        /\ requested' \in [Role -> BOOLEAN]
        /\ reconnects' \in [Role -> 0..MaxReconnects]
        /\ pendingBackup' \in BOOLEAN
        /\ aux' \in Auxiliary
    <3>1. CASE frontendRole = NoRole
      BY <1>2, <3>1 DEF OnStreamingStarted, TypeOK
    <3>2. CASE frontendRole # NoRole /\ pendingBackup /\ frontendRole = "Primary" /\ ~AuxActive
      <4>1. StartAuxiliary(live, [state |-> "Error", requested |-> FALSE])
        BY <1>2, <3>2 DEF OnStreamingStarted
      <4>2. [state |-> "Error", requested |-> FALSE] \in [state : SlotState, requested : BOOLEAN]
        BY DEF SlotState
      <4> QED
        BY <2>2, <4>1, <4>2, StartAuxiliaryType
    <3>3. CASE /\ frontendRole # NoRole
               /\ ~(pendingBackup /\ frontendRole = "Primary" /\ ~AuxActive)
      <4>1. /\ state' = live
            /\ pendingBackup' = (pendingBackup /\ frontendRole # "Primary")
            /\ UNCHANGED <<requested, reconnects, aux>>
        BY <1>2, <3>3 DEF OnStreamingStarted
      <4>2. pendingBackup' \in BOOLEAN
        BY <4>1, Zenon
      <4> QED
        BY <2>2, <4>1, <4>2 DEF TypeOK
    <3> QED
      BY <3>1, <3>2, <3>3, Zenon
  <2> QED
    BY <1>2, <2>1, <2>3 DEF OnStreamingStarted, TypeOK
<1>3. CASE OnStreamingStopping
  <2>1. events' \in Seq(Event) /\ frontend' \in Frontend
    BY <1>3, EventQueueType DEF OnStreamingStopping, Deliver, TypeOK
  <2>2. state' \in [Role -> SlotState]
    BY <1>3 DEF OnStreamingStopping, TypeOK, SlotState
  <2> QED
    BY <1>3, <2>1, <2>2 DEF OnStreamingStopping, roles, TypeOK
<1>4. CASE OnStreamingStopped
  <2>1. events' \in Seq(Event) /\ frontend' \in Frontend
    BY <1>4, EventQueueType DEF OnStreamingStopped, Deliver, TypeOK
  <2>2. state' \in [Role -> SlotState]
    BY <1>4, RestStateType DEF OnStreamingStopped, TypeOK
  <2> QED
    BY <1>4, <2>1, <2>2 DEF OnStreamingStopped, ReleaseFrontendTracking, TypeOK
<1> QED
  BY <1>1, <1>2, <1>3, <1>4 DEF EventDelivery

(* One step per change OBS makes by itself.                                *)
LEMMA TypeOKObsStep == TypeOK /\ ObsStep => TypeOK'
<1> SUFFICES ASSUME TypeOK, ObsStep PROVE TypeOK'
  OBVIOUS
<1>1. CASE UserStarts
  BY <1>1, StartFrontendType DEF UserStarts, slots, roles, TypeOK
<1>2. CASE UserStops
  BY <1>2, StopFrontendType DEF UserStops, slots, roles, TypeOK
<1>3. ASSUME NEW from, NEW to \in Phase, FrontendMoves(from, to), events' \in Seq(Event)
      PROVE  TypeOK'
  <2>1. frontend' \in Frontend
    BY <1>3 DEF FrontendMoves, TypeOK, Frontend
  <2> QED
    BY <1>3, <2>1 DEF FrontendMoves, slots, roles, TypeOK
<1>4. CASE FrontendRefused
  BY <1>3, <1>4 DEF FrontendRefused, Phase, TypeOK
<1>5. CASE FrontendConnected
  BY <1>3, <1>5, EventQueueType DEF FrontendConnected, Phase, Event, TypeOK
<1>6. CASE FrontendFailed
  BY <1>3, <1>6, EventQueueType DEF FrontendFailed, Phase, Event, TypeOK
<1>7. CASE FrontendDropped
  BY <1>3, <1>7, EventQueueType DEF FrontendDropped, Phase, Event, TypeOK
<1>8. CASE FrontendStopped
  BY <1>3, <1>8, EventQueueType DEF FrontendStopped, Phase, Event, TypeOK
<1>9. ASSUME NEW from, NEW to \in Phase \ {"requested"}, AuxMoves(from, to)
      PROVE  TypeOK'
  <2>1. aux' \in Auxiliary
    BY <1>9 DEF AuxMoves, TypeOK, Auxiliary
  <2> QED
    BY <1>9, <2>1 DEF AuxMoves, slots, roles, TypeOK
<1>10. CASE AuxConnected \/ AuxDied \/ AuxStopped
  BY <1>9, <1>10 DEF AuxConnected, AuxDied, AuxStopped, Phase
<1>11. ASSUME NEW r \in Role, OnReconnect(r) PROVE TypeOK'
  <2>1. reconnects \in [Role -> 0..MaxReconnects]
    BY DEF TypeOK
  <2>2. reconnects' \in [Role -> 0..MaxReconnects]
    BY <1>11, <2>1, BoundAssumption DEF OnReconnect
  <2> QED
    BY <1>11, <2>2 DEF OnReconnect, roles, outputs, TypeOK
<1> QED
  BY <1>1, <1>2, <1>4, <1>5, <1>6, <1>7, <1>8, <1>10, <1>11 DEF ObsStep

(* No step breaks the types.                                               *)
LEMMA TypeOKStep == TypeOK /\ [Next]_vars => TypeOK'
<1>1. TypeOK /\ UNCHANGED vars => TypeOK'
  BY DEF TypeOK, vars, slots, roles, outputs
<1> QED
  BY <1>1, TypeOKPluginCall, TypeOKEventDelivery, TypeOKObsStep DEF Next

(* Every reachable state of the manager is well typed: no sequence of      *)
(* calls, events and output changes leaves a slot, a role or the auxiliary *)
(* output half updated.                                                    *)
THEOREM TypeCorrect == Spec => []TypeOK
BY TypeOKInit, TypeOKStep, PTL DEF Spec

-----------------------------------------------------------------------------
(* Ownership: what the slots, the roles and the auxiliary output owe to    *)
(* each other.  The invariants that the runs check are not inductive one   *)
(* by one: an auxiliary output has the slot's configuration because it is  *)
(* created only for a wanted Backup, on the role of Primary, and because   *)
(* an output without an object has no activity.                            *)

NoActivityWithoutOutput == aux.phase # "off" => aux.output

(* While Backup has an output of its own its slot is not Live: only the    *)
(* OBS stream sets that.                                                   *)
AuxiliaryIsNotLive == aux.output => state["Backup"] # "Live"

(* A handler counts for the owner, or is Backup's on a stream Primary took.*)
HandlerHasOwner ==
    /\ tracked # NoRole => frontendRole # NoRole
    /\ tracked = "Primary" => frontendRole = "Primary"

Ownership ==
    /\ PendingBackupIsWanted
    /\ OnePathPerSlot
    /\ AuxFollowsSlot
    /\ HandlerHasOwner
    /\ NoActivityWithoutOutput
    /\ AuxiliaryIsNotLive

USE DEF PendingBackupIsWanted, OnePathPerSlot, AuxFollowsSlot,
        HandlerHasOwner, NoActivityWithoutOutput, AuxiliaryIsNotLive

(* A new manager owns nothing, so ownership is consistent.                 *)
LEMMA OwnershipInit == Init => Ownership
BY DEF Init, Ownership, NoAux

(* The result of startAuxiliary, whatever fails: Backup no longer waits,   *)
(* and what is left of an auxiliary output follows the slot.               *)
LEMMA StartAuxiliaryResult ==
    ASSUME TypeOK, Ownership, frontendRole = "Primary", config["Backup"].enabled,
           NEW before \in [Role -> SlotState], NEW early, StartAuxiliary(before, early),
           UNCHANGED <<config, frontendRole, tracked, delaySeconds>>
    PROVE  Ownership'
<1>1. CASE aux' = NoAux
  BY <1>1 DEF Ownership, StartAuxiliary, NoAux
<1>2. CASE aux' = [NoAux EXCEPT !.encoders = (config["Backup"].protocol = "SRT")]
  BY <1>2 DEF Ownership, StartAuxiliary, NoAux
<1>3. CASE aux' = CreatedAux("off") \/ aux' = CreatedAux("connecting")
  <2>1. aux' # NoAux /\ aux' # [NoAux EXCEPT !.encoders = (config["Backup"].protocol = "SRT")]
    BY <1>3 DEF CreatedAux, NoAux
  <2>2. state'["Backup"] \in {"Error", "Starting"}
    BY <2>1 DEF StartAuxiliary, Role
  <2> QED
    BY <1>3, <2>2 DEF Ownership, StartAuxiliary, CreatedAux
<1> QED
  BY <1>1, <1>2, <1>3 DEF StartAuxiliary

(* No call of the plugin breaks the ownership of the outputs: one step per *)
(* method.                                                                 *)
LEMMA OwnershipPluginCall == TypeOK /\ Ownership /\ PluginCall => Ownership'
<1> SUFFICES ASSUME TypeOK, Ownership, PluginCall PROVE Ownership'
  OBVIOUS
<1> USE DEF Ownership
<1>1. ASSUME NEW new, ConfigureSlots(new), \A r \in DOMAIN new : ~SlotActive(r)
      PROVE  Ownership'
  <2>1. CASE "Backup" \in DOMAIN new
    BY <1>1, <2>1 DEF ConfigureSlots, ReleaseAuxiliary, NoAux
  <2>2. CASE "Backup" \notin DOMAIN new
    <3>1. config'["Backup"] = config["Backup"] /\ state'["Backup"] = state["Backup"]
      BY <1>1, <2>2 DEF ConfigureSlots
    <3> QED
      BY <1>1, <2>2, <3>1 DEF ConfigureSlots
  <2> QED
    BY <2>1, <2>2
<1>2. ASSUME NEW r \in Role, NEW c \in Config, ConfigureOutput(r, c) PROVE Ownership'
  BY <1>1, <1>2 DEF ConfigureOutput, Accepts
<1>3. ASSUME NEW p \in Config, NEW b \in Config, Configure(p, b) PROVE Ownership'
  <2> DEFINE new == IF Accepts("Backup", b)
                    THEN [r \in Role |-> IF r = "Primary" THEN p ELSE b]
                    ELSE [r \in {"Primary"} |-> p]
  <2>1. ConfigureSlots(new)
    BY <1>3 DEF Configure
  <2>2. \A r \in DOMAIN new : ~SlotActive(r)
    BY <1>3 DEF Configure, Accepts
  <2> QED
    BY <1>1, <2>1, <2>2
<1>4. CASE ClearConfiguration
  BY <1>4 DEF ClearConfiguration, ReleaseAuxiliary, ReleaseFrontendTracking, NoAux
<1>5. ASSUME NEW d \in Delay, SetProgramDelay(d) PROVE Ownership'
  <2>1. /\ UNCHANGED <<slots, frontendRole, pendingBackup, tracked>>
        /\ aux' = IF aux.output /\ ~AuxActive THEN [aux EXCEPT !.delay = d] ELSE aux
        /\ delaySeconds' = d
    BY <1>5 DEF SetProgramDelay
  <2>2. aux.phase = "connecting" => aux'.delay = d
    BY <2>1 DEF AuxActive, TypeOK, Auxiliary
  <2>3. aux'.output = aux.output /\ aux'.encoders = aux.encoders
        /\ aux'.phase = aux.phase /\ aux'.config = aux.config
    BY <2>1 DEF TypeOK, Auxiliary
  <2> QED
    BY <2>1, <2>2, <2>3 DEF slots
<1>6. CASE StartPrimary
  BY <1>6 DEF StartPrimary, TypeOK
<1>7. CASE StartBackupAgain
  BY <1>7 DEF StartBackupAgain, roles, outputs, TypeOK
<1>8. CASE StartBackupBesidePrimary
  <2>1. CASE FrontendActive
    BY <1>8, <2>1, StartAuxiliaryResult DEF StartBackupBesidePrimary, TypeOK
  <2>2. CASE ~FrontendActive
    BY <1>8, <2>2 DEF StartBackupBesidePrimary, TypeOK
  <2> QED
    BY <2>1, <2>2
<1>9. CASE StartBackupOnFrontend
  BY <1>9 DEF StartBackupOnFrontend, TypeOK
<1>10. CASE StopPrimary
  BY <1>10 DEF StopPrimary, TypeOK
<1>11. CASE StopBackup
  <2>1. aux' = aux \/ (AuxActive /\ aux' = [aux EXCEPT !.phase = "stopping"])
    BY <1>11 DEF StopBackup
  <2>2. aux'.output = aux.output /\ aux'.encoders = aux.encoders
        /\ aux'.delay = aux.delay /\ aux'.config = aux.config
        /\ (aux'.phase = aux.phase \/ (AuxActive /\ aux'.phase = "stopping"))
    BY <2>1 DEF TypeOK, Auxiliary
  <2> QED
    BY <1>11, <2>2 DEF StopBackup, AuxActive
<1>12. CASE Shutdown
  BY <1>12 DEF Shutdown, ReleaseAuxiliary, ReleaseFrontendTracking, NoAux
<1>13. CASE Health
  <2>1. UNCHANGED <<config, requested, roles, aux>>
    BY <1>13 DEF Health, outputs
  <2>2. state'["Backup"] \in {state["Backup"], "Idle", "Disabled"}
        /\ (state["Backup"] = "Starting" => state'["Backup"] = "Starting")
    BY <1>13 DEF Health, RestState, Role
  <2> QED
    BY <2>1, <2>2 DEF roles
<1> QED
  BY <1>2, <1>3, <1>4, <1>5, <1>6, <1>7, <1>8, <1>9, <1>10, <1>11, <1>12, <1>13
  DEF PluginCall

(* No frontend event breaks it: one step per event.                        *)
LEMMA OwnershipEventDelivery == TypeOK /\ Ownership /\ EventDelivery => Ownership'
<1> SUFFICES ASSUME TypeOK, Ownership, EventDelivery PROVE Ownership'
  OBVIOUS
<1>1. CASE OnStreamingStarting
  BY <1>1 DEF OnStreamingStarting, TypeOK, Ownership
<1>2. CASE OnStreamingStarted
  <2>1. CASE frontendRole # NoRole /\ pendingBackup /\ frontendRole = "Primary" /\ ~AuxActive
    <3>1. StartAuxiliary([state EXCEPT ![frontendRole] = "Live"],
                         [state |-> "Error", requested |-> FALSE])
      BY <1>2, <2>1 DEF OnStreamingStarted
    <3>2. config["Backup"].enabled
      BY <2>1 DEF Ownership
    <3>3. UNCHANGED <<config, frontendRole, tracked, delaySeconds>>
      BY <1>2 DEF OnStreamingStarted
    <3>4. [state EXCEPT ![frontendRole] = "Live"] \in [Role -> SlotState]
      BY DEF TypeOK, SlotState
    <3> QED
      BY <2>1, <3>1, <3>2, <3>3, <3>4, StartAuxiliaryResult
  <2>2. CASE ~(frontendRole # NoRole /\ pendingBackup /\ frontendRole = "Primary" /\ ~AuxActive)
    <3>1. UNCHANGED <<config, requested, frontendRole, tracked, delaySeconds, aux>>
      BY <1>2, <2>2 DEF OnStreamingStarted
    <3>2. pendingBackup' => frontendRole = NoRole /\ pendingBackup
      BY <1>2, <2>2 DEF OnStreamingStarted, Ownership
    <3>3. aux.output => state'["Backup"] = state["Backup"]
      BY <1>2, <2>2 DEF OnStreamingStarted, Ownership, TypeOK
    <3> QED
      BY <3>1, <3>2, <3>3 DEF Ownership
  <2> QED
    BY <2>1, <2>2
<1>3. CASE OnStreamingStopping
  BY <1>3 DEF OnStreamingStopping, roles, TypeOK, Ownership
<1>4. CASE OnStreamingStopped
  BY <1>4 DEF OnStreamingStopped, ReleaseFrontendTracking, TypeOK, Ownership
<1> QED
  BY <1>1, <1>2, <1>3, <1>4 DEF EventDelivery

(* Nothing OBS does by itself breaks it: one step per change of an output. *)
LEMMA OwnershipObsStep == TypeOK /\ Ownership /\ ObsStep => Ownership'
<1> SUFFICES ASSUME TypeOK, Ownership, ObsStep PROVE Ownership'
  OBVIOUS
<1>1. ASSUME UNCHANGED <<slots, roles, aux>> PROVE Ownership'
  BY <1>1 DEF slots, roles, Ownership
<1>2. CASE UserStarts \/ UserStops \/ FrontendRefused \/ FrontendConnected
           \/ FrontendFailed \/ FrontendDropped \/ FrontendStopped
  BY <1>1, <1>2 DEF UserStarts, UserStops, FrontendRefused, FrontendConnected,
     FrontendFailed, FrontendDropped, FrontendStopped, FrontendMoves
<1>3. ASSUME NEW from, NEW to, AuxMoves(from, to), "off" \notin from, to # "connecting"
      PROVE  Ownership'
  <2>1. aux.output
    BY <1>3 DEF AuxMoves, Ownership
  <2>2. aux'.output = aux.output /\ aux'.encoders = aux.encoders
        /\ aux'.delay = aux.delay /\ aux'.config = aux.config /\ aux'.phase = to
    BY <1>3 DEF AuxMoves, TypeOK, Auxiliary
  <2> QED
    BY <1>3, <2>1, <2>2 DEF AuxMoves, slots, roles, Ownership
<1>4. CASE AuxConnected \/ AuxDied \/ AuxStopped
  BY <1>3, <1>4 DEF AuxConnected, AuxDied, AuxStopped
<1>5. ASSUME NEW r \in Role, OnReconnect(r) PROVE Ownership'
  BY <1>5 DEF OnReconnect, roles, outputs, Ownership
<1> QED
  BY <1>2, <1>4, <1>5 DEF ObsStep

(* The ownership invariant is inductive.                                   *)
LEMMA OwnershipStep == TypeOK /\ Ownership /\ [Next]_vars => Ownership'
<1>1. Ownership /\ UNCHANGED vars => Ownership'
  BY DEF Ownership, vars, slots, roles, outputs
<1> QED
  BY <1>1, OwnershipPluginCall, OwnershipEventDelivery, OwnershipObsStep DEF Next

(* The ownership invariant holds in every reachable state.                 *)
LEMMA OwnershipCorrect == Spec => []Ownership
BY TypeCorrect, OwnershipInit, OwnershipStep, PTL DEF Spec

(* A waiting Backup is wanted, for every configuration.                    *)
THEOREM PendingBackupIsAlwaysWanted == Spec => []PendingBackupIsWanted
BY OwnershipCorrect, PTL DEF Ownership

(* No slot ever has two paths to its destination.                          *)
THEOREM OnePathPerSlotAlways == Spec => []OnePathPerSlot
BY OwnershipCorrect, PTL DEF Ownership

(* The auxiliary output sends what the Backup slot says, with the delay    *)
(* that is set when it goes live.                                          *)
THEOREM AuxAlwaysFollowsSlot == Spec => []AuxFollowsSlot
BY OwnershipCorrect, PTL DEF Ownership

-----------------------------------------------------------------------------
(* The event queue.  What the manager knows of the OBS stream it knows     *)
(* through events delivered late; the queue is what makes up the           *)
(* difference: an active stream has nothing queued behind its own start.   *)

LastEventIsStart ==
    frontend.phase = "active" => events = <<>> \/ events[Len(events)] = "STARTED"

Signalling == NoLostWakeup /\ LastEventIsStart

(* Raising an event queues it last and loses none.                         *)
LEMMA RaisedEvent ==
    ASSUME events \in Seq(Event), NEW e \in Event, events' = Append(events, e)
    PROVE  /\ events' # <<>> /\ events'[Len(events')] = e
           /\ Queued(e)'
           /\ Queued("STARTED") => Queued("STARTED")'
<1>1. /\ Len(events') = Len(events) + 1 /\ Len(events) \in Nat
      /\ events'[Len(events) + 1] = e
      /\ \A i \in 1..Len(events) : events'[i] = events[i]
      /\ DOMAIN events = 1..Len(events) /\ DOMAIN events' = 1..Len(events')
  BY AppendProperties, LenProperties
<1>2. events' # <<>>
  BY <1>1
<1>3. Queued(e)'
  BY <1>1 DEF Queued
<1>4. Queued("STARTED") => Queued("STARTED")'
  BY <1>1 DEF Queued
<1> QED
  BY <1>1, <1>2, <1>3, <1>4

(* Delivering an event takes it from the front of the queue: the others    *)
(* stay, and the last one stays last.                                      *)
LEMMA DeliveredEvent ==
    ASSUME events \in Seq(Event), NEW e \in Event, Deliver(e)
    PROVE  /\ events' = <<>> \/ events'[Len(events')] = events[Len(events)]
           /\ e # "STARTED" /\ Queued("STARTED") => Queued("STARTED")'
           /\ e # "STARTED" /\ events[Len(events)] = "STARTED" => Queued("STARTED")'
<1>1. /\ events' \in Seq(Event) /\ Len(events') = Len(events) - 1
      /\ \A i \in 1..Len(events') : events'[i] = events[i + 1]
      /\ Len(events) \in Nat /\ DOMAIN events = 1..Len(events)
      /\ DOMAIN events' = 1..Len(events')
      /\ events # <<>> /\ events[1] = e
  BY HeadTailProperties, LenProperties DEF Deliver
<1>2. events' = <<>> \/ events'[Len(events')] = events[Len(events)]
  BY <1>1, EmptySeq
<1>3. ASSUME e # "STARTED", NEW i \in DOMAIN events, events[i] = "STARTED"
      PROVE  Queued("STARTED")'
  <2>1. i - 1 \in DOMAIN events' /\ events'[i - 1] = "STARTED"
    BY <1>1, <1>3
  <2> QED
    BY <2>1 DEF Queued
<1>4. Len(events) \in DOMAIN events
  BY <1>1, EmptySeq
<1> QED
  BY <1>2, <1>3, <1>4 DEF Queued

(* With no output and no event the signalling invariant holds.             *)
LEMMA SignallingInit == Init => Signalling
BY DEF Init, Signalling, NoLostWakeup, LastEventIsStart, FrontendActive

(* A step that leaves the queue and the stream alone keeps the signalling, *)
(* if Backup begins to wait only behind an inactive stream.                *)
LEMMA QuietStep ==
    ASSUME Signalling, UNCHANGED events, frontend'.phase = frontend.phase,
           pendingBackup' => pendingBackup \/ ~FrontendActive
    PROVE  Signalling'
BY DEF Signalling, NoLostWakeup, LastEventIsStart, FrontendActive, Queued

(* Stopping the stream leaves it stopping, with its start still queued if  *)
(* it was.                                                                 *)
LEMMA StopStep ==
    ASSUME TypeOK, Signalling, FrontendActive, StopFrontend, pendingBackup' => pendingBackup
    PROVE  Signalling'
<1>1. frontend'.phase = "stopping"
  BY DEF StopFrontend, FrontendActive, TypeOK, Frontend
<1>2. Queued("STARTED") => Queued("STARTED")'
  BY RaisedEvent DEF StopFrontend, TypeOK, Event, Queued
<1> QED
  BY <1>1, <1>2
  DEF Signalling, NoLostWakeup, LastEventIsStart, FrontendActive

(* No call of the plugin loses an event that somebody waits for.           *)
LEMMA SignallingPluginCall ==
    TypeOK /\ Ownership /\ Signalling /\ PluginCall => Signalling'
<1> SUFFICES ASSUME TypeOK, Ownership, Signalling, PluginCall PROVE Signalling'
  OBVIOUS
<1>1. ASSUME NEW new, ConfigureSlots(new) PROVE Signalling'
  BY <1>1, QuietStep DEF ConfigureSlots, ReleaseAuxiliary
<1>2. ASSUME NEW r \in Role, NEW c \in Config, ConfigureOutput(r, c) PROVE Signalling'
  BY <1>1, <1>2 DEF ConfigureOutput
<1>3. ASSUME NEW p \in Config, NEW b \in Config, Configure(p, b) PROVE Signalling'
  BY <1>1, <1>3 DEF Configure
<1>4. CASE ClearConfiguration
  <2>1. CASE frontendRole # NoRole /\ FrontendActive
    BY <1>4, <2>1, StopStep DEF ClearConfiguration, ReleaseAuxiliary
  <2>2. CASE ~(frontendRole # NoRole /\ FrontendActive)
    BY <1>4, <2>2, QuietStep DEF ClearConfiguration, ReleaseAuxiliary
  <2> QED
    BY <2>1, <2>2
<1>5. ASSUME NEW d \in Delay, SetProgramDelay(d) PROVE Signalling'
  <2>1. frontend'.phase = frontend.phase
    BY <1>5 DEF SetProgramDelay, TypeOK, Frontend
  <2> QED
    BY <1>5, <2>1, QuietStep DEF SetProgramDelay, slots
<1>6. ASSUME StartFrontend, ~FrontendActive, UNCHANGED <<pendingBackup, events>>
      PROVE  Signalling'
  <2>1. frontend'.phase \notin {"active", "stopping"}
    BY <1>6 DEF StartFrontend, FrontendActive, TypeOK, Frontend
  <2> QED
    BY <1>6, <2>1
    DEF Signalling, NoLostWakeup, LastEventIsStart, FrontendActive
<1>7. CASE StartPrimary
  BY <1>6, <1>7 DEF StartPrimary
<1>8. CASE StartBackupAgain
  BY <1>8, QuietStep DEF StartBackupAgain, roles, outputs
<1>9. CASE StartBackupBesidePrimary
  <2>1. UNCHANGED <<frontend, events>> /\ (pendingBackup' => ~FrontendActive)
    BY <1>9 DEF StartBackupBesidePrimary, StartAuxiliary
  <2> QED
    BY <2>1, QuietStep
<1>10. CASE StartBackupOnFrontend
  BY <1>6, <1>10 DEF StartBackupOnFrontend
<1>11. CASE StopPrimary
  <2>1. CASE frontendRole = "Primary" /\ FrontendActive
    BY <1>11, <2>1, StopStep DEF StopPrimary
  <2>2. CASE ~(frontendRole = "Primary" /\ FrontendActive)
    BY <1>11, <2>2, QuietStep DEF StopPrimary
  <2> QED
    BY <2>1, <2>2
<1>12. CASE StopBackup
  <2>1. CASE frontendRole = "Backup" /\ FrontendActive
    BY <1>12, <2>1, StopStep DEF StopBackup
  <2>2. CASE ~(frontendRole = "Backup" /\ FrontendActive)
    BY <1>12, <2>2, QuietStep DEF StopBackup
  <2> QED
    BY <2>1, <2>2
<1>13. CASE Shutdown
  <2>1. CASE frontendRole # NoRole /\ FrontendActive
    BY <1>13, <2>1, StopStep DEF Shutdown, ReleaseAuxiliary
  <2>2. CASE ~(frontendRole # NoRole /\ FrontendActive)
    BY <1>13, <2>2, QuietStep DEF Shutdown, ReleaseAuxiliary
  <2> QED
    BY <2>1, <2>2
<1>14. CASE Health
  BY <1>14, QuietStep DEF Health, roles, outputs
<1> QED
  BY <1>2, <1>3, <1>4, <1>5, <1>7, <1>8, <1>9, <1>10, <1>11, <1>12, <1>13, <1>14
  DEF PluginCall

(* The delivery of an event keeps the signalling: what it announced is now *)
(* in the slots.                                                           *)
LEMMA SignallingEventDelivery ==
    TypeOK /\ Ownership /\ Signalling /\ EventDelivery => Signalling'
<1> SUFFICES ASSUME TypeOK, Ownership, Signalling, EventDelivery PROVE Signalling'
  OBVIOUS
<1> USE DEF Signalling, LastEventIsStart
<1>1. CASE OnStreamingStarting
  <2>1. frontend'.phase = "connecting"
    BY <1>1 DEF OnStreamingStarting, TypeOK, Frontend
  <2> QED
    BY <2>1 DEF NoLostWakeup, FrontendActive
<1>2. ASSUME NEW e \in Event, Deliver(e) PROVE LastEventIsStart'
  BY <1>2, DeliveredEvent DEF Deliver, TypeOK
<1>3. CASE OnStreamingStarted
  <2>1. Deliver("STARTED") /\ UNCHANGED frontendRole
    BY <1>3 DEF OnStreamingStarted, Deliver
  <2>2. ~pendingBackup'
    BY <1>3 DEF OnStreamingStarted, StartAuxiliary, Ownership
  <2> QED
    BY <1>2, <2>1, <2>2 DEF NoLostWakeup, Event
<1>4. ASSUME NEW e \in {"STOPPING", "STOPPED"}, Deliver(e), UNCHANGED frontendRole,
             pendingBackup' => pendingBackup
      PROVE  Signalling'
  <2>1. Queued("STARTED") => Queued("STARTED")'
    BY <1>4, DeliveredEvent DEF Event, TypeOK
  <2> QED
    BY <1>2, <1>4, <2>1
    DEF NoLostWakeup, Deliver, FrontendActive, Event
<1>5. CASE OnStreamingStopping
  BY <1>4, <1>5 DEF OnStreamingStopping, roles
<1>6. CASE OnStreamingStopped
  BY <1>4, <1>6 DEF OnStreamingStopped
<1> QED
  BY <1>1, <1>3, <1>5, <1>6 DEF EventDelivery

(* OBS changes the stream only together with the event that announces it.  *)
LEMMA SignallingObsStep ==
    TypeOK /\ Signalling /\ ObsStep => Signalling'
<1> SUFFICES ASSUME TypeOK, Signalling, ObsStep PROVE Signalling'
  OBVIOUS
<1>1. ASSUME frontend'.phase \notin {"active", "stopping"} PROVE Signalling'
  BY <1>1 DEF Signalling, NoLostWakeup, LastEventIsStart, FrontendActive
<1>2. CASE UserStarts
  <2>1. frontend'.phase \notin {"active", "stopping"}
    BY <1>2 DEF UserStarts, StartFrontend, TypeOK, Frontend
  <2> QED
    BY <1>1, <2>1
<1>3. CASE UserStops
  BY <1>3, StopStep DEF UserStops, FrontendActive, roles
<1>4. CASE FrontendRefused \/ FrontendFailed \/ FrontendDropped \/ FrontendStopped
  <2>1. frontend'.phase = "off"
    BY <1>4 DEF FrontendRefused, FrontendFailed, FrontendDropped, FrontendStopped,
       FrontendMoves, TypeOK, Frontend
  <2> QED
    BY <1>1, <2>1
<1>5. CASE FrontendConnected
  <2>1. /\ events' # <<>> /\ events'[Len(events')] = "STARTED"
        /\ Queued("STARTED")'
    BY <1>5, RaisedEvent DEF FrontendConnected, Event, TypeOK
  <2> QED
    BY <2>1 DEF Signalling, NoLostWakeup, LastEventIsStart
<1>6. ASSUME UNCHANGED <<state, pendingBackup, frontendRole, frontend, events>>
      PROVE  Signalling'
  BY <1>6, QuietStep
<1>7. CASE AuxConnected \/ AuxDied \/ AuxStopped
  BY <1>6, <1>7 DEF AuxConnected, AuxDied, AuxStopped, AuxMoves, slots, roles
<1>8. ASSUME NEW r \in Role, OnReconnect(r) PROVE Signalling'
  BY <1>6, <1>8 DEF OnReconnect, roles, outputs
<1> QED
  BY <1>2, <1>3, <1>4, <1>5, <1>7, <1>8 DEF ObsStep

(* The signalling invariant is inductive, beside types and ownership.      *)
LEMMA SignallingStep ==
    TypeOK /\ Ownership /\ Signalling /\ [Next]_vars => Signalling'
<1>1. Signalling /\ UNCHANGED vars => Signalling'
  BY DEF Signalling, NoLostWakeup, LastEventIsStart, FrontendActive,
     Queued, vars, slots, roles, outputs
<1> QED
  BY <1>1, SignallingPluginCall, SignallingEventDelivery, SignallingObsStep DEF Next

(* The signalling invariant holds in every reachable state.                *)
LEMMA SignallingCorrect == Spec => []Signalling
BY TypeCorrect, OwnershipCorrect, SignallingInit, SignallingStep, PTL DEF Spec

(* The event that starts a waiting Backup is never lost.                   *)
THEOREM NoWakeupIsLost == Spec => []NoLostWakeup
BY SignallingCorrect, PTL DEF Signalling

(* While a stream is active no call, event or output change hands it to    *)
(* the other slot.                                                         *)
LEMMA OwnerStep ==
    ASSUME Next, FrontendActive
    PROVE  frontendRole' \in {frontendRole, NoRole}
<1>1. CASE PluginCall
  BY <1>1 DEF PluginCall, ConfigureOutput, Configure, ConfigureSlots, ClearConfiguration,
     SetProgramDelay, StartPrimary, StartBackupAgain, StartBackupBesidePrimary,
     StartBackupOnFrontend, StopPrimary, StopBackup, Shutdown, Health, roles
<1>2. CASE EventDelivery
  BY <1>2 DEF EventDelivery, OnStreamingStarting, OnStreamingStarted, OnStreamingStopping,
     OnStreamingStopped, FrontendActive, roles
<1>3. CASE ObsStep
  BY <1>3 DEF ObsStep, UserStarts, UserStops, FrontendRefused, FrontendConnected,
     FrontendFailed, FrontendDropped, FrontendStopped, FrontendMoves, AuxConnected,
     AuxDied, AuxStopped, AuxMoves, OnReconnect, roles
<1> QED
  BY <1>1, <1>2, <1>3 DEF Next

(* A stream that has become active belongs to the slot it was started for  *)
(* until OBS has stopped it, or to no slot, for every configuration.       *)
THEOREM ActiveStreamAlwaysKeepsOwner == Spec => ActiveStreamKeepsOwner
<1>1. [Next]_vars =>
        [FrontendActive /\ FrontendActive' => frontendRole' \in {frontendRole, NoRole}]_vars
  BY OwnerStep DEF vars
<1> QED
  BY <1>1, PTL DEF Spec, ActiveStreamKeepsOwner

(* What a slot sends is what it was asked to send: while it is active it    *)
(* takes no configuration, whether its output is the stream or its own.    *)
ActiveSlotKeepsConfig ==
    [][\A r \in Role : SlotActive(r) /\ SlotActive(r)' => config'[r] = config[r]]_vars

LEMMA ConfiguredSlotsOnly ==
    ASSUME TypeOK, NEW new, ConfigureSlots(new), NEW r \in Role \ DOMAIN new
    PROVE  config'[r] = config[r]
BY DEF ConfigureSlots

LEMMA ConfigStep ==
    ASSUME TypeOK, Next, NEW r \in Role, SlotActive(r), SlotActive(r)'
    PROVE  config'[r] = config[r]
<1>1. ASSUME NEW q \in Role, NEW c \in Config, ConfigureOutput(q, c)
      PROVE  config'[r] = config[r]
  <2>1. r # q /\ ConfigureSlots([x \in {q} |-> c])
    BY <1>1 DEF ConfigureOutput, Accepts
  <2>2. DOMAIN [x \in {q} |-> c] = {q}
    OBVIOUS
  <2> QED
    BY <2>1, <2>2, ConfiguredSlotsOnly
<1>2. ASSUME NEW p \in Config, NEW b \in Config, Configure(p, b)
      PROVE  config'[r] = config[r]
  <2>1. r = "Backup" /\ ~Accepts("Backup", b)
    <3>1. r # "Primary"
      BY <1>2 DEF Configure, Accepts
    <3> QED
      BY <3>1 DEF Role, Accepts
  <2>2. ConfigureSlots([q \in {"Primary"} |-> p])
    BY <1>2, <2>1 DEF Configure
  <2>3. DOMAIN [q \in {"Primary"} |-> p] = {"Primary"}
    OBVIOUS
  <2> QED
    BY <2>1, <2>2, <2>3, ConfiguredSlotsOnly
<1>3. ASSUME ClearConfiguration
      PROVE  FALSE
  <2>1. frontendRole' = NoRole /\ aux' = NoAux
    BY <1>3 DEF ClearConfiguration, ReleaseAuxiliary
  <2> QED
    BY <2>1, RoleAssumption DEF SlotActive, AuxActive, NoAux
<1>4. CASE UNCHANGED config
  BY <1>4
<1>5. EventDelivery \/ ObsStep => UNCHANGED config
  BY DEF EventDelivery, OnStreamingStarting, OnStreamingStarted, OnStreamingStopping,
     OnStreamingStopped, ObsStep, UserStarts, UserStops, FrontendRefused, FrontendConnected,
     FrontendFailed, FrontendDropped, FrontendStopped, FrontendMoves, AuxConnected,
     AuxDied, AuxStopped, AuxMoves, OnReconnect, slots
<1>6. PluginCall =>
         \/ \E q \in Role, c \in Config : ConfigureOutput(q, c)
         \/ \E p, b \in Config : Configure(p, b)
         \/ ClearConfiguration
         \/ UNCHANGED config
  BY DEF PluginCall, SetProgramDelay, StartPrimary, StartBackupAgain,
     StartBackupBesidePrimary, StartBackupOnFrontend, StopPrimary, StopBackup, Shutdown,
     Health, slots
<1> QED
  BY <1>1, <1>2, <1>3, <1>4, <1>5, <1>6 DEF Next

(* The guards of configure and configureOutput, and the release of both    *)
(* outputs by clearConfiguration, leave no way to change the destination   *)
(* of a slot under its stream.                                             *)
THEOREM ActiveSlotAlwaysKeepsConfig == Spec => ActiveSlotKeepsConfig
<1>1. TypeOK /\ [Next]_vars =>
        [\A r \in Role : SlotActive(r) /\ SlotActive(r)' => config'[r] = config[r]]_vars
  BY ConfigStep DEF vars
<1> QED
  BY <1>1, TypeCorrect, PTL DEF Spec, ActiveSlotKeepsConfig

-----------------------------------------------------------------------------
(* The refinement of OutputSlots.  Each method maps to the operation of    *)
(* the same name, events and outputs to theirs; what only changes health,  *)
(* delay, counters or the queue of events is a stutter.                    *)

Abstract == <<config, requested, frontendRole, pendingBackup, frontend.phase, aux.phase>>

LEMMA SlotVarsAreAbstract == UNCHANGED Slots!slotVars <=> UNCHANGED Abstract
BY DEF Slots!slotVars, Abstract

(* Asking OBS to start or to stop, seen from outside.                      *)
LEMMA AskedStart ==
    ASSUME TypeOK, StartFrontend
    PROVE  Slots!AskStart
BY DEF StartFrontend, Slots!AskStart, TypeOK, Frontend

LEMMA AskedStop ==
    ASSUME TypeOK, StopFrontend \/ (frontend.phase # "active" /\ frontend' = frontend)
    PROVE  Slots!AskStop
BY DEF StopFrontend, Slots!AskStop, TypeOK, Frontend

(* The slots of new take their configurations while they are inactive.     *)
LEMMA ConfiguredSlots ==
    ASSUME TypeOK, NEW which \in SUBSET Role, NEW new \in [which -> Config],
           \A r \in which : ~SlotActive(r), ConfigureSlots(new)
    PROVE  Slots!SlotsNext
<1> DEFINE all == [r \in Role |-> IF r \in which THEN new[r] ELSE config[r]]
<1>1. /\ config' = all
      /\ UNCHANGED <<requested, frontendRole, frontend>>
      /\ IF "Backup" \in which
         THEN pendingBackup' = FALSE /\ aux' = NoAux
         ELSE UNCHANGED <<pendingBackup, aux>>
  BY DEF ConfigureSlots, ReleaseAuxiliary
<1>2. \A r \in Role \ which : all[r] = config[r]
  OBVIOUS
<1>3. \A r \in which : ~Slots!Active(r)
  BY DEF SlotActive, FrontendActive, AuxActive, Slots!Active, Slots!StreamActive,
     Slots!AuxiliaryActive
<1>4. Slots!Reconfigure(which, all)
  BY <1>1, <1>2, <1>3 DEF Slots!Reconfigure, Slots!Slots, NoAux
<1> QED
  BY <1>4 DEF Slots!SlotsNext, Slots!Slots

(* An attempt to start the auxiliary output.                               *)
LEMMA TriedAuxiliary ==
    ASSUME NEW before, NEW early,
           early \in [state : SlotState, requested : BOOLEAN],
           StartAuxiliary(before, early)
    PROVE  Slots!TryAuxiliary
<1>0. /\ NoAux.phase = "off"
      /\ [NoAux EXCEPT !.encoders = (config["Backup"].protocol = "SRT")].phase = "off"
      /\ CreatedAux("off").phase = "off" /\ CreatedAux("connecting").phase = "connecting"
  BY DEF NoAux, CreatedAux
<1>1. /\ pendingBackup' = FALSE
      /\ \/ /\ aux'.phase = "off"
            /\ \E q \in BOOLEAN : requested' = [requested EXCEPT !["Backup"] = q]
         \/ /\ FrontendActive /\ aux'.phase = "connecting"
            /\ requested' = [requested EXCEPT !["Backup"] = TRUE]
  <2>1. CASE aux' = NoAux /\ requested' = [requested EXCEPT !["Backup"] = early.requested]
    BY <1>0, <2>1 DEF StartAuxiliary
  <2>2. CASE /\ aux' = [NoAux EXCEPT !.encoders = (config["Backup"].protocol = "SRT")]
             /\ requested' = [requested EXCEPT !["Backup"] = early.requested]
    BY <1>0, <2>2 DEF StartAuxiliary
  <2>3. CASE aux' = CreatedAux("off") /\ requested' = [requested EXCEPT !["Backup"] = FALSE]
    BY <1>0, <2>3 DEF StartAuxiliary
  <2>4. CASE /\ FrontendActive /\ aux' = CreatedAux("connecting")
             /\ requested' = [requested EXCEPT !["Backup"] = TRUE]
    BY <1>0, <2>4 DEF StartAuxiliary
  <2> QED
    BY <2>1, <2>2, <2>3, <2>4 DEF StartAuxiliary
<1> QED
  BY <1>1 DEF Slots!TryAuxiliary, Slots!StreamActive, FrontendActive

LEMMA SlotsPluginCall ==
    ASSUME TypeOK, Ownership, PluginCall
    PROVE  Slots!SlotsNext \/ UNCHANGED Abstract
<1> USE DEF Slots!Slots
<1>1. ASSUME NEW r \in Role, NEW c \in Config, ConfigureOutput(r, c) PROVE Slots!SlotsNext
  <2>1. [x \in {r} |-> c] \in [{r} -> Config]
    OBVIOUS
  <2>2. \A x \in {r} : ~SlotActive(x)
    BY <1>1 DEF ConfigureOutput, Accepts
  <2> QED
    BY <1>1, <2>1, <2>2, ConfiguredSlots DEF ConfigureOutput
<1>2. ASSUME NEW p \in Config, NEW b \in Config, Configure(p, b) PROVE Slots!SlotsNext
  <2>1. CASE Accepts("Backup", b)
    <3> DEFINE new == [r \in Role |-> IF r = "Primary" THEN p ELSE b]
    <3>1. new \in [Role -> Config] /\ ConfigureSlots(new)
      BY <1>2, <2>1 DEF Configure
    <3>2. \A r \in Role : ~SlotActive(r)
      BY <1>2, <2>1 DEF Configure, Accepts
    <3> QED
      BY <3>1, <3>2, ConfiguredSlots
  <2>2. CASE ~Accepts("Backup", b)
    <3> DEFINE new == [r \in {"Primary"} |-> p]
    <3>1. new \in [{"Primary"} -> Config] /\ ConfigureSlots(new)
      BY <1>2, <2>2 DEF Configure
    <3>2. \A r \in {"Primary"} : ~SlotActive(r)
      BY <1>2 DEF Configure, Accepts
    <3> QED
      BY <3>1, <3>2, ConfiguredSlots
  <2> QED
    BY <2>1, <2>2
<1>3. CASE ClearConfiguration
  <2>1. IF frontendRole # NoRole THEN Slots!AskStop ELSE UNCHANGED frontend
    BY <1>3, AskedStop DEF ClearConfiguration, FrontendActive
  <2>2. Slots!Clear
    BY <1>3, <2>1 DEF ClearConfiguration, ReleaseAuxiliary, NoAux, Slots!Clear, Slots!ClearTo
  <2> QED
    BY <2>2 DEF Slots!SlotsNext
<1>4. ASSUME NEW d \in Delay, SetProgramDelay(d) PROVE UNCHANGED Abstract
  <2>1. frontend'.phase = frontend.phase /\ aux'.phase = aux.phase
    BY <1>4 DEF SetProgramDelay, TypeOK, Frontend, Auxiliary
  <2> QED
    BY <1>4, <2>1 DEF SetProgramDelay, Abstract, slots
<1>5. CASE StartPrimary
  <2>1. Slots!TakeStream("Primary")
    BY <1>5, AskedStart DEF StartPrimary, Slots!TakeStream, Slots!StreamActive, FrontendActive
  <2> QED
    BY <2>1 DEF Slots!SlotsNext
<1>6. CASE StartBackupAgain
  <2>1. Slots!StartBeside
    BY <1>6 DEF StartBackupAgain, roles, outputs, AuxActive, Slots!StartBeside, Slots!AuxiliaryActive
  <2> QED
    BY <2>1 DEF Slots!SlotsNext
<1>7. CASE StartBackupBesidePrimary
  <2>1. CASE FrontendActive
    <3>1. StartAuxiliary(state, [state |-> "Starting", requested |-> TRUE])
      BY <1>7, <2>1 DEF StartBackupBesidePrimary
    <3>2. [state |-> "Starting", requested |-> TRUE] \in [state : SlotState, requested : BOOLEAN]
      BY DEF SlotState
    <3>3. Slots!TryAuxiliary
      BY <3>1, <3>2, TriedAuxiliary, Zenon
    <3>4. Slots!StartBeside
      BY <1>7, <2>1, <3>3 DEF StartBackupBesidePrimary, AuxActive, FrontendActive,
         Slots!StartBeside, Slots!AuxiliaryActive, Slots!StreamActive
    <3> QED
      BY <3>4 DEF Slots!SlotsNext
  <2>2. CASE ~FrontendActive
    <3>1. Slots!StartBeside
      BY <1>7, <2>2 DEF StartBackupBesidePrimary, AuxActive, FrontendActive,
         Slots!StartBeside, Slots!AuxiliaryActive, Slots!StreamActive
    <3> QED
      BY <3>1 DEF Slots!SlotsNext
  <2> QED
    BY <2>1, <2>2
<1>8. CASE StartBackupOnFrontend
  <2>1. Slots!TakeStream("Backup")
    BY <1>8, AskedStart DEF StartBackupOnFrontend, AuxActive, FrontendActive, Slots!TakeStream,
       Slots!StreamActive, Slots!AuxiliaryActive
  <2> QED
    BY <2>1 DEF Slots!SlotsNext
<1>9. CASE StopPrimary
  <2>1. IF frontendRole = "Primary" THEN Slots!AskStop ELSE UNCHANGED frontend
    BY <1>9, AskedStop DEF StopPrimary, FrontendActive
  <2>2. pendingBackup' = FALSE
    BY <1>9 DEF StopPrimary, Ownership, TypeOK
  <2>3. Slots!Stop("Primary")
    BY <1>9, <2>1, <2>2 DEF StopPrimary, Slots!Stop
  <2> QED
    BY <2>3 DEF Slots!SlotsNext
<1>10. CASE StopBackup
  <2>1. IF frontendRole = "Backup" THEN Slots!AskStop ELSE UNCHANGED frontend
    BY <1>10, AskedStop DEF StopBackup, FrontendActive
  <2>2. aux'.phase = IF frontendRole # "Backup" /\ AuxActive THEN "stopping" ELSE aux.phase
    BY <1>10 DEF StopBackup, TypeOK, Auxiliary
  <2>3. Slots!Stop("Backup")
    BY <1>10, <2>1, <2>2 DEF StopBackup, AuxActive, Slots!Stop, Slots!AuxiliaryActive
  <2> QED
    BY <2>3 DEF Slots!SlotsNext
<1>11. CASE Shutdown
  <2>1. IF frontendRole # NoRole THEN Slots!AskStop ELSE UNCHANGED frontend
    BY <1>11, AskedStop DEF Shutdown, FrontendActive
  <2>2. Slots!ShutDown
    BY <1>11, <2>1 DEF Shutdown, ReleaseAuxiliary, NoAux, Slots!ShutDown
  <2> QED
    BY <2>2 DEF Slots!SlotsNext
<1>12. CASE Health
  BY <1>12 DEF Health, Abstract, roles, outputs
<1> QED
  BY <1>1, <1>2, <1>3, <1>4, <1>5, <1>6, <1>7, <1>8, <1>9, <1>10, <1>11, <1>12 DEF PluginCall

LEMMA SlotsEventDelivery ==
    ASSUME TypeOK, Ownership, EventDelivery
    PROVE  Slots!SlotsNext \/ UNCHANGED Abstract
<1> USE DEF Slots!Slots
<1>1. CASE OnStreamingStarting
  <2>1. frontend'.phase = "connecting"
    BY <1>1 DEF OnStreamingStarting, TypeOK, Frontend
  <2>2. Slots!Starting
    BY <1>1, <2>1 DEF OnStreamingStarting, Slots!Starting
  <2> QED
    BY <2>2 DEF Slots!SlotsNext
<1>2. CASE OnStreamingStarted
  <2>1. CASE pendingBackup /\ frontendRole = "Primary" /\ ~AuxActive
    <3>1. PICK before, early :
            StartAuxiliary(before, early) /\ early = [state |-> "Error", requested |-> FALSE]
      BY <1>2, <2>1 DEF OnStreamingStarted
    <3>2. early \in [state : SlotState, requested : BOOLEAN]
      BY <3>1 DEF SlotState
    <3>3. Slots!TryAuxiliary
      BY <3>1, <3>2, TriedAuxiliary, Zenon
    <3>4. Slots!Started
      BY <1>2, <2>1, <3>3 DEF OnStreamingStarted, Deliver, AuxActive, Slots!Started,
         Slots!AuxiliaryActive
    <3> QED
      BY <3>4 DEF Slots!SlotsNext
  <2>2. CASE ~(pendingBackup /\ frontendRole = "Primary" /\ ~AuxActive)
    <3>1. /\ pendingBackup' = (pendingBackup /\ frontendRole # "Primary")
          /\ UNCHANGED <<requested, aux, config, frontendRole, frontend>>
      BY <1>2, <2>2 DEF OnStreamingStarted, Deliver, TypeOK
    <3>2. Slots!Started
      BY <2>2, <3>1 DEF AuxActive, Slots!Started, Slots!AuxiliaryActive
    <3> QED
      BY <3>2 DEF Slots!SlotsNext
  <2> QED
    BY <2>1, <2>2
<1>3. CASE OnStreamingStopping
  BY <1>3 DEF OnStreamingStopping, Deliver, Abstract, roles
<1>4. CASE OnStreamingStopped
  <2>1. Slots!Stopped
    BY <1>4 DEF OnStreamingStopped, Deliver, Slots!Stopped
  <2> QED
    BY <2>1 DEF Slots!SlotsNext
<1> QED
  BY <1>1, <1>2, <1>3, <1>4 DEF EventDelivery

LEMMA SlotsObsStep ==
    ASSUME TypeOK, ObsStep
    PROVE  Slots!SlotsNext \/ UNCHANGED Abstract
<1> USE DEF Slots!Slots
<1>1. ASSUME UNCHANGED <<config, requested, frontendRole, pendingBackup, aux>>,
             \/ frontend.phase = "off"        /\ frontend'.phase = "requested"
             \/ frontend.phase = "requested"  /\ frontend'.phase = "off"
             \/ frontend.phase = "connecting" /\ frontend'.phase \in {"active", "off"}
             \/ frontend.phase = "active"     /\ frontend'.phase \in {"stopping", "off"}
             \/ frontend.phase = "stopping"   /\ frontend'.phase = "off"
      PROVE  Slots!SlotsNext
  BY <1>1 DEF Slots!StreamMoves, Slots!SlotsNext
<1>2. ASSUME NEW from, NEW to, FrontendMoves(from, to)
      PROVE  /\ frontend.phase = from /\ frontend'.phase = to
             /\ UNCHANGED <<config, requested, frontendRole, pendingBackup, aux>>
  BY <1>2 DEF FrontendMoves, slots, roles, TypeOK, Frontend
<1>3. CASE UserStarts
  <2>1. CASE frontend' = frontend
    BY <1>3, <2>1 DEF UserStarts, Abstract, slots, roles
  <2>2. CASE frontend' = [frontend EXCEPT !.phase = "requested"]
    <3>1. frontend'.phase = "requested"
      BY <2>2 DEF TypeOK, Frontend
    <3> QED
      BY <1>1, <1>3, <3>1 DEF UserStarts, slots, roles
  <2> QED
    BY <1>3, <2>1, <2>2 DEF UserStarts, StartFrontend
<1>4. CASE UserStops
  <2>1. frontend.phase = "active" /\ frontend'.phase = "stopping"
    BY <1>4 DEF UserStops, StopFrontend, TypeOK, Frontend
  <2> QED
    BY <1>1, <1>4, <2>1 DEF UserStops, slots, roles
<1>5. CASE FrontendRefused \/ FrontendConnected \/ FrontendFailed \/ FrontendDropped \/ FrontendStopped
  BY <1>1, <1>2, <1>5 DEF FrontendRefused, FrontendConnected, FrontendFailed, FrontendDropped,
     FrontendStopped
<1>6. CASE AuxConnected \/ AuxDied \/ AuxStopped
  <2>1. ASSUME NEW from, NEW to, AuxMoves(from, to)
        PROVE  /\ aux.phase \in from /\ aux'.phase = to
               /\ UNCHANGED <<config, requested, frontendRole, pendingBackup, frontend>>
    BY <2>1 DEF AuxMoves, slots, roles, TypeOK, Auxiliary
  <2>2. Slots!AuxiliaryMoves
    BY <1>6, <2>1 DEF AuxConnected, AuxDied, AuxStopped, Slots!AuxiliaryMoves
  <2> QED
    BY <2>2 DEF Slots!SlotsNext
<1>7. ASSUME NEW r \in Role, OnReconnect(r) PROVE UNCHANGED Abstract
  BY <1>7 DEF OnReconnect, Abstract, roles, outputs
<1> QED
  BY <1>3, <1>4, <1>5, <1>6, <1>7 DEF ObsStep

(* The manager implements OutputSlots: whatever the plugin and OBS do, it  *)
(* behaves as the slots that the rest of the plugin is built on.           *)
THEOREM ManagerImplementsSlots == Spec => SlotsSpec
<1>1. Init => Slots!SlotsInit
  BY DEF Init, NoAux, Slots!SlotsInit, Slots!Slots
<1>2. TypeOK /\ Ownership /\ [Next]_vars => [Slots!SlotsNext]_(Slots!slotVars)
  <2> SUFFICES ASSUME TypeOK, Ownership, [Next]_vars
               PROVE  Slots!SlotsNext \/ UNCHANGED Abstract
    BY SlotVarsAreAbstract
  <2>1. CASE Next
    BY <2>1, SlotsPluginCall, SlotsEventDelivery, SlotsObsStep DEF Next
  <2>2. CASE UNCHANGED vars
    BY <2>2 DEF vars, slots, roles, outputs, Abstract
  <2> QED
    BY <2>1, <2>2
<1> QED
  BY <1>1, <1>2, TypeCorrect, OwnershipCorrect, PTL DEF Spec, SlotsSpec, Slots!SlotsSpec

-----------------------------------------------------------------------------
(* What the stream and the queue of events can do in a step.               *)

(* The event the UI thread delivers next.                                  *)
NextEvent(e) == events # <<>> /\ Head(events) = e

(* OBS moves the stream only together with the event that announces it.    *)
MovesWith(from, to, raised) ==
    /\ frontend.phase = from /\ frontend'.phase = to
    /\ frontend'.exists = frontend.exists
    /\ events' \in {events} \cup {Append(events, e) : e \in raised}

StreamStep ==
    \/ /\ frontend'.phase = frontend.phase /\ frontend'.exists = frontend.exists
       /\ events' = events
    \/ MovesWith("off", "requested", {}) /\ events' = events
    \/ MovesWith("requested", "off", {}) /\ events' = events
    \/ OnStreamingStarting /\ frontend'.phase = "connecting" /\ frontend'.exists
    \/ MovesWith("connecting", "active", {"STARTED"}) /\ events' # events
    \/ MovesWith("connecting", "off", {"STOPPED"})
    \/ MovesWith("active", "stopping", {"STOPPING"}) /\ events' # events
    \/ MovesWith("active", "off", {"STOPPED"}) /\ events' # events
    \/ MovesWith("stopping", "off", {"STOPPED"}) /\ events' # events
    \/ OnStreamingStarted \/ OnStreamingStopping \/ OnStreamingStopped

LEMMA AppendedEvents ==
    ASSUME events \in Seq(Event), NEW e \in Event
    PROVE  Append(events, e) # events
<1>1. Len(Append(events, e)) = Len(events) + 1 /\ Len(events) \in Nat
  BY AppendProperties, LenProperties
<1> QED
  BY <1>1

LEMMA StreamStepCorrect == TypeOK /\ [Next]_vars => StreamStep
<1> SUFFICES ASSUME TypeOK, [Next]_vars PROVE StreamStep
  OBVIOUS
<1> USE DEF StreamStep
<1>1. frontend \in Frontend /\ events \in Seq(Event)
  BY DEF TypeOK
<1>2. ASSUME UNCHANGED <<frontend, events>> PROVE StreamStep
  BY <1>2
<1>3. ASSUME StartFrontend, UNCHANGED events PROVE StreamStep
  BY <1>1, <1>3 DEF StartFrontend, MovesWith, Frontend
<1>4. ASSUME StopFrontend PROVE StreamStep
  <2>1. CASE frontend.phase = "active"
    <3>1. frontend'.phase = "stopping" /\ frontend'.exists = frontend.exists
      BY <1>1, <1>4, <2>1 DEF StopFrontend, Frontend
    <3>2. events' = Append(events, "STOPPING") /\ events' # events
      BY <1>1, <1>4, <2>1, AppendedEvents DEF StopFrontend, Event
    <3> QED
      BY <2>1, <3>1, <3>2 DEF MovesWith
  <2>2. CASE frontend.phase # "active"
    BY <1>2, <1>4, <2>2 DEF StopFrontend
  <2> QED
    BY <2>1, <2>2
<1>5. CASE PluginCall
  <2>1. ASSUME NEW new, ConfigureSlots(new) PROVE StreamStep
    BY <1>2, <2>1 DEF ConfigureSlots
  <2>2. ASSUME NEW d \in Delay, SetProgramDelay(d) PROVE StreamStep
    <3>1. frontend'.phase = frontend.phase /\ frontend'.exists = frontend.exists
      BY <1>1, <2>2 DEF SetProgramDelay, Frontend
    <3> QED
      BY <2>2, <3>1 DEF SetProgramDelay
  <2> QED
    BY <1>2, <1>3, <1>4, <1>5, <2>1, <2>2
    DEF PluginCall, ConfigureOutput, Configure, ClearConfiguration, StartPrimary,
        StartBackupAgain, StartBackupBesidePrimary, StartBackupOnFrontend, StopPrimary,
        StopBackup, Shutdown, Health, outputs
<1>6. CASE EventDelivery
  <2>1. CASE OnStreamingStarting
    BY <1>1, <2>1 DEF OnStreamingStarting, Frontend
  <2> QED
    BY <1>6, <2>1 DEF EventDelivery
<1>7. ASSUME NEW from, NEW to, FrontendMoves(from, to)
      PROVE  frontend.phase = from /\ frontend'.phase = to /\ frontend'.exists = frontend.exists
  BY <1>1, <1>7 DEF FrontendMoves, Frontend
<1>8. \A e \in Event : Append(events, e) # events
  BY <1>1, AppendedEvents
<1>9. CASE ObsStep
  <2>1. CASE UserStarts \/ UserStops
    BY <1>3, <1>4, <2>1 DEF UserStarts, UserStops
  <2>2. CASE FrontendRefused
    BY <1>7, <2>2 DEF FrontendRefused, MovesWith
  <2>3. CASE FrontendConnected \/ FrontendFailed
    BY <1>7, <1>8, <2>3 DEF FrontendConnected, FrontendFailed, MovesWith, Event
  <2>4. CASE FrontendDropped \/ FrontendStopped
    BY <1>7, <1>8, <2>4 DEF FrontendDropped, FrontendStopped, MovesWith, Event
  <2>5. CASE AuxConnected \/ AuxDied \/ AuxStopped \/ \E r \in Role : OnReconnect(r)
    BY <1>2, <2>5 DEF AuxConnected, AuxDied, AuxStopped, AuxMoves, OnReconnect, outputs
  <2> QED
    BY <1>9, <2>1, <2>2, <2>3, <2>4, <2>5 DEF ObsStep
<1>10. CASE UNCHANGED vars
  BY <1>2, <1>10 DEF vars, outputs
<1> QED
  BY <1>5, <1>6, <1>9, <1>10 DEF Next

-----------------------------------------------------------------------------
(* The order of the queue.                                                 *)

(* A stop that was begun is completed: STOPPING is the last event only     *)
(* while the stream is stopping, and otherwise STOPPED comes next.         *)
StopsAreCompleted ==
    \A i \in DOMAIN events : events[i] = "STOPPING" =>
        IF i = Len(events) THEN frontend.phase = "stopping" ELSE events[i + 1] = "STOPPED"

(* Events come from an output that exists.                                 *)
OutputExists == frontend.phase \notin {"off", "requested"} \/ events # <<>> => frontend.exists

QueueOrder == StopsAreCompleted /\ OutputExists

(* An event raised last.                                                   *)
LEMMA RaisedOrder ==
    ASSUME TypeOK, StopsAreCompleted, NEW e \in Event, events' = Append(events, e),
           e = "STOPPING" => frontend.phase # "stopping" /\ frontend'.phase = "stopping",
           e = "STARTED" => frontend.phase # "stopping"
    PROVE  StopsAreCompleted'
<1>1. /\ Len(events') = Len(events) + 1 /\ Len(events) \in Nat
      /\ events'[Len(events) + 1] = e
      /\ \A i \in 1..Len(events) : events'[i] = events[i]
      /\ DOMAIN events = 1..Len(events) /\ DOMAIN events' = 1..Len(events')
  BY AppendProperties, LenProperties DEF TypeOK
<1> SUFFICES ASSUME NEW i \in DOMAIN events', events'[i] = "STOPPING"
             PROVE  IF i = Len(events') THEN frontend'.phase = "stopping"
                    ELSE events'[i + 1] = "STOPPED"
  BY DEF StopsAreCompleted
<1>2. CASE i = Len(events')
  BY <1>1, <1>2
<1>3. CASE i = Len(events)
  <2>1. frontend.phase = "stopping"
    BY <1>1, <1>3 DEF StopsAreCompleted
  <2> QED
    BY <1>1, <1>3, <2>1 DEF Event
<1>4. CASE i < Len(events)
  <2>1. i \in 1..Len(events) /\ i + 1 \in 1..Len(events)
    BY <1>1, <1>4
  <2>2. events[i + 1] = "STOPPED"
    BY <1>1, <1>4, <2>1 DEF StopsAreCompleted
  <2> QED
    BY <1>1, <1>4, <2>1, <2>2
<1> QED
  BY <1>1, <1>2, <1>3, <1>4

(* An event delivered; what comes after it.                                *)
LEMMA DeliveredOrder ==
    ASSUME TypeOK, StopsAreCompleted, NEW e \in Event, Deliver(e)
    PROVE  /\ StopsAreCompleted'
           /\ e = "STOPPING" => \/ frontend.phase = "stopping" /\ events' = <<>>
                               \/ NextEvent("STOPPED")'
<1>1. /\ events' \in Seq(Event) /\ Len(events') = Len(events) - 1
      /\ \A i \in 1..Len(events') : events'[i] = events[i + 1]
      /\ Len(events) \in Nat /\ DOMAIN events = 1..Len(events)
      /\ DOMAIN events' = 1..Len(events') /\ Len(events) # 0
      /\ events[1] = e /\ UNCHANGED frontend
  BY HeadTailProperties, LenProperties, EmptySeq DEF Deliver, TypeOK
<1>2. ASSUME NEW i \in DOMAIN events', events'[i] = "STOPPING"
      PROVE  IF i = Len(events') THEN frontend'.phase = "stopping"
             ELSE events'[i + 1] = "STOPPED"
  <2>1. i + 1 \in DOMAIN events /\ events[i + 1] = "STOPPING"
    BY <1>1, <1>2
  <2>2. i = Len(events') \/ i + 1 \in 1..Len(events')
    BY <1>1
  <2> QED
    BY <1>1, <2>1, <2>2 DEF StopsAreCompleted
<1>3. ASSUME e = "STOPPING", ~(frontend.phase = "stopping" /\ events' = <<>>)
      PROVE  NextEvent("STOPPED")'
  <2>1. 1 \in DOMAIN events /\ 1 # Len(events) /\ events[2] = "STOPPED"
    BY <1>1, <1>3, EmptySeq DEF StopsAreCompleted
  <2>2. Len(events') # 0 /\ 1 \in 1..Len(events') /\ events'[1] = "STOPPED"
    BY <1>1, <2>1
  <2>3. events' # <<>> /\ Head(events') = events'[1]
    BY <1>1, <2>2, EmptySeq, HeadTailProperties
  <2> QED
    BY <2>2, <2>3 DEF NextEvent
<1> QED
  BY <1>2, <1>3 DEF StopsAreCompleted

LEMMA QueueOrderStep == TypeOK /\ QueueOrder /\ [Next]_vars => QueueOrder'
<1> SUFFICES ASSUME TypeOK, QueueOrder, StreamStep PROVE QueueOrder'
  BY StreamStepCorrect
<1>0. events # <<>> => frontend.exists
  BY DEF QueueOrder, OutputExists
<1>1. ASSUME frontend'.phase = frontend.phase, frontend'.exists = frontend.exists,
             events' = events
      PROVE  QueueOrder'
  BY <1>1 DEF QueueOrder, StopsAreCompleted, OutputExists
<1>2. ASSUME frontend.phase # "stopping", events' = events,
             frontend'.phase \in {"off", "requested"} \/ frontend'.exists,
             frontend.exists => frontend'.exists
      PROVE  QueueOrder'
  BY <1>0, <1>2 DEF QueueOrder, StopsAreCompleted, OutputExists
<1>3. ASSUME NEW from, NEW to, NEW e \in Event, MovesWith(from, to, {e}), events' # events,
             from \notin {"off", "requested"},
             e = "STOPPING" => from # "stopping" /\ to = "stopping",
             e = "STARTED" => from # "stopping"
      PROVE  QueueOrder'
  <2>1. frontend'.exists /\ events' = Append(events, e)
    BY <1>3 DEF MovesWith, QueueOrder, OutputExists
  <2>2. StopsAreCompleted'
    BY <1>3, <2>1, RaisedOrder DEF MovesWith, QueueOrder
  <2> QED
    BY <2>1, <2>2 DEF QueueOrder, OutputExists
<1>4. ASSUME NEW e \in Event, Deliver(e) PROVE QueueOrder'
  <2>1. frontend'.exists /\ StopsAreCompleted'
    BY <1>0, <1>4, DeliveredOrder DEF Deliver, QueueOrder
  <2> QED
    BY <2>1 DEF QueueOrder, OutputExists
<1>5. CASE MovesWith("off", "requested", {}) \/ MovesWith("requested", "off", {})
  BY <1>2, <1>5 DEF MovesWith
<1>6. CASE OnStreamingStarting /\ frontend'.phase = "connecting" /\ frontend'.exists
  BY <1>2, <1>6 DEF OnStreamingStarting
<1>7. CASE MovesWith("connecting", "off", {"STOPPED"})
  <2>1. CASE events' = events
    BY <1>2, <1>7, <2>1 DEF MovesWith
  <2>2. CASE events' # events
    BY <1>3, <1>7, <2>2 DEF Event
  <2> QED
    BY <2>1, <2>2
<1> QED
  BY <1>1, <1>3, <1>4, <1>5, <1>6, <1>7
  DEF StreamStep, Event, OnStreamingStarted, OnStreamingStopping, OnStreamingStopped

(* OBS completes in the queue what it began, and has an output as long as  *)
(* anything is left to deliver.                                            *)
THEOREM QueueIsAlwaysOrdered == Spec => []QueueOrder
<1>1. Init => QueueOrder
  BY DEF Init, QueueOrder, StopsAreCompleted, OutputExists
<1> QED
  BY <1>1, QueueOrderStep, TypeCorrect, PTL DEF Spec

-----------------------------------------------------------------------------
(* What health shows as Live.                                              *)

(* An inactive stream has announced its end, or nothing: the last event    *)
(* still queued is a STOPPED.                                              *)
EndIsLastEvent == ~FrontendActive => events = <<>> \/ events[Len(events)] = "STOPPED"

LEMMA LastIsQueued ==
    ASSUME events \in Seq(Event), events # <<>>
    PROVE  Queued(events[Len(events)])
<1>1. Len(events) \in DOMAIN events
  BY LenProperties, EmptySeq
<1> QED
  BY <1>1 DEF Queued

(* Delivering one event leaves every other kind where it is.               *)
LEMMA OtherEventStays ==
    ASSUME events \in Seq(Event), NEW e \in Event, NEW f \in Event, e # f,
           Deliver(e), Queued(f)
    PROVE  Queued(f)'
<1>1. /\ events' \in Seq(Event) /\ Len(events') = Len(events) - 1
      /\ \A i \in 1..Len(events') : events'[i] = events[i + 1]
      /\ Len(events) \in Nat /\ DOMAIN events = 1..Len(events)
      /\ DOMAIN events' = 1..Len(events') /\ events[1] = e
  BY HeadTailProperties, LenProperties DEF Deliver
<1>2. PICK i \in DOMAIN events : events[i] = f
  BY DEF Queued
<1>3. i - 1 \in DOMAIN events' /\ events'[i - 1] = f
  BY <1>1, <1>2
<1> QED
  BY <1>3 DEF Queued

LEMMA EndIsLastStep == TypeOK /\ EndIsLastEvent /\ [Next]_vars => EndIsLastEvent'
<1> SUFFICES ASSUME TypeOK, EndIsLastEvent, StreamStep, ~FrontendActive'
             PROVE  events' = <<>> \/ events'[Len(events')] = "STOPPED"
  BY StreamStepCorrect DEF EndIsLastEvent
<1>1. events \in Seq(Event)
  BY DEF TypeOK
<1>2. ASSUME events' = events, ~FrontendActive
      PROVE  events' = <<>> \/ events'[Len(events')] = "STOPPED"
  BY <1>2 DEF EndIsLastEvent
<1>3. ASSUME events' = Append(events, "STOPPED")
      PROVE  events'[Len(events')] = "STOPPED"
  BY <1>1, <1>3, RaisedEvent DEF Event
<1>4. ASSUME NEW e \in Event, Deliver(e)
      PROVE  events' = <<>> \/ events'[Len(events')] = "STOPPED"
  <2>1. ~FrontendActive /\ events # <<>>
    BY <1>4 DEF Deliver, FrontendActive
  <2> QED
    BY <1>1, <1>4, <2>1, DeliveredEvent DEF EndIsLastEvent
<1>5. CASE OnStreamingStarting
  BY <1>2, <1>5 DEF OnStreamingStarting, FrontendActive
<1>6. CASE OnStreamingStarted \/ OnStreamingStopping \/ OnStreamingStopped
  BY <1>4, <1>6 DEF OnStreamingStarted, OnStreamingStopping, OnStreamingStopped, Event
<1> QED
  BY <1>2, <1>3, <1>5, <1>6 DEF StreamStep, MovesWith, FrontendActive

LEMMA EndIsLastCorrect == Spec => []EndIsLastEvent
<1>1. Init => EndIsLastEvent
  BY DEF Init, EndIsLastEvent
<1> QED
  BY <1>1, EndIsLastStep, TypeCorrect, PTL DEF Spec

(* A slot becomes Live by no step but the delivery of STARTED to the owner.*)
LEMMA LiveBegins ==
    ASSUME TypeOK, Next, NEW r \in Role, state[r] # "Live", state'[r] = "Live"
    PROVE  OnStreamingStarted /\ frontendRole = r
<1>1. /\ state \in [Role -> SlotState] /\ r \in {"Primary", "Backup"}
      /\ \A c : RestState(c) # "Live"
  BY DEF TypeOK, RestState
<1>2. ASSUME NEW new, ConfigureSlots(new) PROVE FALSE
  BY <1>1, <1>2 DEF ConfigureSlots
<1>3. ASSUME StartAuxiliary(state, [state |-> "Starting", requested |-> TRUE]) PROVE FALSE
  BY <1>1, <1>3 DEF StartAuxiliary
<1>4. CASE PluginCall
  BY <1>1, <1>2, <1>3, <1>4
  DEF PluginCall, ConfigureOutput, Configure, ClearConfiguration, SetProgramDelay,
      StartPrimary, StartBackupAgain, StartBackupBesidePrimary, StartBackupOnFrontend,
      StopPrimary, StopBackup, Shutdown, Health, slots
<1>5. CASE EventDelivery
  <2>1. CASE OnStreamingStarting
    BY <1>1, <2>1 DEF OnStreamingStarting, TypeOK
  <2>2. CASE OnStreamingStopping \/ OnStreamingStopped
    BY <1>1, <2>2 DEF OnStreamingStopping, OnStreamingStopped, TypeOK
  <2>3. CASE OnStreamingStarted
    <3>1. CASE frontendRole = NoRole
      BY <2>3, <3>1 DEF OnStreamingStarted
    <3>2. CASE frontendRole # NoRole /\ frontendRole # r
      BY <1>1, <2>3, <3>2 DEF OnStreamingStarted, StartAuxiliary
    <3> QED
      BY <2>3, <3>1, <3>2
  <2> QED
    BY <1>5, <2>1, <2>2, <2>3 DEF EventDelivery
<1>6. CASE ObsStep
  BY <1>6 DEF ObsStep, UserStarts, UserStops, FrontendRefused, FrontendConnected,
     FrontendFailed, FrontendDropped, FrontendStopped, FrontendMoves, AuxConnected,
     AuxDied, AuxStopped, AuxMoves, OnReconnect, slots
<1> QED
  BY <1>4, <1>5, <1>6 DEF Next

(* The owner changes by the calls that clear or shut the manager down, and *)
(* by a start of Primary over Backup.                                      *)
LEMMA OwnerLeaves ==
    ASSUME TypeOK, Next, NEW r \in Role, frontendRole = r, frontendRole' # r
    PROVE  \/ ClearConfiguration \/ Shutdown
           \/ r = "Backup" /\ StartPrimary
<1>1. CASE PluginCall
  BY <1>1 DEF PluginCall, ConfigureOutput, Configure, ConfigureSlots, SetProgramDelay,
     StartPrimary, StartBackupAgain, StartBackupBesidePrimary, StartBackupOnFrontend,
     StopPrimary, StopBackup, Health, roles
<1>2. CASE EventDelivery \/ ObsStep
  BY <1>2 DEF EventDelivery, OnStreamingStarting, OnStreamingStarted, OnStreamingStopping,
     OnStreamingStopped, ObsStep, UserStarts, UserStops, FrontendRefused, FrontendConnected,
     FrontendFailed, FrontendDropped, FrontendStopped, FrontendMoves, AuxConnected,
     AuxDied, AuxStopped, AuxMoves, OnReconnect, roles
<1> QED
  BY <1>1, <1>2 DEF Next

(* While a slot keeps the stream and stays Live, the stream runs or its    *)
(* STOPPED is queued: the end of the stream queues it, and its delivery    *)
(* resets the slot.                                                        *)
LEMMA OwnerStaysLive ==
    ASSUME TypeOK, EndIsLastEvent', StreamStep, NEW r \in Role,
           frontendRole = r, state[r] = "Live", state'[r] = "Live",
           FrontendActive \/ Queued("STOPPED")
    PROVE  FrontendActive' \/ Queued("STOPPED")'
<1> SUFFICES ASSUME ~FrontendActive', ~Queued("STOPPED")' PROVE FALSE
  OBVIOUS
<1>1. events \in Seq(Event) /\ r # NoRole /\ state \in [Role -> SlotState]
  BY DEF TypeOK
<1>2. events' \in Seq(Event) => events' = <<>>
  <2> SUFFICES ASSUME events' \in Seq(Event), events' # <<>> PROVE FALSE
    OBVIOUS
  <2>1. events'[Len(events')] = "STOPPED"
    BY DEF EndIsLastEvent
  <2>2. Len(events') \in DOMAIN events'
    BY LenProperties, EmptySeq
  <2> QED
    BY <2>1, <2>2 DEF Queued
<1>3. ASSUME UNCHANGED events, ~FrontendActive PROVE FALSE
  BY <1>3 DEF Queued
<1>4. ASSUME events' = Append(events, "STOPPED") PROVE FALSE
  BY <1>1, <1>4, RaisedEvent DEF Event
<1>5. ASSUME NEW e \in Event, e # "STOPPED", Deliver(e) PROVE FALSE
  <2>1. ~FrontendActive
    BY <1>5 DEF Deliver, FrontendActive
  <2>2. "STOPPED" \in Event
    BY DEF Event
  <2> QED
    BY <1>1, <1>5, <2>1, <2>2, OtherEventStays
<1>6. CASE OnStreamingStarting
  BY <1>1, <1>6 DEF OnStreamingStarting
<1>7. CASE OnStreamingStarted \/ OnStreamingStopping
  BY <1>5, <1>7 DEF OnStreamingStarted, OnStreamingStopping, Event
<1>8. CASE OnStreamingStopped
  BY <1>1, <1>8 DEF OnStreamingStopped, RestState
<1>9. CASE frontend'.phase = frontend.phase /\ UNCHANGED events
  BY <1>3, <1>9 DEF FrontendActive
<1> QED
  BY <1>3, <1>4, <1>6, <1>7, <1>8, <1>9 DEF StreamStep, MovesWith, FrontendActive

LEMMA LiveStep ==
    ASSUME TypeOK, Ownership, EndIsLastEvent, EndIsLastEvent', Next, NEW r \in Role,
           ShownFalsely(r)', ~ShownFalsely(r)
    PROVE  \/ Shutdown
           \/ r = "Backup" /\ frontendRole = "Backup" /\ StartPrimary
<1>1. /\ state'[r] = "Live" /\ ~SlotActive(r)'
      /\ ~(frontendRole' = r /\ Queued("STOPPED")')
  BY DEF ShownFalsely, Shown
<1>2. frontendRole' = r => ~FrontendActive'
  BY <1>1 DEF SlotActive
<1>3. CASE state[r] # "Live"
  <2>1. OnStreamingStarted /\ frontendRole = r
    BY <1>1, <1>3, LiveBegins
  <2>2. frontendRole' = r /\ Deliver("STARTED") /\ UNCHANGED frontend
    BY <2>1 DEF OnStreamingStarted, Deliver
  <2>3. events # <<>> /\ ~FrontendActive
    BY <1>2, <2>2 DEF Deliver, FrontendActive
  <2>4. Queued("STOPPED")
    BY <2>3, LastIsQueued DEF TypeOK, EndIsLastEvent
  <2>5. Queued("STOPPED")'
    BY <2>2, <2>4, OtherEventStays DEF TypeOK, Event
  <2> QED
    BY <1>1, <2>2, <2>5
<1>4. CASE state[r] = "Live"
  <2>1. SlotActive(r) \/ (frontendRole = r /\ Queued("STOPPED"))
    BY <1>4 DEF ShownFalsely, Shown
  <2>2. r = "Backup" => ~AuxActive
    BY <1>4 DEF Ownership, AuxActive
  <2>3. frontendRole = r /\ (FrontendActive \/ Queued("STOPPED"))
    BY <2>1, <2>2 DEF SlotActive
  <2>4. CASE frontendRole' = r
    <3>1. StreamStep
      BY StreamStepCorrect
    <3> QED
      BY <1>1, <1>2, <1>4, <2>3, <2>4, <3>1, OwnerStaysLive
  <2>5. CASE frontendRole' # r
    <3>1. ~ClearConfiguration
      BY <1>1 DEF ClearConfiguration
    <3> QED
      BY <2>3, <2>5, <3>1, OwnerLeaves
  <2> QED
    BY <2>4, <2>5
<1> QED
  BY <1>3, <1>4

(* Health shows no slot as Live without a stream, whatever is configured   *)
(* and however late the events come, except after a shutdown or where      *)
(* startPrimary took the stream of a Backup whose end was not delivered.   *)
THEOREM LiveAlwaysMeansStreaming == Spec => LiveMeansStreaming
<1>1. TypeOK /\ Ownership /\ EndIsLastEvent /\ EndIsLastEvent' /\ [Next]_vars =>
        [\A r \in Role : ShownFalsely(r)' =>
            \/ ShownFalsely(r)
            \/ Shutdown
            \/ r = "Backup" /\ frontendRole = "Backup" /\ StartPrimary]_vars
  BY LiveStep
<1> QED
  BY <1>1, TypeCorrect, OwnershipCorrect, EndIsLastCorrect, PTL
  DEF Spec, LiveMeansStreaming

(* The handler moves with the role or is withdrawn, in every step but a    *)
(* start of Primary on the stream that connects for Backup.                *)
LEMMA TrackingStep ==
    ASSUME TypeOK, HandlerHasOwner, Next
    PROVE  \/ tracked' \in {NoRole, frontendRole'}
           \/ UNCHANGED <<tracked, frontendRole>>
           \/ tracked = "Backup" /\ frontendRole = "Backup" /\ StartPrimary
<1>1. tracked \in Role \cup {NoRole} /\ frontendRole \in Role \cup {NoRole}
  BY DEF TypeOK
<1>2. CASE StartPrimary
  BY <1>1, <1>2 DEF StartPrimary
<1>3. CASE StartBackupOnFrontend
  BY <1>1, <1>3 DEF StartBackupOnFrontend
<1>4. CASE ClearConfiguration \/ Shutdown
  BY <1>4 DEF ClearConfiguration, Shutdown, ReleaseFrontendTracking
<1>5. CASE EventDelivery
  BY <1>5 DEF EventDelivery, OnStreamingStarting, OnStreamingStarted, OnStreamingStopping,
     OnStreamingStopped, ReleaseFrontendTracking, roles
<1>6. CASE ObsStep
  BY <1>6 DEF ObsStep, UserStarts, UserStops, FrontendRefused, FrontendConnected,
     FrontendFailed, FrontendDropped, FrontendStopped, FrontendMoves, AuxConnected,
     AuxDied, AuxStopped, AuxMoves, OnReconnect, roles
<1>7. CASE PluginCall
  BY <1>2, <1>3, <1>4, <1>7
  DEF PluginCall, ConfigureOutput, Configure, ConfigureSlots, SetProgramDelay,
      StartBackupAgain, StartBackupBesidePrimary, StopPrimary, StopBackup, Health, roles
<1> QED
  BY <1>5, <1>6, <1>7 DEF Next

(* The reconnects of the stream are counted for its owner or for nobody    *)
(* once the role has moved, with the one exception the property names.     *)
THEOREM TrackingAlwaysFollowsOwner == Spec => TrackingFollowsOwner
<1>1. TypeOK /\ Ownership /\ [Next]_vars =>
        [\/ tracked' \in {NoRole, frontendRole'}
         \/ UNCHANGED <<tracked, frontendRole>>
         \/ tracked = "Backup" /\ frontendRole = "Backup" /\ StartPrimary]_vars
  BY TrackingStep DEF Ownership
<1> QED
  BY <1>1, TypeCorrect, OwnershipCorrect, PTL DEF Spec, TrackingFollowsOwner

-----------------------------------------------------------------------------
(* Every stop has a way out.                                               *)

StreamStops(r) == frontendRole = r /\ state[r] = "Stopping"

(* The stream is still stopping, or it has ended and the poll will notice, *)
(* or somebody has started it again and the end of the stream before is    *)
(* the next event.                                                         *)
WayOut(r) ==
    StreamStops(r) => /\ frontend.exists
                      /\ \/ frontend.phase \in {"stopping", "off", "requested"}
                         \/ NextEvent("STOPPED")

StopHasWayOut == \A r \in Role : WayOut(r)

(* A stop begins with a call that stops the stream, or with an event.      *)
LEMMA StopBegins ==
    ASSUME TypeOK, Ownership, QueueOrder, [Next]_vars, NEW r \in Role, StreamStops(r)'
    PROVE  \/ StreamStops(r)
           \/ frontend'.phase = "stopping" /\ frontend'.exists
           \/ OnStreamingStopping
<1> USE DEF StreamStops
<1>1. /\ state \in [Role -> SlotState] /\ config \in [Role -> SlotConfig]
      /\ \A c : RestState(c) # "Stopping"
  BY DEF TypeOK, RestState
<1>2. ASSUME NEW new, ConfigureSlots(new) PROVE StreamStops(r)
  BY <1>1, <1>2 DEF ConfigureSlots
<1>3. ASSUME FrontendActive, StopFrontend PROVE frontend'.phase = "stopping" /\ frontend'.exists
  BY <1>3 DEF FrontendActive, StopFrontend, TypeOK, Frontend, QueueOrder, OutputExists
<1>4. ASSUME frontendRole' = frontendRole, state'[r] = state[r] PROVE StreamStops(r)
  BY <1>4
<1>5. CASE PluginCall
  <2>1. CASE StartPrimary
    BY <1>1, <2>1 DEF StartPrimary
  <2>2. CASE StartBackupOnFrontend
    BY <1>1, <2>2 DEF StartBackupOnFrontend
  <2>3. CASE StartBackupBesidePrimary
    BY <1>1, <1>4, <2>3 DEF StartBackupBesidePrimary, StartAuxiliary
  <2>4. CASE StopPrimary
    BY <1>1, <1>3, <2>4 DEF StopPrimary
  <2>5. CASE StopBackup
    <3>1. CASE r = "Primary"
      BY <1>1, <2>5, <3>1 DEF StopBackup
    <3>2. CASE r = "Backup"
      <4>1. frontendRole = "Backup" /\ ~AuxActive
        BY <2>5, <3>2 DEF StopBackup, Ownership, AuxActive
      <4>2. FrontendActive /\ StopFrontend
        BY <1>1, <2>5, <3>2, <4>1 DEF StopBackup, SlotActive
      <4> QED
        BY <1>3, <4>2
    <3> QED
      BY <3>1, <3>2
  <2>6. CASE Health
    BY <1>1, <2>6 DEF Health, roles
  <2>7. CASE ClearConfiguration \/ Shutdown
    BY <2>7 DEF ClearConfiguration, Shutdown
  <2>8. CASE StartBackupAgain \/ \E d \in Delay : SetProgramDelay(d)
    BY <2>8 DEF StartBackupAgain, SetProgramDelay, roles, slots
  <2> QED
    BY <1>2, <1>5, <2>1, <2>2, <2>3, <2>4, <2>5, <2>6, <2>7, <2>8
    DEF PluginCall, ConfigureOutput, Configure
<1>6. CASE EventDelivery
  <2>1. CASE OnStreamingStarting
    BY <1>1, <2>1 DEF OnStreamingStarting
  <2>2. CASE OnStreamingStarted
    BY <1>1, <2>2 DEF OnStreamingStarted, StartAuxiliary
  <2>3. CASE OnStreamingStopped
    BY <1>1, <2>3 DEF OnStreamingStopped
  <2> QED
    BY <1>6, <2>1, <2>2, <2>3 DEF EventDelivery
<1>7. CASE ObsStep
  BY <1>7 DEF ObsStep, UserStarts, UserStops, FrontendRefused, FrontendConnected,
     FrontendFailed, FrontendDropped, FrontendStopped, FrontendMoves, AuxConnected,
     AuxDied, AuxStopped, AuxMoves, OnReconnect, roles, slots
<1>8. CASE UNCHANGED vars
  BY <1>8 DEF vars, roles, slots
<1> QED
  BY <1>5, <1>6, <1>7, <1>8 DEF Next

(* What takes a slot out of its stop: the announcement of a new stream,    *)
(* its start, the end of the old one, and the poll of an ended one.        *)
LEMMA StopEnds ==
    ASSUME TypeOK, Ownership, NEW r \in Role, StreamStops(r)
    PROVE  /\ OnStreamingStarting \/ OnStreamingStarted \/ OnStreamingStopped
                => ~StreamStops(r)'
           /\ Health /\ frontend.exists /\ frontend.phase \in {"off", "requested"}
                => ~StreamStops(r)'
<1> USE DEF StreamStops
<1>1. /\ state \in [Role -> SlotState] /\ config \in [Role -> SlotConfig]
      /\ \A c : RestState(c) # "Stopping"
  BY DEF TypeOK, RestState
<1>2. CASE OnStreamingStarting
  BY <1>1, <1>2 DEF OnStreamingStarting
<1>3. CASE OnStreamingStarted
  BY <1>1, <1>3 DEF OnStreamingStarted, StartAuxiliary
<1>4. CASE OnStreamingStopped
  BY <1>1, <1>4 DEF OnStreamingStopped
<1>5. ASSUME Health, frontend.exists, frontend.phase \in {"off", "requested"}
      PROVE  state'[r] # "Stopping"
  <2>1. HasOutput(r) /\ ~SlotActive(r)
    BY <1>5 DEF HasOutput, SlotActive, FrontendActive, AuxActive, Ownership
  <2> QED
    BY <1>1, <1>5, <2>1 DEF Health
<1> QED
  BY <1>2, <1>3, <1>4, <1>5

(* The next event stays the next one until it is delivered.                *)
LEMMA NextEventStays ==
    ASSUME TypeOK, StreamStep, NEW e, NextEvent(e)
    PROVE  \/ NextEvent(e)'
           \/ e = "STARTED" /\ OnStreamingStarted
           \/ e = "STOPPING" /\ OnStreamingStopping
           \/ e = "STOPPED" /\ OnStreamingStopped
<1>1. ASSUME NEW x \in Event, events' = Append(events, x) PROVE NextEvent(e)'
  <2>1. /\ events \in Seq(Event) /\ Len(events) \in Nat \ {0} /\ Head(events) = events[1]
        /\ events' \in Seq(Event) /\ Len(events') = Len(events) + 1
    BY <1>1, LenProperties, EmptySeq, HeadTailProperties, AppendProperties
       DEF TypeOK, NextEvent
  <2>2. 1 \in 1..Len(events) /\ events'[1] = events[1]
    BY <1>1, <2>1, AppendProperties
  <2>3. events' # <<>> /\ Head(events') = events'[1]
    BY <2>1, EmptySeq, HeadTailProperties
  <2> QED
    BY <2>1, <2>2, <2>3 DEF NextEvent
<1>2. ASSUME events' = events PROVE NextEvent(e)'
  BY <1>2 DEF NextEvent
<1>3. ASSUME NEW from, NEW to, NEW raised \in SUBSET Event, MovesWith(from, to, raised)
      PROVE  NextEvent(e)'
  BY <1>1, <1>2, <1>3 DEF MovesWith
<1>4. CASE OnStreamingStarting
  BY <1>2, <1>4 DEF OnStreamingStarting
<1>5. CASE OnStreamingStarted \/ OnStreamingStopping \/ OnStreamingStopped
  BY <1>5 DEF OnStreamingStarted, OnStreamingStopping, OnStreamingStopped, Deliver, NextEvent
<1> QED
  BY <1>2, <1>3, <1>4, <1>5 DEF StreamStep, Event

LEMMA WayOutStep ==
    ASSUME TypeOK, Ownership, QueueOrder, [Next]_vars, NEW r \in Role, WayOut(r)
    PROVE  WayOut(r)'
<1> SUFFICES ASSUME StreamStops(r)'
             PROVE  /\ frontend'.exists
                    /\ \/ frontend'.phase \in {"stopping", "off", "requested"}
                       \/ NextEvent("STOPPED")'
  BY DEF WayOut
<1>0. StreamStep
  BY StreamStepCorrect
<1>1. CASE frontend'.phase = "stopping" /\ frontend'.exists
  BY <1>1
<1>2. CASE OnStreamingStopping
  <2>1. Deliver("STOPPING") /\ frontend' = frontend
    BY <1>2 DEF OnStreamingStopping, Deliver
  <2>2. frontend.phase = "stopping" \/ NextEvent("STOPPED")'
    BY <2>1, DeliveredOrder DEF QueueOrder, Event
  <2> QED
    BY <2>1, <2>2 DEF QueueOrder, OutputExists, Deliver
<1>3. CASE StreamStops(r) /\ ~OnStreamingStopping
  <2>1. ~OnStreamingStarting /\ ~OnStreamingStarted /\ ~OnStreamingStopped
    BY <1>3, StopEnds
  <2>2. NextEvent("STOPPED") => NextEvent("STOPPED")'
    BY <1>0, <2>1, NextEventStays
  <2>3. frontend'.exists
    BY <1>0, <1>3, <2>1 DEF StreamStep, MovesWith, WayOut
  <2>4. frontend.phase \in {"stopping", "off", "requested"}
          => frontend'.phase \in {"stopping", "off", "requested"}
    BY <1>0, <1>3, <2>1 DEF StreamStep, MovesWith
  <2> QED
    BY <1>3, <2>2, <2>3, <2>4 DEF WayOut
<1> QED
  BY <1>1, <1>2, <1>3, StopBegins

(* No slot can be left in Stopping with nothing to come that ends it.      *)
THEOREM StopAlwaysHasWayOut == Spec => []StopHasWayOut
<1>1. Init => StopHasWayOut
  BY DEF Init, StopHasWayOut, WayOut, StreamStops
<1>2. TypeOK /\ Ownership /\ QueueOrder /\ StopHasWayOut /\ [Next]_vars => StopHasWayOut'
  BY WayOutStep DEF StopHasWayOut
<1> QED
  BY <1>1, <1>2, TypeCorrect, OwnershipCorrect, QueueIsAlwaysOrdered, PTL DEF Spec

-----------------------------------------------------------------------------
(* Liveness.                                                               *)

(* A stop that has ended and is not reported yet.                          *)
PollHasWork == \E r \in Role : HasOutput(r) /\ ~SlotActive(r) /\ state[r] = "Stopping"

(* What TLAPS has no rule for: that an event which is next can be          *)
(* delivered, OBS can complete a stop, and the poll has something to do.   *)
FairStepsEnabled ==
    /\ NextEvent("STARTED") => ENABLED <<OnStreamingStarted>>_vars
    /\ NextEvent("STOPPING") => ENABLED <<OnStreamingStopping>>_vars
    /\ NextEvent("STOPPED") => ENABLED <<OnStreamingStopped>>_vars
    /\ frontend.phase = "stopping" => ENABLED <<FrontendStopped>>_vars
    /\ aux.phase = "stopping" => ENABLED <<AuxStopped>>_vars
    /\ PollHasWork => ENABLED <<Health>>_vars

Good == TypeOK /\ Ownership /\ Signalling /\ QueueOrder /\ StopHasWayOut

LEMMA GoodCorrect == Spec => []Good
BY TypeCorrect, OwnershipCorrect, SignallingCorrect, QueueIsAlwaysOrdered,
   StopAlwaysHasWayOut, PTL DEF Good

(* The stages of a wait of Backup, by the next event.                      *)
Waits(e) == pendingBackup /\ NextEvent(e)

(* Both the start of the stream and the end of the one before resolve the  *)
(* wait; before that comes at most the announcement of that end.           *)
LEMMA WaitStep ==
    ASSUME Good, [Next]_vars, NEW e \in Event, Waits(e)
    PROVE  /\ Waits(e)' \/ (e = "STOPPING" /\ Waits("STOPPED")') \/ ~pendingBackup'
           /\ OnStreamingStarted \/ OnStreamingStopped => ~pendingBackup'
           /\ OnStreamingStopping => Waits("STOPPED")' \/ ~pendingBackup'
<1> USE DEF Waits
<1>1. TypeOK /\ Ownership /\ QueueOrder /\ StreamStep
  BY StreamStepCorrect DEF Good
<1>2. frontendRole = "Primary"
  BY <1>1 DEF Ownership
<1>3. OnStreamingStarted \/ OnStreamingStopped => ~pendingBackup'
  BY <1>2 DEF OnStreamingStarted, OnStreamingStopped, StartAuxiliary
<1>4. ASSUME OnStreamingStopping, pendingBackup'
      PROVE  e = "STOPPING" /\ Waits("STOPPED")'
  <2>1. e = "STOPPING" /\ Deliver("STOPPING") /\ frontend' = frontend
    BY <1>4 DEF OnStreamingStopping, Deliver, NextEvent
  <2>2. Signalling'
    BY SignallingStep DEF Good
  <2>3. frontend.phase = "stopping" => events' # <<>>
    <3>1. frontend.phase = "stopping" => Queued("STARTED")'
      BY <1>4, <2>1, <2>2 DEF Signalling, NoLostWakeup, FrontendActive
    <3> QED
      BY <3>1 DEF Queued
  <2> QED
    BY <1>1, <1>4, <2>1, <2>3, DeliveredOrder DEF QueueOrder
<1>5. CASE ~OnStreamingStopping
  <2>1. NextEvent(e)' \/ OnStreamingStarted \/ OnStreamingStopped
    BY <1>1, <1>5, NextEventStays
  <2> QED
    BY <1>3, <1>5, <2>1
<1> QED
  BY <1>3, <1>4, <1>5

(* A Backup that waits for a stream which is up is started or given up.    *)
THEOREM PendingBackupIsAlwaysResolved ==
    FairSpec /\ []FairStepsEnabled => PendingBackupResolved
<1> DEFINE Up == pendingBackup /\ FrontendActive
<1>1. Good /\ Up => Waits("STARTED") \/ Waits("STOPPING") \/ Waits("STOPPED")
  <2> SUFFICES ASSUME Good, Up PROVE \E e \in Event : NextEvent(e)
    BY DEF Waits, Event
  <2>1. events \in Seq(Event) /\ events # <<>>
    BY DEF Good, Signalling, NoLostWakeup, Queued, TypeOK
  <2>2. Head(events) \in Event
    BY <2>1, HeadTailProperties
  <2> QED
    BY <2>1, <2>2 DEF NextEvent
<1>2. Good /\ Waits("STARTED") /\ [Next]_vars => Waits("STARTED")' \/ ~pendingBackup'
  BY WaitStep DEF Event
<1>3. Good /\ Waits("STARTED") /\ [Next]_vars /\ <<OnStreamingStarted>>_vars => ~pendingBackup'
  BY WaitStep DEF Event
<1>4. Good /\ Waits("STOPPED") /\ [Next]_vars => Waits("STOPPED")' \/ ~pendingBackup'
  BY WaitStep DEF Event
<1>5. Good /\ Waits("STOPPED") /\ [Next]_vars /\ <<OnStreamingStopped>>_vars => ~pendingBackup'
  BY WaitStep DEF Event
<1>6. Good /\ Waits("STOPPING") /\ [Next]_vars
        => Waits("STOPPING")' \/ Waits("STOPPED")' \/ ~pendingBackup'
  BY WaitStep DEF Event
<1>7. Good /\ Waits("STOPPING") /\ [Next]_vars /\ <<OnStreamingStopping>>_vars
        => Waits("STOPPED")' \/ ~pendingBackup'
  BY WaitStep DEF Event
<1>8. /\ Waits("STARTED") => NextEvent("STARTED")
      /\ Waits("STOPPING") => NextEvent("STOPPING")
      /\ Waits("STOPPED") => NextEvent("STOPPED")
  BY DEF Waits
<1> QED
  BY <1>1, <1>2, <1>3, <1>4, <1>5, <1>6, <1>7, <1>8, GoodCorrect, PTL
  DEF FairSpec, Spec, Fairness, FairStepsEnabled, PendingBackupResolved

(* The stages of a stop of the stream: OBS completes it, the poll notices  *)
(* it, or the end of the stream is the next event.                         *)
Finishing(r) == StreamStops(r) /\ frontend.phase = "stopping"
Finished(r)  == StreamStops(r) /\ frontend.exists /\ frontend.phase \in {"off", "requested"}
Announced(r) == StreamStops(r) /\ NextEvent("STOPPED")

LEMMA StreamStopStep ==
    ASSUME Good, [Next]_vars, NEW r \in Role
    PROVE  /\ Finishing(r) => Finishing(r)' \/ Finished(r)' \/ ~StreamStops(r)'
           /\ Finishing(r) /\ FrontendStopped => Finished(r)' \/ ~StreamStops(r)'
           /\ Finished(r) => Finished(r)' \/ ~StreamStops(r)'
           /\ Finished(r) /\ Health => ~StreamStops(r)'
           /\ Announced(r) => Announced(r)' \/ ~StreamStops(r)'
           /\ Announced(r) /\ OnStreamingStopped => ~StreamStops(r)'
<1> USE DEF Finishing, Finished, Announced
<1>1. /\ TypeOK /\ Ownership /\ StreamStep
      /\ frontend.phase = "stopping" => frontend.exists
  BY StreamStepCorrect DEF Good, QueueOrder, OutputExists
<1>2. StreamStops(r) /\ (OnStreamingStarting \/ OnStreamingStarted \/ OnStreamingStopped)
        => ~StreamStops(r)'
  BY <1>1, StopEnds
<1>3. frontend.phase = "stopping" /\ ~OnStreamingStarting
        => /\ frontend'.phase = "stopping" \/ frontend'.phase = "off"
           /\ frontend'.exists
  BY <1>1 DEF StreamStep, MovesWith, OnStreamingStarted, OnStreamingStopping,
     OnStreamingStopped, Deliver
<1>4. frontend.exists /\ frontend.phase \in {"off", "requested"} /\ ~OnStreamingStarting
        => frontend'.exists /\ frontend'.phase \in {"off", "requested"}
  BY <1>1 DEF StreamStep, MovesWith, OnStreamingStarted, OnStreamingStopping,
     OnStreamingStopped, Deliver
<1>5. FrontendStopped => frontend'.phase = "off"
  BY <1>1 DEF FrontendStopped, FrontendMoves, TypeOK, Frontend
<1>6. Finished(r) /\ Health => ~StreamStops(r)'
  BY <1>1, StopEnds
<1>7. NextEvent("STOPPED") => NextEvent("STOPPED")' \/ OnStreamingStopped
  BY <1>1, NextEventStays
<1> QED
  BY <1>2, <1>3, <1>4, <1>5, <1>6, <1>7

(* A stop of the stream of slot r ends.                                    *)
LEMMA StreamStopCompletes ==
    ASSUME NEW r \in Role
    PROVE  FairSpec /\ []FairStepsEnabled
             => ((frontendRole = r /\ state[r] = "Stopping")
                    ~> (frontendRole # r \/ state[r] # "Stopping"))
<1>1. Good /\ StreamStops(r) => Finishing(r) \/ Finished(r) \/ Announced(r)
  BY DEF Good, StopHasWayOut, WayOut, Finishing, Finished, Announced
<1>2. Good /\ Finishing(r) /\ [Next]_vars => Finishing(r)' \/ Finished(r)' \/ ~StreamStops(r)'
  BY StreamStopStep
<1>3. Good /\ Finishing(r) /\ [Next]_vars /\ <<FrontendStopped>>_vars
        => Finished(r)' \/ ~StreamStops(r)'
  BY StreamStopStep
<1>4. Good /\ Finished(r) /\ [Next]_vars => Finished(r)' \/ ~StreamStops(r)'
  BY StreamStopStep
<1>5. Good /\ Finished(r) /\ [Next]_vars /\ <<Health>>_vars => ~StreamStops(r)'
  BY StreamStopStep
<1>6. Good /\ Announced(r) /\ [Next]_vars => Announced(r)' \/ ~StreamStops(r)'
  BY StreamStopStep
<1>7. Good /\ Announced(r) /\ [Next]_vars /\ <<OnStreamingStopped>>_vars => ~StreamStops(r)'
  BY StreamStopStep
<1>8. /\ Finishing(r) => frontend.phase = "stopping"
      /\ Announced(r) => NextEvent("STOPPED")
  BY DEF Finishing, Announced
<1>9. Good /\ Finished(r) => PollHasWork
  BY DEF PollHasWork, Good, Finished, StreamStops, HasOutput, SlotActive, FrontendActive, AuxActive, Ownership
<1>10. /\ (frontendRole = r /\ state[r] = "Stopping") <=> StreamStops(r)
       /\ (frontendRole # r \/ state[r] # "Stopping") <=> ~StreamStops(r)
  BY DEF StreamStops
<1> QED
  BY <1>1, <1>2, <1>3, <1>4, <1>5, <1>6, <1>7, <1>8, <1>9, <1>10, GoodCorrect, PTL
  DEF FairSpec, Spec, Fairness, FairStepsEnabled

(* The stages of a stop of the auxiliary output: OBS completes it, and the *)
(* poll notices it.                                                        *)
AuxFinishing == aux.phase = "stopping" /\ aux.output /\ state["Backup"] = "Stopping"
AuxFinished  == aux.phase = "off" /\ aux.output /\ state["Backup"] = "Stopping"
AuxStopOver  == state["Backup"] # "Stopping" \/ ~aux.output

LEMMA AuxStopStep ==
    ASSUME Good, [Next]_vars
    PROVE  /\ AuxFinishing => AuxFinishing' \/ AuxFinished' \/ AuxStopOver'
           /\ AuxFinished => AuxFinished' \/ AuxStopOver'
<1> USE DEF AuxFinishing, AuxFinished, AuxStopOver
<1>1. /\ state \in [Role -> SlotState] /\ aux \in Auxiliary /\ ~NoAux.output
  BY DEF Good, TypeOK, NoAux
<1>2. ASSUME aux'.output = aux.output,
             \/ aux'.phase = aux.phase
             \/ aux.phase \notin {"off", "stopping"}
             \/ aux.phase = "stopping" /\ aux'.phase = "off"
      PROVE  /\ AuxFinishing => AuxFinishing' \/ AuxFinished' \/ AuxStopOver'
             /\ AuxFinished => AuxFinished' \/ AuxStopOver'
  BY <1>2
<1>3. ASSUME aux' = NoAux PROVE AuxStopOver'
  BY <1>1, <1>3
<1>4. ASSUME NEW early, NEW before \in [Role -> SlotState], StartAuxiliary(before, early),
             early.state # "Stopping"
      PROVE  AuxStopOver'
  BY <1>4 DEF StartAuxiliary
<1>5. CASE PluginCall
  <2>1. ASSUME NEW new, ConfigureSlots(new)
        PROVE  aux' = aux \/ aux' = NoAux
    BY <2>1 DEF ConfigureSlots, ReleaseAuxiliary
  <2>2. ASSUME NEW d \in Delay, SetProgramDelay(d)
        PROVE  aux'.phase = aux.phase /\ aux'.output = aux.output
    BY <1>1, <2>2 DEF SetProgramDelay, Auxiliary
  <2>3. CASE StartBackupBesidePrimary
    <3>1. CASE StartAuxiliary(state, [state |-> "Starting", requested |-> TRUE])
      BY <1>1, <1>4, <3>1
    <3> QED
      BY <1>2, <2>3, <3>1 DEF StartBackupBesidePrimary
  <2>4. CASE StopBackup
    <3>1. aux' = aux \/ (AuxActive /\ aux' = [aux EXCEPT !.phase = "stopping"])
      BY <2>4 DEF StopBackup
    <3>2. aux' = [aux EXCEPT !.phase = "stopping"]
            => aux'.phase = "stopping" /\ aux'.output = aux.output
      BY <1>1 DEF Auxiliary
    <3> QED
      BY <1>2, <3>1, <3>2 DEF AuxActive
  <2>5. CASE ClearConfiguration \/ Shutdown
    BY <1>3, <2>5 DEF ClearConfiguration, Shutdown, ReleaseAuxiliary
  <2>6. CASE StartPrimary \/ StartBackupAgain \/ StartBackupOnFrontend \/ StopPrimary \/ Health
    BY <1>2, <2>6 DEF StartPrimary, StartBackupAgain, StartBackupOnFrontend, StopPrimary,
       Health, outputs
  <2>7. CASE (\E r \in Role, c \in Config : ConfigureOutput(r, c))
             \/ (\E p, b \in Config : Configure(p, b))
    BY <1>2, <1>3, <2>1, <2>7 DEF ConfigureOutput, Configure
  <2> QED
    BY <1>2, <1>5, <2>2, <2>3, <2>4, <2>5, <2>6, <2>7 DEF PluginCall
<1>6. CASE EventDelivery
  <2>1. CASE OnStreamingStarted /\ aux' # aux
    <3>1. frontendRole # NoRole
          /\ StartAuxiliary([state EXCEPT ![frontendRole] = "Live"],
                            [state |-> "Error", requested |-> FALSE])
      BY <2>1 DEF OnStreamingStarted
    <3>2. [state EXCEPT ![frontendRole] = "Live"] \in [Role -> SlotState]
      BY <1>1 DEF SlotState
    <3> QED
      BY <1>4, <3>1, <3>2
  <2>2. CASE OnStreamingStarting \/ OnStreamingStopping \/ OnStreamingStopped
    BY <1>2, <2>2 DEF OnStreamingStarting, OnStreamingStopping, OnStreamingStopped
  <2> QED
    BY <1>2, <1>6, <2>1, <2>2 DEF EventDelivery
<1>7. CASE ObsStep
  <2>1. ASSUME NEW from, NEW to, AuxMoves(from, to)
        PROVE  aux.phase \in from /\ aux'.phase = to /\ aux'.output = aux.output
    BY <1>1, <2>1 DEF AuxMoves, Auxiliary
  <2>2. CASE AuxStopped \/ AuxConnected \/ AuxDied
    BY <1>2, <2>1, <2>2 DEF AuxStopped, AuxConnected, AuxDied
  <2>3. CASE ~(AuxStopped \/ AuxConnected \/ AuxDied)
    <3>1. aux' = aux
      BY <1>7, <2>3 DEF ObsStep, UserStarts, UserStops, FrontendRefused, FrontendConnected,
         FrontendFailed, FrontendDropped, FrontendStopped, FrontendMoves, OnReconnect, outputs
    <3> QED
      BY <1>2, <3>1
  <2> QED
    BY <2>2, <2>3
<1>8. CASE UNCHANGED vars
  BY <1>2, <1>8 DEF vars, outputs
<1> QED
  BY <1>5, <1>6, <1>7, <1>8 DEF Next

(* The completed stop of the auxiliary output, and the poll that notices.  *)
LEMMA AuxStopEnds ==
    ASSUME Good
    PROVE  /\ AuxFinished => PollHasWork
           /\ AuxFinishing /\ AuxStopped => AuxFinished'
           /\ AuxFinished /\ Health => AuxStopOver'
<1> USE DEF AuxFinishing, AuxFinished, AuxStopOver
<1>1. /\ TypeOK /\ Ownership /\ state \in [Role -> SlotState] /\ aux \in Auxiliary
      /\ \A c : RestState(c) # "Stopping"
  BY DEF Good, TypeOK, RestState
<1>2. AuxFinished => HasOutput("Backup") /\ ~SlotActive("Backup")
  BY <1>1 DEF Ownership, HasOutput, SlotActive, AuxActive
<1>3. AuxFinishing /\ AuxStopped => AuxFinished'
  BY <1>1 DEF AuxStopped, AuxMoves, slots, Auxiliary
<1>4. AuxFinished /\ Health => AuxStopOver'
  BY <1>1, <1>2 DEF Health
<1> QED
  BY <1>2, <1>3, <1>4 DEF PollHasWork

(* A stop of the auxiliary output ends.                                    *)
LEMMA AuxStopCompletes ==
    FairSpec /\ []FairStepsEnabled
      => (aux.phase = "stopping" ~> (state["Backup"] # "Stopping" \/ ~aux.output))
<1>1. aux.phase = "stopping" => AuxFinishing \/ AuxStopOver
  BY DEF AuxFinishing, AuxStopOver
<1>2. Good /\ AuxFinishing /\ [Next]_vars => AuxFinishing' \/ AuxFinished' \/ AuxStopOver'
  BY AuxStopStep
<1>3. Good /\ AuxFinishing /\ <<AuxStopped>>_vars => AuxFinished'
  BY AuxStopEnds
<1>4. Good /\ AuxFinished /\ [Next]_vars => AuxFinished' \/ AuxStopOver'
  BY AuxStopStep
<1>5. Good /\ AuxFinished /\ <<Health>>_vars => AuxStopOver'
  BY AuxStopEnds
<1>6. Good /\ AuxFinished => PollHasWork
  BY AuxStopEnds
<1>7. AuxFinishing => aux.phase = "stopping"
  BY DEF AuxFinishing
<1>8. AuxStopOver <=> (state["Backup"] # "Stopping" \/ ~aux.output)
  BY DEF AuxStopOver
<1> QED
  BY <1>1, <1>2, <1>3, <1>4, <1>5, <1>6, <1>7, <1>8, GoodCorrect, PTL
  DEF FairSpec, Spec, Fairness, FairStepsEnabled

(* Stops end, of the stream and of the auxiliary output, as long as OBS    *)
(* completes them, events are delivered and the health is polled.          *)
THEOREM StopAlwaysCompletes == FairSpec /\ []FairStepsEnabled => StopCompletes
<1>1. ASSUME NEW r \in Role
      PROVE  FairSpec /\ []FairStepsEnabled
               => ((frontendRole = r /\ state[r] = "Stopping")
                      ~> (frontendRole # r \/ state[r] # "Stopping"))
  BY StreamStopCompletes
<1> QED
  BY <1>1, AuxStopCompletes DEF StopCompletes

=============================================================================
