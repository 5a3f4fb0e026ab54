-------------------------- MODULE PluginRoutingProofs --------------------------
(* Proofs of the properties of PluginRouting, for any entries, projects,   *)
(* edits and endpoints.                                                    *)
EXTENDS PluginRouting, TLAPS

Inv == TypeOK /\ AnswersFollowApply

(* What the two action properties say of a single step.                    *)
OriginalKept == Original' = Original \/ (previous = NoService /\ UserSetsService)

RouteKept ==
    \A r \in active \cap active' :
       /\ config'[r] = config[r]
       /\ \/ service' = service
          \/ UserSetsService
          \/ UpdatesIdleFrontend

Services   == Service \cup UserServices
Remembered == Service \cup UserServices \cup {NoService}

-----------------------------------------------------------------------------
(* Configurations.                                                         *)

LEMMA RoleInSlots == \A endpoint : FrontendRole(endpoint) \in Slots
  BY DEF FrontendRole, Slots

LEMMA ClearedType == Cleared \in [Slots -> Config]
  BY DEF Cleared, Off, Config, Destination

LEMMA ForEndpointType ==
    ASSUME NEW endpoint, NEW to \in [Slots -> Destination]
    PROVE  ForEndpoint(endpoint, to) \in [Slots -> Config]
  <1> SUFFICES ASSUME NEW r \in Slots
               PROVE  [enabled |-> r \in SlotsOf(endpoint), to |-> to[r]] \in Config
    BY DEF ForEndpoint
  <1>1. (r \in SlotsOf(endpoint)) \in BOOLEAN
    OBVIOUS
  <1>2. to[r] \in Destination
    OBVIOUS
  <1> QED  BY <1>1, <1>2 DEF Config

(* Configuring keeps what an active slot has.                              *)
LEMMA ConfiguredType ==
    ASSUME TypeOK, NEW new \in [Slots -> Config]
    PROVE  /\ Configured(new) \in [Slots -> Config]
           /\ \A r \in active : Configured(new)[r] = config[r]
  <1>1. config \in [Slots -> Config] /\ active \in SUBSET Slots
    BY DEF TypeOK
  <1>2. Configured(new) \in [Slots -> Config]
    BY <1>1 DEF Configured
  <1>3. ASSUME NEW r \in active
        PROVE  Configured(new)[r] = config[r]
    <2>1. r \in Slots /\ ~Accepts(r, new[r])
      BY <1>1, <1>3 DEF Accepts
    <2> QED  BY <2>1 DEF Configured
  <1> QED  BY <1>2, <1>3

(* Replacing OBS's service keeps what a revert brings back.                *)
LEMMA UpdateFrontendKeeps ==
    ASSUME TypeOK, NEW r \in Slots, NEW c \in Config, NEW done \in BOOLEAN,
           UpdateFrontend(r, c, done)
    PROVE  service' \in Services /\ previous' \in Remembered /\ OriginalKept
  <1>1. service \in Services /\ previous \in Remembered
    BY DEF TypeOK, Services, Remembered
  <1>2. CASE UNCHANGED <<service, previous>>
    BY <1>1, <1>2 DEF OriginalKept, Original
  <1>3. CASE /\ c.enabled /\ Valid(c)
             /\ previous' = IF previous = NoService THEN service ELSE previous
             /\ service' = IF done THEN [slot |-> r, to |-> c.to] ELSE service
    <2>1. c.to \in Entries
      BY <1>3 DEF Valid, Config, Destination
    <2>2. [slot |-> r, to |-> c.to] \in Service
      BY <2>1 DEF Service
    <2>3. service' \in Services
      BY <1>1, <1>3, <2>2 DEF Services
    <2>4. previous' \in Remembered
      BY <1>1, <1>3 DEF Services, Remembered
    <2>5. OriginalKept
      BY <1>1, <1>3, ServiceAssumption DEF OriginalKept, Original, Services, Remembered
    <2> QED  BY <2>3, <2>4, <2>5
  <1> QED  BY <1>2, <1>3 DEF UpdateFrontend

-----------------------------------------------------------------------------
(* Restoring.  Its callers leave the configurations before and the active  *)
(* slots running.                                                          *)
LEMMA RestoreKeeps ==
    ASSUME Inv, NEW s \in Settings, NEW before \in [Slots -> Config],
           NEW running \in SUBSET Slots,
           RestoreStreamingConfiguration(s, before, running)
    PROVE  /\ config' \in [Slots -> Config] /\ active' \in SUBSET Slots
           /\ service' \in Services /\ previous' \in Remembered
           /\ asked' \in SUBSET Ask /\ latest' \in Ask \cup {NoCall}
           /\ AnswersFollowApply'
           /\ OriginalKept
           /\ \A r \in active' : r \in running /\ config'[r] = before[r]
           /\ service' = service \/ FrontendRole(s.endpoint) \notin running
  <1> DEFINE role == FrontendRole(s.endpoint)
             taken == {r \in Slots : r \notin running /\ Valid(s.outputs[r])}
             ask == [entry |-> s.entry, endpoint |-> s.endpoint]
  <1>1. /\ service \in Services /\ previous \in Remembered
        /\ asked \in SUBSET Ask /\ latest \in Ask \cup {NoCall}
    BY DEF Inv, TypeOK, Services, Remembered
  <1>2. s.outputs \in [Slots -> Config] /\ s.entry \in Destination
        /\ s.endpoint \in Endpoints \cup {"Primary"}
    BY DEF Settings
  <1>3. role \in Slots
    BY RoleInSlots
  <1>4. CASE RestoreSaved(s, before, running)
    <2>1. /\ config' = [r \in Slots |-> IF r \in taken THEN s.outputs[r] ELSE before[r]]
          /\ active' = running
          /\ \/ /\ role \in taken
                /\ \E done \in BOOLEAN : UpdateFrontend(role, s.outputs[role], done)
             \/ role \notin taken /\ UNCHANGED <<service, previous>>
          /\ UNCHANGED <<asked, latest>>
      BY <1>4 DEF RestoreSaved
    <2> HIDE DEF role, taken
    <2>2. config' \in [Slots -> Config]
      BY <1>2, <2>1
    <2>3. s.outputs[role] \in Config
      BY <1>2, <1>3
    <2>4. service' \in Services /\ previous' \in Remembered /\ OriginalKept
      <3>1. CASE role \notin taken /\ UNCHANGED <<service, previous>>
        BY <1>1, <3>1 DEF OriginalKept, Original
      <3>2. CASE \E done \in BOOLEAN : UpdateFrontend(role, s.outputs[role], done)
        BY <1>3, <2>3, <3>2, UpdateFrontendKeeps DEF Inv
      <3> QED  BY <2>1, <3>1, <3>2
    <2>5. \A r \in active' : r \in running /\ config'[r] = before[r]
      <3> SUFFICES ASSUME NEW r \in running
                   PROVE  config'[r] = before[r]
        BY <2>1
      <3>1. r \in Slots /\ r \notin taken
        BY DEF taken
      <3> QED  BY <2>1, <3>1
    <2>6. service' = service \/ role \notin running
      BY <2>1 DEF taken
    <2>7. AnswersFollowApply'
      BY <2>1 DEF Inv, AnswersFollowApply
    <2> QED  BY <1>1, <2>1, <2>2, <2>4, <2>5, <2>6, <2>7 DEF role
  <1>5. CASE RestoreNothing(s)
    <2>1. config' = Cleared /\ active' = {} /\ UNCHANGED <<service, previous, asked, latest>>
      BY <1>5 DEF RestoreNothing, ClearConfiguration
    <2> QED  BY <1>1, <2>1, ClearedType DEF Inv, AnswersFollowApply, OriginalKept, Original
  <1>6. CASE AskForEntry(s, before, running)
    <2>1. /\ s.entry # NoEntry /\ asked' = {ask} /\ latest' = ask
          /\ config' = before /\ active' = running /\ UNCHANGED <<service, previous>>
      BY <1>6 DEF AskForEntry
    <2>2. ask \in Ask
      BY <1>2, <2>1 DEF Ask, Destination
    <2> HIDE DEF ask, role
    <2>3. AnswersFollowApply' /\ OriginalKept
      BY <2>1 DEF AnswersFollowApply, OriginalKept, Original
    <2> QED  BY <1>1, <2>1, <2>2, <2>3
  <1> QED  BY <1>4, <1>5, <1>6 DEF RestoreStreamingConfiguration

-----------------------------------------------------------------------------
(* One step of each handler.                                               *)

Kept == Inv' /\ OriginalKept /\ RouteKept

LEMMA LoadKeeps ==
    ASSUME Inv, NEW s \in Projects, Load(s)
    PROVE  Kept
  <1>1. /\ s \in Settings /\ config \in [Slots -> Config] /\ active \in SUBSET Slots
        /\ dialog \in Endpoints \cup {"Primary", "closed"}
    BY ProjectAssumption DEF Inv, TypeOK
  <1>2. /\ settings' = s /\ UNCHANGED dialog
        /\ RestoreStreamingConfiguration(s, config, active)
    BY DEF Load
  <1>3. /\ config' \in [Slots -> Config] /\ active' \in SUBSET Slots
        /\ service' \in Services /\ previous' \in Remembered
        /\ asked' \in SUBSET Ask /\ latest' \in Ask \cup {NoCall}
        /\ AnswersFollowApply'
        /\ OriginalKept
        /\ \A r \in active' : r \in active /\ config'[r] = config[r]
        /\ service' = service \/ FrontendRole(s.endpoint) \notin active
    BY <1>1, <1>2, RestoreKeeps
  <1>4. TypeOK'
    BY <1>1, <1>2, <1>3 DEF TypeOK, Services, Remembered
  <1>5. RouteKept
    BY <1>2, <1>3 DEF RouteKept, UpdatesIdleFrontend
  <1> QED  BY <1>3, <1>4, <1>5 DEF Inv, Kept

(* Answers change OBS's service only when every slot took its part.        *)
LEMMA AnsweredKeeps ==
    ASSUME Inv, NEW a \in asked, Answered(a)
    PROVE  Kept
  <1>1. /\ a \in Ask /\ asked' = asked \ {a} /\ latest' = NoCall
        /\ UNCHANGED <<settings, dialog>>
    BY DEF Answered, Inv, TypeOK
  <1>2. AnswersFollowApply'
    BY <1>1 DEF Inv, AnswersFollowApply
  <1>3. CASE ClearConfiguration /\ UNCHANGED <<service, previous>>
    <2>1. config' = Cleared /\ active' = {}
      BY <1>3 DEF ClearConfiguration
    <2>2. TypeOK'
      BY <1>1, <1>3, <2>1, ClearedType DEF Inv, TypeOK
    <2>3. OriginalKept /\ RouteKept
      BY <1>3, <2>1 DEF OriginalKept, Original, RouteKept
    <2> QED  BY <1>2, <2>2, <2>3 DEF Inv, Kept
  <1>4. ASSUME NEW to \in [Slots -> {a.entry, NoEntry}],
               LET new  == ForEndpoint(a.endpoint, to)
                   role == FrontendRole(a.endpoint)
               IN  /\ config' = Configured(new)
                   /\ \/ /\ \A r \in Slots : Accepts(r, new[r])
                         /\ \E done \in BOOLEAN : UpdateFrontend(role, new[role], done)
                      \/ /\ \E r \in Slots : ~Accepts(r, new[r])
                         /\ UNCHANGED <<service, previous>>
                   /\ UNCHANGED active
        PROVE  Kept
    <2> DEFINE new  == ForEndpoint(a.endpoint, to)
               role == FrontendRole(a.endpoint)
    <2>1. to \in [Slots -> Destination]
      BY <1>1 DEF Ask, Destination
    <2>2. new \in [Slots -> Config] /\ role \in Slots
      BY <2>1, ForEndpointType, RoleInSlots
    <2>3. /\ config' = Configured(new) /\ UNCHANGED active
          /\ \/ /\ \A r \in Slots : Accepts(r, new[r])
                /\ \E done \in BOOLEAN : UpdateFrontend(role, new[role], done)
             \/ UNCHANGED <<service, previous>>
      BY <1>4
    <2> HIDE DEF new, role
    <2>4. /\ config' \in [Slots -> Config] /\ \A r \in active : config'[r] = config[r]
      BY <2>2, <2>3, ConfiguredType DEF Inv
    <2>5. /\ service' \in Services /\ previous' \in Remembered /\ OriginalKept
          /\ \A r \in active : service' = service
      <3>1. CASE UNCHANGED <<service, previous>>
        BY <3>1 DEF Inv, TypeOK, Services, Remembered, OriginalKept, Original
      <3>2. CASE /\ \A r \in Slots : Accepts(r, new[r])
                 /\ \E done \in BOOLEAN : UpdateFrontend(role, new[role], done)
        <4>1. PICK done \in BOOLEAN : UpdateFrontend(role, new[role], done)
          BY <3>2
        <4>2. new[role] \in Config
          BY <2>2
        <4>3. service' \in Services /\ previous' \in Remembered /\ OriginalKept
          BY <2>2, <4>1, <4>2, UpdateFrontendKeeps DEF Inv
        <4>4. \A r \in active : FALSE
          BY <3>2 DEF Accepts, Inv, TypeOK
        <4> QED  BY <4>3, <4>4
      <3> QED  BY <2>3, <3>1, <3>2
    <2>6. TypeOK'
      BY <1>1, <2>3, <2>4, <2>5 DEF Inv, TypeOK, Services, Remembered
    <2>7. RouteKept
      BY <2>3, <2>4, <2>5 DEF RouteKept
    <2> QED  BY <1>2, <2>5, <2>6, <2>7 DEF Inv, Kept
  <1> QED  BY <1>3, <1>4 DEF Answered

LEMMA ApplyKeeps ==
    ASSUME Inv, NEW e \in Entries, NEW endpoint \in Endpoints,
           ApplyObsStreamSettings(e, endpoint)
    PROVE  Kept
  <1> DEFINE new  == ForEndpoint(endpoint, [r \in Slots |-> e])
             role == FrontendRole(endpoint)
  <1>1. [r \in Slots |-> e] \in [Slots -> Destination]
    BY DEF Destination
  <1>2. new \in [Slots -> Config] /\ role \in Slots
    BY <1>1, ForEndpointType, RoleInSlots
  <1>3. new[role] \in Config
    BY <1>2
  <1>4. /\ asked' = {} /\ latest' = NoCall /\ UNCHANGED dialog
        /\ \/ UNCHANGED <<routing, settings, service, previous>>
           \/ /\ active = {} /\ config' = new /\ UpdateFrontend(role, new[role], TRUE)
              /\ settings' = [settings EXCEPT !.endpoint = endpoint, !.outputs = new]
              /\ UNCHANGED active
           \/ /\ active = {} /\ ClearConfiguration /\ UpdateFrontend(role, new[role], FALSE)
              /\ UNCHANGED settings
    BY DEF ApplyObsStreamSettings
  <1>5. AnswersFollowApply'
    BY <1>4 DEF AnswersFollowApply
  <1> HIDE DEF new, role
  <1>6. CASE UNCHANGED <<routing, settings, service, previous>>
    <2>1. TypeOK'
      BY <1>4, <1>6 DEF Inv, TypeOK, routing
    <2> QED  BY <1>5, <1>6, <2>1 DEF Inv, Kept, OriginalKept, Original, RouteKept, routing
  <1>7. CASE /\ active = {} /\ config' = new /\ UpdateFrontend(role, new[role], TRUE)
             /\ settings' = [settings EXCEPT !.endpoint = endpoint, !.outputs = new]
             /\ UNCHANGED active
    <2>1. service' \in Services /\ previous' \in Remembered /\ OriginalKept
      BY <1>2, <1>3, <1>7, UpdateFrontendKeeps DEF Inv
    <2>2. settings \in Settings
      BY DEF Inv, TypeOK
    <2>3. settings' \in Settings
      BY <1>2, <1>7, <2>2 DEF Settings
    <2>4. TypeOK'
      BY <1>2, <1>4, <1>7, <2>1, <2>3 DEF Inv, TypeOK, Services, Remembered
    <2>5. RouteKept
      BY <1>7 DEF RouteKept
    <2> QED  BY <1>5, <2>1, <2>4, <2>5 DEF Inv, Kept
  <1>8. CASE /\ active = {} /\ ClearConfiguration /\ UpdateFrontend(role, new[role], FALSE)
             /\ UNCHANGED settings
    <2>1. service' \in Services /\ previous' \in Remembered /\ OriginalKept
      BY <1>2, <1>3, <1>8, UpdateFrontendKeeps DEF Inv
    <2>2. config' = Cleared /\ active' = {}
      BY <1>8 DEF ClearConfiguration
    <2>3. TypeOK'
      BY <1>4, <1>8, <2>1, <2>2, ClearedType DEF Inv, TypeOK, Services, Remembered
    <2>4. RouteKept
      BY <1>8 DEF RouteKept
    <2> QED  BY <1>5, <2>1, <2>3, <2>4 DEF Inv, Kept
  <1> QED  BY <1>4, <1>6, <1>7, <1>8

(* What is reverted to is the user's own unless the plugin took its own    *)
(* service for it.                                                         *)
LEMMA RevertKeeps == Inv /\ RevertObsStreamSettings => Kept
  <1> SUFFICES ASSUME Inv, RevertObsStreamSettings PROVE Kept
    OBVIOUS
  <1>1. /\ active = {} /\ previous # NoService /\ service' = previous /\ previous' = NoService
        /\ config' = Cleared /\ active' = {} /\ UNCHANGED <<settings, asked, dialog, latest>>
    BY DEF RevertObsStreamSettings, ClearConfiguration
  <1>2. TypeOK'
    BY <1>1, ClearedType DEF Inv, TypeOK
  <1>3. OriginalKept
    BY <1>1 DEF Inv, TypeOK, OriginalKept, Original
  <1> QED  BY <1>1, <1>2, <1>3 DEF Inv, Kept, AnswersFollowApply, RouteKept

(* The settings the dialog leaves.                                         *)
LEMMA AcceptedSettings ==
    ASSUME TypeOK, NEW e \in Destination, NEW kept \in Endpoints \cup {"Primary"}
    PROVE  [endpoint |-> kept, entry |-> e,
            outputs |-> [r \in Slots |-> [settings.outputs[r] EXCEPT
                                            !.enabled = r \in SlotsOf(kept)]]] \in Settings
  <1> SUFFICES ASSUME NEW r \in Slots
               PROVE  [settings.outputs[r] EXCEPT !.enabled = r \in SlotsOf(kept)] \in Config
    BY DEF Settings
  <1>1. settings.outputs[r] \in Config
    BY DEF TypeOK, Settings
  <1>2. ASSUME NEW c \in Config, NEW b \in BOOLEAN
        PROVE  [c EXCEPT !.enabled = b] \in Config
    BY DEF Config
  <1>3. (r \in SlotsOf(kept)) \in BOOLEAN
    OBVIOUS
  <1> QED  BY <1>1, <1>2, <1>3

(* A change of the endpoint stops what runs before it restores.            *)
LEMMA AcceptKeeps ==
    ASSUME Inv, NEW e \in Destination, NEW endpoint \in Endpoints, AcceptDialog(e, endpoint)
    PROVE  Kept
  <1> DEFINE kept == IF active # {} THEN dialog ELSE endpoint
             new  == [endpoint |-> kept, entry |-> e,
                      outputs |-> [r \in Slots |-> [settings.outputs[r] EXCEPT
                                                      !.enabled = r \in SlotsOf(kept)]]]
  <1>1. /\ dialog # "closed" /\ dialog' = "closed" /\ settings' = new
        /\ \/ kept = dialog /\ UNCHANGED <<routing, service, previous, asked, latest>>
           \/ kept # dialog /\ RestoreStreamingConfiguration(new, Cleared, {})
    BY DEF AcceptDialog
  <1>2. kept \in Endpoints \cup {"Primary"}
    BY <1>1 DEF Inv, TypeOK
  <1>3. new \in Settings
    <2> HIDE DEF kept
    <2> QED  BY <1>2, AcceptedSettings DEF Inv
  <1> HIDE DEF kept, new
  <1>4. CASE UNCHANGED <<routing, service, previous, asked, latest>>
    <2>1. TypeOK'
      BY <1>1, <1>3, <1>4 DEF Inv, TypeOK, routing
    <2>2. RouteKept
      BY <1>4 DEF RouteKept, routing
    <2> QED  BY <1>4, <2>1, <2>2 DEF Inv, Kept, AnswersFollowApply, OriginalKept, Original
  <1>5. CASE RestoreStreamingConfiguration(new, Cleared, {})
    <2>1. /\ config' \in [Slots -> Config] /\ active' \in SUBSET Slots
          /\ service' \in Services /\ previous' \in Remembered
          /\ asked' \in SUBSET Ask /\ latest' \in Ask \cup {NoCall}
          /\ AnswersFollowApply'
          /\ OriginalKept
          /\ \A r \in active' : r \in {}
      BY <1>3, <1>5, ClearedType, RestoreKeeps
    <2>2. TypeOK'
      BY <1>1, <1>3, <2>1 DEF TypeOK, Services, Remembered
    <2>3. RouteKept
      BY <2>1 DEF RouteKept
    <2> QED  BY <2>1, <2>2, <2>3 DEF Inv, Kept
  <1> QED  BY <1>1, <1>4, <1>5

(* An active slot takes no edit.                                           *)
LEMMA UpdateOutputKeeps ==
    ASSUME Inv, NEW r \in Slots, NEW c \in Edits, UpdateOutputConfiguration(r, c)
    PROVE  Kept
  <1>1. c \in Config /\ r \notin active /\ settings \in Settings
        /\ config \in [Slots -> Config]
    BY ProjectAssumption DEF UpdateOutputConfiguration, Accepts, Inv, TypeOK
  <1>2. /\ config' = [config EXCEPT ![r] = c]
        /\ UNCHANGED <<active, asked, dialog, latest>>
    BY DEF UpdateOutputConfiguration
  <1>3. PICK done \in BOOLEAN :
          /\ IF r = FrontendRole(settings.endpoint)
             THEN UpdateFrontend(r, c, done)
             ELSE done /\ UNCHANGED <<service, previous>>
          /\ settings' = IF done THEN [settings EXCEPT !.outputs[r] = c] ELSE settings
    BY DEF UpdateOutputConfiguration
  <1>4. settings' \in Settings /\ settings'.endpoint = settings.endpoint
    <2>1. [settings EXCEPT !.outputs[r] = c] \in Settings
      BY <1>1 DEF Settings
    <2>2. [settings EXCEPT !.outputs[r] = c].endpoint = settings.endpoint
      BY <1>1 DEF Settings
    <2> QED  BY <1>1, <1>3, <2>1, <2>2
  <1>5. /\ service' \in Services /\ previous' \in Remembered /\ OriginalKept
        /\ service' = service \/ r = FrontendRole(settings.endpoint)
    <2>1. CASE UpdateFrontend(r, c, done) /\ r = FrontendRole(settings.endpoint)
      BY <1>1, <2>1, UpdateFrontendKeeps DEF Inv
    <2>2. CASE UNCHANGED <<service, previous>>
      BY <2>2 DEF Inv, TypeOK, Services, Remembered, OriginalKept, Original
    <2> QED  BY <1>3, <2>1, <2>2
  <1>6. config' \in [Slots -> Config]
    BY <1>1, <1>2
  <1>7. TypeOK'
    BY <1>2, <1>4, <1>5, <1>6 DEF Inv, TypeOK, Services, Remembered
  <1>8. RouteKept
    <2>1. service' = service \/ UpdatesIdleFrontend
      BY <1>1, <1>4, <1>5 DEF UpdatesIdleFrontend
    <2> QED  BY <1>1, <1>2, <2>1 DEF RouteKept, Inv, TypeOK
  <1> QED  BY <1>2, <1>5, <1>7, <1>8 DEF Inv, Kept, AnswersFollowApply

LEMMA StartOutputKeeps ==
    ASSUME Inv, NEW r \in Slots, StartOutput(r)
    PROVE  Kept
  <1>1. /\ active = {} /\ UNCHANGED <<routing, settings, asked, dialog, latest>>
    BY DEF StartOutput
  <1>2. PICK done \in BOOLEAN : UpdateFrontend(r, config[r], done)
    BY DEF StartOutput
  <1>3. config[r] \in Config
    BY DEF Inv, TypeOK
  <1>4. service' \in Services /\ previous' \in Remembered /\ OriginalKept
    BY <1>2, <1>3, UpdateFrontendKeeps DEF Inv
  <1>5. TypeOK'
    BY <1>1, <1>4 DEF Inv, TypeOK, Services, Remembered, routing
  <1> QED  BY <1>1, <1>4, <1>5 DEF Inv, Kept, AnswersFollowApply, RouteKept

LEMMA DialogAndEnvironmentKeep ==
    Inv /\ (OpenDialog \/ RejectDialog \/ OutputsMove \/ UserSetsService \/ UNCHANGED vars)
      => Kept
  <1> SUFFICES ASSUME Inv,
                      \/ OpenDialog \/ RejectDialog \/ OutputsMove
                      \/ UserSetsService \/ UNCHANGED vars
               PROVE  Kept
    OBVIOUS
  <1>1. /\ UNCHANGED <<config, settings, previous, asked, latest>>
        /\ active' \in SUBSET Slots
        /\ service' \in Services /\ OriginalKept
        /\ service' = service \/ UserSetsService
        /\ dialog' \in {dialog, settings.endpoint, "closed"}
    BY DEF Inv, TypeOK, OpenDialog, RejectDialog, OutputsMove, UserSetsService, vars, routing,
           OriginalKept, Original, Services
  <1>2. settings.endpoint \in Endpoints \cup {"Primary"}
    BY DEF Inv, TypeOK, Settings
  <1>3. TypeOK'
    BY <1>1, <1>2 DEF Inv, TypeOK, Services
  <1> QED  BY <1>1, <1>3 DEF Inv, Kept, AnswersFollowApply, RouteKept

LEMMA InitInv == Init => Inv
  <1> SUFFICES ASSUME Init PROVE Inv
    OBVIOUS
  <1>1. [r \in Slots |-> [enabled |-> TRUE, to |-> NoEntry]] \in [Slots -> Config]
    BY DEF Config, Destination
  <1>2. [endpoint |-> "Primary", entry |-> NoEntry, outputs |-> Cleared] \in Settings
    BY ClearedType DEF Settings, Destination
  <1> QED  BY <1>1, <1>2 DEF Init, Inv, TypeOK, AnswersFollowApply

LEMMA StepKeeps == Inv /\ [Next]_vars => Kept
  <1> SUFFICES ASSUME Inv, [Next]_vars PROVE Kept
    OBVIOUS
  <1>1. CASE \E s \in Projects : Load(s)
    BY <1>1, LoadKeeps
  <1>2. CASE \E a \in asked : Answered(a)
    BY <1>2, AnsweredKeeps
  <1>3. CASE \E e \in Entries, endpoint \in Endpoints : ApplyObsStreamSettings(e, endpoint)
    BY <1>3, ApplyKeeps
  <1>4. CASE RevertObsStreamSettings
    BY <1>4, RevertKeeps
  <1>5. CASE \E e \in Destination, endpoint \in Endpoints : AcceptDialog(e, endpoint)
    BY <1>5, AcceptKeeps
  <1>6. CASE \E r \in Slots, c \in Edits : UpdateOutputConfiguration(r, c)
    BY <1>6, UpdateOutputKeeps
  <1>7. CASE \E r \in Slots : StartOutput(r)
    BY <1>7, StartOutputKeeps
  <1>8. CASE OpenDialog \/ RejectDialog \/ OutputsMove \/ UserSetsService \/ UNCHANGED vars
    BY <1>8, DialogAndEnvironmentKeep
  <1> QED  BY <1>1, <1>2, <1>3, <1>4, <1>5, <1>6, <1>7, <1>8 DEF Next

-----------------------------------------------------------------------------
(* Types, and the answers that count: each is that of the latest call.     *)
THEOREM RoutingInvCorrect == Spec => []Inv
  <1>1. Inv /\ [Next]_vars => Inv'
    BY StepKeeps DEF Kept
  <1> QED  BY InitInv, <1>1, PTL DEF Spec

(* Every variable keeps its type; in particular OBS's service is never one *)
(* without a destination.                                                  *)
THEOREM RoutingTypeCorrect == Spec => []TypeOK
  <1>1. Inv => TypeOK
    BY DEF Inv
  <1> QED  BY <1>1, RoutingInvCorrect, PTL

(* No answer undoes what was applied or asked after its call.              *)
THEOREM AnswersAlwaysFollowApply == Spec => []AnswersFollowApply
  <1>1. Inv => AnswersFollowApply
    BY DEF Inv
  <1> QED  BY <1>1, RoutingInvCorrect, PTL

(* From the first service the plugin replaces to the revert, what a revert *)
(* brings back is that service, unless the user sets another while nothing *)
(* is remembered; for any services the user and the plugin use.            *)
THEOREM FirstServiceIsAlwaysKept == Spec => FirstServiceIsKept
  <1>1. Inv /\ [Next]_vars => [OriginalKept]_vars
    BY StepKeeps DEF Kept
  <1>2. [OriginalKept]_vars
          => [Original' = Original \/ (previous = NoService /\ UserSetsService)]_vars
    BY DEF OriginalKept
  <1> QED  BY <1>1, <1>2, RoutingInvCorrect, PTL DEF Spec, FirstServiceIsKept

(* A streaming slot keeps its configuration, and no step but the user's in *)
(* OBS, a load or an edit in the dock replaces OBS's service meanwhile;    *)
(* the last two only for a slot that is not streaming.                     *)
THEOREM StreamsAlwaysKeepRoute == Spec => StreamsKeepRoute
  <1>1. Inv /\ [Next]_vars => [RouteKept]_vars
    BY StepKeeps DEF Kept
  <1>2. [RouteKept]_vars
          => [\A r \in active \cap active' :
                /\ config'[r] = config[r]
                /\ \/ service' = service
                   \/ UserSetsService
                   \/ UpdatesIdleFrontend]_vars
    BY DEF RouteKept
  <1> QED  BY <1>1, <1>2, RoutingInvCorrect, PTL DEF Spec, StreamsKeepRoute

=============================================================================
