---------------------------- MODULE PluginRouting ----------------------------
(***************************************************************************)
(* Where the outputs and OBS stream to: how src/src/plugin.cpp routes a    *)
(* Kaltura entry, from the settings of the project, an answer of the       *)
(* Kaltura API or a dialog, to the slots of StreamingManager and to the    *)
(* streaming service of OBS, and how it gives that service back.           *)
(*                                                                         *)
(* A destination stands for endpoint, protocol and keys.  Of the manager   *)
(* the module keeps the configurations and which slots are active; when a  *)
(* slot becomes or ends being active is left to the environment            *)
(* (StreamingManager).  Every start of OBS begins with Init: the service   *)
(* is OBS's to keep and may be one the plugin made before.                 *)
(***************************************************************************)
EXTENDS FiniteSets

CONSTANTS
    Entries,      \* live entries, and what their outputs are called with
    NoEntry,      \* no entry; an empty endpoint
    Endpoints,    \* the values of preferredEndpoint that are used
    Projects,     \* the settings of scene collections
    Edits,        \* what is entered in the editors of the dock
    UserServices, \* the services of OBS the user sets up, not made by the plugin
    NoService,
    NoCall

Slots == {"Primary", "Backup"}

ASSUME EntryAssumption    == NoEntry \notin Entries
ASSUME EndpointAssumption == Endpoints \subseteq {"Primary", "Backup", "Both"}

Destination == Entries \cup {NoEntry}
Config      == [enabled : BOOLEAN, to : Destination]
Settings    == [endpoint : Endpoints \cup {"Primary"}, entry : Destination,
                outputs : [Slots -> Config]]
Service     == [slot : Slots, to : Entries]
Ask         == [entry : Entries, endpoint : Endpoints \cup {"Primary"}]

ASSUME ProjectAssumption == Projects \subseteq Settings /\ Edits \subseteq Config
ASSUME CallAssumption    == NoCall \notin Ask
ASSUME ServiceAssumption ==
    UserServices \cap Service = {} /\ NoService \notin Service \cup UserServices

VARIABLES
    config,    \* the configurations the manager has
    active,    \* the slots that refuse a configuration
    settings,  \* preferredEndpoint, selectedEntryId and both outputs
    service,   \* OBS's streaming service
    previous,  \* previousServiceSettings_, or NoService
    asked,     \* getStreamConfiguration calls whose answer still counts
    dialog,    \* closed, or the endpoint when the dialog was opened
    latest     \* history: the last call, until it is answered or a dialog applies

routing == <<config, active>>
vars    == <<routing, settings, service, previous, asked, dialog, latest>>

TypeOK ==
    /\ config \in [Slots -> Config]
    /\ active \subseteq Slots
    /\ settings \in Settings
    /\ service \in Service \cup UserServices
    /\ previous \in Service \cup UserServices \cup {NoService}
    /\ asked \subseteq Ask
    /\ dialog \in Endpoints \cup {"Primary", "closed"}
    /\ latest \in Ask \cup {NoCall}

SlotsOf(endpoint)     == IF endpoint = "Both" THEN Slots ELSE {endpoint}
FrontendRole(endpoint) == IF endpoint = "Backup" THEN "Backup" ELSE "Primary"

Off     == [enabled |-> FALSE, to |-> NoEntry]
Cleared == [r \in Slots |-> Off]

Init ==
    /\ config = [r \in Slots |-> [enabled |-> TRUE, to |-> NoEntry]]
    /\ active = {}
    /\ settings = [endpoint |-> "Primary", entry |-> NoEntry, outputs |-> Cleared]
    /\ service \in Service \cup UserServices
    /\ previous = NoService
    /\ asked = {}
    /\ dialog = "closed"
    /\ latest = NoCall

-----------------------------------------------------------------------------
Valid(c) == c.enabled => c.to # NoEntry

Accepts(r, c) == r \notin active /\ Valid(c)

(* configure stops at Primary when Primary refuses.                        *)
Configured(new) ==
    [r \in Slots |-> IF Accepts("Primary", new["Primary"]) /\ Accepts(r, new[r])
                     THEN new[r] ELSE config[r]]

(* The configuration for an entry whose destinations are to.               *)
ForEndpoint(endpoint, to) ==
    [r \in Slots |-> [enabled |-> r \in SlotsOf(endpoint), to |-> to[r]]]

ClearConfiguration == config' = Cleared /\ active' = {}

\* bug: whatever service there is becomes the one to revert to
UpdateFrontendRememberingLast(r, c, done) ==
    \/ done /\ ~c.enabled /\ UNCHANGED <<service, previous>>
    \/ ~done /\ ~Valid(c) /\ UNCHANGED <<service, previous>>
    \/ /\ c.enabled /\ Valid(c)
       /\ previous' = service
       /\ service' = IF done THEN [slot |-> r, to |-> c.to] ELSE service

\* bug: the configuration is not validated
UpdateFrontendUnchecked(r, c, done) ==
    \/ done /\ ~c.enabled /\ UNCHANGED <<service, previous>>
    \/ /\ c.enabled
       /\ previous' = IF previous = NoService THEN service ELSE previous
       /\ service' = IF done THEN [slot |-> r, to |-> c.to] ELSE service

(* updateFrontendStreamSettings: the service that is replaced first is     *)
(* remembered, also when OBS then creates no service.                      *)
UpdateFrontend(r, c, done) ==
    \/ done /\ ~c.enabled /\ UNCHANGED <<service, previous>>
    \/ ~done /\ ~Valid(c) /\ UNCHANGED <<service, previous>>
    \/ /\ c.enabled /\ Valid(c)
       /\ previous' = IF previous = NoService THEN service ELSE previous
       /\ service' = IF done THEN [slot |-> r, to |-> c.to] ELSE service

-----------------------------------------------------------------------------
(* restoreStreamingConfiguration on the settings s.  before and running    *)
(* are what its caller leaves of config and active.                        *)

\* bug: OBS's service follows the settings although the slot refused them
RestoreSavedUnready(s, before, running) ==
    LET role == FrontendRole(s.endpoint)
        taken == {r \in Slots : r \notin running /\ Valid(s.outputs[r])}
    IN  /\ \E r \in Slots : s.outputs[r].to # NoEntry
        /\ config' = [r \in Slots |-> IF r \in taken THEN s.outputs[r] ELSE before[r]]
        /\ active' = running
        /\ \E done \in BOOLEAN : UpdateFrontend(role, s.outputs[role], done)
        /\ UNCHANGED <<asked, latest>>

(* Outputs that were saved are configured, each on its own.                *)
RestoreSaved(s, before, running) ==
    LET role == FrontendRole(s.endpoint)
        taken == {r \in Slots : r \notin running /\ Valid(s.outputs[r])}
    IN  /\ \E r \in Slots : s.outputs[r].to # NoEntry
        /\ config' = [r \in Slots |-> IF r \in taken THEN s.outputs[r] ELSE before[r]]
        /\ active' = running
        /\ \/ /\ role \in taken
              /\ \E done \in BOOLEAN : UpdateFrontend(role, s.outputs[role], done)
           \/ role \notin taken /\ UNCHANGED <<service, previous>>
        /\ UNCHANGED <<asked, latest>>

RestoreNothing(s) ==
    /\ \A r \in Slots : s.outputs[r].to = NoEntry
    /\ s.entry = NoEntry
    /\ ClearConfiguration
    /\ UNCHANGED <<service, previous, asked, latest>>

(* A call outdates the one before.  A project has an entry here only with  *)
(* a session; a call the client refuses is one that fails.                 *)
AskForEntry(s, before, running) ==
    LET ask == [entry |-> s.entry, endpoint |-> s.endpoint]
    IN  /\ \A r \in Slots : s.outputs[r].to = NoEntry
        /\ s.entry # NoEntry
        /\ asked' = {ask}
        /\ latest' = ask
        /\ config' = before
        /\ active' = running
        /\ UNCHANGED <<service, previous>>

RestoreStreamingConfiguration(s, before, running) ==
    \/ RestoreSaved(s, before, running)
    \/ RestoreNothing(s)
    \/ AskForEntry(s, before, running)

(* onFrontendSave, loading; also while the dialog is open.                 *)
Load(s) ==
    /\ settings' = s
    /\ RestoreStreamingConfiguration(s, config, active)
    /\ UNCHANGED dialog

(* The answer.  A failed one clears the configuration, which stops what    *)
(* runs; an entry may have no URL for one of the slots.                    *)
Answered(a) ==
    /\ a \in asked
    /\ asked' = asked \ {a}
    /\ \/ ClearConfiguration /\ UNCHANGED <<service, previous>>
       \/ \E to \in [Slots -> {a.entry, NoEntry}] :
             LET new  == ForEndpoint(a.endpoint, to)
                 role == FrontendRole(a.endpoint)
             IN  /\ \E r \in Slots : to[r] # NoEntry
                 /\ config' = Configured(new)
                 /\ \/ /\ \A r \in Slots : Accepts(r, new[r])
                       /\ \E done \in BOOLEAN : UpdateFrontend(role, new[role], done)
                    \/ /\ \E r \in Slots : ~Accepts(r, new[r])
                       /\ UNCHANGED <<service, previous>>
                 /\ UNCHANGED active
    /\ latest' = NoCall
    /\ UNCHANGED <<settings, dialog>>

-----------------------------------------------------------------------------
(* The settings dialog.                                                    *)

OpenDialog ==
    /\ dialog = "closed"
    /\ dialog' = settings.endpoint
    /\ UNCHANGED <<routing, settings, service, previous, asked, latest>>

RejectDialog ==
    /\ dialog # "closed"
    /\ dialog' = "closed"
    /\ UNCHANGED <<routing, settings, service, previous, asked, latest>>

\* bug: a call of an earlier restore still counts
ApplyKeepingAsked(e, endpoint) ==
    LET new  == ForEndpoint(endpoint, [r \in Slots |-> e])
        role == FrontendRole(endpoint)
    IN  /\ dialog # "closed"
        /\ latest' = NoCall
        /\ UNCHANGED <<asked, dialog>>
        /\ \/ /\ active # {}
              /\ UNCHANGED <<routing, settings, service, previous>>
           \/ /\ active = {}
              /\ config' = new
              /\ UpdateFrontend(role, new[role], TRUE)
              /\ settings' = [settings EXCEPT !.endpoint = endpoint, !.outputs = new]
              /\ UNCHANGED active
           \/ /\ active = {}
              /\ ClearConfiguration
              /\ UpdateFrontend(role, new[role], FALSE)
              /\ UNCHANGED settings

(* applyObsStreamSettings.  The dialog has checked the destinations, so an *)
(* inactive manager takes them.                                            *)
ApplyObsStreamSettings(e, endpoint) ==
    LET new  == ForEndpoint(endpoint, [r \in Slots |-> e])
        role == FrontendRole(endpoint)
    IN  /\ dialog # "closed"
        /\ asked' = {}
        /\ latest' = NoCall
        /\ UNCHANGED dialog
        /\ \/ /\ active # {}
              /\ UNCHANGED <<routing, settings, service, previous>>
           \/ /\ active = {}
              /\ config' = new
              /\ UpdateFrontend(role, new[role], TRUE)
              /\ settings' = [settings EXCEPT !.endpoint = endpoint, !.outputs = new]
              /\ UNCHANGED active
           \/ /\ active = {}
              /\ ClearConfiguration
              /\ UpdateFrontend(role, new[role], FALSE)
              /\ UNCHANGED settings

(* What was remembered goes only when OBS has taken it.                    *)
RevertObsStreamSettings ==
    /\ dialog # "closed"
    /\ active = {}
    /\ previous # NoService
    /\ service' = previous
    /\ previous' = NoService
    /\ ClearConfiguration
    /\ UNCHANGED <<settings, asked, dialog, latest>>

(* The endpoint is compared with that of the opening, and kept then while  *)
(* an output is active.                                                    *)
AcceptDialog(e, endpoint) ==
    LET kept == IF active # {} THEN dialog ELSE endpoint
        new  == [endpoint |-> kept, entry |-> e,
                 outputs |-> [r \in Slots |-> [settings.outputs[r] EXCEPT
                                                 !.enabled = r \in SlotsOf(kept)]]]
    IN  /\ dialog # "closed"
        /\ dialog' = "closed"
        /\ settings' = new
        /\ \/ /\ kept = dialog
              /\ UNCHANGED <<routing, service, previous, asked, latest>>
           \/ /\ kept # dialog
              /\ RestoreStreamingConfiguration(new, Cleared, {})

-----------------------------------------------------------------------------
(* The dock, which cannot be used while the dialog is open.                *)

(* updateOutputConfiguration of a slot that takes it.  When OBS refuses    *)
(* the service, the settings stay as they were.                            *)
UpdateOutputConfiguration(r, c) ==
    /\ dialog = "closed"
    /\ Accepts(r, c)
    /\ config' = [config EXCEPT ![r] = c]
    /\ \E done \in BOOLEAN :
          /\ IF r = FrontendRole(settings.endpoint)
             THEN UpdateFrontend(r, c, done)
             ELSE done /\ UNCHANGED <<service, previous>>
          /\ settings' = IF done THEN [settings EXCEPT !.outputs[r] = c] ELSE settings
    /\ UNCHANGED <<active, asked, dialog, latest>>

(* controlPrimaryOutput and controlBackupOutput, starting first.           *)
StartOutput(r) ==
    /\ dialog = "closed"
    /\ active = {}
    /\ \E done \in BOOLEAN : UpdateFrontend(r, config[r], done)
    /\ UNCHANGED <<routing, settings, asked, dialog, latest>>

(* Outputs go live and end, and the user sets up OBS.                      *)
OutputsMove ==
    /\ active' \in SUBSET Slots
    /\ UNCHANGED <<config, settings, service, previous, asked, dialog, latest>>

UserSetsService ==
    /\ service' \in UserServices
    /\ UNCHANGED <<routing, settings, previous, asked, dialog, latest>>

-----------------------------------------------------------------------------
Next ==
    \/ \E s \in Projects : Load(s)
    \/ \E a \in asked : Answered(a)
    \/ OpenDialog
    \/ RejectDialog
    \/ \E e \in Entries, endpoint \in Endpoints : ApplyObsStreamSettings(e, endpoint)
    \/ RevertObsStreamSettings
    \/ \E e \in Destination, endpoint \in Endpoints : AcceptDialog(e, endpoint)
    \/ \E r \in Slots, c \in Edits : UpdateOutputConfiguration(r, c)
    \/ \E r \in Slots : StartOutput(r)
    \/ OutputsMove
    \/ UserSetsService

Spec == Init /\ [][Next]_vars

-----------------------------------------------------------------------------
(* An answer that still counts never undoes what was applied in the dialog *)
(* nor what was asked later, although applying and loading happen while it *)
(* is on its way.  (A load that asks nothing, a revert and an edit in the  *)
(* dock do not outdate it, so those it may undo.)                          *)
AnswersFollowApply ==
    \A a \in asked : latest = a

(* What a revert leaves OBS with.                                          *)
Original == IF previous = NoService THEN service ELSE previous

(* The plugin gives back what it took: from the first time it replaces     *)
(* OBS's service until a revert, through failed replacements, loads,       *)
(* answers and edits, a revert brings back the service OBS had before.     *)
(* Nobody but the user chooses another, and only while nothing is          *)
(* remembered.  One he sets later, over a service of the plugin, is not    *)
(* remembered beside the first and goes when the plugin replaces it (665). *)
(* After a restart of OBS the first one may be a service the plugin made.  *)
FirstServiceIsKept ==
    [][Original' = Original \/ (previous = NoService /\ UserSetsService)]_vars

(* A load of a project, or an edit in the dock, of the slot that the       *)
(* endpoint gives OBS's stream to while that slot itself is idle.          *)
UpdatesIdleFrontend ==
    /\ FrontendRole(settings'.endpoint) \notin active
    /\ \/ \E s \in Projects : Load(s)
       \/ \E c \in Edits : UpdateOutputConfiguration(FrontendRole(settings'.endpoint), c)

(* While a slot streams it keeps its configuration, and OBS keeps its      *)
(* service, although projects are loaded, dialogs applied and answers come *)
(* late.  Besides the user in OBS two steps replace that service under the *)
(* stream of the other slot: a load of a project that streams by a slot    *)
(* which is idle (764), and an edit of that slot in the dock, as of an     *)
(* idle Primary under endpoint Both while Backup streams on OBS (635).     *)
StreamsKeepRoute ==
    [][\A r \in active \cap active' :
          /\ config'[r] = config[r]
          /\ \/ service' = service
             \/ UserSetsService
             \/ UpdatesIdleFrontend]_vars

=============================================================================
