---------------------------- MODULE PluginCaptions ----------------------------
(***************************************************************************)
(* How src/src/plugin.cpp keeps three components in step: the outputs      *)
(* (OutputSlots, what StreamingManager promises), the caption inserter     *)
(* and the capture and transcription of program audio.  All of it runs on  *)
(* the Qt UI thread, one handler at a time; only the settings dialog opens *)
(* an event loop of its own, in which events, timers and replies go on.    *)
(*                                                                         *)
(* Of the settings only captionsEnabled is kept.  Left out: style, delay   *)
(* and dictionary, the destinations and the OBS service, what the dock     *)
(* shows, and the end of the module.  A speech model that is installed is  *)
(* taken to load; WhisperProvider has the case that it does not.           *)
(***************************************************************************)
EXTENDS OutputSlots

VARIABLES
    enabled,    \* settings.captionsEnabled
    captions,   \* [inserting, active, capturing]
    dialog,     \* the settings dialog: closed, or the captionsEnabled it opened with
    restoring,  \* a reply to restoreStreamingConfiguration is to come and still counts
    installed   \* the Whisper models are where the plugin looks for them

vars == <<slotVars, enabled, captions, dialog, restoring, installed>>

(* inserting is captionInsertionActive_, active the inserter's own flag,   *)
(* capturing a running CaptionManager.                                     *)
Captions == [inserting : BOOLEAN, active : BOOLEAN, capturing : BOOLEAN]

TypeOK ==
    /\ SlotsTypeOK
    /\ enabled \in BOOLEAN
    /\ captions \in Captions
    /\ dialog \in {"closed", "on", "off"}
    /\ restoring \in BOOLEAN
    /\ installed \in BOOLEAN

Init ==
    /\ SlotsInit
    /\ enabled = FALSE
    /\ captions = [inserting |-> FALSE, active |-> FALSE, capturing |-> FALSE]
    /\ dialog = "closed"
    /\ restoring = FALSE
    /\ installed \in BOOLEAN

-----------------------------------------------------------------------------
(* startCaptionPreview, with the settings on: nothing to do for a session  *)
(* that runs, and a missing model is reported.                             *)
StartPreview(c) == [c EXCEPT !.capturing = c.capturing \/ installed]
StopPreview(c)  == [c EXCEPT !.capturing = FALSE]

(* The captions' part of applySettings.                                    *)
ApplySettings(c, on) == IF on THEN StartPreview(c) ELSE StopPreview(c)

\* bug: waits for an output that is active
FollowActiveOutputs(c) ==
    captions' = CASE AnyActive' /\ enabled' /\ ~c.inserting ->
                       [StartPreview(c) EXCEPT !.inserting = TRUE, !.active = TRUE]
                  [] ~AnyRequested' /\ c.inserting ->
                       [c EXCEPT !.inserting = FALSE, !.active = FALSE]
                  [] OTHER -> c

(* updateCaptionStreamingState on the captions c, at the end of a handler. *)
FollowOutputs(c) ==
    captions' = CASE AnyRequested' /\ enabled' /\ ~c.inserting ->
                       [StartPreview(c) EXCEPT !.inserting = TRUE, !.active = TRUE]
                  [] ~AnyRequested' /\ c.inserting ->
                       [c EXCEPT !.inserting = FALSE, !.active = FALSE]
                  [] OTHER -> c

settings == <<enabled, dialog, restoring, installed>>
rest     == <<dialog, restoring, installed>>

Configs(which) == {[r \in Slots |-> IF r \in which THEN new[r] ELSE config[r]]
                     : new \in [which -> SlotConfigs]}

(* StreamingManager::configure, as far as the slots accept: Primary first. *)
Configure(which) ==
    \E new \in Configs(which) :
        /\ which = Slots => \E r \in Slots : new[r].enabled
        /\ Reconfigure(which, new)

-----------------------------------------------------------------------------
(* The dock, which cannot be used while the dialog is open.                *)

(* controlPrimaryOutput and controlBackupOutput.                           *)
ControlOutput ==
    /\ dialog = "closed"
    /\ (\E r \in Slots : TakeStream(r) \/ Stop(r)) \/ StartBeside
    /\ UNCHANGED settings
    /\ FollowOutputs(captions)

(* updateOutputConfiguration; it returns early when OBS refuses a service. *)
UpdateOutputConfiguration ==
    /\ dialog = "closed"
    /\ \E r \in Slots : \E new \in Configs({r}) : Reconfigure({r}, new)
    /\ UNCHANGED settings
    /\ UNCHANGED captions \/ FollowOutputs(captions)

\* bug: the session goes on when captions are switched off
SetCaptionsEnabledOnly(on) ==
    /\ dialog = "closed"
    /\ ~AnyActive
    /\ enabled' = on
    /\ UNCHANGED <<slotVars, rest>>
    /\ FollowOutputs(IF on THEN StartPreview(captions) ELSE captions)

(* Refused while an output is active.                                      *)
SetCaptionsEnabled(on) ==
    /\ dialog = "closed"
    /\ ~AnyActive
    /\ enabled' = on
    /\ UNCHANGED <<slotVars, rest>>
    /\ FollowOutputs(ApplySettings(captions, on))

(* setWhisperModel: a session starts anew with the other model.            *)
SetWhisperModel ==
    /\ dialog = "closed"
    /\ ~AnyActive
    /\ captions' = IF enabled THEN StartPreview(StopPreview(captions))
                              ELSE StopPreview(captions)
    /\ UNCHANGED <<slotVars, settings>>

(* A delay, style or model chosen while an output is active: the dock gets *)
(* the old settings back.                                                  *)
RefuseCaptionSetting ==
    /\ dialog = "closed"
    /\ AnyActive
    /\ captions' = ApplySettings(captions, enabled)
    /\ UNCHANGED <<slotVars, settings>>

-----------------------------------------------------------------------------
(* Scene collections.  restoreStreamingConfiguration configures the slots  *)
(* from the settings as far as they accept it, clears them, or asks the    *)
(* Kaltura API, whose client may also refuse at once.                      *)

(* restoreStreamingConfiguration, on the captions c of its caller.         *)
RestoreStreamingConfiguration(c) ==
    \/ /\ \E which \in SUBSET Slots : \E new \in Configs(which) : Reconfigure(which, new)
       /\ UNCHANGED restoring
       /\ FollowOutputs(c)
    \/ /\ Clear
       /\ restoring' \in {restoring, FALSE}
       /\ FollowOutputs(c)
    \/ /\ restoring' = TRUE
       /\ captions' = c
       /\ UNCHANGED slotVars

(* onFrontendSave with a collection whose captionsEnabled is on.           *)
Load(on) ==
    /\ enabled' = on
    /\ RestoreStreamingConfiguration(ApplySettings(captions, on))
    /\ UNCHANGED <<dialog, installed>>

(* The reply: the slots are cleared, or configured, Primary first.         *)
Restored ==
    /\ restoring
    /\ restoring' = FALSE
    /\ \/ Clear
       \/ \E which \in {{}, {"Primary"}, Slots} : Configure(which)
    /\ UNCHANGED <<enabled, dialog, installed>>
    /\ FollowOutputs(captions)

-----------------------------------------------------------------------------
(* The settings dialog.                                                    *)

OpenDialog ==
    /\ dialog = "closed"
    /\ dialog' = IF enabled THEN "on" ELSE "off"
    /\ UNCHANGED <<slotVars, captions, enabled, restoring, installed>>

RejectDialog ==
    /\ dialog # "closed"
    /\ dialog' = "closed"
    /\ UNCHANGED <<slotVars, captions, enabled, restoring, installed>>

(* applyObsStreamSettings: a reply that is still to come is outdated, also *)
(* when the slots refuse; a failure after them clears them again.          *)
ApplyObsStreamSettings ==
    /\ dialog # "closed"
    /\ restoring' = FALSE
    /\ UNCHANGED <<enabled, dialog, installed>>
    /\ \/ /\ ~AnyActive
          /\ Configure(Slots)
          /\ FollowOutputs(captions)
       \/ /\ ~AnyActive
          /\ Configure({"Primary"})
          /\ UNCHANGED captions
       \/ /\ ~AnyActive /\ Clear
          /\ UNCHANGED captions
       \/ UNCHANGED <<slotVars, captions>>

RevertObsStreamSettings ==
    /\ dialog # "closed"
    /\ ~AnyActive
    /\ Clear
    /\ UNCHANGED settings
    /\ FollowOutputs(captions)

(* The dialog writes back all settings, as it found them when it opened.   *)
(* A changed dictionary ends the session; a changed endpoint makes the     *)
(* outputs be restored as after a load.                                    *)
AcceptDialog ==
    /\ dialog # "closed"
    /\ dialog' = "closed"
    /\ enabled' = (dialog = "on")
    /\ UNCHANGED installed
    /\ \E c \in {captions} \cup (IF AnyActive THEN {} ELSE {StopPreview(captions)}) :
          \/ /\ UNCHANGED <<slotVars, restoring>>
             /\ captions' = ApplySettings(c, enabled')
          \/ /\ ~AnyActive
             /\ \/ /\ \E new \in [Slots -> SlotConfigs \cup {EmptyConfig}] : ClearTo(new)
                   /\ UNCHANGED restoring
                \/ /\ Clear
                   /\ restoring' \in BOOLEAN
             /\ FollowOutputs(ApplySettings(c, enabled'))

-----------------------------------------------------------------------------
(* onFrontendEvent.  Every event ends with updateStreamingHealth.          *)

(* The inserter starts again, also next to an output that shows captions.  *)
OnStreamingStarting ==
    /\ Starting
    /\ UNCHANGED settings
    /\ FollowOutputs([(IF enabled THEN StartPreview(captions) ELSE captions)
                        EXCEPT !.inserting = enabled, !.active = enabled])

OnStreamingStarted ==
    /\ Started
    /\ UNCHANGED settings
    /\ FollowOutputs(captions)

OnStreamingStopped ==
    /\ Stopped
    /\ UNCHANGED settings
    /\ FollowOutputs(captions)

\* bug: returns before updateStreamingHealth
OnProfileChangingOnly ==
    /\ ShutDown
    /\ UNCHANGED settings
    /\ captions' = [StopPreview(captions) EXCEPT !.active = FALSE]

(* PROFILE_CHANGING and EXIT.                                              *)
OnProfileChanging ==
    /\ ShutDown
    /\ UNCHANGED settings
    /\ FollowOutputs([StopPreview(captions) EXCEPT !.active = FALSE])

(* The health timer, and every event without a case of its own.            *)
UpdateStreamingHealth ==
    /\ UNCHANGED <<slotVars, settings>>
    /\ FollowOutputs(captions)

ObsMoves ==
    /\ StreamMoves \/ AuxiliaryMoves
    /\ UNCHANGED <<captions, settings>>

-----------------------------------------------------------------------------
Next ==
    \/ ControlOutput
    \/ UpdateOutputConfiguration
    \/ \E on \in BOOLEAN : SetCaptionsEnabled(on)
    \/ SetWhisperModel
    \/ RefuseCaptionSetting
    \/ \E on \in BOOLEAN : Load(on)
    \/ Restored
    \/ OpenDialog
    \/ RejectDialog
    \/ ApplyObsStreamSettings
    \/ RevertObsStreamSettings
    \/ AcceptDialog
    \/ OnStreamingStarting
    \/ OnStreamingStarted
    \/ OnStreamingStopped
    \/ OnProfileChanging
    \/ UpdateStreamingHealth
    \/ ObsMoves

Spec == Init /\ [][Next]_vars

(* The health timer fires every second, in the dialog's event loop too.    *)
FairSpec == Spec /\ WF_vars(UpdateStreamingHealth)

-----------------------------------------------------------------------------
(* Captions are inserted only while somebody wants an output: an ended     *)
(* stream, a withdrawn start or a profile change ends the session, or its  *)
(* captions would be the first of the next stream.  The plugin's flag and  *)
(* the inserter agree, or the next output would start a stopped inserter.  *)
InsertsForOutputs ==
    /\ captions.inserting => AnyRequested
    /\ captions.inserting = captions.active

(* Program audio is recorded only while captions are enabled, whichever    *)
(* handler switched them off (dock, dialog, another collection), and an    *)
(* inserter that is to caption a stream is fed: nothing that stops the     *)
(* transcription (model, dictionary, profile) leaves it off.               *)
AudioFollowsSettings ==
    /\ captions.capturing => enabled
    /\ captions.inserting /\ enabled /\ installed => captions.capturing

(* An output somebody asked for gets captions, also when they are enabled  *)
(* or the output is requested by a handler that does not look.             *)
CaptionsFollowOutputs ==
    (AnyRequested /\ enabled) ~> (captions.inserting \/ ~AnyRequested \/ ~enabled)

=============================================================================
