------------------------ MODULE PluginCaptionsProofs ------------------------
(***************************************************************************)
(* Proofs about PluginCaptions.  One invariant joins what the captions     *)
(* must satisfy after every handler; the first lemma says that             *)
(* updateCaptionStreamingState, with which nearly every handler ends,      *)
(* establishes it from much less.                                          *)
(***************************************************************************)
EXTENDS PluginCaptions, TLAPS

(* Captions that a handler may leave for FollowOutputs: well typed, in     *)
(* step with the inserter, recording only if enabled, and fed if inserting.*)
Ready(c, on) ==
    /\ c \in Captions
    /\ c.inserting = c.active
    /\ c.capturing => on
    /\ c.inserting /\ on /\ installed => c.capturing

CaptionsInv ==
    /\ enabled \in BOOLEAN
    /\ installed \in BOOLEAN
    /\ dialog \in {"closed", "on", "off"}
    /\ Ready(captions, enabled)
    /\ InsertsForOutputs

-----------------------------------------------------------------------------
(* updateCaptionStreamingState turns ready captions into ones that satisfy *)
(* the invariant, whatever the outputs are.                                *)
LEMMA FollowOutputsEstablishes ==
    ASSUME NEW c, Ready(c, enabled'), FollowOutputs(c),
           enabled' \in BOOLEAN, installed \in BOOLEAN, installed' = installed,
           dialog' \in {"closed", "on", "off"}
    PROVE  CaptionsInv'
<1> DEFINE wanted == AnyRequested' /\ enabled' /\ ~c.inserting
           over   == ~AnyRequested' /\ c.inserting
<1>1. c \in Captions
  BY DEF Ready
<1>2. CASE wanted
  <2>1. captions' = [StartPreview(c) EXCEPT !.inserting = TRUE, !.active = TRUE]
    BY <1>2 DEF FollowOutputs
  <2>2. captions' = [inserting |-> TRUE, active |-> TRUE,
                     capturing |-> c.capturing \/ installed]
    BY <2>1, <1>1 DEF StartPreview, Captions
  <2> QED
    BY <2>2, <1>2, <1>1 DEF CaptionsInv, Ready, Captions, InsertsForOutputs
<1>3. CASE over
  <2>1. captions' = [c EXCEPT !.inserting = FALSE, !.active = FALSE]
    BY <1>3 DEF FollowOutputs
  <2>2. captions' = [inserting |-> FALSE, active |-> FALSE, capturing |-> c.capturing]
    BY <2>1, <1>1 DEF Captions
  <2> QED
    BY <2>2, <1>1 DEF CaptionsInv, Ready, Captions, InsertsForOutputs
<1>4. CASE ~wanted /\ ~over
  <2>1. captions' = c
    BY <1>4 DEF FollowOutputs
  <2>2. c.inserting => AnyRequested'
    BY <1>4
  <2> QED
    BY <2>1, <2>2 DEF CaptionsInv, Ready, InsertsForOutputs
<1> QED
  BY <1>2, <1>3, <1>4

(* applySettings leaves ready captions ready for the new settings, and     *)
(* does not touch the insertion.                                           *)
LEMMA ApplySettingsIsReady ==
    ASSUME NEW c \in Captions, NEW on \in BOOLEAN, installed \in BOOLEAN,
           c.inserting = c.active
    PROVE  /\ Ready(ApplySettings(c, on), on)
           /\ ApplySettings(c, on).inserting = c.inserting
BY DEF Ready, ApplySettings, StartPreview, StopPreview, Captions

(* Ending the session of captions leaves the rest of them.                 *)
LEMMA StopPreviewType ==
    ASSUME NEW c \in Captions
    PROVE  /\ StopPreview(c) \in Captions
           /\ StopPreview(c).inserting = c.inserting
           /\ StopPreview(c).active = c.active
BY DEF StopPreview, Captions

(* A handler that neither touches the captions nor the requests.           *)
LEMMA QuietHandler ==
    ASSUME CaptionsInv, dialog' \in {"closed", "on", "off"},
           UNCHANGED <<requested, enabled, captions, installed>>
    PROVE  CaptionsInv'
BY DEF CaptionsInv, Ready, InsertsForOutputs, AnyRequested

-----------------------------------------------------------------------------
(* At the start nothing is enabled and nothing is inserted.                *)
LEMMA CaptionsInvInit == Init => CaptionsInv
<1> SUFFICES ASSUME Init PROVE CaptionsInv
  OBVIOUS
<1>1. enabled \in BOOLEAN /\ installed \in BOOLEAN /\ dialog \in {"closed", "on", "off"}
  BY DEF Init
<1>2. captions = [inserting |-> FALSE, active |-> FALSE, capturing |-> FALSE]
  BY DEF Init
<1>3. /\ captions \in Captions
      /\ ~captions.inserting /\ ~captions.active /\ ~captions.capturing
      /\ captions.inserting = captions.active
  BY <1>2 DEF Captions
<1> QED
  BY <1>1, <1>3 DEF CaptionsInv, Ready, InsertsForOutputs

(* Every handler keeps the invariant.                                      *)
LEMMA CaptionsInvNext == CaptionsInv /\ Next => CaptionsInv'
<1> SUFFICES ASSUME CaptionsInv, Next PROVE CaptionsInv'
  OBVIOUS
<1> USE DEF settings, rest
<1>0. /\ enabled \in BOOLEAN /\ installed \in BOOLEAN
      /\ captions \in Captions /\ captions.inserting = captions.active
      /\ dialog \in {"closed", "on", "off"}
      /\ Ready(captions, enabled)
  BY DEF CaptionsInv, Ready
<1>1. CASE ControlOutput
  BY <1>0, <1>1, FollowOutputsEstablishes DEF ControlOutput
<1>2. CASE UpdateOutputConfiguration
  <2>1. CASE UNCHANGED captions
    BY <1>0, <1>2, <2>1, QuietHandler DEF UpdateOutputConfiguration, Reconfigure
  <2>2. CASE FollowOutputs(captions)
    BY <1>0, <1>2, <2>2, FollowOutputsEstablishes DEF UpdateOutputConfiguration
  <2> QED
    BY <1>2, <2>1, <2>2 DEF UpdateOutputConfiguration
<1>3. ASSUME NEW on \in BOOLEAN, SetCaptionsEnabled(on) PROVE CaptionsInv'
  <2>1. Ready(ApplySettings(captions, on), on)
    BY <1>0, ApplySettingsIsReady
  <2> QED
    BY <1>0, <1>3, <2>1, FollowOutputsEstablishes DEF SetCaptionsEnabled
<1>4. CASE SetWhisperModel
  BY <1>0, <1>4 DEF SetWhisperModel, CaptionsInv, Ready, Captions, InsertsForOutputs,
                    AnyRequested, StartPreview, StopPreview, slotVars
<1>5. CASE RefuseCaptionSetting
  <2>1. /\ Ready(ApplySettings(captions, enabled), enabled)
        /\ ApplySettings(captions, enabled).inserting = captions.inserting
    BY <1>0, ApplySettingsIsReady
  <2>2. /\ captions' = ApplySettings(captions, enabled)
        /\ UNCHANGED <<requested, enabled, installed, dialog>>
    BY <1>5 DEF RefuseCaptionSetting, slotVars
  <2> QED
    BY <1>0, <2>1, <2>2 DEF CaptionsInv, Ready, InsertsForOutputs, AnyRequested
<1>6. ASSUME NEW on \in BOOLEAN, Load(on) PROVE CaptionsInv'
  <2>1. /\ Ready(ApplySettings(captions, on), on)
        /\ ApplySettings(captions, on).inserting = captions.inserting
    BY <1>0, ApplySettingsIsReady
  <2>2. enabled' = on /\ UNCHANGED <<dialog, installed>>
    BY <1>6 DEF Load
  <2>3. CASE FollowOutputs(ApplySettings(captions, on))
    BY <1>0, <2>1, <2>2, <2>3, FollowOutputsEstablishes
  <2>4. CASE captions' = ApplySettings(captions, on) /\ UNCHANGED slotVars
    BY <1>0, <2>1, <2>2, <2>4 DEF CaptionsInv, Ready, InsertsForOutputs, AnyRequested, slotVars
  <2> QED
    BY <1>6, <2>3, <2>4 DEF Load, RestoreStreamingConfiguration
<1>7. CASE Restored
  BY <1>0, <1>7, FollowOutputsEstablishes DEF Restored
<1>8. CASE OpenDialog \/ RejectDialog
  <2>1. dialog' \in {"closed", "on", "off"}
    BY <1>8 DEF OpenDialog, RejectDialog
  <2> QED
    BY <1>8, <2>1, QuietHandler DEF OpenDialog, RejectDialog, slotVars
<1>9. CASE ApplyObsStreamSettings
  <2>1. UNCHANGED <<enabled, dialog, installed>>
    BY <1>9 DEF ApplyObsStreamSettings
  <2>2. FollowOutputs(captions) \/ UNCHANGED <<requested, captions>>
    BY <1>9 DEF ApplyObsStreamSettings, Configure, Reconfigure, Clear, ClearTo, slotVars
  <2>3. CASE FollowOutputs(captions)
    BY <1>0, <2>1, <2>3, FollowOutputsEstablishes
  <2>4. CASE UNCHANGED <<requested, captions>>
    BY <1>0, <2>1, <2>4, QuietHandler
  <2> QED
    BY <2>2, <2>3, <2>4
<1>10. CASE RevertObsStreamSettings
  BY <1>0, <1>10, FollowOutputsEstablishes DEF RevertObsStreamSettings
<1>11. CASE AcceptDialog
  <2> DEFINE on == dialog = "on"
  <2>1. enabled' = on /\ on \in BOOLEAN /\ dialog' = "closed" /\ installed' = installed
    BY <1>11 DEF AcceptDialog
  <2>2. PICK c \in {captions, StopPreview(captions)} :
           \/ UNCHANGED slotVars /\ captions' = ApplySettings(c, enabled')
           \/ FollowOutputs(ApplySettings(c, enabled'))
    BY <1>11 DEF AcceptDialog
  <2>3. c \in Captions /\ c.inserting = c.active /\ c.inserting = captions.inserting
    BY <1>0, StopPreviewType
  <2>4. /\ Ready(ApplySettings(c, on), on)
        /\ ApplySettings(c, on).inserting = c.inserting
    BY <1>0, <2>1, <2>3, ApplySettingsIsReady
  <2>5. CASE FollowOutputs(ApplySettings(c, enabled'))
    BY <1>0, <2>1, <2>4, <2>5, FollowOutputsEstablishes
  <2>6. CASE UNCHANGED slotVars /\ captions' = ApplySettings(c, enabled')
    BY <1>0, <2>1, <2>3, <2>4, <2>6
       DEF CaptionsInv, Ready, InsertsForOutputs, AnyRequested, slotVars
  <2> QED
    BY <2>2, <2>5, <2>6
<1>12. CASE OnStreamingStarting
  <2> DEFINE c == [(IF enabled THEN StartPreview(captions) ELSE captions)
                     EXCEPT !.inserting = enabled, !.active = enabled]
  <2>1. Ready(c, enabled)
    BY <1>0 DEF Ready, StartPreview, Captions
  <2>2. FollowOutputs(c) /\ UNCHANGED <<enabled, dialog, installed>>
    BY <1>12 DEF OnStreamingStarting
  <2> HIDE DEF c
  <2> QED
    BY <1>0, <2>1, <2>2, FollowOutputsEstablishes
<1>13. CASE OnStreamingStarted
  BY <1>0, <1>13, FollowOutputsEstablishes DEF OnStreamingStarted
<1>14. CASE OnStreamingStopped
  BY <1>0, <1>14, FollowOutputsEstablishes DEF OnStreamingStopped
<1>15. CASE OnProfileChanging
  <2> DEFINE c == [StopPreview(captions) EXCEPT !.active = FALSE]
  <2>1. c \in Captions /\ ~c.active /\ ~c.capturing
    BY <1>0 DEF StopPreview, Captions
  <2>2. ~AnyRequested'
    BY <1>15 DEF OnProfileChanging, ShutDown, AnyRequested
  <2>3. FollowOutputs(c) /\ UNCHANGED <<enabled, dialog, installed>>
    BY <1>15 DEF OnProfileChanging
  <2> HIDE DEF c
  <2>4. CASE c.inserting
    <3>1. captions' = [c EXCEPT !.inserting = FALSE, !.active = FALSE]
      BY <2>2, <2>3, <2>4 DEF FollowOutputs
    <3>2. /\ captions' \in Captions /\ ~captions'.inserting
          /\ ~captions'.active /\ ~captions'.capturing
      BY <2>1, <3>1 DEF Captions
    <3>3. captions'.inserting = captions'.active
      BY <3>2 DEF Captions
    <3> QED
      BY <1>0, <2>3, <3>2, <3>3 DEF CaptionsInv, Ready, InsertsForOutputs
  <2>5. CASE ~c.inserting
    <3>1. captions' = c
      BY <2>2, <2>3, <2>5 DEF FollowOutputs
    <3>2. c.inserting = c.active
      BY <2>1, <2>5 DEF Captions
    <3> QED
      BY <1>0, <2>1, <2>3, <2>5, <3>1, <3>2 DEF CaptionsInv, Ready, InsertsForOutputs
  <2> QED
    BY <2>4, <2>5
<1>16. CASE UpdateStreamingHealth
  BY <1>0, <1>16, FollowOutputsEstablishes DEF UpdateStreamingHealth
<1>17. CASE ObsMoves
  BY <1>0, <1>17, QuietHandler DEF ObsMoves, StreamMoves, AuxiliaryMoves
<1> QED
  BY <1>1, <1>2, <1>3, <1>4, <1>5, <1>6, <1>7, <1>8, <1>9, <1>10, <1>11, <1>12, <1>13,
     <1>14, <1>15, <1>16, <1>17 DEF Next

(* A stuttering step changes nothing the invariant mentions.               *)
LEMMA CaptionsInvStep == CaptionsInv /\ [Next]_vars => CaptionsInv'
<1>1. CaptionsInv /\ UNCHANGED vars => CaptionsInv'
  BY DEF vars, slotVars, CaptionsInv, Ready, InsertsForOutputs, AnyRequested
<1> QED
  BY <1>1, CaptionsInvNext

-----------------------------------------------------------------------------
(* After every handler the captions satisfy CaptionsInv.                   *)
THEOREM CaptionsInvCorrect == Spec => []CaptionsInv
BY CaptionsInvInit, CaptionsInvStep, PTL DEF Spec

(* captionInsertionActive_ and the inserter agree, and captions are        *)
(* inserted only while an output is requested, for every order of the      *)
(* plugin's handlers and every set of configurations.                      *)
THEOREM InsertionAlwaysFollowsOutputs == Spec => []InsertsForOutputs
<1>1. CaptionsInv => InsertsForOutputs
  BY DEF CaptionsInv, Ready, InsertsForOutputs
<1> QED
  BY <1>1, CaptionsInvCorrect, PTL

(* No handler leaves the audio capture running with captions disabled, and *)
(* with its model installed the transcription runs whenever the inserter   *)
(* is to caption a stream.                                                 *)
THEOREM AudioAlwaysFollowsSettings == Spec => []AudioFollowsSettings
<1>1. CaptionsInv => AudioFollowsSettings
  BY DEF CaptionsInv, Ready, AudioFollowsSettings
<1> QED
  BY <1>1, CaptionsInvCorrect, PTL

-----------------------------------------------------------------------------
(* The slots.  A handler makes one move of OutputSlots, or none, except    *)
(* that accepting the dialog clears the slots and configures them again    *)
(* before anybody looks.                                                   *)
SlotsMove ==
    \/ SlotsNext
    \/ \E new \in [Slots -> SlotConfigs \cup {EmptyConfig}] : ClearTo(new)

(* A configuration of some slots, as the plugin's helpers write it.        *)
LEMMA ReconfigureIsMove ==
    ASSUME NEW which \in SUBSET Slots, NEW new \in Configs(which), Reconfigure(which, new)
    PROVE  SlotsMove
<1>1. PICK f \in [which -> SlotConfigs] :
         new = [r \in Slots |-> IF r \in which THEN f[r] ELSE config[r]]
  BY DEF Configs
<1> QED
  BY <1>1 DEF SlotsMove, SlotsNext

LEMMA ConfigureIsMove ==
    ASSUME NEW which \in SUBSET Slots, Configure(which)
    PROVE  SlotsMove
BY ReconfigureIsMove DEF Configure

LEMMA ClearIsMove == Clear => SlotsMove
BY DEF SlotsMove, SlotsNext

LEMMA SlotsStep == [Next]_vars => SlotsMove \/ UNCHANGED slotVars
<1> SUFFICES ASSUME Next PROVE SlotsMove \/ UNCHANGED slotVars
  BY DEF vars
<1>1. CASE ControlOutput
  BY <1>1 DEF ControlOutput, SlotsMove, SlotsNext
<1>2. CASE UpdateOutputConfiguration
  <2>1. PICK r \in Slots : \E new \in Configs({r}) : Reconfigure({r}, new)
    BY <1>2 DEF UpdateOutputConfiguration
  <2> QED
    BY <2>1, ReconfigureIsMove
<1>3. ASSUME NEW on \in BOOLEAN, SetCaptionsEnabled(on) PROVE UNCHANGED slotVars
  BY <1>3 DEF SetCaptionsEnabled
<1>4. CASE SetWhisperModel \/ RefuseCaptionSetting
  BY <1>4 DEF SetWhisperModel, RefuseCaptionSetting
<1>5. ASSUME NEW on \in BOOLEAN, Load(on) PROVE SlotsMove \/ UNCHANGED slotVars
  BY <1>5, ReconfigureIsMove, ClearIsMove DEF Load, RestoreStreamingConfiguration
<1>6. CASE Restored
  BY <1>6, ConfigureIsMove, ClearIsMove DEF Restored, Slots
<1>7. CASE OpenDialog \/ RejectDialog
  BY <1>7 DEF OpenDialog, RejectDialog
<1>8. CASE ApplyObsStreamSettings
  BY <1>8, ConfigureIsMove, ClearIsMove DEF ApplyObsStreamSettings, slotVars, Slots
<1>9. CASE RevertObsStreamSettings
  BY <1>9, ClearIsMove DEF RevertObsStreamSettings
<1>10. CASE AcceptDialog
  <2>1. \/ UNCHANGED slotVars
        \/ \E new \in [Slots -> SlotConfigs \cup {EmptyConfig}] : ClearTo(new)
        \/ Clear
    BY <1>10 DEF AcceptDialog, slotVars
  <2> QED
    BY <2>1, ClearIsMove DEF SlotsMove
<1>11. CASE OnStreamingStarting \/ OnStreamingStarted \/ OnStreamingStopped \/ OnProfileChanging
  BY <1>11 DEF OnStreamingStarting, OnStreamingStarted, OnStreamingStopped, OnProfileChanging,
               SlotsMove, SlotsNext
<1>12. CASE UpdateStreamingHealth
  BY <1>12 DEF UpdateStreamingHealth
<1>13. CASE ObsMoves
  BY <1>13 DEF ObsMoves, SlotsMove, SlotsNext
<1> QED
  BY <1>1, <1>2, <1>3, <1>4, <1>5, <1>6, <1>7, <1>8, <1>9, <1>10, <1>11, <1>12, <1>13 DEF Next

(* The plugin asks nothing of the slots that StreamingManager does not     *)
(* promise: whatever the order of handlers, what it does to them is a      *)
(* behaviour of OutputSlots, which StreamingManager implements.            *)
THEOREM PluginDrivesSlots == Spec => SlotsInit /\ [][SlotsMove]_slotVars
<1>1. Init => SlotsInit
  BY DEF Init
<1>2. [Next]_vars => [SlotsMove]_slotVars
  BY SlotsStep
<1> QED
  BY <1>1, <1>2, PTL DEF Spec

(* Every move of the slots keeps their types.                              *)
LEMMA SlotsMoveType == SlotsTypeOK /\ SlotsMove => SlotsTypeOK'
<1> SUFFICES ASSUME SlotsTypeOK, SlotsMove PROVE SlotsTypeOK'
  OBVIOUS
<1> USE DEF SlotsTypeOK, OutputPhase
<1>0. "Primary" \in Slots /\ "Backup" \in Slots
  BY DEF Slots
<1>1. ASSUME NEW which \in SUBSET Slots, NEW f \in [which -> SlotConfigs],
             Reconfigure(which, [r \in Slots |-> IF r \in which THEN f[r] ELSE config[r]])
      PROVE  SlotsTypeOK'
  <2>1. config' \in [Slots -> SlotConfigs \cup {FirstConfig, EmptyConfig}]
    BY <1>1 DEF Reconfigure
  <2> QED
    BY <1>1, <2>1 DEF Reconfigure
<1>2. ASSUME NEW new \in [Slots -> SlotConfigs \cup {EmptyConfig}], ClearTo(new)
      PROVE  SlotsTypeOK'
  BY <1>2 DEF ClearTo, AskStop
<1>3. CASE Clear
  <2>1. [r \in Slots |-> EmptyConfig] \in [Slots -> SlotConfigs \cup {EmptyConfig}]
    OBVIOUS
  <2> QED
    BY <1>2, <1>3, <2>1 DEF Clear
<1>4. ASSUME NEW r \in Slots, TakeStream(r) PROVE SlotsTypeOK'
  BY <1>4 DEF TakeStream, AskStart
<1>5. ASSUME TryAuxiliary
      PROVE  /\ requested' \in [Slots -> BOOLEAN] /\ waiting' \in BOOLEAN
             /\ aux' \in OutputPhase \ {"requested"}
  BY <1>5, <1>0 DEF TryAuxiliary
<1>6. CASE StartBeside
  BY <1>0, <1>5, <1>6 DEF StartBeside
<1>7. ASSUME NEW r \in Slots, Stop(r) PROVE SlotsTypeOK'
  BY <1>7 DEF Stop, AskStop
<1>8. CASE ShutDown
  BY <1>8 DEF ShutDown, AskStop
<1>9. CASE Starting
  BY <1>0, <1>9 DEF Starting
<1>10. CASE Started
  BY <1>5, <1>10 DEF Started
<1>11. CASE Stopped
  BY <1>11 DEF Stopped
<1>12. CASE StreamMoves \/ AuxiliaryMoves
  BY <1>12 DEF StreamMoves, AuxiliaryMoves
<1> QED
  BY <1>1, <1>2, <1>3, <1>4, <1>6, <1>7, <1>8, <1>9, <1>10, <1>11, <1>12
     DEF SlotsMove, SlotsNext

(* Every variable of the plugin's view keeps its type, those of the slots  *)
(* included, for any set of configurations.                                *)
THEOREM PluginTypeCorrect == Spec => []TypeOK
<1>1. Init => SlotsTypeOK /\ restoring \in BOOLEAN
  BY DEF Init, SlotsInit, SlotsTypeOK, OutputPhase
<1>2. SlotsTypeOK /\ [Next]_vars => SlotsTypeOK'
  <2>1. SlotsTypeOK /\ UNCHANGED slotVars => SlotsTypeOK'
    BY DEF SlotsTypeOK, slotVars
  <2> QED
    BY <2>1, SlotsStep, SlotsMoveType
<1>3. restoring \in BOOLEAN /\ [Next]_vars => (restoring \in BOOLEAN)'
  BY DEF Next, vars, settings, rest, ControlOutput, UpdateOutputConfiguration,
         SetCaptionsEnabled, SetWhisperModel, RefuseCaptionSetting, Load,
         RestoreStreamingConfiguration, Restored, OpenDialog, RejectDialog,
         ApplyObsStreamSettings, RevertObsStreamSettings, AcceptDialog, OnStreamingStarting,
         OnStreamingStarted, OnStreamingStopped, OnProfileChanging, UpdateStreamingHealth, ObsMoves
<1>4. CaptionsInv /\ SlotsTypeOK /\ restoring \in BOOLEAN => TypeOK
  BY DEF CaptionsInv, Ready, TypeOK
<1> QED
  BY <1>1, <1>2, <1>3, <1>4, CaptionsInvCorrect, PTL DEF Spec

-----------------------------------------------------------------------------
(* Captions begin.                                                         *)

Uncaptioned == AnyRequested /\ enabled /\ ~captions.inserting

(* What TLAPS has no rule for: that the timer's handler is enabled when it *)
(* has something to do.                                                    *)
TimerEnabled == Uncaptioned => ENABLED <<UpdateStreamingHealth>>_vars

(* An output somebody asked for gets captions: the health timer starts     *)
(* them, if no other handler did, and no handler can keep it from doing so.*)
THEOREM CaptionsAlwaysFollowOutputs == FairSpec /\ []TimerEnabled => CaptionsFollowOutputs
<1>1. CaptionsInv /\ Uncaptioned /\ <<UpdateStreamingHealth>>_vars => ~Uncaptioned'
  <2> SUFFICES ASSUME CaptionsInv, Uncaptioned, UpdateStreamingHealth PROVE captions'.inserting
    BY DEF Uncaptioned
  <2>1. captions' = [StartPreview(captions) EXCEPT !.inserting = TRUE, !.active = TRUE]
    BY DEF Uncaptioned, UpdateStreamingHealth, FollowOutputs, AnyRequested, slotVars, settings
  <2>2. captions \in Captions
    BY DEF CaptionsInv, Ready
  <2> QED
    BY <2>1, <2>2 DEF StartPreview, Captions
<1>2. (AnyRequested /\ enabled) /\ ~(captions.inserting \/ ~AnyRequested \/ ~enabled)
        => Uncaptioned
  BY DEF Uncaptioned
<1>3. ~Uncaptioned => captions.inserting \/ ~AnyRequested \/ ~enabled
  BY DEF Uncaptioned
<1> QED
  BY <1>1, <1>2, <1>3, CaptionsInvCorrect, PTL DEF FairSpec, Spec, TimerEnabled, CaptionsFollowOutputs

=============================================================================
