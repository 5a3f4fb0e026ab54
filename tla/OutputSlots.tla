----------------------------- MODULE OutputSlots -----------------------------
(***************************************************************************)
(* What StreamingManager promises to the plugin, without how: two slots,   *)
(* one OBS stream that one of them may own, and an auxiliary output for    *)
(* Backup.  A slot takes a configuration only while it is inactive; at     *)
(* most one slot owns the stream; Backup runs beside Primary, or waits for *)
(* Primary's stream, and gives up at the latest when that stream stops.    *)
(*                                                                         *)
(* Health, delays, encoders and reconnects are not promised here, and the  *)
(* events of OBS arrive at any time.  StreamingManager implements this     *)
(* specification (its property SlotsSpec), and PluginCaptions builds on it.*)
(***************************************************************************)
CONSTANTS
    SlotConfigs,  \* configurations: records with a field enabled
    FirstConfig,  \* the configuration of a new slot
    EmptyConfig,  \* the configuration after clearConfiguration
    NoOwner       \* nobody owns the OBS stream

Slots == {"Primary", "Backup"}

VARIABLES
    config,     \* the configuration of each slot
    requested,  \* somebody wants the slot to stream
    owner,      \* the slot that owns the OBS stream
    waiting,    \* Backup waits for the stream of Primary
    stream,     \* the phase of the OBS stream
    aux         \* the phase of the auxiliary output

slotVars == <<config, requested, owner, waiting, stream, aux>>

OutputPhase == {"off", "requested", "connecting", "active", "stopping"}

SlotsTypeOK ==
    /\ config \in [Slots -> SlotConfigs \cup {FirstConfig, EmptyConfig}]
    /\ requested \in [Slots -> BOOLEAN]
    /\ owner \in Slots \cup {NoOwner}
    /\ waiting \in BOOLEAN
    /\ stream \in OutputPhase
    /\ aux \in OutputPhase \ {"requested"}

SlotsInit ==
    /\ config = [r \in Slots |-> FirstConfig]
    /\ requested = [r \in Slots |-> FALSE]
    /\ owner = NoOwner
    /\ waiting = FALSE
    /\ stream = "off"
    /\ aux = "off"

-----------------------------------------------------------------------------
StreamActive  == stream \in {"active", "stopping"}
AuxiliaryActive == aux \in {"active", "stopping"}

Active(r) == \/ owner = r /\ StreamActive
             \/ r = "Backup" /\ AuxiliaryActive

AnyActive    == (owner # NoOwner /\ StreamActive) \/ AuxiliaryActive
AnyRequested == \E r \in Slots : requested[r]

AskStart == stream' \in IF stream = "off" THEN {"off", "requested"} ELSE {stream}
AskStop  == stream' = IF stream = "active" THEN "stopping" ELSE stream

(* The slots of which take the configurations they have in new.            *)
Reconfigure(which, new) ==
    /\ \A r \in which : ~Active(r)
    /\ config' = new
    /\ \A r \in Slots \ which : new[r] = config[r]
    /\ IF "Backup" \in which
       THEN waiting' = FALSE /\ aux' = "off"
       ELSE UNCHANGED <<waiting, aux>>
    /\ UNCHANGED <<requested, owner, stream>>

(* The stream is stopped and the slots begin again, with the configurations *)
(* in new.                                                                 *)
ClearTo(new) ==
    /\ IF owner # NoOwner THEN AskStop ELSE UNCHANGED stream
    /\ config' = new
    /\ owner' = NoOwner
    /\ waiting' = FALSE
    /\ aux' = "off"
    /\ UNCHANGED requested

Clear == ClearTo([r \in Slots |-> EmptyConfig])

\* bug: the auxiliary output goes through the phases of the OBS stream
TryAuxiliaryRequested ==
    /\ waiting' = FALSE
    /\ \/ aux' = "off"
          /\ requested' \in {requested, [requested EXCEPT !["Backup"] = FALSE],
                             [requested EXCEPT !["Backup"] = TRUE]}
       \/ StreamActive /\ aux' = "requested"
          /\ requested' = [requested EXCEPT !["Backup"] = TRUE]

(* An attempt to start the auxiliary output; it fails without a stream.    *)
TryAuxiliary ==
    /\ waiting' = FALSE
    /\ \/ aux' = "off"
          /\ requested' \in {requested, [requested EXCEPT !["Backup"] = FALSE],
                             [requested EXCEPT !["Backup"] = TRUE]}
       \/ StreamActive /\ aux' = "connecting"
          /\ requested' = [requested EXCEPT !["Backup"] = TRUE]

(* A slot without an owner of the stream before it takes the stream.       *)
TakeStream(r) ==
    /\ config[r].enabled
    /\ ~StreamActive
    /\ r = "Primary" => ~requested["Primary"]
    /\ r = "Backup" => owner # "Primary" /\ ~AuxiliaryActive
    /\ owner' = r
    /\ requested' = [requested EXCEPT ![r] = TRUE]
    /\ AskStart
    /\ UNCHANGED <<config, waiting, aux>>

StartBeside ==
    /\ config["Backup"].enabled
    /\ \/ /\ AuxiliaryActive
          /\ requested' = [requested EXCEPT !["Backup"] = TRUE]
          /\ UNCHANGED <<waiting, aux>>
       \/ /\ ~AuxiliaryActive /\ owner = "Primary" /\ ~StreamActive
          /\ requested' = [requested EXCEPT !["Backup"] = TRUE]
          /\ waiting' = TRUE
          /\ UNCHANGED aux
       \/ /\ ~AuxiliaryActive /\ owner = "Primary" /\ StreamActive
          /\ TryAuxiliary
    /\ UNCHANGED <<config, owner, stream>>

Stop(r) ==
    /\ requested' = [requested EXCEPT ![r] = FALSE]
    /\ waiting' = FALSE
    /\ IF owner = r THEN AskStop ELSE UNCHANGED stream
    /\ aux' = IF r = "Backup" /\ owner # r /\ AuxiliaryActive THEN "stopping" ELSE aux
    /\ UNCHANGED <<config, owner>>

ShutDown ==
    /\ requested' = [r \in Slots |-> FALSE]
    /\ IF owner # NoOwner THEN AskStop ELSE UNCHANGED stream
    /\ owner' = NoOwner
    /\ waiting' = FALSE
    /\ aux' = "off"
    /\ UNCHANGED config

-----------------------------------------------------------------------------
(* STREAMING_STARTING: a stream that nobody owns is Primary's.             *)
Starting ==
    LET r == IF owner = NoOwner THEN "Primary" ELSE owner
    IN  /\ stream = "requested"
        /\ stream' = "connecting"
        /\ owner' = r
        /\ requested' = [requested EXCEPT ![r] = TRUE]
        /\ UNCHANGED <<config, waiting, aux>>

Started ==
    /\ IF waiting /\ owner = "Primary" /\ ~AuxiliaryActive
       THEN TryAuxiliary
       ELSE /\ waiting' = (waiting /\ owner # "Primary")
            /\ UNCHANGED <<requested, aux>>
    /\ UNCHANGED <<config, owner, stream>>

Stopped ==
    /\ IF owner = NoOwner
       THEN UNCHANGED <<requested, waiting>>
       ELSE /\ requested' = [requested EXCEPT ![owner] = FALSE]
            /\ waiting' = FALSE
    /\ UNCHANGED <<config, owner, stream, aux>>

(* OBS by itself, and its own buttons.                                     *)
StreamMoves ==
    /\ \/ stream = "off"        /\ stream' = "requested"
       \/ stream = "requested"  /\ stream' = "off"
       \/ stream = "connecting" /\ stream' \in {"active", "off"}
       \/ stream = "active"     /\ stream' \in {"stopping", "off"}
       \/ stream = "stopping"   /\ stream' = "off"
    /\ UNCHANGED <<config, requested, owner, waiting, aux>>

AuxiliaryMoves ==
    /\ \/ aux = "connecting" /\ aux' = "active"
       \/ aux \in {"connecting", "active", "stopping"} /\ aux' = "off"
    /\ UNCHANGED <<config, requested, owner, waiting, stream>>

SlotsNext ==
    \/ \E which \in SUBSET Slots :
          \E new \in [which -> SlotConfigs] :
              Reconfigure(which, [r \in Slots |-> IF r \in which THEN new[r] ELSE config[r]])
    \/ Clear
    \/ \E r \in Slots : TakeStream(r)
    \/ StartBeside
    \/ \E r \in Slots : Stop(r)
    \/ ShutDown
    \/ Starting
    \/ Started
    \/ Stopped
    \/ StreamMoves
    \/ AuxiliaryMoves

SlotsSpec == SlotsInit /\ [][SlotsNext]_slotVars

=============================================================================
