---------------------------- MODULE SettingsStore ----------------------------
(***************************************************************************)
(* Where the plugin keeps its secrets: src/src/settings_manager.cpp over a *)
(* credential store of src/src/platform and the JSON of the scene          *)
(* collection that OBS loads and saves.                                    *)
(*                                                                         *)
(* Three credentials belong to a collection: the Kaltura Session and the   *)
(* destinations and keys of the Primary and the Backup output.  The JSON   *)
(* holds their UUIDs, the credential store their values.  Both can fail to *)
(* keep up: the store refuses or cannot be read for a while, and OBS may   *)
(* crash between a write of the store and a save of the JSON.              *)
(*                                                                         *)
(* Left out: the settings that are not secret, which are copied between    *)
(* the JSON and memory, and the parsing of a value.                        *)
(***************************************************************************)
EXTENDS Naturals, FiniteSets

CONSTANTS
    Collection,  \* scene collections
    Output,      \* the outputs with credentials: Primary and Backup
    Session,     \* Kaltura sessions that isValidKalturaSession accepts
    Secret,      \* serializeSecrets of configured outputs
    Blank,       \* serializeSecrets of an output without secrets
    Nothing,     \* no value: an empty string, an absent record
    Id           \* bound: the UUIDs that can be made

Slot == {"session"} \cup Output

Value(s) == IF s = "session" THEN Session ELSE Secret \cup {Blank}
AnyValue == Session \cup Secret \cup {Blank, Nothing}

ASSUME OutputAssumption == "session" \notin Output
ASSUME ValueAssumption ==
    /\ Session \cap (Secret \cup {Blank, Nothing}) = {}
    /\ Secret \cap {Blank, Nothing} = {}
    /\ Blank # Nothing
ASSUME NothingAssumption == Nothing \notin Id \cup Collection

VARIABLES
    loaded,     \* the collection OBS has loaded, Nothing before the first
    value,      \* settings_: the session and the outputs' secrets
    id,         \* credentialId_, primaryCredentialId_, backupCredentialId_
    persisted,  \* persistedSession_, persistedPrimarySecrets_, ...
    store,      \* the credential store of the platform
    file,       \* the plugin's data in the JSON of each collection
    unsaved     \* memory changed since it was written to the JSON

memory == <<value, id, persisted>>
vars   == <<loaded, value, id, persisted, store, file, unsaved>>

(* legacy is a session that an old version left in the JSON.               *)
Data   == [id : [Slot -> Id \cup {Nothing}], legacy : Session \cup {Nothing}]
NoData == [id |-> [s \in Slot |-> Nothing], legacy |-> Nothing]

TypeOK ==
    /\ loaded \in Collection \cup {Nothing}
    /\ value \in [Slot -> AnyValue]
    /\ \A s \in Slot : value[s] \in Value(s) \cup (IF s = "session" THEN {Nothing} ELSE {})
    /\ id \in [Slot -> Id \cup {Nothing}]
    /\ persisted \in [Slot -> AnyValue]
    /\ store \in [Id -> AnyValue]
    /\ file \in [Collection -> [data : Data, exists : BOOLEAN]]
    /\ unsaved \in BOOLEAN

(* A new process: PluginSettings{}.                                        *)
NewValue == [s \in Slot |-> IF s = "session" THEN Nothing ELSE Blank]

(* Collections start without the plugin, or with the data of a version     *)
(* that kept the session in the JSON.                                      *)
Init ==
    /\ loaded = Nothing
    /\ value = NewValue
    /\ id = [s \in Slot |-> Nothing]
    /\ persisted = [s \in Slot |-> Nothing]
    /\ store = [i \in Id |-> Nothing]
    /\ file \in [Collection ->
                   {[data |-> NoData, exists |-> FALSE]} \cup
                   {[data |-> [NoData EXCEPT !.legacy = k], exists |-> TRUE] : k \in Session}]
    /\ unsaved = FALSE

-----------------------------------------------------------------------------
(* QUuid::createUuid never returns a UUID that is in use.  Bound: a step   *)
(* that needs more UUIDs than are left is not taken.                       *)
InUse == {i \in Id : store[i] # Nothing}
           \cup {id[s] : s \in Slot}
           \cup {file[c].data.id[s] : c \in Collection, s \in Slot}
NewIds(slots) ==
    {f \in [slots -> Id \ InUse] : \A s, t \in slots : s # t => f[s] # f[t]}

\* bug: the cache does not wait for the store
PersistBelieving(which, v, oldId, oldPersisted) ==
    LET writes  == {s \in which : v[s] # oldPersisted[s]}
        unnamed == {s \in writes : oldId[s] = Nothing}
    IN  \E stored \in SUBSET writes, new \in NewIds(unnamed) :
            LET target == [s \in writes |-> IF s \in unnamed THEN new[s] ELSE oldId[s]]
            IN  /\ id' = [s \in Slot |->
                             CASE s \in writes /\ v[s] # Nothing -> target[s]
                               [] s \in stored /\ v[s] = Nothing -> Nothing
                               [] OTHER                          -> oldId[s]]
                /\ persisted' = [s \in Slot |->
                                    IF s \in writes THEN v[s] ELSE oldPersisted[s]]
                /\ store' = [i \in Id |->
                                IF \E s \in stored : target[s] = i
                                THEN v[CHOOSE s \in stored : target[s] = i]
                                ELSE store[i]]

\* bug: what did not change is written again
PersistAlways(which, v, oldId, oldPersisted) ==
    LET writes  == which
        unnamed == {s \in writes : oldId[s] = Nothing}
    IN  \E stored \in SUBSET writes, new \in NewIds(unnamed) :
            LET target == [s \in writes |-> IF s \in unnamed THEN new[s] ELSE oldId[s]]
            IN  /\ id' = [s \in Slot |->
                             CASE s \in writes /\ v[s] # Nothing -> target[s]
                               [] s \in stored /\ v[s] = Nothing -> Nothing
                               [] OTHER                          -> oldId[s]]
                /\ persisted' = [s \in Slot |->
                                    IF s \in stored THEN v[s] ELSE oldPersisted[s]]
                /\ store' = [i \in Id |->
                                IF \E s \in stored : target[s] = i
                                THEN v[CHOOSE s \in stored : target[s] = i]
                                ELSE store[i]]

(* persistSession and persistOutputSecrets on the slots of which, for the  *)
(* values v and the ids and cache old: only what differs from the cache is *)
(* written, under the slot's id or a new one.  Each write may fail.  A     *)
(* session that was cleared is removed with its id.                        *)
Persist(which, v, oldId, oldPersisted) ==
    LET writes  == {s \in which : v[s] # oldPersisted[s]}
        unnamed == {s \in writes : oldId[s] = Nothing}
    IN  \E stored \in SUBSET writes, new \in NewIds(unnamed) :
            LET target == [s \in writes |-> IF s \in unnamed THEN new[s] ELSE oldId[s]]
            IN  /\ id' = [s \in Slot |->
                             CASE s \in writes /\ v[s] # Nothing -> target[s]
                               [] s \in stored /\ v[s] = Nothing -> Nothing
                               [] OTHER                          -> oldId[s]]
                /\ persisted' = [s \in Slot |->
                                    IF s \in stored THEN v[s] ELSE oldPersisted[s]]
                /\ store' = [i \in Id |->
                                IF \E s \in stored : target[s] = i
                                THEN v[CHOOSE s \in stored : target[s] = i]
                                ELSE store[i]]

(* save: the JSON gets the ids and no secret.                              *)
Saved == [data |-> [id |-> id, legacy |-> Nothing], exists |-> TRUE]

-----------------------------------------------------------------------------
(* load.  readable are the slots whose credential the store can read now.  *)
Read(data, s, readable) ==
    IF data.id[s] # Nothing /\ s \in readable THEN store[data.id[s]] ELSE Nothing

LoadData(data, readable) ==
    LET read    == [s \in Slot |-> Read(data, s, readable)]
        session == IF read["session"] \in Session THEN read["session"] ELSE Nothing
        migrate == session = Nothing /\ data.legacy # Nothing
        cache   == [read EXCEPT !["session"] = session]
        v       == [s \in Slot |->
                      CASE s = "session" /\ migrate          -> data.legacy
                        [] s = "session" /\ ~migrate         -> session
                        [] s # "session" /\ read[s] # Nothing -> read[s]
                        [] s # "session" /\ read[s] = Nothing -> Blank]
    IN  /\ value' = v
        /\ Persist(IF migrate THEN Slot ELSE Output, v, data.id, cache)

\* bug: the ids are cleared after the early return
LoadNothingKeepingIds(before) ==
    /\ value' = [before EXCEPT !["session"] = Nothing]
    /\ UNCHANGED <<id, persisted, store>>

\* bug: an output is left without a configuration
LoadNothingAtAll(before) ==
    /\ value' = [s \in Slot |-> Nothing]
    /\ id' = [s \in Slot |-> Nothing]
    /\ persisted' = [s \in Slot |-> Nothing]
    /\ UNCHANGED store

(* A collection without data of the plugin: the outputs of the previous    *)
(* one stay in memory, their ids do not.                                   *)
LoadNothing(before) ==
    /\ value' = [before EXCEPT !["session"] = Nothing]
    /\ id' = [s \in Slot |-> Nothing]
    /\ persisted' = [s \in Slot |-> Nothing]
    /\ UNCHANGED store

Load(c, data, before) ==
    /\ loaded' = c
    /\ unsaved' = TRUE
    /\ \E readable \in SUBSET Slot :
           IF data.exists THEN LoadData(data.data, readable) ELSE LoadNothing(before)

-----------------------------------------------------------------------------
(* OBS saves the collection it leaves and loads another.                   *)
SwitchCollection(c) ==
    /\ loaded \notin {c, Nothing}
    /\ file' = [file EXCEPT ![loaded] = Saved]
    /\ Load(c, file[c], value)

(* A start, the first one or after a crash: memory is new, the collection  *)
(* is read again.                                                          *)
Restart == \E c \in Collection :
    /\ loaded \in {c, Nothing}
    /\ Load(c, file[c], NewValue)
    /\ UNCHANGED file

(* update, from the dialog or the dock: any valid session, any output.  No *)
(* caller clears a session.                                                *)
Updates == {v \in [Slot -> AnyValue] :
              /\ v["session"] \in Session \cup {value["session"]}
              /\ \A o \in Output : v[o] \in Secret \cup {value[o]}}

(* applyObsStreamSettings leaves the JSON to the next save of OBS.         *)
Update(v) ==
    /\ loaded # Nothing
    /\ value' = v
    /\ Persist(Slot, v, id, persisted)
    /\ unsaved' = TRUE
    /\ UNCHANGED <<loaded, file>>

(* The dialog and the dock end with obs_frontend_save.                     *)
UpdateAndSave(v) ==
    /\ loaded # Nothing
    /\ value' = v
    /\ Persist(Slot, v, id, persisted)
    /\ file' = [file EXCEPT ![loaded] = [data |-> [id |-> id', legacy |-> Nothing],
                                         exists |-> TRUE]]
    /\ unsaved' = FALSE
    /\ UNCHANGED loaded

Save ==
    /\ loaded # Nothing
    /\ file' = [file EXCEPT ![loaded] = Saved]
    /\ unsaved' = FALSE
    /\ UNCHANGED <<loaded, memory, store>>

-----------------------------------------------------------------------------
Next ==
    \/ \E c \in Collection : SwitchCollection(c)
    \/ Restart
    \/ \E v \in Updates : Update(v)
    \/ \E v \in Updates : UpdateAndSave(v)
    \/ Save

Spec == Init /\ [][Next]_vars

-----------------------------------------------------------------------------
(* A credential belongs to one slot of one collection: load forgets the    *)
(* ids of the collection it leaves before it can return early, so a new    *)
(* collection never writes over the credentials of the previous one.       *)
Uses(c) == IF c = loaded THEN {id, file[c].data.id} ELSE {file[c].data.id}
NoCredentialShared ==
    \A c, d \in Collection, s, t \in Slot : <<c, s>> # <<d, t>> =>
        \A f \in Uses(c), g \in Uses(d) : f[s] # Nothing => f[s] # g[t]

(* The cache that suppresses writes is never wrong: what update believes   *)
(* to be stored is stored, under the id the JSON will get, whatever write  *)
(* failed before.  So what was saved comes back: once the JSON is written, *)
(* each credential that reached the store is the one the JSON names.       *)
SavedIsDurable ==
    /\ \A s \in Slot : persisted[s] # Nothing =>
          /\ id[s] # Nothing
          /\ store[id[s]] = persisted[s]
    /\ loaded # Nothing /\ ~unsaved =>
          \A s \in Slot : persisted[s] = value[s] /\ value[s] # Nothing =>
              /\ file[loaded].data.id[s] # Nothing
              /\ store[file[loaded].data.id[s]] = value[s]

(* A session in the credential store is never lost to its collection, only *)
(* replaced: not by a store that cannot be read for a while, not by a      *)
(* failed write, a crash or an update of other settings while it is        *)
(* missing.  A session that an old version left in the JSON stays there    *)
(* until it is in the store, but for one case: while no write of it has    *)
(* succeeded, the next save of the collection drops it all the same, as    *)
(* load says (329), and with a restart it is gone.                         *)
StoredSession(c) ==
    /\ file[c].data.id["session"] # Nothing
    /\ store[file[c].data.id["session"]] \in Session
LegacySession(c) == file[c].data.legacy # Nothing
SessionSurvives ==
    [][\A c \in Collection :
          /\ StoredSession(c) => StoredSession(c)'
          /\ LegacySession(c) => \/ StoredSession(c)' \/ LegacySession(c)'
                                 \/ c = loaded /\ persisted["session"] = Nothing]_vars

-----------------------------------------------------------------------------
(* What the documentation says and the code does not do.                   *)

(* STREAM_OUTPUT_ARCHITECTURE: destinations and keys are "stored by the    *)
(* platform credential backend"; starting again loses none of them.        *)
SecretsSurviveStart ==
    [][Restart => \A i \in Id : store[i] \in Secret => store'[i] = store[i]]_vars

=============================================================================
