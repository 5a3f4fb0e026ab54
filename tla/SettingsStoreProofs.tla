------------------------- MODULE SettingsStoreProofs -------------------------
(* Proofs about SettingsStore: for any collections, outputs, sessions and  *)
(* secrets, and any number of UUIDs.                                       *)
EXTENDS SettingsStore, TLAPS

FileId(c, s) == file[c].data.id[s]

(* NoCredentialShared, taken apart: between files, and between the files   *)
(* and what is in memory for the loaded one.                               *)
FilesDistinct ==
    \A c, d \in Collection, s, t \in Slot :
       <<c, s>> # <<d, t>> /\ FileId(c, s) # Nothing => FileId(c, s) # FileId(d, t)

MemoryDistinct ==
    loaded # Nothing =>
       /\ \A s, t \in Slot : s # t /\ id[s] # Nothing => id[s] # id[t]
       /\ \A c \in Collection, s, t \in Slot :
             <<c, s>> # <<loaded, t>> /\ id[t] # Nothing => FileId(c, s) # id[t]

(* The first half of SavedIsDurable, and what the second rests on.         *)
CacheIsStored ==
    \A s \in Slot : persisted[s] # Nothing => id[s] # Nothing /\ store[id[s]] = persisted[s]

FileIsMemory == loaded # Nothing /\ ~unsaved => file[loaded].data.id = id

(* A record that is not absent holds a value of its slot's kind.           *)
Kind(s) == Value(s) \cup {Nothing}
KindsMatch ==
    /\ \A c \in Collection, s \in Slot : FileId(c, s) # Nothing => store[FileId(c, s)] \in Kind(s)
    /\ loaded # Nothing => \A s \in Slot : id[s] # Nothing => store[id[s]] \in Kind(s)

(* What keeps a session that can be loaded: no write is caused by a        *)
(* session that is missing in memory, and the JSON's is in reach of it.    *)
SessionCached == value["session"] = Nothing => persisted["session"] = Nothing
MemoryKeepsSession ==
    loaded # Nothing /\ StoredSession(loaded) =>
       id["session"] # Nothing /\ store[id["session"]] \in Session
AbsentHasNoIds ==
    \A c \in Collection : ~file[c].exists => \A s \in Slot : FileId(c, s) = Nothing

Inv ==
    /\ TypeOK
    /\ FilesDistinct /\ MemoryDistinct
    /\ CacheIsStored /\ FileIsMemory
    /\ KindsMatch
    /\ SessionCached /\ MemoryKeepsSession /\ AbsentHasNoIds

(* What the property says of a single step.                                *)
StoredKept == \A c \in Collection : StoredSession(c) => StoredSession(c)'
LegacyKept ==
    \A c \in Collection :
       LegacySession(c) => \/ StoredSession(c)' \/ LegacySession(c)'
                           \/ c = loaded /\ persisted["session"] = Nothing
SessionsKept == StoredKept /\ LegacyKept

-----------------------------------------------------------------------------
(* Persist.                                                                *)

(* What may be handed to it as ids: in use already, no two alike.          *)
GoodIds(ids) ==
    /\ ids \in [Slot -> Id \cup {Nothing}]
    /\ \A s \in Slot : ids[s] # Nothing => ids[s] \in InUse
    /\ \A s, t \in Slot : s # t /\ ids[s] # Nothing => ids[s] # ids[t]

(* What it does, slot by slot and record by record.  A slot keeps its id   *)
(* unless its value was cleared, and otherwise gets one that was free.     *)
IdsFollow(which, v, oldId, old) ==
    /\ id' \in [Slot -> Id \cup {Nothing}]
    /\ \A s, t \in Slot : s # t /\ id'[s] # Nothing => id'[s] # id'[t]
    /\ \A s \in Slot :
          /\ oldId[s] # Nothing => id'[s] \in {oldId[s], Nothing}
          /\ oldId[s] = Nothing /\ id'[s] # Nothing => id'[s] \in Id \ InUse
          /\ oldId[s] # Nothing /\ id'[s] = Nothing =>
                s \in which /\ v[s] = Nothing /\ old[s] # Nothing

CacheFollows(which, v, oldId, old) ==
    /\ persisted' \in [Slot -> AnyValue]
    /\ \A s \in Slot :
          \/ /\ s \in which /\ persisted'[s] = v[s]
             /\ v[s] # Nothing => id'[s] # Nothing /\ store'[id'[s]] = v[s]
          \/ /\ persisted'[s] = old[s]
             /\ oldId[s] # Nothing =>
                   id'[s] = oldId[s] /\ store'[oldId[s]] = store[oldId[s]]

StoreFollows(which, v, oldId, old) ==
    /\ store' \in [Id -> AnyValue]
    /\ \A i \in InUse \cap Id :
          store'[i] = store[i] \/ \E s \in which : i = oldId[s] /\ v[s] # old[s] /\ store'[i] = v[s]
    /\ \A s \in Slot : id'[s] # Nothing => store'[id'[s]] \in {v[s], store[id'[s]]}

LEMMA PersistFacts ==
    ASSUME NEW which \in SUBSET Slot, NEW v \in [Slot -> AnyValue],
           NEW oldId, GoodIds(oldId), NEW old \in [Slot -> AnyValue],
           store \in [Id -> AnyValue],
           Persist(which, v, oldId, old)
    PROVE  /\ IdsFollow(which, v, oldId, old)
           /\ CacheFollows(which, v, oldId, old)
           /\ StoreFollows(which, v, oldId, old)
  <1> DEFINE writes  == {s \in which : v[s] # old[s]}
             unnamed == {s \in writes : oldId[s] = Nothing}
  <1>1. PICK stored \in SUBSET writes, new \in NewIds(unnamed) :
          LET target == [s \in writes |-> IF s \in unnamed THEN new[s] ELSE oldId[s]]
          IN  /\ id' = [s \in Slot |->
                           CASE s \in writes /\ v[s] # Nothing -> target[s]
                             [] s \in stored /\ v[s] = Nothing -> Nothing
                             [] OTHER                          -> oldId[s]]
              /\ persisted' = [s \in Slot |-> IF s \in stored THEN v[s] ELSE old[s]]
              /\ store' = [i \in Id |->
                              IF \E s \in stored : target[s] = i
                              THEN v[CHOOSE s \in stored : target[s] = i]
                              ELSE store[i]]
    BY DEF Persist
  <1> DEFINE target == [s \in writes |-> IF s \in unnamed THEN new[s] ELSE oldId[s]]
  <1>2. /\ \A s \in Slot : id'[s] = CASE s \in writes /\ v[s] # Nothing -> target[s]
                                     [] s \in stored /\ v[s] = Nothing -> Nothing
                                     [] OTHER                          -> oldId[s]
        /\ \A s \in Slot : persisted'[s] = IF s \in stored THEN v[s] ELSE old[s]
        /\ DOMAIN id' = Slot /\ DOMAIN persisted' = Slot
    BY <1>1
  <1>3. /\ store' \in [Id -> AnyValue]
        /\ \A i \in Id : (\A s \in stored : target[s] # i) => store'[i] = store[i]
        /\ \A i \in Id : (\E s \in stored : target[s] = i) =>
                          \E s \in stored : target[s] = i /\ store'[i] = v[s]
    BY <1>1
  <1>4. /\ \A s \in unnamed : new[s] \in Id /\ new[s] \notin InUse
        /\ \A s, t \in unnamed : s # t => new[s] # new[t]
    BY DEF NewIds
  <1>5. /\ writes \subseteq Slot /\ stored \subseteq writes
        /\ \A s \in writes : target[s] = IF s \in unnamed THEN new[s] ELSE oldId[s]
        /\ \A s \in writes : s \in unnamed <=> oldId[s] = Nothing
    OBVIOUS
  <1>6. /\ oldId \in [Slot -> Id \cup {Nothing}] /\ Nothing \notin Id
        /\ \A s \in Slot : oldId[s] # Nothing => oldId[s] \in InUse
        /\ \A s, t \in Slot : s # t /\ oldId[s] # Nothing => oldId[s] # oldId[t]
    BY NothingAssumption DEF GoodIds
  <1>7. \A s \in writes : v[s] # old[s] /\ s \in which
    OBVIOUS
  <1> HIDE DEF target, unnamed, writes
  <1>8. \A s \in writes : target[s] \in Id
    BY <1>4, <1>5, <1>6
  <1>9. \A s \in writes, t \in Slot : s # t => target[s] # oldId[t]
    BY <1>4, <1>5, <1>6
  <1>10. \A s, t \in writes : s # t => target[s] # target[t]
    BY <1>4, <1>5, <1>6
  <1>11. \A s \in stored : store'[target[s]] = v[s]
    BY <1>3, <1>5, <1>8, <1>10
  <1>12. \A s \in Slot \ stored :
           /\ s \in writes => store'[target[s]] = store[target[s]]
           /\ oldId[s] # Nothing => store'[oldId[s]] = store[oldId[s]]
    BY <1>3, <1>5, <1>6, <1>8, <1>9, <1>10
  <1>13. IdsFollow(which, v, oldId, old)
    <2>1. id' \in [Slot -> Id \cup {Nothing}]
      <3>1. \A s \in Slot : id'[s] \in Id \cup {Nothing}
        BY <1>2, <1>5, <1>6, <1>8
      <3>2. id' = [s \in Slot |-> id'[s]]
        BY <1>1
      <3> QED BY <3>1, <3>2
    <2>2. \A s \in Slot : id'[s] = oldId[s] \/ id'[s] = Nothing \/ (s \in writes /\ id'[s] = target[s])
      BY <1>2
    <2>3. \A s, t \in Slot : s # t /\ id'[s] # Nothing => id'[s] # id'[t]
      BY <2>2, <1>6, <1>8, <1>9, <1>10
    <2>4. ASSUME NEW s \in Slot
          PROVE  /\ oldId[s] # Nothing => id'[s] \in {oldId[s], Nothing}
                 /\ oldId[s] = Nothing /\ id'[s] # Nothing => id'[s] \in Id \ InUse
      BY <2>2, <1>4, <1>5, <1>6
    <2>5. ASSUME NEW s \in Slot, oldId[s] # Nothing, id'[s] = Nothing
          PROVE  s \in which /\ v[s] = Nothing /\ old[s] # Nothing
      BY <2>5, <1>2, <1>5, <1>7, <1>8, <1>6
    <2> QED BY <2>1, <2>3, <2>4, <2>5 DEF IdsFollow
  <1>14. CacheFollows(which, v, oldId, old)
    <2>1. persisted' \in [Slot -> AnyValue]
      <3>1. \A s \in Slot : persisted'[s] \in AnyValue
        BY <1>2
      <3> QED BY <3>1, <1>1
    <2>2. ASSUME NEW s \in stored
          PROVE  /\ s \in which /\ persisted'[s] = v[s]
                 /\ v[s] # Nothing => id'[s] # Nothing /\ store'[id'[s]] = v[s]
      BY <1>2, <1>5, <1>6, <1>7, <1>8, <1>11
    <2>3. ASSUME NEW s \in Slot \ stored
          PROVE  /\ persisted'[s] = old[s]
                 /\ oldId[s] # Nothing =>
                       id'[s] = oldId[s] /\ store'[oldId[s]] = store[oldId[s]]
      BY <1>2, <1>5, <1>12
    <2> QED BY <2>1, <2>2, <2>3 DEF CacheFollows
  <1>15. StoreFollows(which, v, oldId, old)
    <2>1. ASSUME NEW i \in InUse \cap Id, store'[i] # store[i]
          PROVE  \E s \in which : i = oldId[s] /\ v[s] # old[s] /\ store'[i] = v[s]
      <3>1. PICK s \in stored : target[s] = i /\ store'[i] = v[s]
        BY <1>3, <2>1
      <3>2. target[s] = oldId[s]
        BY <3>1, <1>4, <1>5
      <3> QED BY <3>1, <3>2, <1>5, <1>7
    <2>2. ASSUME NEW s \in Slot, id'[s] # Nothing
          PROVE  store'[id'[s]] \in {v[s], store[id'[s]]}
      <3>1. id'[s] = oldId[s] \/ (s \in writes /\ id'[s] = target[s])
        BY <1>2, <2>2
      <3>2. CASE s \in stored
        BY <3>1, <3>2, <1>2, <1>5, <1>11, <2>2
      <3>3. CASE s \notin stored
        BY <3>1, <3>3, <1>12, <2>2
      <3> QED BY <3>2, <3>3
    <2> QED BY <2>1, <2>2, <1>3 DEF StoreFollows
  <1> QED BY <1>13, <1>14, <1>15

-----------------------------------------------------------------------------
(* Persist for the collection c that is loaded afterwards: ids stay        *)
(* distinct and records of their kind, and what belongs to the other       *)
(* collections is not touched.                                             *)

(* The ids the JSON of the other collections holds afterwards.             *)
OthersApart(c, oldId) ==
    /\ \A d \in Collection \ {c}, s \in Slot : file'[d].data.id[s] # Nothing =>
          /\ file'[d].data.id[s] \in InUse \cap Id
          /\ \A t \in Slot : file'[d].data.id[s] # oldId[t]
          /\ store[file'[d].data.id[s]] \in Kind(s)
    /\ \A d, e \in Collection \ {c}, s, t \in Slot :
          <<d, s>> # <<e, t>> /\ file'[d].data.id[s] # Nothing
            => file'[d].data.id[s] # file'[e].data.id[t]

(* Those of c itself: the new ones, or still the old ones.                 *)
OwnApart(c, oldId) ==
    \/ \A s \in Slot : file'[c].data.id[s] = id'[s]
    \/ \A s \in Slot : file'[c].data.id[s] # Nothing =>
          /\ file'[c].data.id[s] \in InUse \cap Id
          /\ \A t \in Slot \ {s} : file'[c].data.id[s] # oldId[t]
          /\ \A t \in Slot \ {s} : file'[c].data.id[s] # file'[c].data.id[t]
          /\ \A d \in Collection \ {c}, t \in Slot :
                file'[c].data.id[s] # file'[d].data.id[t]
          /\ store[file'[c].data.id[s]] \in Kind(s)

LEMMA OthersUntouched ==
    ASSUME NEW c \in Collection, NEW which \in SUBSET Slot, NEW v, NEW oldId, NEW old,
           StoreFollows(which, v, oldId, old), OthersApart(c, oldId)
    PROVE  \A d \in Collection \ {c}, s \in Slot : file'[d].data.id[s] # Nothing =>
              store'[file'[d].data.id[s]] = store[file'[d].data.id[s]]
  BY DEF StoreFollows, OthersApart

LEMMA DistinctAfter ==
    ASSUME NEW c \in Collection, loaded' = c,
           NEW which \in SUBSET Slot, NEW v, NEW oldId, GoodIds(oldId), NEW old,
           IdsFollow(which, v, oldId, old), StoreFollows(which, v, oldId, old),
           OthersApart(c, oldId), OwnApart(c, oldId),
           \A s \in Slot : v[s] \in Kind(s),
           \A s \in Slot : oldId[s] # Nothing => store[oldId[s]] \in Kind(s)
    PROVE  FilesDistinct' /\ MemoryDistinct' /\ KindsMatch'
  <1>1. /\ \A s, t \in Slot : s # t /\ id'[s] # Nothing => id'[s] # id'[t]
        /\ \A s \in Slot : id'[s] # Nothing => id'[s] = oldId[s] \/ id'[s] \in Id \ InUse
    BY DEF IdsFollow
  <1>2. /\ \A d \in Collection \ {c}, s \in Slot : file'[d].data.id[s] # Nothing =>
              /\ file'[d].data.id[s] \in InUse \cap Id
              /\ \A t \in Slot : file'[d].data.id[s] # oldId[t]
              /\ store[file'[d].data.id[s]] \in Kind(s)
        /\ \A d, e \in Collection \ {c}, s, t \in Slot :
              <<d, s>> # <<e, t>> /\ file'[d].data.id[s] # Nothing
                => file'[d].data.id[s] # file'[e].data.id[t]
    BY DEF OthersApart
  <1>3. \A d \in Collection \ {c}, s, t \in Slot :
           file'[d].data.id[s] # Nothing \/ id'[t] # Nothing => file'[d].data.id[s] # id'[t]
    BY <1>1, <1>2
  <1>4. \A s, t \in Slot : s # t /\ id'[t] # Nothing => file'[c].data.id[s] # id'[t]
    BY <1>1 DEF OwnApart
  <1>5. MemoryDistinct'
    BY <1>1, <1>3, <1>4 DEF MemoryDistinct, FileId
  <1>6. \A s, t \in Slot : s # t /\ file'[c].data.id[s] # Nothing =>
           file'[c].data.id[s] # file'[c].data.id[t]
    BY <1>1 DEF OwnApart
  <1>7. \A d \in Collection \ {c}, s, t \in Slot :
           file'[c].data.id[s] # Nothing \/ file'[d].data.id[t] # Nothing
             => file'[c].data.id[s] # file'[d].data.id[t]
    BY <1>3 DEF OwnApart
  <1>8. FilesDistinct'
    BY <1>2, <1>6, <1>7 DEF FilesDistinct, FileId
  <1>9. \A s \in Slot : id'[s] # Nothing => store'[id'[s]] \in Kind(s)
    <2> SUFFICES ASSUME NEW s \in Slot, id'[s] # Nothing
                 PROVE  store'[id'[s]] \in Kind(s)
      OBVIOUS
    <2>1. store'[id'[s]] \in {v[s], store[id'[s]]}
      BY DEF StoreFollows
    <2>2. CASE id'[s] = oldId[s]
      BY <2>1, <2>2
    <2>3. CASE id'[s] \in Id \ InUse
      <3>1. store[id'[s]] = Nothing
        BY <2>3 DEF InUse
      <3> QED BY <2>1, <3>1 DEF Kind
    <2> QED BY <1>1, <2>2, <2>3
  <1>10. \A d \in Collection \ {c}, s \in Slot : file'[d].data.id[s] # Nothing =>
           store'[file'[d].data.id[s]] \in Kind(s)
    BY <1>2, OthersUntouched
  <1>11. \A s \in Slot : file'[c].data.id[s] # Nothing =>
           store'[file'[c].data.id[s]] \in Kind(s)
    <2>1. CASE \A s \in Slot : file'[c].data.id[s] = id'[s]
      BY <2>1, <1>9
    <2>2. CASE ~ \A s \in Slot : file'[c].data.id[s] = id'[s]
      <3> SUFFICES ASSUME NEW s \in Slot, file'[c].data.id[s] # Nothing
                   PROVE  store'[file'[c].data.id[s]] \in Kind(s)
        OBVIOUS
      <3>1. /\ file'[c].data.id[s] \in InUse \cap Id
            /\ \A t \in Slot \ {s} : file'[c].data.id[s] # oldId[t]
            /\ store[file'[c].data.id[s]] \in Kind(s)
        BY <2>2 DEF OwnApart
      <3>2. \/ store'[file'[c].data.id[s]] = store[file'[c].data.id[s]]
            \/ \E t \in which : file'[c].data.id[s] = oldId[t] /\ store'[file'[c].data.id[s]] = v[t]
        BY <3>1 DEF StoreFollows
      <3> QED BY <3>1, <3>2
    <2> QED BY <2>1, <2>2
  <1>12. KindsMatch'
    <2>1. /\ (\A s \in Slot : Kind(s)' = Kind(s))
      BY DEF Kind, Value
    <2> QED BY <1>9, <1>10, <1>11, <2>1 DEF KindsMatch, FileId, Kind, Value
  <1> QED BY <1>5, <1>8, <1>12

-----------------------------------------------------------------------------
(* What the invariant says of ids.                                         *)

LEMMA IdFacts ==
    ASSUME Inv
    PROVE  /\ store \in [Id -> AnyValue] /\ persisted \in [Slot -> AnyValue]
           /\ id \in [Slot -> Id \cup {Nothing}]
           /\ \A c \in Collection : file[c].data.id \in [Slot -> Id \cup {Nothing}]
           /\ \A s \in Slot : id[s] # Nothing => id[s] \in InUse \cap Id
           /\ \A c \in Collection, s \in Slot :
                 FileId(c, s) # Nothing => FileId(c, s) \in InUse \cap Id
  <1>1. /\ store \in [Id -> AnyValue] /\ persisted \in [Slot -> AnyValue]
        /\ id \in [Slot -> Id \cup {Nothing}]
        /\ file \in [Collection -> [data : Data, exists : BOOLEAN]]
    BY DEF Inv, TypeOK
  <1>2. \A c \in Collection : file[c].data.id \in [Slot -> Id \cup {Nothing}]
    <2> SUFFICES ASSUME NEW c \in Collection
                 PROVE  file[c].data.id \in [Slot -> Id \cup {Nothing}]
      OBVIOUS
    <2>1. file[c].data \in Data
      BY <1>1
    <2> QED BY <2>1 DEF Data
  <1>3. \A s \in Slot : id[s] # Nothing => id[s] \in InUse \cap Id
    BY <1>1 DEF InUse
  <1>4. \A c \in Collection, s \in Slot : FileId(c, s) \in InUse
    BY DEF InUse, FileId
  <1>5. \A c \in Collection, s \in Slot : FileId(c, s) \in Id \cup {Nothing}
    BY <1>2 DEF FileId
  <1> QED BY <1>1, <1>2, <1>3, <1>4, <1>5

LEMMA MemoryIdsGood ==
    ASSUME Inv, loaded # Nothing
    PROVE  GoodIds(id)
  BY IdFacts DEF GoodIds, Inv, MemoryDistinct

LEMMA FileIdsGood ==
    ASSUME Inv, NEW c \in Collection
    PROVE  GoodIds(file[c].data.id)
  <1>1. \A s, t \in Slot : s # t /\ FileId(c, s) # Nothing => FileId(c, s) # FileId(c, t)
    BY DEF Inv, FilesDistinct
  <1> QED BY <1>1, IdFacts DEF GoodIds, FileId

(* A session that was written is stored under the id in memory.            *)
LEMMA CachedSession ==
    ASSUME Inv, loaded # Nothing, persisted["session"] # Nothing
    PROVE  id["session"] # Nothing /\ store[id["session"]] \in Session
  <1>1. "session" \in Slot
    BY DEF Slot
  <1>2. id["session"] # Nothing /\ store[id["session"]] = persisted["session"]
    BY <1>1 DEF Inv, CacheIsStored
  <1> QED BY <1>1, <1>2 DEF Inv, KindsMatch, Kind, Value

-----------------------------------------------------------------------------
(* Update and UpdateAndSave.                                               *)

LEMMA UpdateKeeps ==
    ASSUME Inv, loaded # Nothing, loaded' = loaded,
           NEW v \in Updates, value' = v,
           Persist(Slot, v, id, persisted),
           \/ file' = file /\ unsaved' = TRUE
           \/ /\ file' = [file EXCEPT ![loaded] = [data |-> [id |-> id', legacy |-> Nothing],
                                                  exists |-> TRUE]]
              /\ unsaved' = FALSE
    PROVE  Inv' /\ SessionsKept
  <1>1. loaded \in Collection
    BY DEF Inv, TypeOK
  <1>2. /\ v \in [Slot -> AnyValue] /\ "session" \in Slot
        /\ \A s \in Slot : v[s] \in Value(s) \cup (IF s = "session" THEN {Nothing} ELSE {})
        /\ v["session"] \in Session \cup {value["session"]}
    <2>1. \A s \in Slot : value[s] \in Value(s) \cup (IF s = "session" THEN {Nothing} ELSE {})
      BY DEF Inv, TypeOK
    <2>2. /\ v \in [Slot -> AnyValue] /\ v["session"] \in Session \cup {value["session"]}
          /\ \A o \in Output : v[o] \in Secret \cup {value[o]}
      BY DEF Updates
    <2>3. "session" \in Slot
      BY DEF Slot
    <2>4. v["session"] \in Value("session") \cup {Nothing}
      BY <2>1, <2>2, <2>3 DEF Value
    <2>5. \A o \in Output : o \in Slot /\ o # "session" /\ v[o] \in Value(o)
      <3>1. \A o \in Output : o \in Slot /\ o # "session"
        BY OutputAssumption DEF Slot
      <3>2. \A o \in Output : value[o] \in Value(o)
        BY <3>1, <2>1
      <3> QED BY <3>1, <3>2, <2>2 DEF Value
    <2> QED BY <2>2, <2>3, <2>4, <2>5 DEF Slot
  <1>3. \A s \in Slot : v[s] \in Kind(s)
    BY <1>2 DEF Kind
  <1>4. GoodIds(id) /\ store \in [Id -> AnyValue] /\ persisted \in [Slot -> AnyValue]
    BY MemoryIdsGood, IdFacts
  <1>5. /\ IdsFollow(Slot, v, id, persisted)
        /\ CacheFollows(Slot, v, id, persisted)
        /\ StoreFollows(Slot, v, id, persisted)
    BY <1>2, <1>4, PersistFacts
  <1>6. /\ \A d \in Collection \ {loaded} : file'[d] = file[d]
        /\ \/ file'[loaded] = file[loaded] /\ unsaved' = TRUE
           \/ file'[loaded] = [data |-> [id |-> id', legacy |-> Nothing], exists |-> TRUE]
        /\ file' \in [Collection -> [data : Data, exists : BOOLEAN]]
    <2>1. file \in [Collection -> [data : Data, exists : BOOLEAN]]
      BY DEF Inv, TypeOK
    <2>2. [data |-> [id |-> id', legacy |-> Nothing], exists |-> TRUE]
            \in [data : Data, exists : BOOLEAN]
      BY <1>5 DEF IdsFollow, Data
    <2> QED BY <1>1, <2>1, <2>2
  <1>7. OthersApart(loaded, id)
    BY <1>1, <1>6, IdFacts DEF OthersApart, Inv, FilesDistinct, MemoryDistinct, KindsMatch, FileId
  <1>8. OwnApart(loaded, id)
    <2>1. CASE file'[loaded] = file[loaded]
      BY <1>1, <1>6, <2>1, IdFacts
         DEF OwnApart, Inv, FilesDistinct, MemoryDistinct, KindsMatch, FileId
    <2>2. CASE file'[loaded].data.id = id'
      BY <2>2 DEF OwnApart
    <2> QED BY <1>6, <2>1, <2>2
  <1>9. FilesDistinct' /\ MemoryDistinct' /\ KindsMatch'
    <2>1. \A s \in Slot : id[s] # Nothing => store[id[s]] \in Kind(s)
      BY DEF Inv, KindsMatch
    <2> QED BY <1>1, <1>3, <1>4, <1>5, <1>7, <1>8, <2>1, DistinctAfter
  <1>10. TypeOK'
    <2>1. \A s \in Slot : value'[s] \in Value(s) \cup (IF s = "session" THEN {Nothing} ELSE {})
      BY <1>2
    <2> QED BY <1>1, <1>2, <1>5, <1>6, <2>1
         DEF TypeOK, IdsFollow, CacheFollows, StoreFollows, Value, Slot
  <1>11. CacheIsStored'
    <2> SUFFICES ASSUME NEW s \in Slot, persisted'[s] # Nothing
                 PROVE  id'[s] # Nothing /\ store'[id'[s]] = persisted'[s]
      BY DEF CacheIsStored
    <2>1. persisted[s] # Nothing => id[s] # Nothing /\ store[id[s]] = persisted[s]
      BY DEF Inv, CacheIsStored
    <2> QED BY <1>5, <2>1 DEF CacheFollows
  <1>12. FileIsMemory'
    BY <1>6 DEF FileIsMemory
  <1>13. v["session"] = Nothing => persisted["session"] = Nothing
    <2>1. Nothing \notin Session
      BY ValueAssumption
    <2> QED BY <2>1, <1>2 DEF Inv, SessionCached
  <1>14. SessionCached'
    BY <1>2, <1>5, <1>13 DEF SessionCached, CacheFollows
  <1>15. AbsentHasNoIds'
    BY <1>1, <1>6 DEF AbsentHasNoIds, FileId, Inv
  (* A record that held a session still holds one.                         *)
  <1>16. \A i \in InUse \cap Id :
           (\A s \in Slot \ {"session"} : i # id[s]) /\ store[i] \in Session => store'[i] \in Session
    <2> SUFFICES ASSUME NEW i \in InUse \cap Id, store[i] \in Session, store'[i] # store[i],
                        \A s \in Slot \ {"session"} : i # id[s]
                 PROVE  store'[i] \in Session
      OBVIOUS
    <2>1. i = id["session"] /\ v["session"] # persisted["session"] /\ store'[i] = v["session"]
      BY <1>5 DEF StoreFollows
    <2>2. v["session"] # Nothing
      BY <2>1, <1>13
    <2> QED BY <2>1, <2>2, <1>2, <1>3 DEF Kind, Value
  <1>17. id["session"] # Nothing /\ store[id["session"]] \in Session =>
           id'["session"] # Nothing /\ store'[id'["session"]] \in Session
    <2> SUFFICES ASSUME id["session"] # Nothing, store[id["session"]] \in Session
                 PROVE  id'["session"] # Nothing /\ store'[id'["session"]] \in Session
      OBVIOUS
    <2>1. id'["session"] = id["session"]
      BY <1>2, <1>5, <1>13 DEF IdsFollow
    <2>2. store'[id["session"]] \in Session
      BY <1>2, <1>4, <1>16, IdFacts DEF GoodIds
    <2> QED BY <2>1, <2>2
  <1>18. StoredKept
    <2> SUFFICES ASSUME NEW c \in Collection, StoredSession(c)
                 PROVE  StoredSession(c)'
      BY DEF StoredKept
    <2>1. /\ FileId(c, "session") # Nothing /\ store[FileId(c, "session")] \in Session
          /\ FileId(c, "session") \in InUse \cap Id
      BY <1>2, IdFacts DEF StoredSession, FileId
    <2>2. \A s \in Slot \ {"session"} : FileId(c, "session") # id[s]
      BY <1>2, <2>1 DEF Inv, MemoryDistinct
    <2>3. store'[FileId(c, "session")] \in Session
      BY <1>16, <2>1, <2>2
    <2>4. CASE file'[c] = file[c]
      BY <2>1, <2>3, <2>4 DEF StoredSession, FileId
    <2>5. CASE c = loaded /\ file'[c].data.id = id'
      <3>1. id["session"] # Nothing /\ store[id["session"]] \in Session
        BY <2>5 DEF Inv, MemoryKeepsSession
      <3> QED BY <3>1, <2>5, <1>17 DEF StoredSession
    <2> QED BY <1>6, <2>4, <2>5
  <1>19. MemoryKeepsSession'
    <2> SUFFICES ASSUME StoredSession(loaded)'
                 PROVE  id'["session"] # Nothing /\ store'[id'["session"]] \in Session
      BY DEF MemoryKeepsSession
    <2>1. CASE file'[loaded].data.id = id'
      BY <2>1 DEF StoredSession
    <2>2. CASE file'[loaded] = file[loaded]
      <3> DEFINE i == FileId(loaded, "session")
      <3>1. i # Nothing /\ store'[i] \in Session /\ i \in InUse \cap Id
        BY <1>1, <1>2, <2>2, IdFacts DEF StoredSession, FileId
      <3>2. CASE store[i] \in Session
        BY <3>1, <3>2, <1>17 DEF Inv, MemoryKeepsSession, StoredSession, FileId
      <3>3. CASE store'[i] # store[i]
        <4>1. PICK s \in Slot : i = id[s] /\ store'[i] = v[s]
          BY <3>1, <3>3, <1>5 DEF StoreFollows
        <4>2. s = "session"
          BY <4>1, <3>1, <1>1, <1>2 DEF Inv, MemoryDistinct
        <4>3. v["session"] # Nothing
          BY <4>1, <4>2, <3>1, ValueAssumption
        <4>4. id'["session"] = i
          BY <4>1, <4>2, <4>3, <3>1, <1>2, <1>5 DEF IdsFollow
        <4> QED BY <4>4, <3>1
      <3> QED BY <3>1, <3>2, <3>3
    <2> QED BY <1>6, <2>1, <2>2
  <1>20. LegacyKept
    <2> SUFFICES ASSUME NEW c \in Collection, LegacySession(c),
                        ~(c = loaded /\ persisted["session"] = Nothing)
                 PROVE  StoredSession(c)' \/ LegacySession(c)'
      BY DEF LegacyKept
    <2>1. CASE file'[c] = file[c]
      BY <2>1 DEF LegacySession
    <2>2. CASE c = loaded /\ file'[c].data.id = id'
      <3>1. id["session"] # Nothing /\ store[id["session"]] \in Session
        BY <2>2, CachedSession
      <3> QED BY <3>1, <2>2, <1>17 DEF StoredSession
    <2> QED BY <1>6, <2>1, <2>2
  <1> QED BY <1>9, <1>10, <1>11, <1>12, <1>14, <1>15, <1>18, <1>19, <1>20 DEF Inv, SessionsKept

-----------------------------------------------------------------------------
(* Load, from SwitchCollection and Restart: the file of the collection     *)
(* that is left may have been saved before.                                *)

FilesBefore(c) ==
    /\ file' \in [Collection -> [data : Data, exists : BOOLEAN]]
    /\ file'[c] = file[c]
    /\ \A d \in Collection \ {c} :
          file'[d] = file[d] \/ (loaded # Nothing /\ d = loaded /\ file'[d] = Saved)

LEMMA OthersApartFrom ==
    ASSUME Inv, NEW c \in Collection, FilesBefore(c)
    PROVE  OthersApart(c, file[c].data.id) /\ OwnApart(c, file[c].data.id)
  <1>1. \A d \in Collection \ {c} :
          \/ file'[d].data.id = file[d].data.id
          \/ loaded # Nothing /\ d = loaded /\ file'[d].data.id = id
    BY DEF FilesBefore, Saved
  <1>2. OthersApart(c, file[c].data.id)
    <2>1. ASSUME NEW d \in Collection \ {c}, NEW s \in Slot, file'[d].data.id[s] # Nothing
          PROVE  /\ file'[d].data.id[s] \in InUse \cap Id
                 /\ \A t \in Slot : file'[d].data.id[s] # file[c].data.id[t]
                 /\ store[file'[d].data.id[s]] \in Kind(s)
      BY <1>1, <2>1, IdFacts DEF Inv, FilesDistinct, MemoryDistinct, KindsMatch, FileId
    <2>2. ASSUME NEW d \in Collection \ {c}, NEW e \in Collection \ {c},
                 NEW s \in Slot, NEW t \in Slot, <<d, s>> # <<e, t>>,
                 file'[d].data.id[s] # Nothing
          PROVE  file'[d].data.id[s] # file'[e].data.id[t]
      <3>1. /\ \A b \in {d, e} : \/ file'[b].data.id = file[b].data.id
                                 \/ loaded # Nothing /\ b = loaded /\ file'[b].data.id = id
        BY <1>1
      <3>2. d # e \/ s # t
        BY <2>2
      <3>3. CASE d = e
        <4>1. s # t
          BY <3>2, <3>3
        <4> QED BY <4>1, <3>1, <3>3, <2>2 DEF Inv, FilesDistinct, MemoryDistinct, FileId
      <3>4. CASE d # e
        <4>1. FileId(d, s) # Nothing => FileId(d, s) # FileId(e, t)
          BY <3>4 DEF Inv, FilesDistinct
        <4>2. loaded # Nothing /\ d = loaded /\ id[s] # Nothing => FileId(e, t) # id[s]
          BY <3>4 DEF Inv, MemoryDistinct
        <4>3. loaded # Nothing /\ e = loaded /\ id[t] # Nothing => FileId(d, s) # id[t]
          BY <3>4 DEF Inv, MemoryDistinct
        <4> QED BY <4>1, <4>2, <4>3, <3>1, <3>4, <2>2 DEF FileId
      <3> QED BY <3>3, <3>4
    <2> QED BY <2>1, <2>2 DEF OthersApart
  <1>3. \A s \in Slot : file'[c].data.id[s] # Nothing =>
          /\ file'[c].data.id[s] \in InUse \cap Id
          /\ \A t \in Slot \ {s} : file'[c].data.id[s] # file[c].data.id[t]
          /\ \A t \in Slot \ {s} : file'[c].data.id[s] # file'[c].data.id[t]
          /\ store[file'[c].data.id[s]] \in Kind(s)
    BY IdFacts DEF FilesBefore, Inv, FilesDistinct, KindsMatch, FileId
  <1>4. \A s \in Slot : file'[c].data.id[s] # Nothing =>
          \A d \in Collection \ {c}, t \in Slot : file'[c].data.id[s] # file'[d].data.id[t]
    BY <1>1 DEF FilesBefore, Inv, FilesDistinct, MemoryDistinct, FileId
  <1> QED BY <1>2, <1>3, <1>4 DEF OwnApart

(* A session in the JSON stays there, or is stored: only the collection    *)
(* that is left is saved.                                                  *)
LEMMA OtherLegaciesKept ==
    ASSUME Inv, NEW c \in Collection, FilesBefore(c), NEW d \in Collection,
           d # c => \A s \in Slot : file'[d].data.id[s] # Nothing =>
                       store'[file'[d].data.id[s]] = store[file'[d].data.id[s]],
           LegacySession(d), ~(d = loaded /\ persisted["session"] = Nothing)
    PROVE  StoredSession(d)' \/ LegacySession(d)'
  <1>1. "session" \in Slot
    BY DEF Slot
  <1>2. CASE file'[d] = file[d]
    BY <1>2 DEF LegacySession
  <1>3. CASE d # c /\ loaded # Nothing /\ d = loaded /\ file'[d].data.id = id
    BY <1>1, <1>3, CachedSession DEF StoredSession
  <1> QED BY <1>2, <1>3 DEF FilesBefore, Saved

(* A collection that is not the loaded one keeps a session it has.         *)
LEMMA OtherSessionsKept ==
    ASSUME Inv, NEW c \in Collection, FilesBefore(c), NEW d \in Collection \ {c},
           StoredSession(d),
           \A s \in Slot : file'[d].data.id[s] # Nothing =>
              store'[file'[d].data.id[s]] = store[file'[d].data.id[s]]
    PROVE  StoredSession(d)'
  <1>1. "session" \in Slot
    BY DEF Slot
  <1>2. CASE file'[d] = file[d]
    BY <1>1, <1>2 DEF StoredSession
  <1>3. CASE loaded # Nothing /\ d = loaded /\ file'[d].data.id = id
    BY <1>1, <1>3 DEF StoredSession, Inv, MemoryKeepsSession
  <1> QED BY <1>2, <1>3 DEF FilesBefore, Saved

LEMMA LoadKeeps ==
    ASSUME Inv, NEW c \in Collection, FilesBefore(c), NEW before,
           before \in [Slot -> AnyValue],
           \A s \in Slot : before[s] \in Value(s) \cup (IF s = "session" THEN {Nothing} ELSE {}),
           Load(c, file[c], before)
    PROVE  Inv' /\ SessionsKept
  <1>1. loaded' = c /\ unsaved' = TRUE /\ c # Nothing
    BY NothingAssumption DEF Load
  <1>2. PICK readable \in SUBSET Slot :
          IF file[c].exists THEN LoadData(file[c].data, readable) ELSE LoadNothing(before)
    BY DEF Load
  <1>3. FileIsMemory'
    BY <1>1 DEF FileIsMemory
  <1>4. AbsentHasNoIds'
    BY DEF AbsentHasNoIds, FileId, FilesBefore, Saved, Inv
  <1>5. "session" \in Slot /\ Nothing \notin Session
    BY ValueAssumption DEF Slot
  <1>6. CASE ~file[c].exists
    <2>1. LoadNothing(before)
      BY <1>2, <1>6
    <2>2. /\ value' = [before EXCEPT !["session"] = Nothing] /\ store' = store
          /\ id' = [s \in Slot |-> Nothing] /\ persisted' = [s \in Slot |-> Nothing]
      BY <2>1 DEF LoadNothing
    <2>3. TypeOK'
      <3>1. value' \in [Slot -> AnyValue]
        BY <2>2 DEF AnyValue
      <3>2. \A s \in Slot : value'[s] \in Value(s) \cup (IF s = "session" THEN {Nothing} ELSE {})
        BY <2>2
      <3>3. store' \in [Id -> AnyValue]
        BY <2>2, IdFacts
      <3>4. persisted' \in [Slot -> AnyValue] /\ id' \in [Slot -> Id \cup {Nothing}]
        BY <2>2 DEF AnyValue
      <3> QED BY <1>1, <3>1, <3>2, <3>3, <3>4 DEF TypeOK, FilesBefore, Value
    <2>4. \A d \in Collection, s \in Slot : file'[d].data.id[s] # Nothing =>
             d # c /\ store[file'[d].data.id[s]] \in Kind(s)
      <3>1. \A s \in Slot : file'[c].data.id[s] = Nothing
        BY <1>6 DEF Inv, AbsentHasNoIds, FilesBefore, FileId
      <3> QED BY <3>1, OthersApartFrom DEF OthersApart
    <2>5. FilesDistinct'
      <3>1. OthersApart(c, file[c].data.id)
        BY OthersApartFrom
      <3>2. \A s \in Slot : file'[c].data.id[s] = Nothing
        BY <2>4
      <3> QED BY <3>1, <3>2 DEF FilesDistinct, FileId, OthersApart
    <2>6. MemoryDistinct'
      BY <2>2 DEF MemoryDistinct
    <2>7. KindsMatch'
      BY <2>2, <2>4 DEF KindsMatch, FileId, Kind, Value
    <2>8. CacheIsStored' /\ SessionCached'
      BY <2>2, <1>5 DEF CacheIsStored, SessionCached
    <2>9. MemoryKeepsSession'
      BY <1>1, <1>5, <2>4 DEF MemoryKeepsSession, StoredSession
    <2>10. StoredKept
      <3> SUFFICES ASSUME NEW d \in Collection, StoredSession(d)
                   PROVE  StoredSession(d)'
        BY DEF StoredKept
      <3>1. d # c
        BY <1>5, <1>6 DEF StoredSession, Inv, AbsentHasNoIds, FileId
      <3> QED BY <3>1, <2>2, OtherSessionsKept
    <2>11. LegacyKept
      BY <2>2, OtherLegaciesKept DEF LegacyKept
    <2> QED BY <1>3, <1>4, <2>3, <2>5, <2>6, <2>7, <2>8, <2>9, <2>10, <2>11 DEF Inv, SessionsKept
  <1>7. CASE file[c].exists
    <2> DEFINE data    == file[c].data
               read    == [s \in Slot |-> Read(data, s, readable)]
               session == IF read["session"] \in Session THEN read["session"] ELSE Nothing
               migrate == session = Nothing /\ data.legacy # Nothing
               cache   == [read EXCEPT !["session"] = session]
               v       == [s \in Slot |->
                             CASE s = "session" /\ migrate           -> data.legacy
                               [] s = "session" /\ ~migrate          -> session
                               [] s # "session" /\ read[s] # Nothing -> read[s]
                               [] s # "session" /\ read[s] = Nothing -> Blank]
               which   == IF migrate THEN Slot ELSE Output
    <2>1. value' = v /\ Persist(which, v, data.id, cache)
      BY <1>2, <1>7, Zenon DEF LoadData
    <2>2. GoodIds(data.id) /\ store \in [Id -> AnyValue]
      BY FileIdsGood, IdFacts
    <2>3. data.legacy \in Session \cup {Nothing}
      <3>1. data \in Data
        BY DEF Inv, TypeOK
      <3> QED BY <3>1 DEF Data
    <2>4. \A s \in Slot : data.id[s] # Nothing => store[data.id[s]] \in Kind(s)
      BY DEF Inv, KindsMatch, FileId
    <2>5. \A s \in Slot : /\ read[s] = Nothing \/ (data.id[s] # Nothing /\ read[s] = store[data.id[s]])
                          /\ read[s] \in Kind(s)
      BY <2>4 DEF Read, Kind
    <2>6. /\ session \in Session \cup {Nothing}
          /\ read["session"] = session
      BY <2>5, <1>5 DEF Kind, Value
    <2>7. \A s \in Slot : cache[s] = read[s]
      BY <2>6, <1>5
    <2>8. \A s \in Slot : s # "session" => s \in Output
      BY DEF Slot
    <2>9. \A s \in Slot : v[s] = CASE s = "session" /\ migrate           -> data.legacy
                                    [] s = "session" /\ ~migrate          -> session
                                    [] s # "session" /\ read[s] # Nothing -> read[s]
                                    [] s # "session" /\ read[s] = Nothing -> Blank
      OBVIOUS
    <2>10. /\ v = [s \in Slot |-> v[s]]
           /\ cache = [s \in Slot |-> cache[s]]
      OBVIOUS
    <2>11. which \in SUBSET Slot /\ ("session" \in which => migrate)
      BY OutputAssumption DEF Slot
    <2>12. migrate => data.legacy \in Session
      BY <2>3
    <2>13. ~migrate /\ session = Nothing => data.legacy = Nothing
      OBVIOUS
    <2> HIDE DEF data, read, session, cache, v, which, migrate
    <2>14. \A s \in Slot : v[s] \in Value(s) \cup (IF s = "session" THEN {Nothing} ELSE {})
      <3> SUFFICES ASSUME NEW s \in Slot
                   PROVE  v[s] \in Value(s) \cup (IF s = "session" THEN {Nothing} ELSE {})
        OBVIOUS
      <3>1. CASE s = "session"
        BY <3>1, <2>6, <2>9, <2>12 DEF Value
      <3>2. CASE s # "session"
        BY <3>2, <2>5, <2>9 DEF Value, Kind
      <3> QED BY <3>1, <3>2
    <2>15. \A s \in Slot : Kind(s) \subseteq AnyValue
      BY DEF Kind, Value, AnyValue
    <2>16. \A s \in Slot : v[s] \in Kind(s) /\ cache[s] \in Kind(s)
      BY <2>5, <2>7, <2>14 DEF Kind
    <2>17. v \in [Slot -> AnyValue] /\ cache \in [Slot -> AnyValue]
      BY <2>10, <2>15, <2>16
    <2>18. /\ IdsFollow(which, v, data.id, cache)
           /\ CacheFollows(which, v, data.id, cache)
           /\ StoreFollows(which, v, data.id, cache)
      BY <2>1, <2>2, <2>11, <2>17, PersistFacts
    <2>19. OthersApart(c, data.id) /\ OwnApart(c, data.id)
      BY OthersApartFrom DEF data
    <2>20. FilesDistinct' /\ MemoryDistinct' /\ KindsMatch'
      BY <1>1, <2>2, <2>4, <2>11, <2>16, <2>18, <2>19, DistinctAfter
    <2>21. TypeOK'
      <3>1. \A s \in Slot : value'[s] \in Value(s) \cup (IF s = "session" THEN {Nothing} ELSE {})
        BY <2>1, <2>14
      <3> QED BY <1>1, <2>1, <2>17, <2>18, <3>1
           DEF TypeOK, FilesBefore, IdsFollow, CacheFollows, StoreFollows, Value
    <2>22. CacheIsStored'
      <3> SUFFICES ASSUME NEW s \in Slot, persisted'[s] # Nothing
                   PROVE  id'[s] # Nothing /\ store'[id'[s]] = persisted'[s]
        BY DEF CacheIsStored
      <3>1. cache[s] # Nothing => data.id[s] # Nothing /\ store[data.id[s]] = cache[s]
        BY <2>5, <2>7
      <3> QED BY <2>18, <3>1 DEF CacheFollows
    <2>23. SessionCached'
      <3>1. v["session"] = Nothing => ~migrate /\ cache["session"] = Nothing
        BY <1>5, <2>6, <2>7, <2>9, <2>12
      <3> QED BY <1>5, <2>1, <2>11, <2>18, <3>1 DEF SessionCached, CacheFollows
    <2>24. data.id["session"] # Nothing => id'["session"] = data.id["session"]
      <3>1. "session" \in which => v["session"] # Nothing
        BY <1>5, <2>9, <2>11, <2>12
      <3> QED BY <3>1, <1>5, <2>18 DEF IdsFollow
    <2>25. MemoryKeepsSession'
      BY <1>1, <2>24 DEF MemoryKeepsSession, StoredSession, FilesBefore, data
    <2>26. StoredKept
      <3> SUFFICES ASSUME NEW d \in Collection, StoredSession(d)
                   PROVE  StoredSession(d)'
        BY DEF StoredKept
      <3>1. CASE d # c
        <4>1. d \in Collection \ {c}
          BY <3>1
        <4>2. \A b \in Collection \ {c}, s \in Slot : file'[b].data.id[s] # Nothing =>
                 store'[file'[b].data.id[s]] = store[file'[b].data.id[s]]
          BY <2>11, <2>18, <2>19, OthersUntouched
        <4> QED BY <4>1, <4>2, OtherSessionsKept
      <3>2. CASE d = c
        <4> DEFINE i == data.id["session"]
        <4>1. i # Nothing /\ store[i] \in Session /\ i \in InUse \cap Id
          BY <3>2, <1>5, IdFacts DEF StoredSession, data, FileId
        <4>2. CASE store'[i] = store[i]
          BY <3>2, <4>1, <4>2 DEF StoredSession, FilesBefore, data
        <4>3. CASE store'[i] # store[i]
          <5>1. PICK s \in which : i = data.id[s] /\ store'[i] = v[s]
            BY <4>1, <4>3, <2>18 DEF StoreFollows
          <5>2. s = "session"
            BY <5>1, <4>1, <1>5, <2>2, <2>11 DEF GoodIds
          <5>3. store'[i] \in Session
            BY <5>1, <5>2, <1>5, <2>9, <2>11, <2>12
          <5> QED BY <3>2, <4>1, <5>3 DEF StoredSession, FilesBefore, data
        <4> QED BY <4>2, <4>3
      <3> QED BY <3>1, <3>2
    <2>27. \A b \in Collection \ {c}, s \in Slot : file'[b].data.id[s] # Nothing =>
             store'[file'[b].data.id[s]] = store[file'[b].data.id[s]]
      BY <2>11, <2>18, <2>19, OthersUntouched
    <2>28. LegacyKept
      BY <2>27, OtherLegaciesKept DEF LegacyKept
    <2> QED BY <1>3, <1>4, <2>20, <2>21, <2>22, <2>23, <2>25, <2>26, <2>28 DEF Inv, SessionsKept
  <1> QED BY <1>6, <1>7

-----------------------------------------------------------------------------
(* The specification.                                                      *)

LEMMA InitInv == Init => Inv
  <1> SUFFICES ASSUME Init PROVE Inv
    OBVIOUS
  <1>1. \A c \in Collection : /\ file[c] \in [data : Data, exists : BOOLEAN]
                              /\ \A s \in Slot : FileId(c, s) = Nothing
    <2>1. NoData \in Data
      BY DEF NoData, Data
    <2>2. \A k \in Session : [NoData EXCEPT !.legacy = k] \in Data
      BY DEF NoData, Data
    <2>3. \A c \in Collection :
            \/ file[c] = [data |-> NoData, exists |-> FALSE]
            \/ \E k \in Session : file[c] = [data |-> [NoData EXCEPT !.legacy = k], exists |-> TRUE]
      BY DEF Init
    <2>4. \A k \in Session, s \in Slot : /\ NoData.id[s] = Nothing
                                        /\ [NoData EXCEPT !.legacy = k].id[s] = Nothing
      BY DEF NoData
    <2> SUFFICES ASSUME NEW c \in Collection
                 PROVE  /\ file[c] \in [data : Data, exists : BOOLEAN]
                        /\ \A s \in Slot : file[c].data.id[s] = Nothing
      BY DEF FileId
    <2>5. CASE file[c] = [data |-> NoData, exists |-> FALSE]
      BY <2>1, <2>4, <2>5 DEF NoData
    <2>6. ASSUME NEW k \in Session,
                 file[c] = [data |-> [NoData EXCEPT !.legacy = k], exists |-> TRUE]
          PROVE  /\ file[c] \in [data : Data, exists : BOOLEAN]
                 /\ \A s \in Slot : file[c].data.id[s] = Nothing
      <3> DEFINE old == [NoData EXCEPT !.legacy = k]
      <3>1. old \in Data /\ \A s \in Slot : old.id[s] = Nothing
        BY <2>2, <2>4
      <3>2. file[c] = [data |-> old, exists |-> TRUE]
        BY <2>6
      <3> HIDE DEF old
      <3> QED BY <3>1, <3>2
    <2> QED BY <2>3, <2>5, <2>6
  <1>2. TypeOK
    <2>1. file \in [Collection -> [data : Data, exists : BOOLEAN]]
      BY <1>1 DEF Init
    <2>2. /\ value \in [Slot -> AnyValue]
          /\ \A s \in Slot : value[s] \in Value(s) \cup (IF s = "session" THEN {Nothing} ELSE {})
      BY OutputAssumption DEF Init, NewValue, AnyValue, Value, Slot
    <2>3. /\ persisted \in [Slot -> AnyValue] /\ store \in [Id -> AnyValue]
          /\ id \in [Slot -> Id \cup {Nothing}]
          /\ loaded \in Collection \cup {Nothing} /\ unsaved \in BOOLEAN
      BY DEF Init, AnyValue
    <2> QED BY <2>1, <2>2, <2>3 DEF TypeOK
  <1>3. "session" \in Slot
    BY DEF Slot
  <1> QED BY <1>1, <1>2, <1>3 DEF Inv, Init, FilesDistinct, MemoryDistinct, CacheIsStored, FileIsMemory,
       KindsMatch, SessionCached, MemoryKeepsSession, AbsentHasNoIds

LEMMA SavedData ==
    ASSUME Inv
    PROVE  Saved \in [data : Data, exists : BOOLEAN]
  BY IdFacts DEF Saved, Data

LEMMA SaveKeeps ==
    ASSUME Inv, Save
    PROVE  Inv' /\ SessionsKept
  <1>1. /\ loaded # Nothing /\ loaded \in Collection
        /\ file' = [file EXCEPT ![loaded] = Saved] /\ unsaved' = FALSE
        /\ loaded' = loaded /\ value' = value /\ id' = id
        /\ persisted' = persisted /\ store' = store
    BY DEF Save, memory, Inv, TypeOK
  <1>2. /\ \A d \in Collection \ {loaded} : file'[d] = file[d]
        /\ file'[loaded] = Saved /\ Saved.data.id = id /\ Saved.exists = TRUE
        /\ file' \in [Collection -> [data : Data, exists : BOOLEAN]]
    <2>1. file \in [Collection -> [data : Data, exists : BOOLEAN]]
      BY DEF Inv, TypeOK
    <2> QED BY <1>1, <2>1, SavedData DEF Saved
  <1>3. TypeOK'
    BY <1>1, <1>2 DEF Inv, TypeOK, Value
  <1>4. FilesDistinct'
    <2> SUFFICES ASSUME NEW c \in Collection, NEW d \in Collection, NEW s \in Slot, NEW t \in Slot,
                        <<c, s>> # <<d, t>>, file'[c].data.id[s] # Nothing
                 PROVE  file'[c].data.id[s] # file'[d].data.id[t]
      BY DEF FilesDistinct, FileId
    <2>1. CASE c = loaded /\ d = loaded
      BY <1>1, <1>2, <2>1 DEF Inv, MemoryDistinct
    <2>2. CASE c = loaded /\ d # loaded
      BY <1>1, <1>2, <2>2 DEF Inv, MemoryDistinct, FileId
    <2>3. CASE c # loaded /\ d = loaded
      BY <1>1, <1>2, <2>3 DEF Inv, MemoryDistinct, FileId
    <2>4. CASE c # loaded /\ d # loaded
      BY <1>2, <2>4 DEF Inv, FilesDistinct, FileId
    <2> QED BY <2>1, <2>2, <2>3, <2>4
  <1>5. MemoryDistinct'
    <2>1. \A c \in Collection, s, t \in Slot :
             <<c, s>> # <<loaded, t>> /\ id[t] # Nothing => file'[c].data.id[s] # id[t]
      BY <1>1, <1>2 DEF Inv, MemoryDistinct, FileId
    <2> QED BY <1>1, <2>1 DEF Inv, MemoryDistinct, FileId
  <1>6. KindsMatch'
    BY <1>1, <1>2 DEF Inv, KindsMatch, FileId, Kind, Value
  <1>7. CacheIsStored' /\ FileIsMemory' /\ SessionCached'
    BY <1>1, <1>2 DEF Inv, CacheIsStored, FileIsMemory, SessionCached
  <1>8. MemoryKeepsSession'
    BY <1>1, <1>2 DEF MemoryKeepsSession, StoredSession
  <1>9. AbsentHasNoIds'
    BY <1>1, <1>2 DEF Inv, AbsentHasNoIds, FileId
  <1>10. StoredKept
    <2> SUFFICES ASSUME NEW c \in Collection, StoredSession(c)
                 PROVE  StoredSession(c)'
      BY DEF StoredKept
    <2>1. CASE c = loaded
      BY <1>1, <1>2, <2>1 DEF Inv, MemoryKeepsSession, StoredSession
    <2>2. CASE c # loaded
      BY <1>1, <1>2, <2>2 DEF StoredSession
    <2> QED BY <2>1, <2>2
  <1>11. LegacyKept
    <2> SUFFICES ASSUME NEW c \in Collection, LegacySession(c),
                        ~(c = loaded /\ persisted["session"] = Nothing)
                 PROVE  StoredSession(c)' \/ LegacySession(c)'
      BY DEF LegacyKept
    <2>1. CASE c = loaded
      BY <1>1, <1>2, <2>1, CachedSession DEF StoredSession
    <2>2. CASE c # loaded
      BY <1>1, <1>2, <2>2 DEF LegacySession
    <2> QED BY <2>1, <2>2
  <1> QED BY <1>3, <1>4, <1>5, <1>6, <1>7, <1>8, <1>9, <1>10, <1>11 DEF Inv, SessionsKept

LEMMA NextKeeps ==
    ASSUME Inv, [Next]_vars
    PROVE  Inv' /\ SessionsKept
  <1>1. ASSUME NEW c \in Collection, SwitchCollection(c)
        PROVE  Inv' /\ SessionsKept
    <2>1. /\ loaded # c /\ loaded # Nothing /\ loaded \in Collection
          /\ file' = [file EXCEPT ![loaded] = Saved] /\ Load(c, file[c], value)
      BY <1>1 DEF SwitchCollection, Inv, TypeOK
    <2>2. FilesBefore(c)
      <3>1. file \in [Collection -> [data : Data, exists : BOOLEAN]]
        BY DEF Inv, TypeOK
      <3> QED BY <2>1, <3>1, SavedData DEF FilesBefore
    <2>3. /\ value \in [Slot -> AnyValue]
          /\ \A s \in Slot : value[s] \in Value(s) \cup (IF s = "session" THEN {Nothing} ELSE {})
      BY DEF Inv, TypeOK
    <2> QED BY <2>1, <2>2, <2>3, LoadKeeps
  <1>2. CASE Restart
    <2>1. PICK c \in Collection : Load(c, file[c], NewValue) /\ file' = file
      BY <1>2 DEF Restart
    <2>2. FilesBefore(c)
      BY <2>1 DEF FilesBefore, Inv, TypeOK
    <2>3. /\ NewValue \in [Slot -> AnyValue]
          /\ \A s \in Slot : NewValue[s] \in Value(s) \cup (IF s = "session" THEN {Nothing} ELSE {})
      BY DEF NewValue, AnyValue, Value
    <2> QED BY <2>1, <2>2, <2>3, LoadKeeps
  <1>3. ASSUME NEW v \in Updates, Update(v)
        PROVE  Inv' /\ SessionsKept
    BY <1>3, UpdateKeeps DEF Update
  <1>4. ASSUME NEW v \in Updates, UpdateAndSave(v)
        PROVE  Inv' /\ SessionsKept
    BY <1>4, UpdateKeeps DEF UpdateAndSave
  <1>5. CASE Save
    BY <1>5, SaveKeeps
  <1>6. CASE UNCHANGED vars
    <2>1. /\ loaded' = loaded /\ value' = value /\ id' = id /\ persisted' = persisted
          /\ store' = store /\ file' = file /\ unsaved' = unsaved
      BY <1>6 DEF vars
    <2>2. Inv'
      BY <2>1 DEF Inv, TypeOK, FilesDistinct, MemoryDistinct, CacheIsStored, FileIsMemory,
           KindsMatch, SessionCached, MemoryKeepsSession, AbsentHasNoIds, StoredSession, FileId,
           Kind, Value
    <2>3. SessionsKept
      BY <2>1 DEF SessionsKept, StoredKept, LegacyKept, StoredSession, LegacySession
    <2> QED BY <2>2, <2>3
  <1> QED BY <1>1, <1>2, <1>3, <1>4, <1>5, <1>6 DEF Next

(* The inductive invariant: ids in memory and in the JSON are distinct,    *)
(* records are of their slot's kind, the cache is stored, and a session    *)
(* that a collection can load is in reach of what is saved next.           *)
THEOREM StoreInvCorrect == Spec => []Inv
  <1>1. Inv /\ [Next]_vars => Inv'
    BY NextKeeps
  <1> QED BY InitInv, <1>1, PTL DEF Spec

(* load, save and update keep every variable of settings_manager.cpp in    *)
(* its type, whatever the credential store refuses.                        *)
THEOREM StoreTypeCorrect == Spec => []TypeOK
  <1>1. Inv => TypeOK
    BY DEF Inv
  <1> QED BY StoreInvCorrect, <1>1, PTL

(* No credential ever serves two slots or two scene collections (load      *)
(* forgets ids before its early return, and new ids are free).             *)
THEOREM CredentialsAreNeverShared == Spec => []NoCredentialShared
  <1>1. Inv => NoCredentialShared
    <2> SUFFICES ASSUME Inv, NEW c \in Collection, NEW d \in Collection,
                        NEW s \in Slot, NEW t \in Slot, <<c, s>> # <<d, t>>,
                        NEW f \in Uses(c), NEW g \in Uses(d), f[s] # Nothing
                 PROVE  f[s] # g[t]
      BY DEF NoCredentialShared
    <2>1. /\ f = file[c].data.id \/ (c = loaded /\ f = id)
          /\ g = file[d].data.id \/ (d = loaded /\ g = id)
      BY DEF Uses
    <2>2. loaded \in Collection => loaded # Nothing
      BY NothingAssumption
    <2>3. CASE f = file[c].data.id /\ g = file[d].data.id
      BY <2>3 DEF Inv, FilesDistinct, FileId
    <2>4. CASE c = loaded /\ f = id /\ g = file[d].data.id
      BY <2>2, <2>4 DEF Inv, MemoryDistinct, FileId
    <2>5. CASE f = file[c].data.id /\ d = loaded /\ g = id
      BY <2>2, <2>5 DEF Inv, MemoryDistinct, FileId
    <2>6. CASE c = loaded /\ f = id /\ d = loaded /\ g = id
      BY <2>2, <2>6 DEF Inv, MemoryDistinct
    <2> QED BY <2>1, <2>3, <2>4, <2>5, <2>6
  <1> QED BY StoreInvCorrect, <1>1, PTL

(* What update believes to be stored is stored, and once the JSON is       *)
(* written each credential that reached the store is the one it names.     *)
THEOREM SavedIsAlwaysDurable == Spec => []SavedIsDurable
  <1>1. Inv => SavedIsDurable
    BY DEF Inv, CacheIsStored, FileIsMemory, SavedIsDurable
  <1> QED BY StoreInvCorrect, <1>1, PTL

(* No step loses the stored Kaltura session of a collection: not a failed  *)
(* read or write, a crash, nor an update while it is missing from memory.  *)
(* One still in the JSON is lost only by a save while every write failed.  *)
THEOREM SessionsAlwaysSurvive == Spec => SessionSurvives
  <1>1. Inv /\ [Next]_vars =>
          [\A c \in Collection :
             /\ StoredSession(c) => StoredSession(c)'
             /\ LegacySession(c) => \/ StoredSession(c)' \/ LegacySession(c)'
                                    \/ c = loaded /\ persisted["session"] = Nothing]_vars
    BY NextKeeps DEF SessionsKept, StoredKept, LegacyKept
  <1> QED BY StoreInvCorrect, <1>1, PTL DEF Spec, SessionSurvives

=============================================================================
