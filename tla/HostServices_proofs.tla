------------------------ MODULE HostServices_proofs ------------------------
(***************************************************************************)
(* Proofs about the secret store and the host services, for any modules    *)
(* and secrets and any number of keys, faults and deaths.                  *)
(***************************************************************************)
EXTENDS HostServices, TLAPS

Values == Secrets \cup {NoSecret, Garbled}
HostRecords == [pc : {"none", "checked", "built"}, config : Contents]
CallRecords == [request : Requests \cup {NoRequest},
                pc : {"idle", "asked", "making", "answered"},
                answer : [how : Endings \cup {"pending"}, value : Values]]
ItemRecords == {NoItem, TornItem} \cup [value : Secrets, key : KeyIds]

StoreTyped ==
  /\ masterKey \in {Missing, Torn} \cup KeyIds
  /\ made \in 0..MaxKeys
  /\ password \in {Missing} \cup KeyIds
  /\ items \in [Locations -> ItemRecords]

HostsTyped ==
  /\ host \in [Modules -> HostRecords]
  /\ file \in [Modules -> Contents]

CallsTyped ==
  /\ call \in [Modules -> CallRecords]
  /\ known \in [Modules -> SUBSET Values]
  /\ twice \in BOOLEAN

\* The key the keyring has cached is the one in the file.
KeyInv ==
  /\ KeyFitsItems
  /\ ~twice => (password # Missing => password = masterKey)

\* As long as no two calls overlapped, a call that makes the key is alone with
\* it, and there is no key before it has done so.
MakerInv ==
  ~twice => \A m \in Modules : call[m].pc = "making" =>
              masterKey = Missing /\ \A n \in Modules : call[n].pc = "making" => n = m

TypedInv ==
  /\ StoreTyped /\ KeyInv /\ MakerInv /\ HostsTyped /\ CallsTyped
  /\ up \in BOOLEAN /\ mishaps \in 0..MaxMishaps

LEMMA TypedInvIsTypeOK == TypedInv => TypeOK
  BY DEF TypedInv, StoreTyped, HostsTyped, CallsTyped, TypeOK, Values, HostRecords,
         CallRecords, ItemRecords

(***************************************************************************)
(* The store.                                                              *)
(***************************************************************************)
LEMMA KeysAreNotMarks == Missing \notin KeyIds /\ Torn \notin KeyIds /\ Torn # Missing
  BY HostBoundAssumption DEF Missing, Torn, KeyIds

\* Unlocking finds the key that every whole item is sealed with, or none, or
\* makes one when no item is whole; it never replaces a key.
LEMMA UnlockShape ==
  ASSUME TypedInv, NEW m \in Modules, NEW f \in FileFaults, Unlock(m, f).key <= MaxKeys
  PROVE  /\ Unlock(m, f).key \in {Missing} \cup KeyIds
         /\ Unlock(m, f).file \in {Missing, Torn} \cup KeyIds
         /\ call[m].pc # "making" => Unlock(m, f).file = masterKey
         /\ ~twice /\ Unlock(m, f).key # Missing => Unlock(m, f).file = Unlock(m, f).key
         /\ ~twice /\ masterKey \in KeyIds => Unlock(m, f).file = masterKey
         /\ ~twice /\ masterKey \in KeyIds /\ f = "none" => Unlock(m, f).key = masterKey
         /\ ~twice /\ Unlock(m, f).key = Missing => password = Missing
<1>1. masterKey \in {Missing, Torn} \cup KeyIds /\ password \in {Missing} \cup KeyIds
      /\ (~twice => (password # Missing => password = masterKey))
      /\ (~twice /\ call[m].pc = "making" => masterKey = Missing)
  BY DEF TypedInv, StoreTyped, KeyInv, MakerInv
<1>2. CASE call[m].pc = "making"
  <2>1. ~twice => masterKey = Missing /\ password = Missing
    BY <1>1, <1>2
  <2>2. CASE f = "key write"
    <3>1. Unlock(m, f) = [key |-> Missing, file |-> Torn]
      BY <1>2, <2>2 DEF Unlock, EnsureMasterKey
    <3>2. Unlock(m, f).key = Missing /\ Unlock(m, f).file = Torn
      BY <3>1
    <3> QED BY <1>2, <2>1, <3>2, KeysAreNotMarks
  <2>3. CASE f # "key write"
    <3>1. Unlock(m, f) = [key |-> made + 1, file |-> made + 1]
      BY <1>2, <2>3 DEF Unlock, EnsureMasterKey
    <3>2. Unlock(m, f).key = made + 1 /\ Unlock(m, f).file = made + 1
      BY <3>1
    <3>3. made + 1 \in KeyIds
      BY <3>2, HostBoundAssumption DEF KeyIds, TypedInv, StoreTyped
    <3> QED BY <1>2, <2>1, <3>2, <3>3, KeysAreNotMarks
  <2> QED BY <2>2, <2>3
<1>3. CASE call[m].pc # "making" /\ password # Missing
  <2>1. Unlock(m, f) = [key |-> password, file |-> masterKey]
    BY <1>3 DEF Unlock
  <2>2. Unlock(m, f).key = password /\ Unlock(m, f).file = masterKey
    BY <2>1
  <2> QED BY <1>1, <1>3, <2>2
<1>4. CASE call[m].pc # "making" /\ password = Missing
  <2>1. CASE f = "state dir" \/ masterKey = Torn
    <3>1. Unlock(m, f) = [key |-> Missing, file |-> masterKey]
      BY <1>4, <2>1 DEF Unlock, EnsureMasterKey
    <3>2. Unlock(m, f).key = Missing /\ Unlock(m, f).file = masterKey
      BY <3>1
    <3>3. masterKey \in KeyIds => f # "none"
      BY <2>1, KeysAreNotMarks
    <3> QED BY <1>1, <1>4, <3>2, <3>3
  <2>2. CASE f # "state dir" /\ masterKey # Torn
    <3>1. Unlock(m, f) = [key |-> masterKey, file |-> masterKey]
      BY <1>4, <2>2 DEF Unlock, EnsureMasterKey
    <3>2. Unlock(m, f).key = masterKey /\ Unlock(m, f).file = masterKey
      BY <3>1
    <3> QED BY <1>1, <1>4, <2>2, <3>2
  <2> QED BY <2>1, <2>2
<1> QED BY <1>2, <1>3, <1>4

LEMMA MishapKeeps ==
  ASSUME mishaps \in 0..MaxMishaps, NEW f, Mishap(f)
  PROVE  mishaps' \in 0..MaxMishaps
<1>1. CASE f = "none"
  BY <1>1, HostBoundAssumption DEF Mishap
<1>2. CASE f # "none"
  BY <1>2, HostBoundAssumption DEF Mishap
<1> QED BY <1>1, <1>2

LEMMA UnlockingKeeps ==
  ASSUME TypedInv, NEW m \in Modules, NEW f \in FileFaults, Unlocking(m, f)
  PROVE  /\ mishaps' \in 0..MaxMishaps
         /\ masterKey' \in {Missing, Torn} \cup KeyIds
         /\ made' \in 0..MaxKeys
         /\ password' \in {Missing} \cup KeyIds
         /\ call[m].pc # "making" => masterKey' = masterKey
         /\ ~twice => /\ password' # Missing => password' = masterKey'
                      /\ masterKey \in KeyIds => masterKey' = masterKey
                      /\ Unlock(m, f).key # Missing => Unlock(m, f).key = masterKey'
<1>1. /\ Unlock(m, f).key <= MaxKeys /\ masterKey' = Unlock(m, f).file
      /\ password' = IF Unlock(m, f).key = Missing THEN password ELSE Unlock(m, f).key
  BY DEF Unlocking
<1>2. made' \in 0..MaxKeys
  <2>1. Unlock(m, f).key \in {Missing} \cup KeyIds
    BY <1>1, UnlockShape
  <2>2. made' = (IF Unlock(m, f).key > made THEN Unlock(m, f).key ELSE made) /\ made \in 0..MaxKeys
    BY DEF Unlocking, TypedInv, StoreTyped
  <2> QED BY <2>1, <2>2, HostBoundAssumption DEF KeyIds, Missing
<1>3. mishaps' \in 0..MaxMishaps
  BY MishapKeeps DEF Unlocking, TypedInv
<1>4. password \in {Missing} \cup KeyIds
  BY DEF TypedInv, StoreTyped
<1> QED BY <1>1, <1>2, <1>3, <1>4, UnlockShape

LEMMA CarryKeeps ==
  ASSUME TypedInv, NEW m \in Modules, NEW r \in Requests, NEW f \in FileFaults, NEW a,
         Carry(m, r, f, a), twice' = twice
  PROVE  /\ StoreTyped' /\ KeyInv' /\ mishaps' \in 0..MaxMishaps
         /\ call[m].pc # "making" => masterKey' = masterKey
<1> USE DEF TypedInv, StoreTyped, KeyInv, KeyFitsItems
<1>0. m \in Locations
  BY DEF Locations
<1>1. CASE r.op = "get" /\ Get(m, f, a)
  <2>1. CASE UNCHANGED <<masterKey, made, password, mishaps>>
    BY <1>1, <2>1 DEF Get
  <2>2. CASE Unlocking(m, f)
    BY <1>1, <2>2, UnlockingKeeps DEF Get
  <2> QED BY <1>1, <2>1, <2>2 DEF Get
<1>2. CASE r.op = "set" /\ Set(m, r.value, f, a)
  <2>0. r.value \in Secrets
    BY <1>2 DEF Requests, Sets, Others
  <2>1. Unlocking(m, f)
    BY <1>2 DEF Set
  <2>2. \/ items' = items
        \/ items' = [items EXCEPT ![m] = TornItem]
        \/ /\ Unlock(m, f).key # Missing
           /\ items' = [items EXCEPT ![m] = Sealed(r.value, Unlock(m, f).key)]
    BY <1>2 DEF Set, makeKey
  <2>3. CASE items' = items
    BY <2>1, <2>3, UnlockingKeeps
  <2>4. CASE items' = [items EXCEPT ![m] = TornItem]
    <3>1. TornItem.key \notin KeyIds /\ TornItem \in ItemRecords
      BY KeysAreNotMarks DEF TornItem, ItemRecords
    <3> QED BY <1>0, <2>1, <2>4, <3>1, UnlockingKeeps
  <2>5. CASE /\ Unlock(m, f).key # Missing
             /\ items' = [items EXCEPT ![m] = Sealed(r.value, Unlock(m, f).key)]
    <3>1. Unlock(m, f).key \in KeyIds /\ (~twice => Unlock(m, f).key = masterKey')
      BY <2>1, <2>5, UnlockingKeeps, UnlockShape DEF Unlocking
    <3>2. Sealed(r.value, Unlock(m, f).key) \in ItemRecords
      BY <2>0, <3>1 DEF Sealed, ItemRecords
    <3>3. ~twice => Sealed(r.value, Unlock(m, f).key).key = masterKey'
      BY <3>1 DEF Sealed
    <3>4. items' \in [Locations -> ItemRecords]
      BY <1>0, <2>5, <3>2
    <3>5. KeyFitsItems'
      BY <1>0, <2>1, <2>5, <3>3, UnlockingKeeps
    <3> QED BY <2>1, <3>4, <3>5, UnlockingKeeps
  <2> QED BY <2>2, <2>3, <2>4, <2>5
<1>3. CASE r.op = "delete" /\ Delete(m, f, a)
  <2>1. items' \in {items, [items EXCEPT ![m] = NoItem]} /\ UNCHANGED <<masterKey, made, password>>
    BY <1>3 DEF Delete, makeKey
  <2>2. NoItem.key \notin KeyIds /\ NoItem \in ItemRecords
    BY KeysAreNotMarks DEF NoItem, ItemRecords
  <2>3. mishaps' \in 0..MaxMishaps
    BY <1>3, MishapKeeps DEF Delete
  <2> QED BY <1>0, <2>1, <2>2, <2>3
<1> QED BY <1>1, <1>2, <1>3 DEF Carry

(***************************************************************************)
(* Type correctness and KeyFitsItems.                                      *)
(***************************************************************************)
LEMMA InitTyped == Init => TypedInv
<1> SUFFICES ASSUME Init PROVE TypedInv
  OBVIOUS
<1>1. StoreTyped /\ KeyInv
  BY HostBoundAssumption, KeysAreNotMarks
  DEF Init, StoreTyped, KeyInv, KeyFitsItems, NoItem, ItemRecords
<1>2. HostsTyped
  BY DEF Init, HostsTyped, NoHost, Contents, HostRecords
<1>3. CallsTyped
  BY DEF Init, CallsTyped, CallRecords, NoCall, NoRequest, NoAnswer, Requests, Values, Endings
<1>4. mishaps \in 0..MaxMishaps
  BY HostBoundAssumption DEF Init
<1>5. up \in BOOLEAN /\ MakerInv
  BY DEF Init, MakerInv, NoCall
<1> QED BY <1>1, <1>2, <1>3, <1>4, <1>5 DEF TypedInv

LEMMA LeavesTyped ==
  ASSUME NEW r \in Requests \cup {NoRequest}
  PROVE  Leaves(r) \subseteq Values
  BY DEF Requests, Sets, Others, NoRequest, Leaves, Values

LEMMA NothingTyped == NoCall \in CallRecords /\ NoHost \in HostRecords
  BY DEF NoCall, NoAnswer, Values, CallRecords, NoHost, Contents, HostRecords

LEMMA GoneKeeps ==
  ASSUME TypedInv, Gone
  PROVE  /\ HostsTyped' /\ CallsTyped' /\ MakerInv' /\ up' \in BOOLEAN
         /\ mishaps' \in 0..MaxMishaps /\ password' = Missing /\ twice' = twice
<1>1. mishaps' \in 0..MaxMishaps
  BY HostBoundAssumption DEF Gone, TypedInv
<1>2. HostsTyped' /\ CallsTyped'
  BY NothingTyped DEF Gone, TypedInv, HostsTyped, CallsTyped
<1>3. MakerInv'
  BY DEF Gone, MakerInv, NoCall
<1> QED BY <1>1, <1>2, <1>3 DEF Gone

LEMMA NextTyped == TypedInv /\ [Next]_vars => TypedInv'
<1> SUFFICES ASSUME TypedInv, [Next]_vars PROVE TypedInv'
  OBVIOUS
<1> USE DEF TypedInv
<1>1. CASE Open
  BY <1>1 DEF Open, calls, StoreTyped, KeyInv, KeyFitsItems, MakerInv, HostsTyped, CallsTyped
<1>2. CASE Die
  BY <1>2, GoneKeeps DEF Die, StoreTyped, KeyInv, KeyFitsItems
<1>3. ASSUME NEW m \in Modules, Module(m) \/ ModuleRaw(m) \/ Unload(m) PROVE TypedInv'
  <2>1. UNCHANGED <<store, calls, file, up>>
    BY <1>3 DEF Module, ModuleRaw, Unload
  <2>2. mishaps' \in 0..MaxMishaps
    BY <1>3, HostBoundAssumption DEF Module, ModuleRaw, Unload, ReadFails
  <2>3. host' \in [Modules -> HostRecords]
    <3>1. Checked \in HostRecords /\ Built("absent") \in HostRecords /\ Built(file[m]) \in HostRecords
      BY DEF Contents, HostsTyped, HostRecords, Checked, Built
    <3>2. \E h \in HostRecords : host' = [host EXCEPT ![m] = h]
      BY <1>3, <3>1, NothingTyped DEF Module, ModuleRaw, Unload
    <3> QED BY <3>2 DEF HostsTyped
  <2> QED BY <2>1, <2>2, <2>3
      DEF store, calls, StoreTyped, KeyInv, KeyFitsItems, MakerInv, HostsTyped, CallsTyped
<1>4. ASSUME NEW m \in Modules, NEW r \in Requests, Ask(m, r) PROVE TypedInv'
  <2>1. UNCHANGED <<store, host, file, up, mishaps, twice>>
    BY <1>4 DEF Ask
  <2>2. [request |-> r, pc |-> "asked", answer |-> NoAnswer] \in CallRecords
    BY DEF CallRecords, NoAnswer, Values
  <2>3. call' = [call EXCEPT ![m] = [request |-> r, pc |-> "asked", answer |-> NoAnswer]]
    BY <1>4 DEF Ask
  <2>4. known' \in [Modules -> SUBSET Values]
    BY <1>4, LeavesTyped DEF Ask, CallsTyped
  <2>5. CallsTyped'
    BY <2>1, <2>2, <2>3, <2>4 DEF CallsTyped
  <2>6. MakerInv'
    BY <2>1, <2>3 DEF store, MakerInv, CallsTyped
  <2> QED BY <2>1, <2>5, <2>6
      DEF store, StoreTyped, KeyInv, KeyFitsItems, HostsTyped
<1>5. ASSUME NEW m \in Modules, NEW f \in FileFaults, Perform(m, f) PROVE TypedInv'
  <2>1. PICK a \in Answers :
          /\ Carry(m, call[m].request, f, a)
          /\ call' = [call EXCEPT ![m] =
                        [request |-> @.request, pc |-> "answered",
                         answer |-> IF m \in Remote THEN OverWire(a) ELSE a]]
    BY <1>5 DEF Perform
  <2>2. call[m].request \in Requests
    BY <2>1 DEF Carry, CallsTyped, CallRecords, NoRequest
  <2>3. /\ StoreTyped' /\ KeyInv' /\ mishaps' \in 0..MaxMishaps
        /\ call[m].pc # "making" => masterKey' = masterKey
    BY <1>5, <2>1, <2>2, CarryKeeps DEF Perform
  <2>4. (IF m \in Remote THEN OverWire(a) ELSE a) \in [how : Endings \cup {"pending"}, value : Values]
    BY DEF Answers, OverWire, Ended, Endings, Values
  <2>5. CallsTyped'
    BY <1>5, <2>1, <2>4 DEF Perform, CallsTyped, CallRecords
  <2>6. ASSUME ~twice', NEW n \in Modules, call'[n].pc = "making"
        PROVE  masterKey' = Missing /\ \A k \in Modules : call'[k].pc = "making" => k = n
    <3>1. n # m /\ \A k \in Modules \ {m} : call'[k] = call[k]
      BY <2>1, <2>6 DEF CallsTyped
    <3>2. call[n].pc = "making" /\ twice' = twice /\ call'[m].pc = "answered"
      BY <1>5, <2>1, <2>6, <3>1 DEF Perform, CallsTyped
    <3>3. masterKey = Missing /\ \A k \in Modules : call[k].pc = "making" => k = n
      BY <2>6, <3>2 DEF MakerInv
    <3>4. call[m].pc # "making"
      BY <3>1, <3>3
    <3> QED BY <2>3, <3>1, <3>2, <3>3, <3>4
  <2>7. MakerInv'
    BY <2>6 DEF MakerInv
  <2> QED BY <1>5, <2>3, <2>5, <2>7 DEF Perform, HostsTyped
<1>6. ASSUME NEW m \in Modules, MissKey(m) PROVE TypedInv'
  <2>1. /\ UNCHANGED <<store, host, file, up, mishaps, known>> /\ masterKey = Missing
        /\ call' = [call EXCEPT ![m].pc = "making"]
        /\ twice' = (twice \/ \E n \in Modules \ {m} : call[n].pc = "making")
    BY <1>6 DEF MissKey, KeyAbsent
  <2>2. CallsTyped'
    BY <2>1 DEF CallsTyped, CallRecords
  <2>3. MakerInv'
    BY <2>1 DEF store, MakerInv, CallsTyped
  <2> QED BY <2>1, <2>2, <2>3 DEF store, StoreTyped, KeyInv, KeyFitsItems, HostsTyped
<1>7. ASSUME NEW m \in Modules, Return(m) PROVE TypedInv'
  <2>1. call' = [call EXCEPT ![m] = NoCall]
    BY <1>7 DEF Return
  <2>2. {call[m].request.value} \subseteq Values
    BY DEF CallsTyped, CallRecords, Requests, Sets, Others, NoRequest, Values
  <2>3. known' \in [Modules -> SUBSET Values]
    BY <1>7, <2>2 DEF Return, CallsTyped
  <2>4. CallsTyped'
    BY <1>7, <2>1, <2>3, NothingTyped DEF Return, CallsTyped
  <2>5. MakerInv'
    BY <1>7, <2>1 DEF Return, store, MakerInv, CallsTyped, NoCall
  <2> QED BY <1>7, <2>4, <2>5
      DEF Return, store, StoreTyped, KeyInv, KeyFitsItems, HostsTyped
<1>8. ASSUME NEW m \in Modules, DieAtKeyWrite(m) PROVE TypedInv'
  <2>1. /\ call[m].pc = "making" /\ items' = items /\ made < MaxKeys
        /\ masterKey' \in {Torn, made + 1} /\ made' = made + 1
    BY <1>8 DEF DieAtKeyWrite
  <2>2. made' \in 0..MaxKeys /\ masterKey' \in {Torn} \cup KeyIds
    BY <2>1, HostBoundAssumption DEF StoreTyped, KeyIds
  <2>3. twice' = twice /\ (~twice => masterKey = Missing)
    BY <1>8, <2>1, GoneKeeps DEF DieAtKeyWrite, MakerInv
  <2>4. StoreTyped' /\ KeyInv'
    BY <1>8, <2>1, <2>2, <2>3, GoneKeeps, KeysAreNotMarks
    DEF DieAtKeyWrite, StoreTyped, KeyInv, KeyFitsItems
  <2> QED BY <1>8, <2>4, GoneKeeps DEF DieAtKeyWrite
<1>9. ASSUME NEW m \in Modules, DieAtItemWrite(m) PROVE TypedInv'
  <2>1. /\ Unlock(m, "none").key \in KeyIds
        /\ masterKey' = Unlock(m, "none").file
        /\ made' = IF masterKey' > made THEN masterKey' ELSE made
        /\ items' = [items EXCEPT ![m] = TornItem]
    BY <1>9 DEF DieAtItemWrite, makeKey
  <2>2. Unlock(m, "none").key <= MaxKeys
    BY <2>1, HostBoundAssumption DEF KeyIds
  <2>3. /\ masterKey' \in {Missing, Torn} \cup KeyIds
        /\ ~twice /\ masterKey \in KeyIds => masterKey' = masterKey
    BY <2>1, <2>2, UnlockShape DEF FileFaults
  <2>4. made' \in 0..MaxKeys
    BY <2>1, <2>3, HostBoundAssumption DEF StoreTyped, KeyIds, Missing, Torn
  <2>5. TornItem.key \notin KeyIds /\ TornItem \in ItemRecords /\ m \in Locations
    BY KeysAreNotMarks DEF TornItem, ItemRecords, Locations
  <2>6. StoreTyped' /\ KeyInv'
    BY <1>9, <2>1, <2>3, <2>4, <2>5, GoneKeeps
    DEF DieAtItemWrite, StoreTyped, KeyInv, KeyFitsItems
  <2> QED BY <1>9, <2>6, GoneKeeps DEF DieAtItemWrite
<1>10. ASSUME NEW m \in Edited, NEW c \in Contents, Edit(m, c) PROVE TypedInv'
  <2>1. m \in Modules
    BY HostAssumption
  <2>2. HostsTyped'
    BY <1>10, <2>1 DEF Edit, HostsTyped
  <2>3. mishaps' \in 0..MaxMishaps
    BY <1>10, HostBoundAssumption DEF Edit
  <2> QED BY <1>10, <2>2, <2>3
      DEF Edit, store, calls, StoreTyped, KeyInv, KeyFitsItems, MakerInv, CallsTyped
<1>11. ASSUME NEW m \in Remote, PluginDies(m) PROVE TypedInv'
  <2>1. m \in Modules
    BY HostAssumption
  <2>2. mishaps' \in 0..MaxMishaps
    BY <1>11, HostBoundAssumption DEF PluginDies
  <2>3. HostsTyped'
    BY <1>11, <2>1, NothingTyped DEF PluginDies, HostsTyped
  <2>4. CallsTyped'
    BY <1>11, <2>1, NothingTyped DEF PluginDies, CallsTyped
  <2>5. MakerInv'
    BY <1>11, <2>1 DEF PluginDies, store, MakerInv, CallsTyped, NoCall
  <2> QED BY <1>11, <2>2, <2>3, <2>4, <2>5
      DEF PluginDies, store, StoreTyped, KeyInv, KeyFitsItems
<1>12. CASE UNCHANGED vars
  BY <1>12
  DEF vars, store, calls, StoreTyped, KeyInv, KeyFitsItems, MakerInv, HostsTyped, CallsTyped
<1> QED BY <1>1, <1>2, <1>3, <1>4, <1>5, <1>6, <1>7, <1>8, <1>9, <1>10, <1>11, <1>12 DEF Next

\* Every variable keeps its type.
THEOREM TypeCorrect == Spec => []TypeOK
<1>1. Spec => []TypedInv
  BY InitTyped, NextTyped, PTL DEF Spec
<1> QED BY <1>1, TypedInvIsTypeOK, PTL

\* Every whole item was sealed with the key in the key file, unless two first
\* uses of the key overlapped (EnsureMasterKey reads the file before it makes
\* a key; a call that makes one alone writes it over no other).
THEOREM KeysFit == Spec => []KeyFitsItems
<1>1. Spec => []TypedInv
  BY InitTyped, NextTyped, PTL DEF Spec
<1>2. TypedInv => KeyFitsItems
  BY DEF TypedInv, KeyInv
<1> QED BY <1>1, <1>2, PTL

(***************************************************************************)
(* SecretsKept.  known follows what a module may rely on, the store what   *)
(* is carried out; between the two is the request under way, which may     *)
(* still leave its mark.                                                   *)
(***************************************************************************)
\* The call of m was answered with success and changed the store.
Stored(m) ==
  /\ call[m].pc = "answered" /\ call[m].answer.how = "ok"
  /\ call[m].request.op \in {"set", "delete"}

Relies(m) ==
  /\ items[m].value \in known[m]
  /\ call[m].pc \in {"asked", "making"} => Leaves(call[m].request) \subseteq known[m]
  /\ Stored(m) => items[m].value = call[m].request.value

Kept(m) ==
  LET a == call[m].answer IN
  call[m].request.op = "get" /\ call[m].pc = "answered" =>
    /\ a.how = "ok" => a.value \in known[m]
    /\ a.how = "not found" => NoSecret \in known[m]
    /\ a.how = "error" => \/ Garbled \in known[m] \/ twice
                          \/ m \in Remote /\ NoSecret \in known[m]

SecretInv == TypedInv /\ \A m \in Modules : Relies(m) /\ Kept(m)

\* What one request does to the items and how it is answered.
LEMMA CarryEffect ==
  ASSUME TypedInv, NEW m \in Modules, NEW r \in Requests, NEW f \in FileFaults,
         NEW a \in Answers,
         Carry(m, r, f, a)
  PROVE  /\ \A l \in Modules \ {m} : items'[l] = items[l]
         /\ items'[m] = items[m] \/ items'[m].value \in Leaves(r)
         /\ r.op \in {"set", "delete"} /\ a.how = "ok" => items'[m].value = r.value
<1>0. m \in Locations /\ items \in [Locations -> ItemRecords]
  BY DEF Locations, TypedInv, StoreTyped
<1>1. CASE r.op = "get" /\ Get(m, f, a)
  BY <1>1 DEF Get
<1>2. CASE r.op = "set" /\ Set(m, r.value, f, a)
  <2>1. \/ items' = items /\ a.how # "ok"
        \/ items' = [items EXCEPT ![m] = TornItem] /\ a.how # "ok"
        \/ items' = [items EXCEPT ![m] = Sealed(r.value, Unlock(m, f).key)]
    <3>1. CASE Unlock(m, f).key = Missing
      <4>1. a = LockedOut(f) /\ items' = items
        BY <1>2, <3>1 DEF Set
      <4> QED BY <4>1 DEF LockedOut, Ended
    <3>2. CASE Unlock(m, f).key # Missing /\ f = "item write"
      <4>1. a = Ended("refused") /\ (items' = items \/ items' = [items EXCEPT ![m] = TornItem])
        BY <1>2, <3>2 DEF Set, makeKey
      <4> QED BY <4>1 DEF Ended
    <3>3. CASE Unlock(m, f).key # Missing /\ f # "item write"
      BY <1>2, <3>3 DEF Set, makeKey
    <3> QED BY <3>1, <3>2, <3>3
  <2>2. TornItem.value \in Leaves(r) /\ Sealed(r.value, Unlock(m, f).key).value = r.value
        /\ r.value \in Leaves(r)
    BY <1>2 DEF TornItem, Sealed, Leaves
  <2>3. \A l \in Modules \ {m} : items'[l] = items[l]
    BY <1>0, <2>1 DEF Locations
  <2>4. items'[m] = items[m] \/ items'[m].value \in Leaves(r)
    BY <1>0, <2>1, <2>2
  <2>5. a.how = "ok" => items'[m].value = r.value
    BY <1>0, <2>1, <2>2
  <2> QED BY <1>2, <2>3, <2>4, <2>5
<1>3. CASE r.op = "delete" /\ Delete(m, f, a)
  <2>1. \/ items' = items /\ a.how # "ok"
        \/ items' = [items EXCEPT ![m] = NoItem]
    <3>1. CASE f = "item remove"
      <4>1. items' = items /\ a = Ended("refused")
        BY <1>3, <3>1 DEF Delete
      <4> QED BY <4>1 DEF Ended
    <3>2. CASE f # "item remove"
      BY <1>3, <3>2 DEF Delete, makeKey
    <3> QED BY <3>1, <3>2
  <2>2. NoItem.value = NoSecret /\ NoSecret \in Leaves(r) /\ r.value = NoSecret
    BY <1>3 DEF NoItem, Leaves, Requests, Sets, Others
  <2>3. CASE items' = items /\ a.how # "ok"
    BY <2>3
  <2>4. CASE items' = [items EXCEPT ![m] = NoItem]
    BY <1>0, <1>3, <2>2, <2>4 DEF Locations
  <2> QED BY <2>1, <2>3, <2>4
<1> QED BY <1>1, <1>2, <1>3 DEF Carry

\* A Get finds the item or says why not; a whole item is always found.
LEMMA AnswerOfGet ==
  ASSUME TypedInv, NEW m \in Modules, NEW r \in Requests, NEW f \in FileFaults,
         NEW a \in Answers, Carry(m, r, f, a), r.op = "get"
  PROVE  /\ a.how = "ok" => a.value = items[m].value
         /\ a.how = "not found" => items[m].value = NoSecret
         /\ a.how = "error" => items[m].value = Garbled \/ twice
<1>0. m \in Locations /\ items \in [Locations -> ItemRecords]
  BY DEF Locations, TypedInv, StoreTyped
<1>1. Get(m, f, a)
  BY DEF Carry
<1>2. CASE items[m] = NoItem /\ a = Ended("not found")
  <2>1. a.how = "not found"
    BY <1>2 DEF Ended
  <2>2. items[m].value = NoSecret
    <3>1. NoItem.value = NoSecret
      BY DEF NoItem
    <3> QED BY <1>2, <3>1
  <2> QED BY <2>1, <2>2
<1>3. CASE items[m] # NoItem /\ Unlocking(m, f)
  <2>1. a = IF Unlock(m, f).key = Missing THEN LockedOut(f)
            ELSE IF items[m].key = Unlock(m, f).key THEN Found(items[m].value)
            ELSE Ended("error")
    BY <1>1, <1>3 DEF Get, makeKey
  <2>2. Unlock(m, f).key <= MaxKeys
    BY <1>3 DEF Unlocking
  <2>3. items[m] = TornItem \/ items[m].key \in KeyIds
    BY <1>0, <1>3 DEF ItemRecords
  <2>4. ~twice /\ items[m].key \in KeyIds => items[m].key = masterKey
    BY <1>0 DEF TypedInv, KeyInv, KeyFitsItems
  <2>5. ~twice /\ items[m].key \in KeyIds /\ Unlock(m, f).key # Missing =>
          items[m].key = Unlock(m, f).key
    BY <2>2, <2>4, UnlockShape
  <2>6. ~twice /\ items[m].key \in KeyIds /\ Unlock(m, f).key = Missing => f # "none"
    BY <2>2, <2>4, UnlockShape, KeysAreNotMarks
  <2>7. a.how = "ok" => a.value = items[m].value
    BY <2>1 DEF LockedOut, Ended, Found
  <2>8. a.how # "not found"
    BY <2>1 DEF LockedOut, Ended, Found
  <2>9. a.how = "error" => items[m].key \notin KeyIds \/ twice
    BY <2>1, <2>5, <2>6 DEF LockedOut, Ended, Found
  <2>10. a.how = "error" => items[m].value = Garbled \/ twice
    BY <2>3, <2>9 DEF TornItem
  <2> QED BY <2>7, <2>8, <2>10
<1> QED BY <1>1, <1>2, <1>3 DEF Get, makeKey

\* A module whose own variables and item stay as they are keeps its facts.
LEMMA Bystander ==
  ASSUME NEW m \in Modules, Relies(m), Kept(m), items'[m] = items[m],
         known'[m] = known[m], call'[m] = call[m], twice => twice'
  PROVE  Relies(m)' /\ Kept(m)'
  BY DEF Relies, Kept, Stored, Leaves

\* A death of the daemon forgets calls and requests.
LEMMA GoneSecrets ==
  ASSUME Gone, NEW m \in Modules, items'[m].value \in known[m]
  PROVE  Relies(m)' /\ Kept(m)'
<1>1. call'[m] = NoCall /\ known' = known
  BY DEF Gone
<1>2. call'[m].pc = "idle"
  BY <1>1 DEF NoCall
<1> QED BY <1>1, <1>2 DEF Relies, Kept, Stored

LEMMA NextSecrets == SecretInv /\ [Next]_vars => SecretInv'
<1> SUFFICES ASSUME SecretInv, [Next]_vars, NEW n \in Modules PROVE Relies(n)' /\ Kept(n)'
  BY NextTyped DEF SecretInv
<1>0. TypedInv /\ Relies(n) /\ Kept(n)
  BY DEF SecretInv
<1>1. CASE Open
  BY <1>0, <1>1, Bystander DEF Open, calls
<1>2. CASE Die
  <2>1. items'[n].value \in known[n]
    BY <1>0, <1>2 DEF Die, Relies
  <2> QED BY <1>2, <2>1, GoneSecrets DEF Die
<1>3. ASSUME NEW m \in Modules, Module(m) \/ ModuleRaw(m) \/ Unload(m) PROVE Relies(n)' /\ Kept(n)'
  BY <1>0, <1>3, Bystander DEF Module, ModuleRaw, Unload, store, calls
<1>4. ASSUME NEW m \in Modules, NEW r \in Requests, Ask(m, r) PROVE Relies(n)' /\ Kept(n)'
  <2>1. CASE n # m
    BY <1>0, <1>4, <2>1, Bystander DEF Ask, store, TypedInv, CallsTyped
  <2>2. CASE n = m
    <3>1. call'[n] = [request |-> r, pc |-> "asked", answer |-> NoAnswer]
      BY <1>0, <1>4, <2>2 DEF Ask, TypedInv, CallsTyped
    <3>2. known'[n] = known[n] \cup Leaves(r) /\ items' = items
      BY <1>0, <1>4, <2>2 DEF Ask, TypedInv, CallsTyped, store
    <3>3. call'[n].pc = "asked" /\ call'[n].request = r
      BY <3>1
    <3> QED BY <1>0, <3>2, <3>3 DEF Relies, Kept, Stored, Leaves
  <2> QED BY <2>1, <2>2
<1>5. ASSUME NEW m \in Modules, NEW f \in FileFaults, Perform(m, f) PROVE Relies(n)' /\ Kept(n)'
  <2>1. PICK a \in Answers :
          /\ Carry(m, call[m].request, f, a)
          /\ call' = [call EXCEPT ![m] =
                        [request |-> @.request, pc |-> "answered",
                         answer |-> IF m \in Remote THEN OverWire(a) ELSE a]]
    BY <1>5 DEF Perform
  <2>2. call[m].request \in Requests
    BY <1>0, <2>1 DEF Carry, TypedInv, CallsTyped, CallRecords, NoRequest
  <2>3. known' = known /\ twice' = twice /\ call[m].pc \in {"asked", "making"}
    BY <1>5 DEF Perform
  <2>4. CASE n # m
    <3>1. items'[n] = items[n]
      BY <1>0, <2>1, <2>2, <2>4, CarryEffect
    <3>2. call'[n] = call[n]
      BY <1>0, <2>1, <2>4 DEF TypedInv, CallsTyped
    <3> QED BY <1>0, <2>3, <3>1, <3>2, Bystander
  <2>5. CASE n = m
    <3> DEFINE w == IF m \in Remote THEN OverWire(a) ELSE a
               r == call[m].request
    <3>1. call'[n] = [request |-> r, pc |-> "answered", answer |-> w]
      BY <1>0, <2>1, <2>5 DEF TypedInv, CallsTyped
    <3>2. /\ call'[n].request = r /\ call'[n].pc = "answered"
          /\ call'[n].answer = w
      BY <3>1
    <3>3. w.how = "ok" => w = a
      BY DEF OverWire, Ended
    <3>4. /\ w.how = "not found" => w = a
          /\ w.how = "error" => a.how = "error" \/ (m \in Remote /\ a.how = "not found")
      BY DEF OverWire, Ended
    <3> HIDE DEF w, r
    <3>5. items'[n].value \in known[n]
      BY <1>0, <2>1, <2>2, <2>3, <2>5, CarryEffect DEF Relies
    <3>6. Relies(n)'
      <4>1. r.op \in {"set", "delete"} /\ w.how = "ok" => items'[n].value = r.value
        BY <1>0, <2>1, <2>2, <2>5, <3>3, CarryEffect DEF r
      <4>2. Stored(n)' => items'[n].value = call'[n].request.value
        BY <3>2, <4>1 DEF Stored
      <4> QED BY <1>0, <2>3, <2>5, <3>2, <3>5, <4>2 DEF Relies, Leaves
    <3>7. Kept(n)'
      <4>1. r.op = "get" => /\ w.how = "ok" => w.value = items[n].value
                            /\ w.how = "not found" => items[n].value = NoSecret
                            /\ w.how = "error" => \/ items[n].value = Garbled \/ twice
                                                  \/ n \in Remote /\ items[n].value = NoSecret
        <5>1. TypedInv /\ Carry(m, call[m].request, f, a)
          BY <1>0, <2>1
        <5>2. call[m].request.op = "get" =>
                /\ a.how = "ok" => a.value = items[m].value
                /\ a.how = "not found" => items[m].value = NoSecret
                /\ a.how = "error" => items[m].value = Garbled \/ twice
          BY <2>2, <5>1, AnswerOfGet
        <5> QED BY <2>5, <3>3, <3>4, <5>2 DEF r
      <4> QED BY <1>0, <2>3, <3>2, <4>1 DEF Relies, Kept
    <3> QED BY <3>6, <3>7
  <2> QED BY <2>4, <2>5
<1>6. ASSUME NEW m \in Modules, MissKey(m) PROVE Relies(n)' /\ Kept(n)'
  <2>1. items' = items /\ known' = known /\ (twice => twice')
    BY <1>6 DEF MissKey, store
  <2>2. CASE n # m
    BY <1>0, <1>6, <2>1, <2>2, Bystander DEF MissKey, TypedInv, CallsTyped
  <2>3. CASE n = m
    <3>1. call[n].pc = "asked" /\ call'[n] = [call[n] EXCEPT !.pc = "making"]
      BY <1>0, <1>6, <2>3 DEF MissKey, TypedInv, CallsTyped
    <3>2. call'[n].pc = "making" /\ call'[n].request = call[n].request
      BY <1>0, <3>1 DEF TypedInv, CallsTyped, CallRecords
    <3> QED BY <1>0, <2>1, <3>1, <3>2 DEF Relies, Kept, Stored, Leaves
  <2> QED BY <2>2, <2>3
<1>7. ASSUME NEW m \in Modules, Return(m) PROVE Relies(n)' /\ Kept(n)'
  <2>1. CASE n # m
    BY <1>0, <1>7, <2>1, Bystander DEF Return, store, TypedInv, CallsTyped
  <2>2. CASE n = m
    <3>1. call'[n] = NoCall /\ call[n].pc = "answered" /\ items' = items
      BY <1>0, <1>7, <2>2 DEF Return, TypedInv, CallsTyped, store
    <3>2. call'[n].pc = "idle"
      BY <3>1 DEF NoCall
    <3>3. \/ known'[n] = known[n]
          \/ Stored(n) /\ known'[n] = {call[n].request.value}
      BY <1>0, <1>7, <2>2 DEF Return, TypedInv, CallsTyped, Stored
    <3>4. items'[n].value \in known'[n]
      BY <1>0, <3>1, <3>3 DEF Relies
    <3> QED BY <3>2, <3>4 DEF Relies, Kept, Stored
  <2> QED BY <2>1, <2>2
<1>8. ASSUME NEW m \in Modules, DieAtKeyWrite(m) PROVE Relies(n)' /\ Kept(n)'
  <2>1. items'[n].value \in known[n]
    BY <1>0, <1>8 DEF DieAtKeyWrite, Relies
  <2> QED BY <1>8, <2>1, GoneSecrets DEF DieAtKeyWrite
<1>9. ASSUME NEW m \in Modules, DieAtItemWrite(m) PROVE Relies(n)' /\ Kept(n)'
  <2>0. items' = [items EXCEPT ![m] = TornItem] /\ m \in Locations /\ n \in Locations
    BY <1>9 DEF DieAtItemWrite, makeKey, Locations
  <2>1. n = m => Garbled \in known[n]
    <3>1. call[m].request.op = "set" /\ call[m].pc \in {"asked", "making"}
      BY <1>9 DEF DieAtItemWrite
    <3>2. Garbled \in Leaves(call[m].request)
      BY <3>1 DEF Leaves
    <3> QED BY <1>0, <3>1, <3>2 DEF Relies
  <2>2. items'[n].value \in known[n]
    BY <1>0, <2>0, <2>1 DEF Relies, TornItem, TypedInv, StoreTyped
  <2> QED BY <1>9, <2>2, GoneSecrets DEF DieAtItemWrite
<1>10. ASSUME NEW m \in Edited, NEW c \in Contents, Edit(m, c) PROVE Relies(n)' /\ Kept(n)'
  BY <1>0, <1>10, Bystander DEF Edit, store, calls
<1>11. ASSUME NEW m \in Remote, PluginDies(m) PROVE Relies(n)' /\ Kept(n)'
  <2>0. m \in Modules
    BY HostAssumption
  <2>1. CASE n # m
    BY <1>0, <1>11, <2>0, <2>1, Bystander DEF PluginDies, store, TypedInv, CallsTyped
  <2>2. CASE n = m
    <3>1. call'[n] = NoCall /\ items' = items /\ known' = known
      BY <1>0, <1>11, <2>0, <2>2 DEF PluginDies, TypedInv, CallsTyped, store
    <3>2. call'[n].pc = "idle"
      BY <3>1 DEF NoCall
    <3> QED BY <1>0, <3>1, <3>2 DEF Relies, Kept, Stored
  <2> QED BY <2>1, <2>2
<1>12. CASE UNCHANGED vars
  BY <1>0, <1>12, Bystander DEF vars, store, calls
<1> QED BY <1>1, <1>2, <1>3, <1>4, <1>5, <1>6, <1>7, <1>8, <1>9, <1>10, <1>11, <1>12 DEF Next

LEMMA InitSecrets == Init => SecretInv
<1> SUFFICES ASSUME Init, NEW n \in Modules PROVE Relies(n) /\ Kept(n)
  BY InitTyped DEF SecretInv
<1>1. items[n] = NoItem /\ call[n] = NoCall /\ known[n] = {NoSecret}
  BY DEF Init, Locations
<1>2. items[n].value = NoSecret /\ call[n].pc = "idle"
  BY <1>1 DEF NoItem, NoCall
<1> QED BY <1>1, <1>2 DEF Relies, Kept, Stored

\* A module finds what it stored last and was told of, and nothing older,
\* through deaths of the daemon and of plugins and beside other modules (Get,
\* Set and Delete of a namespaced store); what it may meet instead is an error,
\* after a write that was cut short, after two keys were made, or, in a
\* plugin, for a secret that does not exist.
THEOREM SecretsAreKept == Spec => []SecretsKept
<1>1. Spec => []SecretInv
  BY InitSecrets, NextSecrets, PTL DEF Spec
<1>2. SecretInv => SecretsKept
  BY DEF SecretInv, SecretsKept, Kept
<1> QED BY <1>1, <1>2, PTL
=============================================================================
