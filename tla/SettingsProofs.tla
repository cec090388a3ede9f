--------------------------- MODULE SettingsProofs ---------------------------
(***************************************************************************)
(* Proofs about the settings, for any values, defaults and commands, any   *)
(* contents an older firmware left and any garbage in read_val.            *)
(***************************************************************************)
EXTENDS Settings, TLAPS

(* The fields, in the two orders in which the code visits them.            *)
LEMMA Orders ==
    /\ Len(WriteOrder) = 9
    /\ WriteOrder[9] = "vers"
    /\ \A i \in 1..9 : WriteOrder[i] \in Keys
    /\ \A k \in Keys : \E i \in 1..9 : WriteOrder[i] = k
    /\ \A k \in Texts : \E i \in 1..8 : WriteOrder[i] = k
    /\ \A i \in 1..8 : WriteOrder[i] # "vers"
  BY DEF WriteOrder, Keys, Texts, Numbers

LEMMA ReadFields ==
    /\ FieldsRead \subseteq Keys \ {"vers"}
    /\ \A k \in FieldsRead : VersionRead /\ store[k] # Missing
    /\ (VersionRead /\ \A k \in Keys : store[k] # Missing) => Whole
    /\ Whole => VersionRead
  <1> DOMAIN ReadOrder = 1..8
    BY DEF ReadOrder
  <1>1. \A i \in 1..8 : ReadOrder[i] \in Keys \ {"vers"}
    BY DEF ReadOrder, Keys, Texts, Numbers
  <1>2. \A k \in Keys \ {"vers"} : \E i \in 1..8 : ReadOrder[i] = k
    BY DEF ReadOrder, Keys, Texts, Numbers
  <1>3. FieldsRead \subseteq Keys \ {"vers"}
    BY <1>1 DEF FieldsRead
  <1>4. \A k \in FieldsRead : VersionRead /\ store[k] # Missing
    BY DEF FieldsRead
  <1>5. ASSUME VersionRead, \A k \in Keys : store[k] # Missing
        PROVE  Whole
    BY <1>1, <1>2, <1>3, <1>5 DEF FieldsRead, Whole
  <1>6. ASSUME Whole PROVE VersionRead
    <2>1. "lang" \in Keys \ {"vers"}
      BY DEF Keys, Texts, Numbers
    <2> QED
      BY <2>1, <1>4, <1>6 DEF Whole
  <1> QED
    BY <1>3, <1>4, <1>5, <1>6

-----------------------------------------------------------------------------
(* Type correctness.                                                       *)

LEMMA LoadedTyped ==
    ASSUME TypeOK PROVE Loaded \in [Keys -> Values]
  BY ReadFields, SettingsAssumption DEF TypeOK, Loaded, Stored

LEMMA TypeInvariant == TypeOK /\ [Next]_vars => TypeOK'
  <1> USE SettingsAssumption, Orders
  <1> SUFFICES ASSUME TypeOK, [Next]_vars PROVE TypeOK'
    OBVIOUS
  <1>1. CASE SettingsInit
    BY <1>1, LoadedTyped DEF TypeOK, SettingsInit, StartWriting
  <1>2. CASE WriteField
    <2> DEFINE k == WriteOrder[at]
    <2>1. at \in 1..9 /\ k \in Keys
      BY <1>2 DEF WriteField, TypeOK
    <2>2. CASE SetKey(k) /\ at' = at + 1 /\ change' = "yes"
               /\ accepted' = [accepted EXCEPT ![k] = @ \cup {ram[k]}]
               /\ UNCHANGED <<pc, known, ram>>
      <3> HIDE DEF k
      <3>1. store' \in [Keys -> Stored]
        BY <2>1, <2>2 DEF TypeOK, SetKey, Stored
      <3>2. accepted' \in [Keys -> SUBSET Values]
        BY <2>1, <2>2 DEF TypeOK
      <3>3. at' \in 1..10
        BY <2>1, <2>2
      <3> QED
        BY <2>2, <3>1, <3>2, <3>3 DEF TypeOK, SetKey
    <2>3. CASE /\ at' \in {at, at + 1} /\ pc' \in {"ready", pc}
               /\ UNCHANGED <<change, store, durable, known, accepted, ram>>
      <3>1. at' \in 1..10
        BY <2>1, <2>3
      <3> QED
        BY <2>3, <3>1 DEF TypeOK
    <2> QED
      BY <1>2, <2>2, <2>3 DEF WriteField
  <1>3. CASE EndSave
    <2>1. accepted' \in [Keys -> SUBSET Values] /\ known' \in {"none", "saved", "loaded"}
      BY <1>3 DEF TypeOK, EndSave, Commit, AcceptSaved
    <2>2. durable' \subseteq [Keys -> Stored] /\ store' \in durable'
      BY <1>3 DEF TypeOK, EndSave, Commit
    <2> QED
      BY <1>3, <2>1, <2>2 DEF TypeOK, EndSave
  <1>4. CASE Save
    BY <1>4 DEF TypeOK, Save, StartWriting
  <1>5. CASE Restart
    BY <1>5 DEF TypeOK, Restart
  <1>6. ASSUME NEW c \in Commands, Update(c[1], c[2]) PROVE TypeOK'
    BY <1>6 DEF TypeOK, Update
  <1>7. CASE UNCHANGED vars
    BY <1>7 DEF TypeOK, vars
  <1> QED
    BY <1>1, <1>2, <1>3, <1>4, <1>5, <1>6, <1>7 DEF Next

LEMMA InitTyped == Init => TypeOK
  BY SettingsAssumption, Orders DEF Init, TypeOK, OldStores, Stored

(* Every field of the settings in RAM always holds a value, whatever the   *)
(* store lacked at the boot.                                               *)
THEOREM TypeCorrect == Spec => []TypeOK
  BY InitTyped, TypeInvariant, PTL DEF Spec

-----------------------------------------------------------------------------
(* Why the order of the writes matters.  While a save is on its way, every *)
(* text it has passed is in the store, or was empty; so when it reaches    *)
(* the version, all of them are.                                           *)

MayBeEmpty(k) == Defaults[k] = Empty \/ <<k, Empty>> \in Commands

TextsIn(found) == \A k \in Texts : found[k] # Missing \/ MayBeEmpty(k)

EmptyOnlyIfAllowed ==
    \A k \in Texts : ram[k] = Empty => store[k] # Missing \/ MayBeEmpty(k)

PassedTextsIn ==
    pc = "writing" =>
        \A i \in 1..at - 1 : WriteOrder[i] \in Texts =>
            store[WriteOrder[i]] # Missing \/ MayBeEmpty(WriteOrder[i])

TextsInv ==
    /\ TypeOK /\ EmptyOnlyIfAllowed /\ PassedTextsIn
    /\ ram["vers"] = Defaults["vers"]
    /\ VersionMeansTexts

LEMMA TextsInit == Init => TextsInv
  <1> SUFFICES ASSUME Init PROVE TextsInv
    OBVIOUS
  <1>1. TypeOK
    BY InitTyped
  <1>2. EmptyOnlyIfAllowed /\ PassedTextsIn /\ ram["vers"] = Defaults["vers"]
    BY DEF Init, EmptyOnlyIfAllowed, PassedTextsIn, MayBeEmpty
  <1>3. "vers" \in Keys
    BY DEF Keys, Numbers
  <1>4. VersionMeansTexts
    BY <1>3, SettingsAssumption DEF Init, VersionMeansTexts, OldStores
  <1> QED
    BY <1>1, <1>2, <1>4 DEF TextsInv

LEMMA TextsStep == TextsInv /\ [Next]_vars => TextsInv'
  <1> USE SettingsAssumption, Orders
  <1> SUFFICES ASSUME TextsInv, [Next]_vars PROVE TextsInv'
    OBVIOUS
  <1>0. TypeOK /\ TypeOK'
    BY TypeInvariant DEF TextsInv
  <1>k. Texts \subseteq Keys /\ "vers" \in Keys /\ "vers" \notin Texts
    BY DEF Keys, Texts, Numbers
  <1>1. CASE SettingsInit
    <2>1. EmptyOnlyIfAllowed'
      BY <1>1, <1>k, ReadFields DEF SettingsInit, EmptyOnlyIfAllowed, Loaded, MayBeEmpty
    <2>2. PassedTextsIn'
      BY <1>1 DEF SettingsInit, StartWriting, PassedTextsIn
    <2>3. ram'["vers"] = Defaults["vers"]
      BY <1>1, <1>k, ReadFields DEF SettingsInit, Loaded
    <2>4. VersionMeansTexts'
      BY <1>1 DEF SettingsInit, VersionMeansTexts, TextsInv
    <2> QED
      BY <1>0, <2>1, <2>2, <2>3, <2>4 DEF TextsInv
  <1>2. CASE WriteField
    <2> DEFINE k == WriteOrder[at]
    <2>1. at \in 1..9 /\ k \in Keys /\ pc = "writing" /\ ram' = ram
      BY <1>0, <1>2 DEF WriteField, TypeOK
    <2>2. CASE SetKey(k) /\ at' = at + 1
      <3>1. ram[k] # Missing /\ store' = [store EXCEPT ![k] = ram[k]]
            /\ durable' = durable \cup {store'}
        BY <1>0, <2>1, <2>2 DEF SetKey, TypeOK
      <3>2. \A j \in Keys : store'[j] # Missing \/ store'[j] = store[j]
        BY <1>0, <2>1, <3>1 DEF TypeOK
      <3>3. store'[k] # Missing
        BY <1>0, <2>1, <3>1 DEF TypeOK
      <3>4. EmptyOnlyIfAllowed'
        BY <1>k, <2>1, <3>2 DEF TextsInv, EmptyOnlyIfAllowed
      <3>5. \A i \in 1..at : WriteOrder[i] \in Texts =>
                store'[WriteOrder[i]] # Missing \/ MayBeEmpty(WriteOrder[i])
        <4> SUFFICES ASSUME NEW i \in 1..at, WriteOrder[i] \in Texts
                     PROVE  store'[WriteOrder[i]] # Missing \/ MayBeEmpty(WriteOrder[i])
          OBVIOUS
        <4>1. CASE i = at
          BY <4>1, <3>3
        <4>2. CASE i \in 1..at - 1
          BY <4>2, <1>k, <2>1, <3>2 DEF TextsInv, PassedTextsIn
        <4> QED
          BY <4>1, <4>2, <2>1
      <3>6. PassedTextsIn'
        <4>1. at' - 1 = at
          BY <2>1, <2>2
        <4> QED
          BY <3>5, <4>1 DEF PassedTextsIn
      <3>7. store'["vers"] = Defaults["vers"] => TextsIn(store')
        <4>1. CASE at = 9
          BY <4>1, <3>5 DEF TextsIn
        <4>2. CASE at \in 1..8
          <5>1. store'["vers"] = store["vers"]
            BY <4>2, <1>k, <1>0, <2>1, <3>1 DEF TypeOK
          <5>2. store["vers"] = Defaults["vers"] => TextsIn(store)
            BY <1>0 DEF TypeOK, TextsInv, VersionMeansTexts, TextsIn, MayBeEmpty
          <5> QED
            BY <5>1, <5>2, <3>2, <1>k DEF TextsIn
        <4> QED
          BY <4>1, <4>2, <2>1
      <3>8. VersionMeansTexts'
        BY <3>1, <3>7 DEF TextsInv, VersionMeansTexts, TextsIn, MayBeEmpty
      <3> QED
        BY <1>0, <2>1, <3>4, <3>6, <3>8 DEF TextsInv
    <2>3. CASE /\ UNCHANGED <<store, durable>>
               /\ \/ pc' = "ready"
                  \/ pc' = pc /\ at' = at + 1 /\ ram[k] \in Seen(k)
      <3>1. EmptyOnlyIfAllowed'
        BY <2>1, <2>3 DEF TextsInv, EmptyOnlyIfAllowed
      <3>2. VersionMeansTexts'
        BY <2>3 DEF TextsInv, VersionMeansTexts
      <3>3. CASE pc' = "ready"
        BY <1>0, <2>1, <3>1, <3>2, <3>3 DEF TextsInv, PassedTextsIn
      <3>4. CASE at' = at + 1 /\ ram[k] \in Seen(k)
        <4>1. k \in Texts => store[k] # Missing \/ MayBeEmpty(k)
          BY <3>4 DEF Seen, TextsInv, EmptyOnlyIfAllowed
        <4>2. \A i \in 1..at : WriteOrder[i] \in Texts =>
                store[WriteOrder[i]] # Missing \/ MayBeEmpty(WriteOrder[i])
          <5> SUFFICES ASSUME NEW i \in 1..at, WriteOrder[i] \in Texts
                       PROVE  store[WriteOrder[i]] # Missing \/ MayBeEmpty(WriteOrder[i])
            OBVIOUS
          <5>1. CASE i = at
            BY <5>1, <4>1
          <5>2. CASE i \in 1..at - 1
            BY <5>2, <2>1 DEF TextsInv, PassedTextsIn
          <5> QED
            BY <5>1, <5>2, <2>1
        <4>3. at' - 1 = at /\ store' = store
          BY <2>1, <2>3, <3>4
        <4>4. PassedTextsIn'
          BY <4>2, <4>3 DEF PassedTextsIn
        <4> QED
          BY <1>0, <2>1, <3>1, <3>2, <4>4 DEF TextsInv
      <3> QED
        BY <2>3, <3>3, <3>4
    <2> QED
      BY <1>2, <2>2, <2>3 DEF WriteField
  <1>3. CASE EndSave
    <2>1. UNCHANGED <<ram, store>> /\ pc' = "ready" /\ durable' \subseteq durable
      BY <1>0, <1>3 DEF EndSave, Commit, TypeOK
    <2>2. EmptyOnlyIfAllowed' /\ PassedTextsIn'
      BY <2>1 DEF TextsInv, EmptyOnlyIfAllowed, PassedTextsIn
    <2>3. VersionMeansTexts'
      BY <2>1 DEF TextsInv, VersionMeansTexts
    <2> QED
      BY <1>0, <2>1, <2>2, <2>3 DEF TextsInv
  <1>4. CASE Save
    BY <1>0, <1>4 DEF Save, StartWriting, TextsInv, EmptyOnlyIfAllowed, PassedTextsIn,
                      VersionMeansTexts
  <1>5. CASE Restart
    <2>1. EmptyOnlyIfAllowed' /\ PassedTextsIn' /\ ram'["vers"] = Defaults["vers"]
      BY <1>5 DEF Restart, EmptyOnlyIfAllowed, PassedTextsIn, MayBeEmpty
    <2>2. VersionMeansTexts'
      BY <1>5 DEF Restart, TextsInv, VersionMeansTexts
    <2> QED
      BY <1>0, <2>1, <2>2 DEF TextsInv
  <1>6. ASSUME NEW c \in Commands, Update(c[1], c[2]) PROVE TextsInv'
    <2>1. c[1] \in Keys \ {"vers"} /\ c[2] \in Values /\ c = <<c[1], c[2]>>
      BY <1>6
    <2>2. UNCHANGED <<store, durable>> /\ pc' # "writing"
          /\ ram' = [ram EXCEPT ![c[1]] = c[2]]
      BY <1>6 DEF Update
    <2>3. EmptyOnlyIfAllowed'
      <3> SUFFICES ASSUME NEW k \in Texts, ram'[k] = Empty
                   PROVE  store'[k] # Missing \/ MayBeEmpty(k)
        BY DEF EmptyOnlyIfAllowed, MayBeEmpty
      <3>1. CASE k = c[1]
        <4>1. c = <<k, Empty>>
          BY <3>1, <2>1, <2>2, <1>0, <1>k DEF TypeOK
        <4> QED
          BY <4>1 DEF MayBeEmpty
      <3>2. CASE k # c[1]
        BY <3>2, <2>2, <1>0, <1>k DEF TypeOK, TextsInv, EmptyOnlyIfAllowed
      <3> QED
        BY <3>1, <3>2
    <2>4. PassedTextsIn' /\ ram'["vers"] = Defaults["vers"]
      BY <2>1, <2>2, <1>0, <1>k DEF TypeOK, TextsInv, PassedTextsIn
    <2>5. VersionMeansTexts'
      BY <2>2 DEF TextsInv, VersionMeansTexts
    <2> QED
      BY <1>0, <2>3, <2>4, <2>5 DEF TextsInv
  <1>7. CASE UNCHANGED vars
    BY <1>0, <1>7 DEF vars, TextsInv, EmptyOnlyIfAllowed, PassedTextsIn, VersionMeansTexts
  <1> QED
    BY <1>1, <1>2, <1>3, <1>4, <1>5, <1>6, <1>7 DEF Next

(* A store that has the current version has every text, or it was empty.   *)
THEOREM VersionLast == Spec => []VersionMeansTexts
  <1>1. TextsInv => VersionMeansTexts
    BY DEF TextsInv
  <1> QED
    BY <1>1, TextsInit, TextsStep, PTL DEF Spec

-----------------------------------------------------------------------------
(* Why an interrupted save costs nothing.  Once a boot has found the       *)
(* settings whole, so is all that a later boot may find; and a save that   *)
(* reaches its end has made the store equal to RAM.                        *)

DurableWhole ==
    known = "loaded" => \A found \in durable :
        /\ found["vers"] = Defaults["vers"]
        /\ \A k \in Keys : found[k] \in accepted[k]

PassedSaved ==
    known = "loaded" /\ pc = "writing" =>
        \A i \in 1..at - 1 : store[WriteOrder[i]] = ram[WriteOrder[i]]

LoadedInv ==
    /\ TypeOK /\ DurableWhole /\ PassedSaved
    /\ ram["vers"] = Defaults["vers"]
    /\ pc = "off" => durable = {store}

LEMMA LoadedInit == Init => LoadedInv
  <1> SUFFICES ASSUME Init PROVE LoadedInv
    OBVIOUS
  <1> QED
    BY InitTyped DEF Init, LoadedInv, DurableWhole, PassedSaved

(* All that is durable has a value in every field.                         *)
LEMMA NothingMissing ==
    ASSUME LoadedInv, known = "loaded"
    PROVE  /\ \A k \in Keys : store[k] # Missing /\ store[k] \in accepted[k]
           /\ store["vers"] = Defaults["vers"]
  <1>1. store \in durable /\ \A k \in Keys : accepted[k] \subseteq Values
    BY DEF LoadedInv, TypeOK
  <1>2. \A k \in Keys : store[k] \in accepted[k]
    BY <1>1 DEF LoadedInv, DurableWhole
  <1>3. store["vers"] = Defaults["vers"]
    BY <1>1 DEF LoadedInv, DurableWhole
  <1> QED
    BY <1>1, <1>2, <1>3, SettingsAssumption

(* A boot takes every field from a whole store.                            *)
LEMMA WholeLoaded ==
    ASSUME TypeOK, Whole
    PROVE  store["vers"] = Defaults["vers"] /\ \A k \in Keys : Loaded[k] = store[k]
  BY ReadFields DEF Whole, Loaded, VersionRead

LEMMA LoadedStep == LoadedInv /\ [Next]_vars => LoadedInv'
  <1> USE SettingsAssumption, Orders
  <1> SUFFICES ASSUME LoadedInv, [Next]_vars PROVE LoadedInv'
    OBVIOUS
  <1>0. TypeOK /\ TypeOK'
    BY TypeInvariant DEF LoadedInv
  <1>k. "vers" \in Keys
    BY DEF Keys, Numbers
  <1>1. CASE SettingsInit
    <2>1. ram'["vers"] = Defaults["vers"] /\ pc' # "off" /\ durable' = durable /\ store' = store
      BY <1>1, <1>k, ReadFields DEF SettingsInit, StartWriting, Loaded
    <2>2. PassedSaved'
      BY <1>1, <1>0 DEF SettingsInit, StartWriting, PassedSaved
    <2>3. CASE Whole
      <3>1. durable' = {store} /\ store' = store
            /\ \A k \in Keys : accepted'[k] = {store[k]}
        BY <1>0, <1>1, <2>1, <2>3, WholeLoaded DEF LoadedInv, SettingsInit
      <3>2. DurableWhole'
        BY <1>0, <2>3, <3>1, WholeLoaded DEF DurableWhole
      <3> QED
        BY <1>0, <2>1, <2>2, <3>2 DEF LoadedInv
    <2>4. CASE ~Whole
      <3>1. UNCHANGED <<known, accepted>>
        BY <1>1, <2>4 DEF SettingsInit
      <3>2. DurableWhole'
        BY <2>1, <3>1 DEF LoadedInv, DurableWhole
      <3> QED
        BY <1>0, <2>1, <2>2, <3>2 DEF LoadedInv
    <2> QED
      BY <2>3, <2>4
  <1>2. CASE WriteField
    <2> DEFINE k == WriteOrder[at]
    <2>1. at \in 1..9 /\ k \in Keys /\ pc = "writing" /\ ram' = ram /\ known' = known
          /\ pc' # "off"
      BY <1>0, <1>2 DEF WriteField, TypeOK
    <2>2. CASE SetKey(k) /\ at' = at + 1
               /\ accepted' = [accepted EXCEPT ![k] = @ \cup {ram[k]}]
      <3>1. store' = [store EXCEPT ![k] = ram[k]] /\ durable' = durable \cup {store'}
        BY <2>2 DEF SetKey
      <3>2. \A j \in Keys : store'[j] = IF j = k THEN ram[j] ELSE store[j]
        BY <1>0, <2>1, <3>1 DEF TypeOK
      <3>3. \A j \in Keys : accepted'[j] = IF j = k THEN accepted[j] \cup {ram[j]} ELSE accepted[j]
        BY <1>0, <2>1, <2>2 DEF TypeOK
      <3>4. DurableWhole'
        <4> SUFFICES ASSUME known = "loaded", NEW found \in durable'
                     PROVE  /\ found["vers"] = Defaults["vers"]
                            /\ \A j \in Keys : found[j] \in accepted'[j]
          BY <2>1 DEF DurableWhole
        <4>1. CASE found \in durable
          BY <4>1, <3>3 DEF LoadedInv, DurableWhole
        <4>2. CASE found = store'
          <5>1. \A j \in Keys : found[j] \in accepted'[j]
            BY <4>2, <3>2, <3>3, NothingMissing, ZenonT(40)
          <5>2. found["vers"] = Defaults["vers"]
            BY <4>2, <3>2, <1>k, NothingMissing DEF LoadedInv
          <5> QED
            BY <5>1, <5>2
        <4> QED
          BY <4>1, <4>2, <3>1
      <3>5. PassedSaved'
        <4> SUFFICES ASSUME known = "loaded", NEW i \in 1..at
                     PROVE  store'[WriteOrder[i]] = ram[WriteOrder[i]]
          BY <2>1, <2>2 DEF PassedSaved
        <4>1. CASE i = at
          BY <4>1, <3>2, <2>1
        <4>2. CASE i \in 1..at - 1
          BY <4>2, <3>2, <2>1 DEF LoadedInv, PassedSaved
        <4> QED
          BY <4>1, <4>2, <2>1
      <3> QED
        BY <1>0, <2>1, <3>4, <3>5 DEF LoadedInv
    <2>3. CASE /\ UNCHANGED <<store, durable, accepted>>
               /\ \/ pc' = "ready"
                  \/ at' = at + 1 /\ ram[k] \in Seen(k)
      <3>1. DurableWhole'
        BY <2>1, <2>3 DEF LoadedInv, DurableWhole
      <3>2. CASE pc' = "ready"
        BY <1>0, <2>1, <3>1, <3>2 DEF LoadedInv, PassedSaved
      <3>3. CASE at' = at + 1 /\ ram[k] \in Seen(k)
        <4>1. PassedSaved'
          <5> SUFFICES ASSUME known = "loaded", NEW i \in 1..at
                       PROVE  store[WriteOrder[i]] = ram[WriteOrder[i]]
            BY <2>1, <2>3, <3>3 DEF PassedSaved
          <5>1. CASE i = at
            BY <5>1, <3>3, <2>1, NothingMissing DEF Seen
          <5>2. CASE i \in 1..at - 1
            BY <5>2, <2>1 DEF LoadedInv, PassedSaved
          <5> QED
            BY <5>1, <5>2, <2>1
        <4> QED
          BY <1>0, <2>1, <3>1, <4>1 DEF LoadedInv
      <3> QED
        BY <2>3, <3>2, <3>3
    <2> QED
      BY <1>2, <2>2, <2>3 DEF WriteField
  <1>3. CASE EndSave
    <2>1. UNCHANGED <<ram, store>> /\ pc' = "ready" /\ pc = "writing" /\ at = 10
      BY <1>3 DEF EndSave
    <2>2. \/ UNCHANGED <<durable, known, accepted>>
          \/ durable' = {store} /\ AcceptSaved
      BY <1>3 DEF EndSave, Commit
    <2>3. DurableWhole'
      <3>1. CASE UNCHANGED <<durable, known, accepted>>
        BY <3>1 DEF LoadedInv, DurableWhole
      <3>2. CASE durable' = {store} /\ AcceptSaved
        <4> SUFFICES ASSUME known = "loaded"
                     PROVE  /\ store["vers"] = Defaults["vers"]
                            /\ \A j \in Keys : store[j] \in accepted'[j]
          BY <3>2 DEF DurableWhole, AcceptSaved
        <4>1. \A i \in 1..9 : store[WriteOrder[i]] = ram[WriteOrder[i]]
          BY <2>1 DEF LoadedInv, PassedSaved
        <4>2. \A j \in Keys : store[j] = ram[j]
          BY <4>1
        <4> QED
          BY <3>2, <4>2, NothingMissing DEF AcceptSaved
      <3> QED
        BY <2>2, <3>1, <3>2
    <2> QED
      BY <1>0, <2>1, <2>3 DEF LoadedInv, PassedSaved
  <1>4. CASE Save
    BY <1>0, <1>4 DEF Save, StartWriting, LoadedInv, DurableWhole, PassedSaved
  <1>5. CASE Restart
    <2>1. PassedSaved' /\ ram'["vers"] = Defaults["vers"] /\ durable' = {store'}
      BY <1>5 DEF Restart, PassedSaved
    <2>2. DurableWhole'
      BY <1>5 DEF Restart, LoadedInv, DurableWhole
    <2> QED
      BY <1>0, <2>1, <2>2 DEF LoadedInv
  <1>6. ASSUME NEW c \in Commands, Update(c[1], c[2]) PROVE LoadedInv'
    <2>1. c[1] # "vers" /\ pc' = "ready" /\ UNCHANGED <<store, durable, known, accepted>>
          /\ ram' = [ram EXCEPT ![c[1]] = c[2]]
      BY <1>6 DEF Update
    <2>2. ram'["vers"] = Defaults["vers"]
      BY <2>1, <1>0, <1>k DEF TypeOK, LoadedInv
    <2> QED
      BY <1>0, <2>1, <2>2 DEF LoadedInv, DurableWhole, PassedSaved
  <1>7. CASE UNCHANGED vars
    BY <1>0, <1>7 DEF vars, LoadedInv, DurableWhole, PassedSaved
  <1> QED
    BY <1>1, <1>2, <1>3, <1>4, <1>5, <1>6, <1>7 DEF Next

LEMMA BootStep == LoadedInv /\ [Next]_vars => [BootFindsAll]_vars
  <1> SUFFICES ASSUME LoadedInv, [Next]_vars, pc = "off", pc' # "off", known = "loaded"
               PROVE  Whole /\ \A k \in Keys : ram'[k] \in accepted[k]
    BY DEF BootFindsAll
  <1>1. ram' = Loaded
    BY DEF Next, SettingsInit, WriteField, EndSave, Save, Restart, Update, vars
  <1>2. Whole
    BY NothingMissing, ReadFields DEF VersionRead
  <1> QED
    BY <1>1, <1>2, WholeLoaded, NothingMissing DEF LoadedInv

(* After the first boot that finds the settings whole, no loss of power,   *)
(* refused write or lost commit ever costs one: every later boot finds     *)
(* them all, each as last saved or as an interrupted save left it.         *)
THEOREM NothingLost == Spec => LoadedSurvive
  BY LoadedInit, LoadedStep, BootStep, PTL DEF Spec, LoadedSurvive
=============================================================================
