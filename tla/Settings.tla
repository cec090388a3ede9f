------------------------------ MODULE Settings ------------------------------
(***************************************************************************)
(* The settings of the device (user_components/settings): one structure in *)
(* RAM, which commands of the web page change, and its copy in the flash,  *)
(* one key of the NVS partition per field.  There is no transaction: a     *)
(* save writes the fields that differ, key after key, and commits at the   *)
(* end; the power can go between any two steps.                            *)
(***************************************************************************)
EXTENDS Naturals, Sequences

CONSTANTS
    Values,      \* contents of a field
    Empty,       \* the empty string
    OldVersion,  \* the version an older firmware stored
    Missing,     \* a key NVS does not find
    OldValues,   \* what it may have stored in the other fields
    Defaults,    \* default_set, by field
    Commands,    \* the pairs <<field, value>> that the command "set" writes
    Garbage      \* what the uninitialized read_val of a number may hold

Texts   == {"ap_ssid", "ap_pswd", "nw_ssid", "nw_pswd", "order", "lang"}
Numbers == {"vers", "cnt", "nw_enable"}
Keys    == Texts \cup Numbers

ASSUME SettingsAssumption ==
    /\ Empty \in Values /\ OldVersion \in Values /\ Missing \notin Values
    /\ Defaults \in [Keys -> Values] /\ Defaults["vers"] # OldVersion
    /\ Commands \subseteq (Keys \ {"vers"}) \X Values
    /\ Garbage \subseteq Values /\ OldValues \subseteq Values \cup {Missing}

(* The order in which settings_write_nvs visits the fields.  Fault: the    *)
(* version first.                                                          *)
WriteOrderVersionFirst ==
    <<"vers", "lang", "nw_enable", "order", "cnt", "ap_ssid", "ap_pswd", "nw_ssid", "nw_pswd">>
WriteOrder ==
    <<"lang", "nw_enable", "order", "cnt", "ap_ssid", "ap_pswd", "nw_ssid", "nw_pswd", "vers">>

(* The order of settings_read_nvs, after the version.                      *)
ReadOrder ==
    <<"ap_ssid", "ap_pswd", "nw_ssid", "nw_pswd", "cnt", "order", "lang", "nw_enable">>

VARIABLES
    pc,       \* "off", "writing" in settings_write_nvs, "ready"
    at,       \* the field settings_write_nvs is at
    change,   \* whether it has written any
    ram,      \* *settings
    store,    \* what nvs_get finds
    durable,  \* the contents of store that the next boot may find
    \* history
    known,    \* "none"; "saved" by a save that succeeded; "loaded" by a boot
    accepted  \* what a later boot may find: values saved since, by field

vars == <<pc, at, change, ram, store, durable, known, accepted>>

Stored == Values \cup {Missing}

TypeOK ==
    /\ pc \in {"off", "writing", "ready"}
    /\ at \in 1..Len(WriteOrder) + 1
    /\ change \in {"no", "yes"}
    /\ ram \in [Keys -> Values]
    /\ store \in [Keys -> Stored]
    /\ durable \subseteq [Keys -> Stored] /\ store \in durable
    /\ known \in {"none", "saved", "loaded"}
    /\ accepted \in [Keys -> SUBSET Values]

(* The flash is erased, or an older firmware left its settings.            *)
OldStores == {[k \in Keys |-> IF k = "vers" THEN OldVersion ELSE v] : v \in OldValues}

Init ==
    /\ pc = "off" /\ at = 1 /\ change = "no"
    /\ ram = Defaults
    /\ store \in {[k \in Keys |-> Missing]} \cup OldStores
    /\ durable = {store}
    /\ known = "none" /\ accepted = [k \in Keys |-> {}]

-----------------------------------------------------------------------------
(* settings_read_nvs stops at the first field it does not find; the ones   *)
(* before it are in RAM by then.                                           *)
VersionRead == store["vers"] = Defaults["vers"]

FieldsRead ==
    {ReadOrder[i] : i \in {j \in DOMAIN ReadOrder :
        VersionRead /\ \A h \in 1..j : store[ReadOrder[h]] # Missing}}

Whole == FieldsRead = Keys \ {"vers"}

(* Defaults first, then what the store has.                                *)
Loaded == [k \in Keys |-> IF k \in FieldsRead THEN store[k] ELSE Defaults[k]]

StartWriting == pc' = "writing" /\ at' = 1 /\ change' = "no"

(* settings_init: defaults, then the store, and a store that is not whole  *)
(* is written anew unless NVS does not open.                               *)
SettingsInit ==
    /\ pc = "off"
    /\ ram' = Loaded
    /\ IF Whole
       THEN /\ pc' = "ready" /\ UNCHANGED <<at, change>>
            /\ known' = "loaded" /\ accepted' = [k \in Keys |-> {ram'[k]}]
       ELSE /\ StartWriting \/ (pc' = "ready" /\ UNCHANGED <<at, change>>)
            /\ UNCHANGED <<known, accepted>>
    /\ UNCHANGED <<store, durable>>

(* What the comparison before a write sees: the stored value, or for a     *)
(* missing text "", for a missing number anything.  Fault: a missing text  *)
(* is whatever RAM holds.                                                  *)
SeenSame(k) ==
    IF store[k] # Missing THEN {store[k]} ELSE {ram[k]}
Seen(k) ==
    IF store[k] # Missing THEN {store[k]}
    ELSE IF k \in Texts THEN {Empty} ELSE Garbage

(* nvs_set_*: the power may go before or after the write reaches the      *)
(* flash.  Fault: the old value is erased before.                          *)
SetKeyErasing(k) ==
    /\ store' = [store EXCEPT ![k] = ram[k]]
    /\ durable' = durable \cup {store', [store EXCEPT ![k] = Missing]}
SetKey(k) ==
    /\ store' = [store EXCEPT ![k] = ram[k]]
    /\ durable' = durable \cup {store'}

(* nvs_write_str_with_check and nvs_write_u32_with_check; a write that NVS *)
(* refuses ends the save.                                                  *)
WriteField ==
    /\ pc = "writing" /\ at <= Len(WriteOrder)
    /\ LET k == WriteOrder[at] IN
       \/ /\ ram[k] \in Seen(k)
          /\ at' = at + 1
          /\ UNCHANGED <<pc, change, store, durable, known, accepted>>
       \/ /\ \E seen \in Seen(k) : seen # ram[k]
          /\ at' = at + 1 /\ change' = "yes"
          /\ SetKey(k)
          /\ accepted' = [accepted EXCEPT ![k] = @ \cup {ram[k]}]
          /\ UNCHANGED <<pc, known>>
       \/ /\ \E seen \in Seen(k) : seen # ram[k]
          /\ pc' = "ready"
          /\ UNCHANGED <<at, change, store, durable, known, accepted>>
    /\ UNCHANGED ram

AcceptSaved ==
    /\ known' = IF known = "loaded" THEN known ELSE "saved"
    /\ accepted' = [k \in Keys |-> {ram[k]}]

(* nvs_commit if anything was written; its result is ignored.  Fault: no   *)
(* commit.                                                                 *)
CommitForgotten == durable' = durable /\ AcceptSaved
Commit ==
    \/ durable' = {store} /\ AcceptSaved
    \/ UNCHANGED <<durable, known, accepted>>

EndSave ==
    /\ pc = "writing" /\ at = Len(WriteOrder) + 1
    /\ pc' = "ready"
    /\ \/ change = "yes" /\ Commit
       \/ /\ change = "no" /\ durable' = durable
          /\ IF durable = {store} THEN AcceptSaved ELSE UNCHANGED <<known, accepted>>
    /\ UNCHANGED <<at, change, ram, store>>

(* The commands "set" and "save" of the shell.                             *)
Update(k, v) ==
    /\ pc = "ready" /\ ram' = [ram EXCEPT ![k] = v]
    /\ UNCHANGED <<pc, at, change, store, durable, known, accepted>>

Save ==
    /\ pc = "ready" /\ StartWriting
    /\ UNCHANGED <<ram, store, durable, known, accepted>>

-----------------------------------------------------------------------------
(* The loss of power, or a restart of the chip: NVS (external) writes in   *)
(* order, so that the next boot finds the contents of the store at some    *)
(* moment since the last commit.                                           *)
Restart ==
    /\ pc # "off" /\ pc' = "off"
    /\ at' = 1 /\ change' = "no" /\ ram' = Defaults
    /\ \E found \in durable : store' = found /\ durable' = {found}
    /\ UNCHANGED <<known, accepted>>

Next ==
    \/ SettingsInit \/ WriteField \/ EndSave \/ Save \/ Restart
    \/ \E c \in Commands : Update(c[1], c[2])

Spec == Init /\ [][Next]_vars

-----------------------------------------------------------------------------
(* A version that survives the loss of power means that every text of the  *)
(* settings does too, unless it may have been empty when the text was      *)
(* first saved: the version is written last.                               *)
VersionMeansTexts ==
    \A found \in durable : found["vers"] = Defaults["vers"] =>
        \A k \in Texts :
            found[k] # Missing \/ Defaults[k] = Empty \/ <<k, Empty>> \in Commands

(* Once a boot has found all the settings, so does every later one, and it *)
(* finds in each field what was last saved or what a save that did not end *)
(* stored: an interrupted save never costs a setting.                      *)
BootFindsAll ==
    pc = "off" /\ pc' # "off" /\ known = "loaded" =>
        Whole /\ \A k \in Keys : ram'[k] \in accepted[k]
LoadedSurvive == [][BootFindsAll]_vars

(* A boot after a save that succeeded finds what was saved.                *)
SavedSurvive ==
    [][pc = "off" /\ pc' # "off" /\ known # "none" =>
        \A k \in Keys : ram'[k] \in accepted[k]]_vars
=============================================================================
