-------------------------- MODULE OtaUploadProofs ---------------------------
(***************************************************************************)
(* Proofs about the update of the firmware.  The inductive invariant is    *)
(* what the runs check, taken together: the boot partition is whole        *)
(* because, while an upload writes, it is the running one, and the upload  *)
(* writes only to the other.                                               *)
(***************************************************************************)
EXTENDS OtaUpload, TLAPS

LEMMA BoundNat == MaxPieces \in Nat
  BY UploadAssumption DEF UploadAssumption

(* An upload never writes to the partition the firmware runs from.         *)
LEMMA TargetNotRunning ==
    ASSUME running \in Partitions
    PROVE  Target \in Partitions /\ Target # running
  BY DEF Target, Partitions

(* Every variable keeps its type: above all, the handler never counts      *)
(* below zero pieces.                                                      *)
THEOREM TypeCorrect == Spec => []TypeOK
<1>1. Init => TypeOK
  <2> SUFFICES ASSUME Init PROVE TypeOK
    OBVIOUS
  <2>1. image \in [Partitions -> {"whole", "partial"}]
    BY DEF Init
  <2>2. remaining \in 0..MaxPieces
    BY BoundNat DEF Init
  <2>3. good \in BOOLEAN /\ checked \in BOOLEAN
    BY Zenon DEF Init
  <2> QED
    BY <2>1, <2>2, <2>3 DEF Init, TypeOK
<1>2. TypeOK /\ [Next]_vars => TypeOK'
  <2> SUFFICES ASSUME TypeOK, [Next]_vars PROVE TypeOK'
    OBVIOUS
  <2>0. Target \in Partitions
    BY TargetNotRunning DEF TypeOK
  <2>1. CASE StartUpload
    BY <2>1 DEF StartUpload, TypeOK, flashVars
  <2>2. CASE Receive
    <3>1. UNCHANGED <<running, boot>> /\ remaining > 0
      BY <2>2 DEF Receive, More
    <3>2. remaining \in Nat /\ remaining - 1 \in 0..MaxPieces
      BY <3>1, BoundNat DEF TypeOK
    <3>3. CASE WritePiece
      BY <3>1, <3>2, <3>3, <2>0 DEF WritePiece, TypeOK
    <3>4. CASE WriteFails
      BY <3>1, <3>4, <2>0 DEF WriteFails, Fail, Erased, TypeOK
    <3>5. CASE TooShort
      BY <3>1, <3>2, <3>5 DEF TooShort, Fail, TypeOK
    <3>6. CASE ConnectionClosed
      BY <3>1, <3>6 DEF ConnectionClosed, Fail, TypeOK
    <3> QED
      BY <2>2, <3>3, <3>4, <3>5, <3>6 DEF Receive, ReceivePiece, Timeout
  <2>3. CASE Stop
    BY <2>3, <2>0 DEF Stop, TypeOK
  <2>4. CASE Booted
    <3>1. remaining' \in 0..MaxPieces
      BY <2>4, BoundNat DEF Booted
    <3>2. good' \in BOOLEAN /\ checked' \in BOOLEAN
      BY <2>4, Zenon DEF Booted
    <3> QED
      BY <2>4, <3>1, <3>2 DEF Booted, TypeOK
  <2>5. CASE ClientStops
    BY <2>5 DEF ClientStops, TypeOK, flashVars
  <2>6. CASE UNCHANGED vars
    BY <2>6 DEF vars, TypeOK
  <2> QED
    BY <2>1, <2>2, <2>3, <2>4, <2>5, <2>6 DEF Next, Handler, Restart, PowerLoss
<1> QED
  BY <1>1, <1>2, PTL DEF Spec

-----------------------------------------------------------------------------
LEMMA InitWhole == Init => AlwaysBootable
  BY DEF Init, AlwaysBootable, BootsWhole, FailureChangesNothing, Partitions

(* The steps of an upload: only the target is written to, and it is not    *)
(* what boots.                                                             *)
LEMMA ReceiveKeepsWhole ==
    ASSUME TypeOK, AlwaysBootable, Receive
    PROVE  AlwaysBootable'
<1>1. boot = running /\ boot' = boot /\ running' = running
  BY DEF Receive, AlwaysBootable, FailureChangesNothing
<1>2. image'[running] = image[running]
  <2>1. running \in Partitions /\ Target # running
    BY TargetNotRunning DEF TypeOK
  <2>2. image \in [Partitions -> {"whole", "partial"}]
    BY DEF TypeOK
  <2>3. \/ image' = image
        \/ \E v : image' = [image EXCEPT ![Target] = v]
    BY DEF Receive, ReceivePiece, Timeout, WritePiece, WriteFails, TooShort,
           ConnectionClosed, Erased
  <2> QED
    BY <2>1, <2>2, <2>3
<1> QED
  BY <1>1, <1>2 DEF AlwaysBootable, BootsWhole, FailureChangesNothing

LEMMA StepWhole == TypeOK /\ AlwaysBootable /\ [Next]_vars => AlwaysBootable'
<1> SUFFICES ASSUME TypeOK, AlwaysBootable, [Next]_vars PROVE AlwaysBootable'
  OBVIOUS
<1> USE DEF AlwaysBootable, BootsWhole, FailureChangesNothing
<1>1. CASE StartUpload
  BY <1>1 DEF StartUpload, flashVars
<1>2. CASE Receive
  BY <1>2, ReceiveKeepsWhole
<1>3. CASE Stop
  BY <1>3 DEF Stop, EndAccepts
<1>4. CASE Booted
  BY <1>4 DEF Booted
<1>5. CASE ClientStops
  BY <1>5 DEF ClientStops, flashVars
<1>6. CASE UNCHANGED vars
  BY <1>6 DEF vars
<1> QED
  BY <1>1, <1>2, <1>3, <1>4, <1>5, <1>6 DEF Next, Handler, Restart, PowerLoss

(* However many pieces, whenever the power goes and whatever fails, the    *)
(* next boot finds a whole image, and only an upload that ended with the   *)
(* answer of success changes which.                                        *)
THEOREM NeverBroken == Spec => []AlwaysBootable
  BY InitWhole, StepWhole, TypeCorrect, PTL DEF Spec

-----------------------------------------------------------------------------
(* The refinement.  A piece that is written is a Rewrite of the target,    *)
(* the end of an upload a Select, and a restart or a loss of power a       *)
(* Reboot; all else changes nothing of what FirmwareUpdate sees.           *)

LEMMA InitMaps == Init => Update!FInit
<1> SUFFICES ASSUME Init PROVE Update!FInit
  OBVIOUS
<1>1. running \in Partitions /\ boot = running
  BY DEF Init
<1>2. Whole = {running}
  <2>1. \A p \in Partitions : image[p] = "whole" <=> p = running
    BY DEF Init
  <2> QED
    BY <1>1, <2>1 DEF Whole
<1> QED
  BY <1>1, <1>2 DEF Update!FInit

LEMMA StutterMaps ==
    ASSUME UNCHANGED flashVars
    PROVE  UNCHANGED Update!fvars
  BY DEF flashVars, Update!fvars, Whole

(* Whatever an upload does to its target makes that whole or not.          *)
LEMMA ReceiveMaps ==
    ASSUME TypeOK, FailureChangesNothing, Receive
    PROVE  [Update!FNext]_(Update!fvars)
<1>1. boot = running /\ boot' = boot /\ running' = running
  BY DEF Receive, FailureChangesNothing
<1>2. Target \in Partitions \ {running}
  BY TargetNotRunning DEF TypeOK
<1>3. CASE image' = image
  BY <1>1, <1>3, StutterMaps DEF flashVars
<1>4. CASE \E v : image' = [image EXCEPT ![Target] = v]
  <2>1. PICK v : image' = [image EXCEPT ![Target] = v]
    BY <1>4
  <2>2. \A p \in Partitions : image'[p] = IF p = Target THEN v ELSE image[p]
    BY <2>1 DEF TypeOK
  <2>3. Whole' \in {Whole \cup {Target}, Whole \ {Target}}
    BY <1>2, <2>2 DEF Whole
  <2>4. Update!Rewrite
    BY <1>1, <1>2, <2>3 DEF Update!Rewrite
  <2> QED
    BY <2>4 DEF Update!FNext
<1> QED
  BY <1>3, <1>4 DEF Receive, ReceivePiece, Timeout, WritePiece, WriteFails,
                    TooShort, ConnectionClosed, Erased

LEMMA StepMaps ==
    ASSUME TypeOK, FailureChangesNothing, [Next]_vars
    PROVE  [Update!FNext]_(Update!fvars)
<1>1. CASE StartUpload
  BY <1>1, StutterMaps DEF StartUpload
<1>2. CASE Receive
  BY <1>2, ReceiveMaps
<1>3. CASE Stop
  <2>1. boot = running /\ UNCHANGED <<image, running>>
    BY <1>3 DEF Stop, FailureChangesNothing
  <2>2. Whole' = Whole
    BY <2>1 DEF Whole
  <2>3. CASE boot' = boot
    BY <2>1, <2>3, StutterMaps DEF flashVars
  <2>4. CASE EndAccepts /\ boot' = Target
    <3>1. boot' \in Whole
      BY <2>4, TargetNotRunning DEF EndAccepts, Whole, TypeOK
    <3>2. Update!Select
      BY <2>1, <2>2, <3>1 DEF Update!Select
    <3> QED
      BY <3>2 DEF Update!FNext
  <2> QED
    BY <1>3, <2>3, <2>4 DEF Stop
<1>4. CASE Booted
  <2>1. Update!Reboot
    BY <1>4 DEF Booted, Update!Reboot, Whole
  <2> QED
    BY <2>1 DEF Update!FNext
<1>5. CASE ClientStops
  BY <1>5, StutterMaps DEF ClientStops
<1>6. CASE UNCHANGED vars
  BY <1>6, StutterMaps DEF vars, flashVars
<1> QED
  BY <1>1, <1>2, <1>3, <1>4, <1>5, <1>6 DEF Next, Handler, Restart, PowerLoss

(* The handler and the updater do nothing FirmwareUpdate does not allow:   *)
(* what runs is never written to, and what has been selected is not        *)
(* touched before the device has booted from it.                           *)
THEOREM UpdateRefined == Spec => ImplementsUpdate
<1>1. TypeOK /\ FailureChangesNothing /\ [Next]_vars => [Update!FNext]_(Update!fvars)
  BY StepMaps
<1>2. AlwaysBootable => FailureChangesNothing
  BY DEF AlwaysBootable
<1> QED
  BY <1>1, <1>2, InitMaps, TypeCorrect, NeverBroken, PTL DEF Spec, ImplementsUpdate, Update!FSpec
=============================================================================
