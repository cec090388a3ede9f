----------------------------- MODULE OtaUpload ------------------------------
(***************************************************************************)
(* The update of the firmware: the handler of POST run?cmd=ota (http_app)  *)
(* receives an image piece by piece and gives the pieces to the updater    *)
(* (ota_http_updater), which writes them to the partition that is not      *)
(* running and makes that one the boot partition at the end.  The power    *)
(* may go at any moment, and the client may fall silent or go.             *)
(*                                                                         *)
(* The flash functions of the SDK are external: esp_ota_begin erases,      *)
(* esp_ota_write appends or fails, esp_ota_end refuses what is not a whole *)
(* image, and any of them may fail for reasons of its own.                 *)
(***************************************************************************)
EXTENDS Naturals

CONSTANT MaxPieces  \* bound: the pieces in which an upload arrives

ASSUME UploadAssumption == MaxPieces \in Nat

Partitions == {"ota_0", "ota_1"}

VARIABLES
    pc,        \* the handler: "idle", "receive", "answered" with success
    remaining, \* pieces to come
    good,      \* the pieces so far, none left out, begin a whole image
    checked,   \* image_header_was_checked
    client,    \* "sending", "silent", "gone"
    image,     \* what is in each partition: "whole", "partial"
    running,   \* the partition the firmware runs from
    boot       \* the partition the next boot starts

flashVars == <<image, running, boot>>
vars == <<pc, remaining, good, checked, client, image, running, boot>>

TypeOK ==
    /\ pc \in {"idle", "receive", "answered"}
    /\ remaining \in 0..MaxPieces
    /\ good \in BOOLEAN /\ checked \in BOOLEAN
    /\ client \in {"sending", "silent", "gone"}
    /\ image \in [Partitions -> {"whole", "partial"}]
    /\ running \in Partitions /\ boot \in Partitions

(* esp_ota_get_next_update_partition.                                      *)
Target == CHOOSE p \in Partitions : p # running

(* A device with one firmware, flashed over the cable.                     *)
Init ==
    /\ pc = "idle" /\ remaining = 0 /\ good = FALSE /\ checked = FALSE
    /\ client = "gone"
    /\ running \in Partitions /\ boot = running
    /\ image = [p \in Partitions |-> IF p = running THEN "whole" ELSE "partial"]

-----------------------------------------------------------------------------
(* The handler and ota_http_updater_start; malloc may fail.                *)
StartUpload ==
    /\ pc = "idle" /\ pc' = "receive"
    /\ client' = "sending"
    /\ remaining' \in 0..MaxPieces /\ good' \in BOOLEAN
    /\ checked' = FALSE
    /\ UNCHANGED flashVars

Fail == pc' = "idle" /\ client' = "gone" /\ UNCHANGED <<remaining, good>>

(* esp_ota_begin erases the target before the first piece is written.      *)
Erased == [image EXCEPT ![Target] = "partial"]

(* ota_http_updater_write of a piece that is longer than a header: the     *)
(* first one opens the target.                                             *)
WritePiece ==
    /\ checked' = TRUE
    /\ remaining' = remaining - 1
    /\ image' = [image EXCEPT ![Target] =
                    IF remaining = 1 /\ good THEN "whole" ELSE "partial"]
    /\ UNCHANGED <<pc, good, client>>

WriteFails ==
    /\ checked' = TRUE
    /\ image' \in {image, Erased}
    /\ Fail

(* A first piece that is not longer than a header: the err it returns was  *)
(* never set; the piece is lost or the upload fails.                       *)
TooShort ==
    /\ ~checked
    /\ UNCHANGED <<checked, image>>
    /\ \/ Fail
       \/ remaining' = remaining - 1 /\ good' = FALSE /\ UNCHANGED <<pc, client>>

ReceivePiece ==
    /\ client = "sending"
    /\ WritePiece \/ WriteFails \/ TooShort

(* httpd_req_recv times out or fails.  The negative result is stored in a  *)
(* size_t, is not noticed, and is the length of a write, which fails.      *)
(* Fault: the retry that the comment on HTTPD_SOCK_ERR_TIMEOUT announces.  *)
TimeoutRetried == client = "silent" /\ UNCHANGED <<pc, remaining, good, checked, client, image>>
Timeout        == client # "gone" /\ WriteFails

ConnectionClosed == client = "gone" /\ UNCHANGED <<checked, image>> /\ Fail

More == remaining > 0

Receive ==
    /\ pc = "receive" /\ More
    /\ ReceivePiece \/ Timeout \/ ConnectionClosed
    /\ UNCHANGED <<running, boot>>

(* esp_ota_end accepts a whole image that this upload has written.  Fault: *)
(* its result is not looked at.                                            *)
EndAcceptsAny == checked
EndAccepts    == checked /\ image[Target] = "whole"

(* ota_http_updater_stop and the answer of success, whatever its result.   *)
(* Fault: the handler returns without a restart.                           *)
StopNoRestart ==
    /\ pc = "receive" /\ remaining = 0
    /\ pc' = "idle"
    /\ boot' = boot \/ (EndAccepts /\ boot' = Target)
    /\ UNCHANGED <<remaining, good, checked, client, image, running>>
Stop ==
    /\ pc = "receive" /\ remaining = 0
    /\ pc' = "answered"
    /\ boot' = boot \/ (EndAccepts /\ boot' = Target)
    /\ UNCHANGED <<remaining, good, checked, client, image, running>>

-----------------------------------------------------------------------------
Booted ==
    /\ pc' = "idle" /\ running' = boot /\ checked' = FALSE
    /\ client' = "gone" /\ remaining' = 0 /\ good' = FALSE
    /\ UNCHANGED <<image, boot>>

(* esp_restart, five seconds after the answer.                             *)
Restart == pc = "answered" /\ Booted

(* The power goes, or a write of a length that was an error crashes.       *)
PowerLoss == Booted

(* External: the client stops sending, or closes its connection.           *)
ClientStops ==
    /\ pc = "receive"
    /\ \/ client = "sending" /\ client' \in {"silent", "gone"}
       \/ client = "silent" /\ client' = "gone"
    /\ UNCHANGED <<pc, remaining, good, checked, flashVars>>

Handler == Receive \/ Stop \/ Restart

Next == StartUpload \/ Handler \/ PowerLoss \/ ClientStops

Spec == Init /\ [][Next]_vars

(* The task of the web server runs, and its recv times out.                *)
FairSpec == Spec /\ WF_vars(Handler)

-----------------------------------------------------------------------------
(* Whenever the power goes, the next boot finds a whole image: the boot    *)
(* partition changes only to an image that is complete, and neither it nor *)
(* the partition that runs is written to (ota_http_updater).               *)
BootsWhole == image[boot] = "whole" /\ image[running] = "whole"

(* An upload that does not end with the answer of success changes neither  *)
(* what runs nor what boots next.                                          *)
FailureChangesNothing == pc # "answered" => boot = running

(* Both, in every state in which the power may go: the device boots, and   *)
(* what it was until an upload has been answered with success (ota_http_-  *)
(* updater, http_server_post_handler).                                     *)
AlwaysBootable == BootsWhole /\ FailureChangesNothing

(* Nothing less than the promise of FirmwareUpdate: the running partition  *)
(* is never written to, the next one to boot is selected only when it is   *)
(* whole, and no later upload touches it before the device has booted from *)
(* it (ota_http_updater, http_server_post_handler).                        *)
Whole == {p \in Partitions : image[p] = "whole"}
Update == INSTANCE FirmwareUpdate WITH whole <- Whole
ImplementsUpdate == Update!FSpec

(* Every upload ends, whatever the client does: the only task of the web   *)
(* server is free again.                                                   *)
UploadEnds == pc = "receive" ~> pc # "receive"
=============================================================================
