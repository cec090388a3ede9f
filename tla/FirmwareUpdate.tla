--------------------------- MODULE FirmwareUpdate ---------------------------
(***************************************************************************)
(* What the update of the firmware promises, with nothing of uploads: the  *)
(* partition that runs is never written to; another one boots next from    *)
(* one moment to the next, when it holds a whole image; and from then on   *)
(* nothing is written until the device has booted from it.                 *)
(***************************************************************************)
CONSTANT Partitions

VARIABLES
    running,   \* the partition the firmware runs from
    boot,      \* the partition the next boot starts
    whole      \* the partitions that hold a whole image

fvars == <<running, boot, whole>>

FInit == running \in Partitions /\ boot = running /\ whole = {running}

Rewrite ==
    /\ boot = running
    /\ \E p \in Partitions \ {running} : whole' \in {whole \cup {p}, whole \ {p}}
    /\ UNCHANGED <<running, boot>>

Select ==
    /\ boot = running
    /\ boot' \in whole
    /\ UNCHANGED <<running, whole>>

Reboot == running' = boot /\ UNCHANGED <<boot, whole>>

FNext == Rewrite \/ Select \/ Reboot

FSpec == FInit /\ [][FNext]_fvars
=============================================================================
