---------------------------- MODULE Connectivity ----------------------------
(***************************************************************************)
(* What the Wi-Fi manager promises about reaching the device, with nothing *)
(* of how: after a start the device either tries the network its settings  *)
(* name or becomes an access point; it tries again after a failed or a     *)
(* lost connection, at most MaxRetry times in a row; then it becomes an    *)
(* access point, and stays one until it restarts.                          *)
(***************************************************************************)
EXTENDS Naturals

CONSTANT MaxRetry

VARIABLES
    phase,     \* "booted", "waiting", "trying", "online", "access_point"
    failed     \* connections failed or lost in a row

cvars == <<phase, failed>>

CInit == phase = "booted" /\ failed = 0

(* A first attempt, or another one while retries are left.                 *)
Try ==
    /\ phase = "booted" \/ (phase = "waiting" /\ failed <= MaxRetry)
    /\ phase' = "trying" /\ UNCHANGED failed

Succeed == phase = "trying" /\ phase' = "online" /\ failed' = 0

FailOrLose ==
    /\ phase \in {"trying", "online"}
    /\ phase' = "waiting" /\ failed' = failed + 1

(* No network is configured, or every retry failed.                        *)
GiveUp ==
    /\ phase = "booted" \/ (phase = "waiting" /\ failed = MaxRetry + 1)
    /\ phase' = "access_point" /\ UNCHANGED failed

CNext == Try \/ Succeed \/ FailOrLose \/ GiveUp

CSpec == CInit /\ [][CNext]_cvars

(* The device never rests while it is neither online nor an access point.  *)
CFairness == WF_cvars(Try \/ GiveUp) /\ WF_cvars(Succeed \/ (phase = "trying" /\ FailOrLose))

CFairSpec == CSpec /\ CFairness
=============================================================================
