----------------------------- MODULE MCSettings -----------------------------
(* Instances of the settings for TLC: the password of the access point is  *)
(* empty or not, and commands change the name and the password of the      *)
(* network.                                                                *)
EXTENDS Settings

MCValues == {"default", "user", "", "old"}

WithPassword    == [k \in Keys |-> "default"]
WithoutPassword == [k \in Keys |-> IF k \in {"ap_pswd", "nw_pswd"} THEN "" ELSE "default"]

OpenNetwork == {<<"nw_ssid", "user">>, <<"nw_pswd", "">>}
OtherName   == {<<"nw_ssid", "user">>}
OldFirmware == {"user"}
AnyGarbage  == MCValues
NoGarbage   == {"old"}
=============================================================================
