--------------------------- MODULE MCWifiManager ---------------------------
(* Instances of the Wi-Fi manager for TLC.                                 *)
EXTENDS WifiManagerProps, TLC

NoOrders   == {}
UserInterfaceOrders ==
    {Connect("USER"), Order("DISCONNECT_STA"), Order("START_WIFI_SCAN"),
     Order("STOP_AP")}
=============================================================================
