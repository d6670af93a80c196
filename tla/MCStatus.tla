------------------------------ MODULE MCStatus ------------------------------
(* Two radios and an Ethernet card; two access points of one network with  *)
(* different security on the first radio, one of another network and a     *)
(* hidden one on the second.                                               *)
EXTENDS Status, TLC

Info(d, s, str, f, w, r) ==
    [dev |-> d, ssid |-> s, strength |-> str, flags |-> f, wpa |-> w, rsn |-> r]
FourAps ==
    << Info("wlan0", "home", 1, {}, {}, {}),
       Info("wlan0", "home", 2, {"privacy"}, {}, {"psk", "ccmp"}),
       Info("wlan1", "home", 2, {"privacy"}, {"psk", "tkip"}, {"sae"}),
       Info("wlan1", "hidden", 1, {}, {}, {"suite_b"}) >>
TwoRadios == <<"wlan0", "wlan1">>
OneCard == <<"eth0">>
SavedProfiles ==
    {[ssid |-> "home", dev |-> None, ap |-> None],
     [ssid |-> "home", dev |-> "wlan0", ap |-> None],
     [ssid |-> "home", dev |-> None, ap |-> 3]}
CONSTANTS office1, office2
TwoVpns == {office1, office2}
TwoNames == [v \in TwoVpns |-> "office"]
Symmetry == Permutations(TwoVpns)
AllOps ==
    {[name |-> n, arg |-> None] :
        n \in {"networks", "active", "current", "ssid", "snapshot", "scan", "devices",
               "wifi_devices", "wired_devices",
               "saved", "vpns", "active_vpns"}}
    \union {[name |-> n, arg |-> "wlan1"] : n \in {"networks", "scan"}}
    \union {[name |-> "vpn_info", arg |-> n] : n \in {"office", "lab"}}
    \union {[name |-> "details", arg |-> [ssid |-> "home", strength |-> 2]]}
=============================================================================
