------------------------------ MODULE MCRadios ------------------------------
(* A call that sets radios and one that reads them or sets them too, on a  *)
(* host with Wi-Fi, switched on or blocked, and on one with Bluetooth only. *)
EXTENDS Radios

Setter == "setter"
Reader == "reader"
OneOfEach == [c \in {Setter, Reader} |->
                 IF c = Setter THEN {"airplane", "bluetooth", "interface"}
                 ELSE {"state", "wireless"}]

Adapter == "hci0"
Host(t, k, on, b, s, p) ==
    [types |-> t, killed |-> k, switch |-> [r \in {"wifi", "wwan"} |-> on],
     bluez |-> b, soft |-> s, power |-> [a \in {Adapter} |-> p]]

(* All on; Wi-Fi blocked and no BlueZ; Bluetooth only, blocked by rfkill.  *)
SomeHosts == {Host({"wifi"}, {}, TRUE, TRUE, FALSE, TRUE),
              Host({"wifi"}, {"wifi"}, FALSE, FALSE, FALSE, FALSE),
              Host({}, {}, TRUE, TRUE, TRUE, FALSE)}
=============================================================================
