----------------------------- MODULE MCProfiles -----------------------------
(* Two or three calls about a VPN and a Bluetooth device of the same name, *)
(* about a wired connection, and about the settings of a profile.          *)
EXTENDS Profiles

Do(op, kind, name) == [op |-> op, name |-> name, path |-> None, key |-> None, kind |-> kind]
At(op, path, key) == [op |-> op, name |-> None, path |-> path, key |-> key, kind |-> None]
Rename(path, name) ==
    [op |-> "update", name |-> name, path |-> path, key |-> "id", kind |-> None]

Connects == {Do("connect_vpn", "wireguard", "corp"), Do("import_ovpn", "openvpn", "corp"),
             Do("connect_vpn_by_id", None, "corp"), At("connect_vpn_by_uuid", "p1", None),
             Do("connect_bluetooth", "bluetooth", "corp"), Do("connect_wired", "wired", "eth0"),
             Do("add_and_activate", "wired", "eth0")}
Others == {Do("disconnect_vpn", None, "corp"), At("disconnect_vpn_by_uuid", "p1", None),
           Do("forget_vpn", None, "corp"), Do("forget_bluetooth", "bluetooth", "corp"),
           At("delete", "p1", None), Do("add", "openvpn", "corp"),
           Do("import_ovpn", "openvpn", "corp"), Do("connect_vpn", "wireguard", "corp")}
Updates == {At("update", "p1", "k1"), At("update", "p1", None)}
Update2 == {Rename("p1", "corp"), Rename("p1", "eth0")}

ConnectsAndOthers ==
    [c \in {"c1", "c2", "c3"} |->
        CASE c = "c1" -> Connects [] c = "c2" -> Others \cup Updates [] c = "c3" -> Update2]
ImportAndForget ==
    [c \in {"c1", "c2", "c3"} |->
        CASE c = "c1" -> {Do("import_ovpn", "openvpn", "corp")}
          [] c = "c2" -> {Do("forget_vpn", None, "corp")} [] c = "c3" -> {}]

With(kind, id, certificates) ==
    [NoProfile EXCEPT !.kind = kind, !.id = id, !.certs = certificates]
Start(f) == [p \in Paths |-> IF p \in DOMAIN f THEN f[p] ELSE NoProfile]
SomeProfiles ==
    {Start(<<>>),
     Start([p \in {"p1"} |-> With("openvpn", "corp", "corp")]),
     Start([p \in {"p1", "p2"} |-> IF p = "p1" THEN With("openvpn", "corp", "corp")
                                   ELSE With("bluetooth", "corp", None)]),
     Start([p \in {"p1"} |-> [With("wired", "eth0", None) EXCEPT !.unsaved = TRUE]])}
=============================================================================
