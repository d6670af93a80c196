------------------------------ MODULE Builders ------------------------------
(* Connection profiles as callers make them: the options and builders of   *)
(* api/models and api/builders, called in any order, the validation that    *)
(* connect and connect_vpn run first (util/validation.rs), and the readers  *)
(* that turn a stored profile back into a summary (core/saved_connection.rs *)
(* and core/vpn.rs).                                                        *)
(*                                                                          *)
(* A settings dictionary is a function from section names to functions from *)
(* keys to values, as it is handed to NetworkManager; a dash in a key is     *)
(* written as an underscore.                                                *)
EXTENDS Integers, Sequences, SequencesExt, Option

CONSTANTS
    Addresses,  \* addresses in CIDR notation: [family, prefix, lax], lax when
                \* an octet is one that only the validator's parser takes
    Servers,    \* DNS server addresses: [family, lax]
    Peers,      \* WireGuard peers: [key, gateway, allowed, keepalive]
    MaxCalls,   \* how many calls on the options' and WireGuard's builders
    MaxSets     \* how many calls on finished options and on the Wi-Fi builder

ASSUME BuildersAssumption ==
    /\ \A a \in Addresses : a.family \in {"ipv4", "ipv6"}
    /\ \A p \in Peers :
          p = [key |-> p.key, gateway |-> p.gateway, allowed |-> p.allowed,
               keepalive |-> p.keepalive]

VARIABLES
    stage,      \* start, eap, options, wifi, credentials, wireguard, built,
                \* refused, panicked
    calls,      \* builder calls made
    eap,        \* EapOptionsBuilder, then EapOptions (wifi.rs:495, 227)
    byHand,     \* a public field of EapOptions was assigned
    wifi,       \* WifiConnectionBuilder (wifi_builder.rs:114)
    asked,      \* the security the caller asked for last
    wg,         \* VpnCredentialsBuilder, VpnCredentials, WireGuardBuilder
    checked,    \* the input has passed the validation
    settings    \* the dictionary that was built

vars == <<stage, calls, eap, byHand, wifi, asked, wg, checked, settings>>

WIRELESS == "802-11-wireless"
SECURITY == "802-11-wireless-security"
DOT1X == "802-1x"

-----------------------------------------------------------------------------
(* ConnectionBuilder.                                                       *)

With(s, name, value) ==
    [n \in DOMAIN s \cup {name} |-> IF n = name THEN value ELSE s[n]]
WithGiven(s, name, value) == IF value = None THEN s ELSE With(s, name, value)
Without(s, name) == [n \in DOMAIN s \ {name} |-> s[n]]
(* A key goes only into a section that is already there.                    *)
Put(s, name, key, value) ==
    IF name \in DOMAIN s THEN With(s, name, With(s[name], key, value)) ELSE s

New(type, id) == [connection |-> [type |-> type, id |-> id, uuid |-> "random"]]
Options(s, autoconnect) == Put(s, "connection", "autoconnect", autoconnect)
(* Choosing a method starts the family's section anew.                      *)
Method(s, family, method) == With(s, family, [method |-> method])
Manual(s, family, address) == With(s, family, [method |-> "manual", address |-> address])
Dns(s, family, servers) == Put(s, family, "dns", servers)

-----------------------------------------------------------------------------
(* EAP options. Every certificate and key is a path, a blob or missing.     *)

Certs == {"ca", "key", "client"}
Forms == {"path", "blob"}
NoCert == [path |-> None, blob |-> None]
Paths == {"file", "plain"}      \* with and without file://
Given(form) == IF form = "path" THEN Paths ELSE {"data"}

EmptyEap ==
    [identity |-> None, password |-> None, method |-> None, phase2 |-> None,
     cert |-> [c \in Certs |-> NoCert]]

(* One field alone, as an assignment to it does; a setter with this fault   *)
(* would leave the other form as it was.                                    *)
Assign(e, c, form, v) == [e EXCEPT !.cert[c][form] = v]

(* The setters of a certificate take the other form back.                   *)
Give(e, c, form, v) == [e EXCEPT !.cert[c] = [NoCert EXCEPT ![form] = v]]

WithPassword == {"peap", "ttls"}
Both(c) == None \notin {c.path, c.blob}

EapComplete(e) ==
    /\ \A c \in Certs : ~Both(e.cert[c])
    /\ e.method = "tls" => NoCert \notin {e.cert["key"], e.cert["client"]}
    /\ None \notin {e.identity, e.method}
    /\ e.method \in WithPassword => None \notin {e.password, e.phase2}

EapOptions(e) ==
    IF e.method \in WithPassword THEN e
    ELSE [e EXCEPT !.password = "", !.phase2 = "mschapv2"]

Sound(c) == ~Both(c) /\ c.path \in {None, "file"}

ValidEap(o) ==
    /\ o.identity # ""
    /\ o.method \in WithPassword => o.password # ""
    /\ o.method = "tls" =>
          \A c \in {o.cert["key"], o.cert["client"]} : c # NoCert /\ Sound(c)
    /\ Sound(o.cert["ca"])

(* Names and SSIDs: empty, blank, a usual one, one of more than 32 bytes and *)
(* one of more than 255.                                                    *)
Names == {"", " ", "net", "over 32", "over 255"}
ValidSsid(ssid) == ssid \notin {"", " ", "over 32", "over 255"}
ValidName(name) == name \notin {"", " ", "over 255"}

ValidPsk(psk) == psk # "short"
SuiteB == "wpa-eap-suite-b-192"
ValidSecurity(sec, o) ==
    CASE sec.mgmt = "open" -> TRUE
      [] sec.mgmt = "wpa-psk" -> ValidPsk(sec.psk)
      [] sec.mgmt = "wpa-eap" -> ValidEap(o)
      [] sec.mgmt = SuiteB -> o.method = "tls" /\ ValidEap(o)

-----------------------------------------------------------------------------
(* WifiConnectionBuilder.                                                   *)

NewWifi == [sections |-> New(WIRELESS, "net"), linked |-> FALSE, hidden |-> None]

Open(w) ==
    [w EXCEPT !.sections = Without(Without(@, SECURITY), DOT1X), !.linked = FALSE]

(* Fault: a passphrase leaves an earlier 802.1X section in place.           *)
WpaPskKeeps8021x(w, psk) ==
    [w EXCEPT !.sections =
                 With(@, SECURITY, [key_mgmt |-> "wpa-psk", psk |-> psk]),
              !.linked = TRUE]

WpaPsk(w, psk) ==
    [w EXCEPT !.sections =
                 With(Without(@, DOT1X), SECURITY, [key_mgmt |-> "wpa-psk", psk |-> psk]),
              !.linked = TRUE]

(* path_or_blob panics on a certificate in both forms, if it is looked at.  *)
Panics(o) ==
    \/ Both(o.cert["ca"])
    \/ o.method = "tls" /\ \E c \in {"key", "client"} : Both(o.cert[c])

WithCert(s, key, c) == IF c = NoCert THEN s ELSE With(s, key, c)
Dot1x(o) ==
    LET known == WithCert([eap |-> <<o.method>>, identity |-> o.identity], "ca_cert", o.cert["ca"])
    IN IF o.method = "tls"
       THEN WithCert(WithCert(known, "private_key", o.cert["key"]), "client_cert", o.cert["client"])
       ELSE With(With(known, "password", o.password), "phase2_auth", o.phase2)

WpaEap(w, mgmt, o) ==
    [w EXCEPT !.sections = With(With(@, SECURITY, [key_mgmt |-> mgmt]), DOT1X, Dot1x(o)),
              !.linked = TRUE]

Secure(w, sec, o) ==
    CASE sec.mgmt = "open" -> Open(w)
      [] sec.mgmt = "wpa-psk" -> WpaPsk(w, sec.psk)
      [] OTHER -> WpaEap(w, sec.mgmt, o)

WifiSettings(w) ==
    LET wireless == WithGiven([ssid |-> "net", mode |-> "infrastructure"], "hidden", w.hidden)
    IN With(w.sections, WIRELESS, IF w.linked THEN With(wireless, "security", SECURITY) ELSE wireless)

(* build_wifi_connection.                                                   *)
BuildWifi(sec, o) ==
    LET based == [NewWifi EXCEPT !.sections =
                     Method(Method(Options(@, TRUE), "ipv4", "auto"), "ipv6", "auto")]
    IN WifiSettings(Secure(based, sec, o))

-----------------------------------------------------------------------------
(* WireGuard. The validation and the builder each have a parser of their    *)
(* own: the validation's takes octets like 010, the builder's keys that are  *)
(* only about as long as a key.                                             *)

Keys == {"exact", "near", "bad"}
Gateways == {"host:51820", "[v6]:51820", "v6:51820", "host:0", "host"}
IsGateway(g) == g \in {"host:51820", "[v6]:51820"}
Width(family) == IF family = "ipv4" THEN 32 ELSE 128
Fits(a) == a.prefix \in 0..Width(a.family)

NoWireGuard ==
    [name |-> None, gateway |-> None, key |-> None, address |-> None, peers |-> <<>>,
     dns |-> None, mtu |-> None]

CredentialsComplete(c) == None \notin {c.name, c.gateway, c.key, c.address} /\ c.peers # <<>>

ValidKeepalive(k) == k = None \/ k \in 1..65535
ValidMtu(m) == m = None \/ m \in 576..9000
ValidPeer(p) ==
    /\ p.key = "exact" /\ IsGateway(p.gateway)
    /\ p.allowed # <<>> /\ \A a \in ToSet(p.allowed) : Fits(a)
    /\ ValidKeepalive(p.keepalive)

(* Fault: validation takes any address that has a prefix.                   *)
ValidCredentialsAnyPrefix(c) ==
    /\ ValidName(c.name)
    /\ IsGateway(c.gateway) /\ c.key = "exact" /\ c.address.prefix # None
    /\ c.peers # <<>> /\ \A p \in ToSet(c.peers) : ValidPeer(p)
    /\ c.dns # <<>>
    /\ ValidMtu(c.mtu)

ValidCredentials(c) ==
    /\ ValidName(c.name)
    /\ IsGateway(c.gateway) /\ c.key = "exact" /\ Fits(c.address)
    /\ c.peers # <<>> /\ \A p \in ToSet(c.peers) : ValidPeer(p)
    /\ c.dns # <<>>
    /\ ValidMtu(c.mtu)

(* What build refuses.                                                      *)
Buildable(c) ==
    /\ None \notin {c.key, c.address} /\ c.peers # <<>>
    /\ c.key \in {"exact", "near"}
    /\ Fits(c.address) /\ ~c.address.lax
    /\ \A p \in ToSet(c.peers) :
          p.key \in {"exact", "near"} /\ IsGateway(p.gateway) /\ p.allowed # <<>>
    /\ c.dns # None => \A d \in ToSet(c.dns) : ~d.lax

PeerEntry(p) ==
    WithGiven([public_key |-> p.key, endpoint |-> p.gateway, allowed_ips |-> p.allowed],
              "persistent_keepalive", p.keepalive)

WireGuardSection(c) ==
    WithGiven([private_key |-> c.key, peers |-> [i \in 1..Len(c.peers) |-> PeerEntry(c.peers[i])]],
              "mtu", c.mtu)

Addressed(s, address) ==
    IF address.family = "ipv4"
    THEN Method(Manual(s, "ipv4", address), "ipv6", "ignore")
    ELSE Manual(Method(s, "ipv4", "disabled"), "ipv6", address)

OfFamily(servers, family) == SelectSeq(servers, LAMBDA d : d.family = family)
Served(s, family, servers) ==
    LET own == OfFamily(servers, family) IN IF own = <<>> THEN s ELSE Dns(s, family, own)

(* The interface is named after the first ten letters of the name, and the   *)
(* UUID is derived from all of it.                                          *)
Identified(s, name) ==
    Put(Put(s, "connection", "interface_name", <<"wg", name>>), "connection", "uuid", <<"wg", name>>)

WireGuardSettings(c, s) ==
    LET servers == IF c.dns = None THEN <<>> ELSE c.dns
    IN Served(Served(Addressed(With(Identified(s, c.name), "wireguard", WireGuardSection(c)), c.address),
                     "ipv4", servers), "ipv6", servers)

-----------------------------------------------------------------------------
(* The other profiles.                                                      *)

Automatic(s) == Method(Method(s, "ipv4", "auto"), "ipv6", "auto")
EthernetSettings == Automatic(With(Options(New("802-3-ethernet", "Wired"), TRUE), "802-3-ethernet", <<>>))
BluetoothSettings(role) ==
    Automatic(With(Options(New("bluetooth", "phone"), TRUE), "bluetooth", [bdaddr |-> "addr", type |-> role]))
ValidVlan(id, parent) == id \in 1..4094 /\ parent # ""
VlanSettings(id, parent) ==
    Automatic(With(Put(Options(New("vlan", "parent.id"), TRUE), "connection", "interface_name", "parent.id"),
              "vlan", [parent |-> parent, id |-> id]))

-----------------------------------------------------------------------------
(* Reading a stored profile.                                                *)

Section(s, name) == IF name \in DOMAIN s THEN s[name] ELSE <<>>
Key(section, key, default) == IF key \in DOMAIN section THEN section[key] ELSE default

KeyMgmt(mgmt, hasEap) ==
    CASE mgmt = "wpa-psk" -> "WpaPsk"
      [] mgmt \in {"wpa-eap", SuiteB} -> "WpaEap"
      [] mgmt = "" /\ hasEap -> "WpaEap"
      [] OTHER -> "None"

WifiSecuritySummary(s) ==
    LET sec == Section(s, SECURITY)
        eap8021x == Section(s, DOT1X)
    IN [mgmt |-> KeyMgmt(Key(sec, "key_mgmt", ""), eap8021x # <<>>),
        psk |-> "psk" \in DOMAIN sec, eap |-> Key(eap8021x, "eap", <<>>)]

WifiSummary(s) ==
    [hidden |-> Key(Section(s, WIRELESS), "hidden", FALSE),
     security |->
        IF \/ "security" \in DOMAIN Section(s, WIRELESS)
           \/ SECURITY \in DOMAIN s
           \/ DOT1X \in DOMAIN s
        THEN WifiSecuritySummary(s) ELSE None]

WireGuardSummary(s) ==
    LET peers == Key(Section(s, "wireguard"), "peers", <<>>)
    IN [count |-> Len(peers),
        endpoint |-> IF peers = <<>> THEN None ELSE Key(peers[1], "endpoint", None)]

(* The first peer, as the list of VPNs and the details of one show it.      *)
FirstPeer(s) ==
    LET peers == Key(Section(s, "wireguard"), "peers", <<>>)
    IN IF peers = <<>> THEN None
       ELSE [key |-> Key(peers[1], "public_key", None), gateway |-> Key(peers[1], "endpoint", None),
             allowed |-> Key(peers[1], "allowed_ips", <<>>),
             keepalive |-> Key(peers[1], "persistent_keepalive", None)]

-----------------------------------------------------------------------------
Init ==
    /\ stage = "start" /\ calls = 0
    /\ eap = EmptyEap /\ byHand = FALSE
    /\ wifi = NewWifi /\ asked = [mgmt |-> "open", psk |-> ""]
    /\ wg = NoWireGuard /\ checked = FALSE /\ settings = <<>>

Call ==
    /\ calls < (IF stage \in {"options", "wifi"} THEN MaxSets ELSE MaxCalls)
    /\ calls' = calls + 1
Finish(s) == stage' = s /\ calls' = 0

(* EapOptions::builder() and its setters.                                   *)
SetEap ==
    /\ stage \in {"start", "eap"} /\ Call /\ stage' = "eap"
    /\ \/ \E i \in {"", "user"} : eap' = [eap EXCEPT !.identity = i]
       \/ \E p \in {"", "secret"} : eap' = [eap EXCEPT !.password = p]
       \/ \E m \in {"peap", "ttls", "tls"} : eap' = [eap EXCEPT !.method = m]
       \/ \E p \in {"mschapv2", "pap"} : eap' = [eap EXCEPT !.phase2 = p]
       \/ \E c \in Certs, f \in Forms : \E v \in Given(f) : eap' = Give(eap, c, f, v)
    /\ UNCHANGED <<byHand, wifi, asked, wg, checked, settings>>

BuildEap ==
    /\ stage = "eap"
    /\ IF EapComplete(eap)
       THEN eap' = EapOptions(eap) /\ Finish("options")
       ELSE UNCHANGED eap /\ Finish("refused")
    /\ UNCHANGED <<byHand, wifi, asked, wg, checked, settings>>

(* EapOptions::new, new_tls_path and new_tls_blob.                          *)
NewOptions ==
    /\ stage = "start"
    /\ \/ \E i \in {"", "user"}, p \in {"", "secret"} :
             eap' = [EmptyEap EXCEPT !.identity = i, !.password = p,
                                     !.method = "peap", !.phase2 = "mschapv2"]
       \/ \E f \in Forms : \E k, c \in Given(f) :
             eap' = [Give(Give(EmptyEap, "key", f, k), "client", f, c) EXCEPT
                        !.identity = "user", !.password = "", !.method = "tls",
                        !.phase2 = "mschapv2"]
    /\ Finish("options")
    /\ UNCHANGED <<byHand, wifi, asked, wg, checked, settings>>

(* The with_ setters of EapOptions.                                         *)
SetOptions ==
    /\ stage = "options" /\ Call
    /\ \/ \E f \in Forms : \E v \in Given(f) : eap' = Give(eap, "ca", f, v)
       \/ \E m \in {"peap", "ttls", "tls"} : eap' = [eap EXCEPT !.method = m]
       \/ \E p \in {"mschapv2", "pap"} : eap' = [eap EXCEPT !.phase2 = p]
    /\ UNCHANGED <<stage, byHand, wifi, asked, wg, checked, settings>>

(* The fields are public: a caller may assign one.                          *)
AssignField ==
    /\ stage = "options" /\ Call /\ byHand' = TRUE
    /\ \E c \in Certs, f \in Forms : \E v \in Given(f) : eap' = Assign(eap, c, f, v)
    /\ UNCHANGED <<stage, wifi, asked, wg, checked, settings>>

Securities ==
    {[mgmt |-> "open", psk |-> ""]}
    \cup [mgmt : {"wpa-psk"}, psk : {"", "short", "secret12"}]
    \cup (IF eap.method = None THEN {} ELSE [mgmt : {"wpa-eap", SuiteB}, psk : {""}])

StartWifi ==
    /\ stage \in {"start", "options"} /\ Finish("wifi")
    /\ wifi' = NewWifi /\ asked' = [mgmt |-> "open", psk |-> ""]
    /\ UNCHANGED <<eap, byHand, wg, checked, settings>>

(* open, wpa_psk, wpa_eap and wpa3_eap_192_bit, which validate nothing.     *)
Ask ==
    /\ stage = "wifi" /\ Call
    /\ \E sec \in Securities :
          IF sec.mgmt \in {"wpa-eap", SuiteB} /\ Panics(eap)
          THEN stage' = "panicked" /\ asked' = sec /\ UNCHANGED wifi
          ELSE UNCHANGED stage /\ asked' = sec /\ wifi' = Secure(wifi, sec, eap)
    /\ UNCHANGED <<eap, byHand, wg, checked, settings>>

SetWifi ==
    /\ stage = "wifi" /\ Call
    /\ \/ \E h \in BOOLEAN : wifi' = [wifi EXCEPT !.hidden = h]
       \/ \E a \in BOOLEAN : wifi' = [wifi EXCEPT !.sections = Options(@, a)]
       \/ \E m \in {"auto", "shared"} : wifi' = [wifi EXCEPT !.sections = Method(@, "ipv4", m)]
       \/ \E m \in {"auto", "ignore"} : wifi' = [wifi EXCEPT !.sections = Method(@, "ipv6", m)]
    /\ UNCHANGED <<stage, eap, byHand, asked, wg, checked, settings>>

BuildWifiDirectly ==
    /\ stage = "wifi"
    /\ settings' = WifiSettings(wifi) /\ Finish("built")
    /\ UNCHANGED <<eap, byHand, wifi, asked, wg, checked>>

(* connect: validation, then build_wifi_connection. The profile does not     *)
(* keep the SSID here: nothing after the validation depends on it.          *)
ConnectWifi ==
    /\ stage \in {"start", "options"}
    /\ \E ssid \in Names, sec \in Securities :
          /\ asked' = sec
          /\ checked' = (ValidSsid(ssid) /\ ValidSecurity(sec, eap))
          /\ IF ~checked' THEN Finish("refused") /\ UNCHANGED settings
             ELSE IF sec.mgmt \in {"wpa-eap", SuiteB} /\ Panics(eap)
             THEN Finish("panicked") /\ UNCHANGED settings
             ELSE Finish("built") /\ settings' = BuildWifi(sec, eap)
    /\ UNCHANGED <<eap, byHand, wifi, wg>>

(* The setters that both builders of a WireGuard profile have.              *)
SetTunnel ==
    \/ \E k \in Keys : wg' = [wg EXCEPT !.key = k]
    \/ \E a \in Addresses : wg' = [wg EXCEPT !.address = a]
    \/ \E p \in Peers : wg' = [wg EXCEPT !.peers = Append(@, p)]
    \/ \E d \in {<<>>} \cup {<<s>> : s \in Servers} \cup (Servers \X Servers) :
          wg' = [wg EXCEPT !.dns = d]
    \/ \E m \in {575, 1420, 9001} : wg' = [wg EXCEPT !.mtu = m]

(* VpnCredentialsBuilder; peers replaces the peers added before.            *)
SetCredentials ==
    /\ stage \in {"start", "credentials"} /\ Call /\ stage' = "credentials"
    /\ \/ SetTunnel
       \/ \E g \in Gateways : wg' = [wg EXCEPT !.gateway = g]
       \/ \E p \in Peers : wg' = [wg EXCEPT !.peers = <<p>>]
    /\ UNCHANGED <<eap, byHand, wifi, asked, checked, settings>>

(* WireGuardBuilder.                                                        *)
SetWireGuard ==
    /\ stage \in {"start", "wireguard"} /\ Call /\ stage' = "wireguard"
    /\ SetTunnel
    /\ UNCHANGED <<eap, byHand, wifi, asked, checked, settings>>

(* WireGuardBuilder::build, under any name, with or without autoconnect.     *)
BuildWireGuard ==
    /\ stage = "wireguard"
    /\ \E name \in Names : wg' = [wg EXCEPT !.name = name]
    /\ IF Buildable(wg)
       THEN LET plain == New("wireguard", wg'.name)
            IN /\ Finish("built")
               /\ \E s \in {plain} \cup {Options(plain, auto) : auto \in BOOLEAN} :
                     settings' = WireGuardSettings(wg', s)
       ELSE Finish("refused") /\ UNCHANGED settings
    /\ UNCHANGED <<eap, byHand, wifi, asked, checked>>

(* The name, VpnCredentialsBuilder::build, then connect_vpn: validation and  *)
(* build_wireguard_connection.                                              *)
ConnectWireGuard ==
    /\ stage = "credentials"
    /\ \E name \in Names \cup {None} : wg' = [wg EXCEPT !.name = name]
    /\ checked' = (CredentialsComplete(wg') /\ ValidCredentials(wg'))
    /\ IF checked' /\ Buildable(wg)
       THEN /\ Finish("built")
            /\ settings' = WireGuardSettings(wg', Options(New("wireguard", wg'.name), FALSE))
       ELSE Finish("refused") /\ UNCHANGED settings
    /\ UNCHANGED <<eap, byHand, wifi, asked>>

VlanIds == {0, 1, 4094, 4095}      \* the first and the last, and beside them
BuildOther ==
    /\ stage = "start"
    /\ \/ settings' = EthernetSettings /\ Finish("built")
       \/ \E role \in {"panu", "dun"} : settings' = BluetoothSettings(role) /\ Finish("built")
       \/ \E id \in VlanIds, parent \in {"", "eth0"} :
             IF ValidVlan(id, parent)
             THEN settings' = VlanSettings(id, parent) /\ Finish("built")
             ELSE UNCHANGED settings /\ Finish("refused")
    /\ UNCHANGED <<eap, byHand, wifi, asked, wg, checked>>

Next ==
    \/ SetEap \/ BuildEap \/ NewOptions \/ SetOptions \/ AssignField
    \/ StartWifi \/ Ask \/ SetWifi \/ BuildWifiDirectly \/ ConnectWifi
    \/ SetCredentials \/ SetWireGuard \/ BuildWireGuard \/ ConnectWireGuard \/ BuildOther

Spec == Init /\ [][Next]_vars

-----------------------------------------------------------------------------
Built(type) == stage = "built" /\ settings["connection"]["type"] = type

(* A builder panics on a certificate given as a path and as a blob          *)
(* (wifi_builder.rs:425). No setter leads there, in any order of calls: it   *)
(* takes a field assigned by hand, and never gets past the validation that   *)
(* connect runs first.                                                      *)
PanicsOnlyByHand ==
    stage = "panicked" => byHand /\ ~ValidSecurity(asked, eap)

(* Whatever was configured before, the profile has the security asked for   *)
(* last and nothing of an earlier one, and the summary of the profile as    *)
(* it was built says so: an open network after a passphrase has no link to  *)
(* a security section, a passphrase after 802.1X shows no EAP method.       *)
SecurityIsTheLastAsked ==
    Built(WIRELESS) =>
        WifiSummary(settings).security =
            CASE asked.mgmt = "open" -> None
              [] asked.mgmt = "wpa-psk" -> [mgmt |-> "WpaPsk", psk |-> TRUE, eap |-> <<>>]
              [] OTHER -> [mgmt |-> "WpaEap", psk |-> FALSE, eap |-> <<eap.method>>]

LaxOctets(c) ==
    c.address.lax \/ (c.dns # None /\ \E d \in ToSet(c.dns) : d.lax)

(* Credentials that pass the validation of connect_vpn are refused by the   *)
(* builder only over an octet that the two parsers read differently; and     *)
(* what is built has the caller's name, the address in its own family, no    *)
(* server lost, and shows its first peer the same way in all readers.        *)
WireGuardFaithful ==
    /\ checked /\ wg # NoWireGuard /\ stage = "refused" => LaxOctets(wg)
    /\ Built("wireguard") =>
          /\ settings["connection"]["id"] = wg.name
          /\ settings[wg.address.family]["method"] = "manual"
          /\ settings[wg.address.family]["address"] = wg.address
          /\ wg.dns # None =>
                \A family \in {"ipv4", "ipv6"} :
                    Key(Section(settings, family), "dns", <<>>) = OfFamily(wg.dns, family)
          /\ WireGuardSummary(settings) =
                [count |-> Len(wg.peers), endpoint |-> Head(wg.peers).gateway]
          /\ FirstPeer(settings) = Head(wg.peers)

=============================================================================
