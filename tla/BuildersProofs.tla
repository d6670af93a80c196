--------------------------- MODULE BuildersProofs ---------------------------
(***************************************************************************)
(* What every order and number of calls on the builders comes to, for all  *)
(* addresses, servers and peers: only a field assigned by hand makes a     *)
(* builder panic, a Wi-Fi profile has the security asked for last, and a   *)
(* WireGuard profile is what its credentials say.  And what the builder    *)
(* that is filled from a .ovpn file comes to, for every file of any        *)
(* length: it is read as written, the two checks of it agree, and what is  *)
(* saved is what it says.                                                  *)
(*                                                                         *)
(* The invariant of the first says of the options that no certificate has  *)
(* two forms unless by hand (EapInv), of the Wi-Fi builder that its        *)
(* sections are those of the security asked for last (Secured), and of the *)
(* credentials that they are a tunnel's and were not checked before the    *)
(* end (TunnelInv).  That of the second says what the lexer has of the     *)
(* file (LexerInv), that the file parsed is what the last items of each    *)
(* key say (FileIs), and that each field of the builder is what a setter   *)
(* gave or else what the file says (BuilderIs), with the content of inline *)
(* material in the store (StoreIs).                                        *)
(***************************************************************************)
EXTENDS Builders, OvpnImport, SequenceTheorems, NaturalsInduction, WellFoundedInduction, TLAPS

IsEap(e) ==
    /\ e = [identity |-> e.identity, password |-> e.password, method |-> e.method,
            phase2 |-> e.phase2, cert |-> e.cert]
    /\ e.cert = [c \in Certs |-> e.cert[c]]

OneForm(e) == \A c \in Certs : ~Both(e.cert[c])
EapInv == IsEap(eap) /\ (~byHand => OneForm(eap))

\* The sections of w are those of the security sec.
IsWifi(w) ==
    /\ w = [sections |-> w.sections, linked |-> w.linked, hidden |-> w.hidden]
    /\ "connection" \in DOMAIN w.sections /\ "type" \in DOMAIN w.sections["connection"]
    /\ w.sections["connection"]["type"] = WIRELESS
Dot1xUsers == {"wpa-eap", SuiteB}
OfSecurity(s, sec, o) ==
    /\ sec.mgmt = "open" => {SECURITY, DOT1X} \cap DOMAIN s = {}
    /\ sec.mgmt # "open" =>
          /\ SECURITY \in DOMAIN s
          /\ "key_mgmt" \in DOMAIN s[SECURITY] /\ s[SECURITY]["key_mgmt"] = sec.mgmt
    /\ sec.mgmt = "wpa-psk" => "psk" \in DOMAIN s[SECURITY] /\ DOT1X \notin DOMAIN s
    /\ sec.mgmt \in Dot1xUsers =>
          /\ "psk" \notin DOMAIN s[SECURITY]
          /\ DOT1X \in DOMAIN s
          /\ "eap" \in DOMAIN s[DOT1X] /\ s[DOT1X]["eap"] = <<o.method>>
Secured(w, sec, o) ==
    /\ sec.mgmt \in {"open", "wpa-psk"} \cup Dot1xUsers
    /\ IF sec.mgmt = "open" THEN w.linked = FALSE ELSE w.linked = TRUE
    /\ OfSecurity(w.sections, sec, o)

WifiInv == stage = "wifi" => IsWifi(wifi) /\ Secured(wifi, asked, eap)

IsTunnel(c) ==
    /\ c = [name |-> c.name, gateway |-> c.gateway, key |-> c.key, address |-> c.address,
            peers |-> c.peers, dns |-> c.dns, mtu |-> c.mtu]
    /\ c.address \in Addresses \cup {None}
    /\ c.peers \in Seq(Peers)

TunnelInv ==
    /\ IsTunnel(wg)
    /\ stage \notin {"built", "refused", "panicked"} => ~checked

Inv ==
    /\ EapInv /\ WifiInv /\ TunnelInv
    /\ PanicsOnlyByHand /\ SecurityIsTheLastAsked /\ WireGuardFaithful

-----------------------------------------------------------------------------
(* The Wi-Fi builder.                                                      *)

USE DEF WIRELESS, SECURITY, DOT1X, SuiteB

LEMMA NewWifiIsWifi ==
    ASSUME NEW o
    PROVE  IsWifi(NewWifi) /\ Secured(NewWifi, [mgmt |-> "open", psk |-> ""], o)
  BY DEF NewWifi, New, IsWifi, Secured, OfSecurity, Dot1xUsers

LEMMA Dot1xMethod ==
    ASSUME NEW o, NEW d, d = Dot1x(o)
    PROVE  "eap" \in DOMAIN d /\ d["eap"] = <<o.method>>
  <1> PICK a : a = [eap |-> <<o.method>>, identity |-> o.identity]
    OBVIOUS
  <1> PICK b : b = WithCert(a, "ca_cert", o.cert["ca"])
    OBVIOUS
  <1>1. "eap" \in DOMAIN b /\ b["eap"] = <<o.method>>
    BY DEF WithCert, With
  <1>2. CASE o.method = "tls"
    <2> PICK c : c = WithCert(b, "private_key", o.cert["key"])
      OBVIOUS
    <2>1. "eap" \in DOMAIN c /\ c["eap"] = <<o.method>>
      BY <1>1 DEF WithCert, With
    <2>2. d = WithCert(c, "client_cert", o.cert["client"])
      BY <1>2, Zenon DEF Dot1x
    <2> QED
      BY <2>1, <2>2 DEF WithCert, With
  <1>3. CASE o.method # "tls"
    <2> PICK c : c = With(b, "password", o.password)
      OBVIOUS
    <2>1. "eap" \in DOMAIN c /\ c["eap"] = <<o.method>>
      BY <1>1 DEF With
    <2>2. d = With(c, "phase2_auth", o.phase2)
      BY <1>3, Zenon DEF Dot1x
    <2> QED
      BY <2>1, <2>2 DEF With
  <1> QED
    BY <1>2, <1>3

\* Securing a builder gives it the sections of the security, whatever it had.
LEMMA SecureMakes ==
    ASSUME NEW w, IsWifi(w), NEW sec, NEW o, sec.mgmt \in {"open", "wpa-psk"} \cup Dot1xUsers
    PROVE  IsWifi(Secure(w, sec, o)) /\ Secured(Secure(w, sec, o), sec, o)
  <1> PICK v : v = Secure(w, sec, o)
    OBVIOUS
  <1>1. CASE sec.mgmt = "open"
    <2> PICK s : s = Without(Without(w.sections, SECURITY), DOT1X)
      OBVIOUS
    <2>1. v = [w EXCEPT !.sections = s, !.linked = FALSE]
      BY <1>1 DEF Secure, Open
    <2>2. DOMAIN s = DOMAIN w.sections \ {SECURITY, DOT1X} /\ s["connection"] = w.sections["connection"]
      BY DEF Without, IsWifi
    <2>3. v = [sections |-> s, linked |-> FALSE, hidden |-> w.hidden]
      BY <2>1 DEF IsWifi
    <2>4. IsWifi(v)
      BY <2>2, <2>3 DEF IsWifi
    <2>5. Secured(v, sec, o)
      BY <1>1, <2>2, <2>3 DEF Secured, OfSecurity, Dot1xUsers
    <2> QED
      BY <2>4, <2>5, Zenon
  <1>2. CASE sec.mgmt = "wpa-psk"
    <2> PICK s : s = With(Without(w.sections, DOT1X), SECURITY, [key_mgmt |-> "wpa-psk", psk |-> sec.psk])
      OBVIOUS
    <2>1. v = [w EXCEPT !.sections = s, !.linked = TRUE]
      BY <1>2 DEF Secure, WpaPsk
    <2>2. /\ DOMAIN s = (DOMAIN w.sections \ {DOT1X}) \cup {SECURITY}
          /\ s[SECURITY] = [key_mgmt |-> "wpa-psk", psk |-> sec.psk]
          /\ s["connection"] = w.sections["connection"]
      BY DEF With, Without, IsWifi
    <2>3. v = [sections |-> s, linked |-> TRUE, hidden |-> w.hidden]
      BY <2>1 DEF IsWifi
    <2>4. IsWifi(v)
      BY <2>2, <2>3 DEF IsWifi
    <2>5. Secured(v, sec, o)
      BY <1>2, <2>2, <2>3 DEF Secured, OfSecurity, Dot1xUsers
    <2> QED
      BY <2>4, <2>5, Zenon
  <1>3. CASE sec.mgmt \in Dot1xUsers
    <2> PICK d : d = Dot1x(o)
      OBVIOUS
    <2> PICK s : s = With(With(w.sections, SECURITY, [key_mgmt |-> sec.mgmt]), DOT1X, d)
      OBVIOUS
    <2>1. v = [w EXCEPT !.sections = s, !.linked = TRUE]
      BY <1>3 DEF Secure, WpaEap, Dot1xUsers
    <2>2. /\ DOMAIN s = DOMAIN w.sections \cup {DOT1X, SECURITY}
          /\ s[SECURITY] = [key_mgmt |-> sec.mgmt]
          /\ s[DOT1X] = d
          /\ s["connection"] = w.sections["connection"]
      BY DEF With, IsWifi
    <2>3. "eap" \in DOMAIN d /\ d["eap"] = <<o.method>>
      BY Dot1xMethod, Zenon
    <2>4. v = [sections |-> s, linked |-> TRUE, hidden |-> w.hidden]
      BY <2>1 DEF IsWifi
    <2>5. IsWifi(v)
      BY <2>2, <2>4 DEF IsWifi
    <2>6. Secured(v, sec, o)
      BY <1>3, <2>2, <2>3, <2>4 DEF Secured, OfSecurity, Dot1xUsers
    <2> QED
      BY <2>5, <2>6, Zenon
  <1> QED
    BY <1>1, <1>2, <1>3

\* What the other setters do to the sections: they keep the security and the type.
Keeps(s, t) ==
    /\ \A n \in {SECURITY, DOT1X} :
          /\ n \in DOMAIN t <=> n \in DOMAIN s
          /\ n \in DOMAIN s => t[n] = s[n]
    /\ "connection" \in DOMAIN s /\ "type" \in DOMAIN s["connection"] =>
          /\ "connection" \in DOMAIN t /\ "type" \in DOMAIN t["connection"]
          /\ t["connection"]["type"] = s["connection"]["type"]

LEMMA SectionKeeps ==
    ASSUME NEW s, NEW n, n \notin {SECURITY, DOT1X, "connection"}, NEW x, NEW t, t = With(s, n, x)
    PROVE  Keeps(s, t)
  <1>1. /\ DOMAIN t = DOMAIN s \cup {n}
        /\ \A m \in DOMAIN s : m # n => t[m] = s[m]
    BY DEF With
  <1> QED
    BY <1>1 DEF Keeps

LEMMA PutKeeps ==
    ASSUME NEW s, NEW k, k # "type", NEW x, NEW t, t = Put(s, "connection", k, x)
    PROVE  Keeps(s, t)
  <1>1. CASE "connection" \in DOMAIN s
    <2> PICK c : c = With(s["connection"], k, x)
      OBVIOUS
    <2>1. t = With(s, "connection", c)
      BY <1>1, t = Put(s, "connection", k, x) DEF Put
    <2>2. "type" \in DOMAIN s["connection"] => "type" \in DOMAIN c /\ c["type"] = s["connection"]["type"]
      BY DEF With
    <2>3. /\ DOMAIN t = DOMAIN s /\ t["connection"] = c
          /\ \A n \in {SECURITY, DOT1X} : n \in DOMAIN s => t[n] = s[n]
      BY <1>1, <2>1 DEF With
    <2> QED
      BY <1>1, <2>2, <2>3 DEF Keeps
  <1>2. CASE "connection" \notin DOMAIN s
    BY <1>2 DEF Put, Keeps
  <1> QED
    BY <1>1, <1>2

LEMMA OptionsKeep ==
    ASSUME NEW s, NEW a, NEW t, t = Options(s, a)
    PROVE  Keeps(s, t)
  <1>1. t = Put(s, "connection", "autoconnect", a) /\ "autoconnect" # "type"
    BY Zenon DEF Options
  <1> QED
    BY <1>1, PutKeeps, Zenon

LEMMA MethodKeeps ==
    ASSUME NEW s, NEW family \in {"ipv4", "ipv6"}, NEW m, NEW t, t = Method(s, family, m)
    PROVE  Keeps(s, t)
  <1> PICK x : x = [method |-> m]
    OBVIOUS
  <1>1. t = With(s, family, x) /\ family \notin {SECURITY, DOT1X, "connection"}
    BY DEF Method
  <1> QED
    BY <1>1, SectionKeeps, Zenon

LEMMA SetKeeps ==
    ASSUME NEW w, IsWifi(w), NEW s, Keeps(w.sections, s), NEW v, v = [w EXCEPT !.sections = s]
    PROVE  /\ IsWifi(v)
           /\ \A sec, o : Secured(w, sec, o) => Secured(v, sec, o)
  <1>1. v = [sections |-> s, linked |-> w.linked, hidden |-> w.hidden]
    BY DEF IsWifi
  <1>2. IsWifi(v)
    BY <1>1 DEF IsWifi, Keeps
  <1>3. ASSUME NEW sec, NEW o, Secured(w, sec, o)
        PROVE  Secured(v, sec, o)
    BY <1>1, <1>3 DEF Keeps, Secured, OfSecurity, Dot1xUsers
  <1> QED
    BY <1>2, <1>3

\* What the readers say of a profile of the security sec.
SummaryOf(sec, o) ==
    CASE sec.mgmt = "open" -> None
      [] sec.mgmt = "wpa-psk" -> [mgmt |-> "WpaPsk", psk |-> TRUE, eap |-> <<>>]
      [] OTHER -> [mgmt |-> "WpaEap", psk |-> FALSE, eap |-> <<o.method>>]

LEMMA NotIn ==
    ASSUME NEW x, NEW S, x \notin S
    PROVE  (x \in S) = FALSE
  BY SMT

LEMMA Reads ==
    ASSUME NEW w, IsWifi(w), NEW sec, NEW o, Secured(w, sec, o), NEW s, s = WifiSettings(w)
    PROVE  /\ s["connection"]["type"] = WIRELESS
           /\ WifiSummary(s).security = SummaryOf(sec, o)
  <1> PICK x : x = WithGiven([ssid |-> "net", mode |-> "infrastructure"], "hidden", w.hidden)
    OBVIOUS
  <1> PICK y : y = IF w.linked THEN With(x, "security", SECURITY) ELSE x
    OBVIOUS
  <1> PICK r : r = WifiSummary(s).security
    OBVIOUS
  <1>1. s = With(w.sections, WIRELESS, y)
    BY DEF WifiSettings
  <1>2. DOMAIN x \subseteq {"ssid", "mode", "hidden"}
    BY DEF WithGiven, With
  <1>3. "security" \in DOMAIN y <=> sec.mgmt # "open"
    BY <1>2 DEF Secured, With
  <1>4. /\ DOMAIN s = DOMAIN w.sections \cup {WIRELESS}
        /\ s[WIRELESS] = y
        /\ \A n \in {SECURITY, DOT1X, "connection"} : n \in DOMAIN w.sections => s[n] = w.sections[n]
    BY <1>1 DEF With
  <1>5. s["connection"]["type"] = WIRELESS
    BY <1>4 DEF IsWifi
  <1>6. OfSecurity(s, sec, o)
    BY <1>4 DEF Secured, OfSecurity, Dot1xUsers
  <1>7. Section(s, WIRELESS) = y
    BY <1>4 DEF Section
  <1>8. ASSUME sec.mgmt = "open" PROVE r = SummaryOf(sec, o)
    <2>1. "security" \notin DOMAIN s[WIRELESS] /\ SECURITY \notin DOMAIN s /\ DOT1X \notin DOMAIN s
      BY <1>3, <1>4, <1>6, <1>8 DEF OfSecurity
    <2>2. r = None
      BY <1>4, <2>1 DEF WifiSummary, Section
    <2>3. None = SummaryOf(sec, o)
      BY <1>8 DEF SummaryOf
    <2> QED
      BY <2>2, <2>3, Zenon
  <1>9. ASSUME sec.mgmt # "open" PROVE r = SummaryOf(sec, o)
    <2> PICK secured : secured = Section(s, SECURITY)
      OBVIOUS
    <2> PICK eap8021x : eap8021x = Section(s, DOT1X)
      OBVIOUS
    <2> PICK mgmt : mgmt = Key(secured, "key_mgmt", "")
      OBVIOUS
    <2> PICK kind : kind = KeyMgmt(mgmt, eap8021x # <<>>)
      OBVIOUS
    <2> PICK psk : psk = ("psk" \in DOMAIN secured)
      OBVIOUS
    <2> PICK methods : methods = Key(eap8021x, "eap", <<>>)
      OBVIOUS
    <2>1. r = WifiSecuritySummary(s)
      BY <1>3, <1>7, <1>9 DEF WifiSummary
    <2>2. r = [mgmt |-> kind, psk |-> psk, eap |-> methods]
      BY <2>1, Zenon DEF WifiSecuritySummary
    <2>3. secured = s[SECURITY] /\ mgmt = sec.mgmt
      BY <1>6, <1>9 DEF Section, OfSecurity, Key
    <2>4. CASE sec.mgmt = "wpa-psk"
      <3>1. kind = "WpaPsk"
        BY <2>3, <2>4 DEF KeyMgmt
      <3>2. psk = TRUE
        BY <1>6, <2>3, <2>4 DEF OfSecurity
      <3>3. methods = <<>>
        BY <1>6, <2>4 DEF OfSecurity, Section, Key
      <3>4. SummaryOf(sec, o) = [mgmt |-> "WpaPsk", psk |-> TRUE, eap |-> <<>>]
        BY <2>4 DEF SummaryOf
      <3> QED
        BY <2>2, <3>1, <3>2, <3>3, <3>4, Zenon
    <2>5. CASE sec.mgmt \in Dot1xUsers
      <3>1. kind = "WpaEap"
        BY <2>3, <2>5 DEF KeyMgmt, Dot1xUsers
      <3>2. psk = FALSE
        <4>1. "psk" \notin DOMAIN s[SECURITY]
          BY <1>6, <2>5 DEF OfSecurity, Dot1xUsers
        <4>2. "psk" \notin DOMAIN secured
          BY <2>3, <4>1
        <4>3. ("psk" \in DOMAIN secured) = FALSE
          BY <4>2, NotIn, Zenon
        <4> QED
          BY <4>3, Zenon
      <3>3. methods = <<o.method>>
        BY <1>6, <2>5 DEF OfSecurity, Section, Key
      <3>4. SummaryOf(sec, o) = [mgmt |-> "WpaEap", psk |-> FALSE, eap |-> <<o.method>>]
        BY <2>5 DEF SummaryOf, Dot1xUsers
      <3> QED
        BY <2>2, <3>1, <3>2, <3>3, <3>4, Zenon
    <2> QED
      BY <1>9, <2>4, <2>5 DEF Secured
  <1>10. r = SummaryOf(sec, o)
    BY <1>8, <1>9
  <1> QED
    BY <1>5, <1>10, Zenon

LEMMA BasedIsWifi ==
    ASSUME NEW b,
           b = [NewWifi EXCEPT !.sections = Method(Method(Options(@, TRUE), "ipv4", "auto"), "ipv6", "auto")]
    PROVE  IsWifi(b)
  <1> PICK s : s = NewWifi.sections
    OBVIOUS
  <1> PICK t : t = Options(s, TRUE)
    OBVIOUS
  <1> PICK u : u = Method(t, "ipv4", "auto")
    OBVIOUS
  <1> PICK v : v = Method(u, "ipv6", "auto")
    OBVIOUS
  <1>1. b = [sections |-> v, linked |-> FALSE, hidden |-> None]
    BY DEF NewWifi
  <1>2. Keeps(s, t) /\ Keeps(t, u) /\ Keeps(u, v)
    BY OptionsKeep, MethodKeeps, Zenon
  <1>3. "connection" \in DOMAIN s /\ "type" \in DOMAIN s["connection"] /\ s["connection"]["type"] = WIRELESS
    BY DEF NewWifi, New
  <1>4. "connection" \in DOMAIN v /\ "type" \in DOMAIN v["connection"] /\ v["connection"]["type"] = WIRELESS
    BY <1>2, <1>3 DEF Keeps
  <1> QED
    BY <1>1, <1>4 DEF IsWifi

-----------------------------------------------------------------------------
(* The WireGuard builder.                                                  *)

\* A WireGuard profile made for a name; one without servers in a family; one with all of them.
Named(s, name) ==
    /\ "connection" \in DOMAIN s /\ {"type", "id"} \subseteq DOMAIN s["connection"]
    /\ s["connection"]["type"] = "wireguard" /\ s["connection"]["id"] = name
Bare(s, f) == "dns" \notin DOMAIN s[f]
Serves(s, f, servers) == f \in DOMAIN s /\ Key(s[f], "dns", <<>>) = OfFamily(servers, f)
Families == {"ipv4", "ipv6"}

LEMMA NewNamed ==
    ASSUME NEW name, NEW s, s = New("wireguard", name)
    PROVE  Named(s, name)
  BY DEF New, Named

LEMMA OptionsNamed ==
    ASSUME NEW name, NEW s, Named(s, name), NEW auto, NEW t, t = Options(s, auto)
    PROVE  Named(t, name)
  <1> PICK c : c = With(s["connection"], "autoconnect", auto)
    OBVIOUS
  <1>1. t = With(s, "connection", c)
    BY DEF Options, Put, Named
  <1>2. "connection" \in DOMAIN t /\ t["connection"] = c
    BY <1>1 DEF With
  <1>3. {"type", "id"} \subseteq DOMAIN c /\ c["type"] = "wireguard" /\ c["id"] = name
    BY DEF With, Named
  <1> QED
    BY <1>2, <1>3 DEF Named

\* A profile that has the name, the section and the address of the credentials.
Tunnel(s, c) ==
    /\ Named(s, c.name)
    /\ "wireguard" \in DOMAIN s /\ s["wireguard"] = WireGuardSection(c)
    /\ {"ipv4", "ipv6", c.address.family} \subseteq DOMAIN s
    /\ {"method", "address"} \subseteq DOMAIN s[c.address.family]
    /\ s[c.address.family]["method"] = "manual"
    /\ s[c.address.family]["address"] = c.address

LEMMA Identifies ==
    ASSUME NEW s, NEW name, Named(s, name), NEW t, t = Identified(s, name)
    PROVE  Named(t, name)
  <1> PICK x : x = <<"wg", name>>
    OBVIOUS
  <1> PICK c : c = With(s["connection"], "interface_name", x)
    OBVIOUS
  <1> PICK d : d = With(c, "uuid", x)
    OBVIOUS
  <1> PICK u : u = With(s, "connection", c)
    OBVIOUS
  <1>1. u = Put(s, "connection", "interface_name", x)
    BY DEF Put, Named
  <1>2. "connection" \in DOMAIN u /\ u["connection"] = c
    BY DEF With
  <1>3. Put(u, "connection", "uuid", x) = With(u, "connection", d)
    BY <1>2 DEF Put
  <1>4. t = Put(u, "connection", "uuid", x)
    BY <1>1, Zenon DEF Identified
  <1>5. t = With(u, "connection", d)
    BY <1>3, <1>4, Zenon
  <1>6. "connection" \in DOMAIN t /\ t["connection"] = d
    BY <1>5 DEF With
  <1>7. {"type", "id"} \subseteq DOMAIN d /\ d["type"] = "wireguard" /\ d["id"] = name
    BY DEF With, Named
  <1> QED
    BY <1>6, <1>7 DEF Named

LEMMA AddressedIsTunnel ==
    ASSUME NEW s, NEW c, c.address.family \in Families, Named(s, c.name),
           NEW x, x = WireGuardSection(c),
           NEW u, u = With(s, "wireguard", x), NEW t, t = Addressed(u, c.address)
    PROVE  Tunnel(t, c) /\ \A f \in Families : Bare(t, f)
  <1> PICK v, f, m, p :
        /\ f = c.address.family
        /\ m = IF f = "ipv4" THEN [method |-> "ignore"] ELSE [method |-> "disabled"]
        /\ p = [method |-> "manual", address |-> c.address]
        /\ v = IF f = "ipv4" THEN With(With(u, "ipv4", p), "ipv6", m)
                             ELSE With(With(u, "ipv4", m), "ipv6", p)
    OBVIOUS
  <1>1. v = t
    BY DEF Addressed, Manual, Method
  <1>2. /\ "connection" \in DOMAIN u /\ u["connection"] = s["connection"]
        /\ "wireguard" \in DOMAIN u /\ u["wireguard"] = x
    BY DEF With, Named
  <1>3. /\ {"connection", "wireguard", "ipv4", "ipv6"} \subseteq DOMAIN v
        /\ v["connection"] = s["connection"] /\ v["wireguard"] = x
        /\ v[f] = p /\ v[IF f = "ipv4" THEN "ipv6" ELSE "ipv4"] = m
    BY <1>2 DEF With, Families
  <1>4. /\ {"method", "address"} = DOMAIN p /\ p["method"] = "manual" /\ p["address"] = c.address
        /\ "dns" \notin DOMAIN m
    OBVIOUS
  <1>5. \A g \in {"ipv4", "ipv6"} : "dns" \notin DOMAIN v[g]
    BY <1>3, <1>4 DEF Families
  <1>6. /\ Named(v, c.name)
        /\ {"ipv4", "ipv6", f} \subseteq DOMAIN v
        /\ {"method", "address"} \subseteq DOMAIN v[f]
        /\ v[f]["method"] = "manual"
        /\ v[f]["address"] = c.address
        /\ "wireguard" \in DOMAIN v
    BY <1>3, <1>4 DEF Named, Families
  <1>7. v["wireguard"] = WireGuardSection(c)
    BY <1>3
  <1> QED
    BY <1>1, <1>5, <1>6, <1>7 DEF Tunnel, Bare, Families

\* Adding the servers of a family keeps the tunnel and adds nothing to the other.
SameBut(f, s, t) == \A g \in Families \ {f} : t[g] = s[g]

LEMMA ServedKeeps ==
    ASSUME NEW s, NEW c, Tunnel(s, c), NEW servers, NEW f \in Families, Bare(s, f),
           NEW t, t = Served(s, f, servers)
    PROVE  Tunnel(t, c) /\ Serves(t, f, servers) /\ SameBut(f, s, t)
  <1> PICK mine : mine = OfFamily(servers, f)
    OBVIOUS
  <1>1. f \in DOMAIN s
    BY DEF Tunnel, Families
  <1>2. CASE mine = <<>>
    <2>1. t = s
      BY <1>2, Zenon DEF Served
    <2>2. Key(t[f], "dns", <<>>) = <<>>
      BY <2>1 DEF Key, Bare
    <2> QED
      BY <1>1, <1>2, <2>1, <2>2, Zenon DEF Serves, SameBut
  <1>3. CASE mine # <<>>
    <2> PICK x : x = With(s[f], "dns", mine)
      OBVIOUS
    <2>1. t = Dns(s, f, mine)
      BY <1>3, Zenon DEF Served
    <2>2. t = With(s, f, x)
      BY <1>1, <2>1 DEF Dns, Put
    <2>3. /\ DOMAIN t = DOMAIN s /\ t[f] = x
          /\ \A n \in DOMAIN s : n # f => t[n] = s[n]
      BY <1>1, <2>2 DEF With
    <2>4. /\ DOMAIN x = DOMAIN s[f] \cup {"dns"} /\ x["dns"] = mine
          /\ "method" \in DOMAIN s[f] => x["method"] = s[f]["method"]
          /\ "address" \in DOMAIN s[f] => x["address"] = s[f]["address"]
      BY DEF With
    <2>5. Key(t[f], "dns", <<>>) = mine
      BY <2>3, <2>4 DEF Key
    <2>6. Tunnel(t, c)
      <3> PICK section : section = WireGuardSection(c)
        OBVIOUS
      <3>1. /\ Named(t, c.name)
            /\ "wireguard" \in DOMAIN t /\ t["wireguard"] = s["wireguard"]
            /\ {"ipv4", "ipv6", c.address.family} \subseteq DOMAIN t
        BY <2>3 DEF Tunnel, Named, Families
      <3>2. s["wireguard"] = WireGuardSection(c)
        BY Zenon DEF Tunnel
      <3>3. /\ {"method", "address"} \subseteq DOMAIN t[c.address.family]
            /\ t[c.address.family]["method"] = "manual"
            /\ t[c.address.family]["address"] = c.address
        <4>1. CASE c.address.family = f
          BY <2>3, <2>4, <4>1 DEF Tunnel
        <4>2. CASE c.address.family # f
          BY <2>3, <4>2 DEF Tunnel
        <4> QED
          BY <4>1, <4>2
      <3> QED
        BY <3>1, <3>2, <3>3 DEF Tunnel
    <2>7. \A g \in Families \ {f} : t[g] = s[g]
      BY <2>3 DEF Tunnel, Families
    <2> QED
      BY <1>1, <2>3, <2>5, <2>6, <2>7, Zenon DEF Serves, SameBut
  <1> QED
    BY <1>2, <1>3

AreFamilies(v4, v6) == v4 # v6 /\ \A f : f \in Families <=> f = v4 \/ f = v6

LEMMA ServedTwice ==
    ASSUME NEW t, NEW c, Tunnel(t, c), NEW v4, NEW v6, AreFamilies(v4, v6), Bare(t, v4), Bare(t, v6), NEW servers,
           NEW u, u = Served(t, v4, servers), NEW z, z = Served(u, v6, servers)
    PROVE  Tunnel(z, c) /\ \A f \in Families : Serves(z, f, servers)
  <1>1. v4 \in Families \ {v6} /\ v6 \in Families \ {v4}
    BY Zenon DEF AreFamilies
  <1>2. Tunnel(u, c) /\ Serves(u, v4, servers) /\ SameBut(v4, t, u)
    BY <1>1, ServedKeeps, Zenon
  <1>3. Bare(u, v6)
    BY <1>1, <1>2, Zenon DEF Bare, SameBut
  <1>4. Tunnel(z, c) /\ Serves(z, v6, servers) /\ SameBut(v6, u, z)
    BY <1>1, <1>2, <1>3, ServedKeeps, Zenon
  <1>5. v4 \in DOMAIN z
    BY <1>1, <1>4 DEF Tunnel, Families
  <1>6. Serves(z, v4, servers)
    BY <1>1, <1>2, <1>4, <1>5, Zenon DEF Serves, SameBut
  <1> QED
    BY <1>4, <1>6, Zenon DEF AreFamilies

LEMMA WireGuardMakes ==
    ASSUME NEW c, c.address.family \in Families, NEW s, Named(s, c.name),
           NEW z, z = WireGuardSettings(c, s)
    PROVE  Tunnel(z, c) /\ (c.dns # None => \A f \in Families : Serves(z, f, c.dns))
  <1> PICK servers : servers = IF c.dns = None THEN <<>> ELSE c.dns
    OBVIOUS
  <1> PICK i : i = Identified(s, c.name)
    OBVIOUS
  <1> PICK x : x = WireGuardSection(c)
    OBVIOUS
  <1> PICK h : h = With(i, "wireguard", x)
    OBVIOUS
  <1> PICK t : t = Addressed(h, c.address)
    OBVIOUS
  <1> PICK u : u = Served(t, "ipv4", servers)
    OBVIOUS
  <1>1. AreFamilies("ipv4", "ipv6") /\ "ipv4" \in Families /\ "ipv6" \in Families
    BY DEF AreFamilies, Families
  <1>2. z = Served(u, "ipv6", servers)
    BY Zenon DEF WireGuardSettings
  <1>3. Named(i, c.name)
    BY Identifies, Zenon
  <1>4. Tunnel(t, c) /\ \A f \in Families : Bare(t, f)
    BY <1>3, AddressedIsTunnel, Zenon
  <1>5. Tunnel(z, c) /\ \A f \in Families : Serves(z, f, servers)
    <2>1. AreFamilies("ipv4", "ipv6") /\ Tunnel(t, c) /\ Bare(t, "ipv4") /\ Bare(t, "ipv6")
      BY <1>1, <1>4, Zenon
    <2> QED
      BY <1>2, <2>1, ServedTwice, ZenonT(60)
  <1>6. c.dns # None => servers = c.dns
    OBVIOUS
  <1> QED
    BY <1>5, <1>6, Zenon

\* What the readers show of a tunnel's profile.
Shown(z, c) ==
    /\ z["connection"]["id"] = c.name
    /\ z[c.address.family]["method"] = "manual"
    /\ z[c.address.family]["address"] = c.address
    /\ c.dns # None =>
          \A family \in {"ipv4", "ipv6"} :
              Key(Section(z, family), "dns", <<>>) = OfFamily(c.dns, family)
    /\ WireGuardSummary(z) = [count |-> Len(c.peers), endpoint |-> Head(c.peers).gateway]
    /\ FirstPeer(z) = Head(c.peers)

LEMMA PeerShown ==
    ASSUME NEW p, p = [key |-> p.key, gateway |-> p.gateway, allowed |-> p.allowed, keepalive |-> p.keepalive],
           NEW e, e = PeerEntry(p)
    PROVE  /\ Key(e, "endpoint", None) = p.gateway
           /\ p = [key |-> Key(e, "public_key", None), gateway |-> Key(e, "endpoint", None),
                   allowed |-> Key(e, "allowed_ips", <<>>),
                   keepalive |-> Key(e, "persistent_keepalive", None)]
  <1>1. /\ "endpoint" \in DOMAIN e /\ e["endpoint"] = p.gateway
        /\ "public_key" \in DOMAIN e /\ e["public_key"] = p.key
        /\ "allowed_ips" \in DOMAIN e /\ e["allowed_ips"] = p.allowed
        /\ "persistent_keepalive" \in DOMAIN e <=> p.keepalive # None
        /\ p.keepalive # None => e["persistent_keepalive"] = p.keepalive
    BY DEF PeerEntry, WithGiven, With
  <1>2. /\ Key(e, "endpoint", None) = p.gateway /\ Key(e, "public_key", None) = p.key
        /\ Key(e, "allowed_ips", <<>>) = p.allowed
        /\ Key(e, "persistent_keepalive", None) = p.keepalive
    BY <1>1 DEF Key
  <1> QED
    BY <1>2, Zenon

LEMMA TunnelShown ==
    ASSUME NEW c, c.peers \in Seq(Peers), c.peers # <<>>, NEW z, Tunnel(z, c),
           c.dns # None => \A f \in Families : Serves(z, f, c.dns)
    PROVE  Shown(z, c)
  <1> PICK x : x = WireGuardSection(c)
    OBVIOUS
  <1> PICK q : q = [i \in 1..Len(c.peers) |-> PeerEntry(c.peers[i])]
    OBVIOUS
  <1> PICK p : p = Head(c.peers)
    OBVIOUS
  <1> PICK e : e = PeerEntry(p)
    OBVIOUS
  <1>1. x = WithGiven([private_key |-> c.key, peers |-> q], "mtu", c.mtu)
    BY Zenon DEF WireGuardSection
  <1>2. "peers" \in DOMAIN x /\ x["peers"] = q
    BY <1>1 DEF WithGiven, With
  <1>3. p = c.peers[1] /\ p \in Peers /\ Len(c.peers) \in Nat \ {0}
    OBVIOUS
  <1>4. q[1] = e /\ q # <<>> /\ Len(q) = Len(c.peers)
    <2>1. 1 \in 1..Len(c.peers)
      BY <1>3
    <2>2. q[1] = PeerEntry(c.peers[1])
      BY <2>1, Zenon
    <2>3. q[1] = e
      BY <1>3, <2>2, Zenon
    <2>4. DOMAIN q = 1..Len(c.peers)
      OBVIOUS
    <2>5. q # <<>> /\ Len(q) = Len(c.peers)
      BY <1>3, <2>1, <2>4
    <2> QED
      BY <2>3, <2>5
  <1>5. p = [key |-> p.key, gateway |-> p.gateway, allowed |-> p.allowed, keepalive |-> p.keepalive]
    BY <1>3, BuildersAssumption, Zenon
  <1>6. Section(z, "wireguard") = x
    BY DEF Tunnel, Section
  <1>7. Key(x, "peers", <<>>) = q
    BY <1>2 DEF Key
  <1>8. WireGuardSummary(z) = [count |-> Len(c.peers), endpoint |-> p.gateway]
    <2>1. WireGuardSummary(z) = [count |-> Len(q), endpoint |-> Key(e, "endpoint", None)]
      BY <1>4, <1>6, <1>7, Zenon DEF WireGuardSummary
    <2>2. Key(e, "endpoint", None) = p.gateway
      BY <1>5, PeerShown, Zenon
    <2> QED
      BY <1>4, <2>1, <2>2, Zenon
  <1>9. FirstPeer(z) = p
    <2>1. FirstPeer(z) =
              [key |-> Key(e, "public_key", None), gateway |-> Key(e, "endpoint", None),
               allowed |-> Key(e, "allowed_ips", <<>>),
               keepalive |-> Key(e, "persistent_keepalive", None)]
      BY <1>4, <1>6, <1>7, Zenon DEF FirstPeer
    <2> QED
      BY <1>5, <2>1, PeerShown, Zenon
  <1>10. /\ z["connection"]["id"] = c.name
         /\ z[c.address.family]["method"] = "manual"
         /\ z[c.address.family]["address"] = c.address
    BY DEF Tunnel, Named
  <1>11. ASSUME c.dns # None, NEW family \in {"ipv4", "ipv6"}
         PROVE  Key(Section(z, family), "dns", <<>>) = OfFamily(c.dns, family)
    <2>1. family \in DOMAIN z /\ Key(z[family], "dns", <<>>) = OfFamily(c.dns, family)
      BY <1>11, Zenon DEF Serves, Families
    <2>2. Section(z, family) = z[family]
      BY <2>1, Zenon DEF Section
    <2> QED
      BY <2>1, <2>2, Zenon
  <1> QED
    BY <1>8, <1>9, <1>10, <1>11, Zenon DEF Shown

-----------------------------------------------------------------------------
(* EAP options.                                                            *)

LEMMA GiveOneForm ==
    ASSUME NEW e, IsEap(e), NEW c \in Certs, NEW f \in Forms, NEW v, NEW g, g = Give(e, c, f, v)
    PROVE  IsEap(g) /\ (OneForm(e) => OneForm(g))
  <1> PICK n : n = [NoCert EXCEPT ![f] = v]
    OBVIOUS
  <1>1. n = [path |-> None, blob |-> v] \/ n = [path |-> v, blob |-> None]
    BY DEF Forms, NoCert
  <1>2. ~Both(n)
    BY <1>1 DEF Both
  <1>3. g = [identity |-> e.identity, password |-> e.password, method |-> e.method,
             phase2 |-> e.phase2, cert |-> [e.cert EXCEPT ![c] = n]]
    BY DEF Give, IsEap
  <1>4. g.cert = [d \in Certs |-> IF d = c THEN n ELSE e.cert[d]]
    <2> PICK cert : cert = e.cert
      OBVIOUS
    <2>1. cert = [d \in Certs |-> cert[d]] /\ g.cert = [cert EXCEPT ![c] = n]
      BY <1>3 DEF IsEap
    <2>2. g.cert = [d \in Certs |-> IF d = c THEN n ELSE cert[d]]
      BY <2>1
    <2> QED
      BY <2>2
  <1>5. IsEap(g)
    BY <1>3, <1>4 DEF IsEap
  <1>6. ASSUME OneForm(e), NEW d \in Certs
        PROVE  ~Both(g.cert[d])
    <2>1. g.cert[d] = n \/ g.cert[d] = e.cert[d]
      BY <1>4
    <2> QED
      BY <1>2, <1>6, <2>1, Zenon DEF OneForm
  <1> QED
    BY <1>5, <1>6, Zenon DEF OneForm

LEMMA AssignIsEap ==
    ASSUME NEW e, IsEap(e), NEW c \in Certs, NEW f \in Forms, NEW v, NEW g, g = Assign(e, c, f, v)
    PROVE  IsEap(g)
  <1> PICK n : n = [e.cert[c] EXCEPT ![f] = v]
    OBVIOUS
  <1>1. g = [identity |-> e.identity, password |-> e.password, method |-> e.method,
             phase2 |-> e.phase2, cert |-> [e.cert EXCEPT ![c] = n]]
    BY DEF Assign, IsEap
  <1>2. g.cert = [d \in Certs |-> IF d = c THEN n ELSE e.cert[d]]
    BY <1>1 DEF IsEap
  <1> QED
    BY <1>1, <1>2 DEF IsEap

\* A change of the other fields.
LEMMA FieldsKeep ==
    ASSUME NEW e, IsEap(e), NEW i, NEW p, NEW m, NEW h, NEW g,
           g = [identity |-> i, password |-> p, method |-> m, phase2 |-> h, cert |-> e.cert]
    PROVE  IsEap(g) /\ (OneForm(e) => OneForm(g))
  BY DEF IsEap, OneForm

\* What has two forms, and is looked at, does not pass the validation.
LEMMA PanicsInvalid ==
    ASSUME NEW o, Panics(o), NEW sec, sec.mgmt \in Dot1xUsers
    PROVE  ~ValidSecurity(sec, o)
  BY DEF Panics, ValidSecurity, ValidEap, Sound, Dot1xUsers

LEMMA PanicsByHand ==
    ASSUME NEW o, Panics(o)
    PROVE  ~OneForm(o)
  BY DEF Panics, OneForm, Certs

-----------------------------------------------------------------------------
(* The other profiles.                                                     *)

Typed(s, type) ==
    /\ "connection" \in DOMAIN s /\ "type" \in DOMAIN s["connection"]
    /\ s["connection"]["type"] = type

LEMMA KeepsTyped ==
    ASSUME NEW s, NEW t, NEW type, Typed(s, type), Keeps(s, t)
    PROVE  Typed(t, type)
  BY DEF Typed, Keeps

\* All of them are made in this way: a name, options, a section of their own, methods.
LEMMA AutoTyped ==
    ASSUME NEW type, NEW id, NEW o, o = Options(New(type, id), TRUE),
           NEW p, p = o \/ \E x : p = Put(o, "connection", "interface_name", x),
           NEW n, n \notin {SECURITY, DOT1X, "connection"}, NEW y,
           NEW t, t = Automatic(With(p, n, y))
    PROVE  Typed(t, type)
  <1> PICK s : s = New(type, id)
    OBVIOUS
  <1> PICK q : q = With(p, n, y)
    OBVIOUS
  <1> PICK u : u = Method(q, "ipv4", "auto")
    OBVIOUS
  <1>1. t = Method(u, "ipv6", "auto")
    BY Zenon DEF Automatic
  <1>2. Typed(s, type)
    BY DEF Typed, New
  <1>3. Keeps(s, o)
    BY OptionsKeep, Zenon
  <1>4. Typed(o, type)
    BY <1>2, <1>3, KeepsTyped, Zenon
  <1>5. p = o \/ Keeps(o, p)
    <2>1. "interface_name" # "type"
      OBVIOUS
    <2> QED
      BY <2>1, PutKeeps, Zenon
  <1>6. Typed(p, type)
    BY <1>4, <1>5, KeepsTyped, Zenon
  <1>7. Keeps(p, q)
    BY SectionKeeps, Zenon
  <1>8. "ipv4" \in {"ipv4", "ipv6"} /\ "ipv6" \in {"ipv4", "ipv6"}
    OBVIOUS
  <1>9. Keeps(q, u) /\ Keeps(u, t)
    BY <1>1, <1>8, MethodKeeps, Zenon
  <1> QED
    BY <1>6, <1>7, <1>9, KeepsTyped, Zenon

LEMMA OthersTyped ==
    /\ Typed(EthernetSettings, "802-3-ethernet")
    /\ \A role : Typed(BluetoothSettings(role), "bluetooth")
    /\ \A id, parent : Typed(VlanSettings(id, parent), "vlan")
  <1>1. /\ "802-3-ethernet" \notin {SECURITY, DOT1X, "connection"}
        /\ "bluetooth" \notin {SECURITY, DOT1X, "connection"}
        /\ "vlan" \notin {SECURITY, DOT1X, "connection"}
    OBVIOUS
  <1>2. Typed(EthernetSettings, "802-3-ethernet")
    BY <1>1, AutoTyped, Zenon DEF EthernetSettings
  <1>3. ASSUME NEW role
        PROVE  Typed(BluetoothSettings(role), "bluetooth")
    BY <1>1, AutoTyped, Zenon DEF BluetoothSettings
  <1>4. ASSUME NEW id, NEW parent
        PROVE  Typed(VlanSettings(id, parent), "vlan")
    BY <1>1, AutoTyped, Zenon DEF VlanSettings
  <1> QED
    BY <1>2, <1>3, <1>4, Zenon

-----------------------------------------------------------------------------
(* The steps.                                                              *)

LEMMA InitInv == Init => Inv
  <1> SUFFICES ASSUME Init
               PROVE  Inv
    OBVIOUS
  <1>1. EapInv
    BY DEF Init, EapInv, IsEap, EmptyEap, OneForm, Both, NoCert
  <1>2. TunnelInv
    <2>1. wg = [name |-> None, gateway |-> None, key |-> None, address |-> None, peers |-> <<>>,
                dns |-> None, mtu |-> None]
      BY DEF Init, NoWireGuard
    <2>2. <<>> \in Seq(Peers)
      OBVIOUS
    <2>3. IsTunnel(wg)
      BY <2>1, <2>2 DEF IsTunnel
    <2>4. ~checked
      BY DEF Init
    <2> QED
      BY <2>3, <2>4 DEF TunnelInv
  <1> QED
    BY <1>1, <1>2 DEF Init, Inv, WifiInv, PanicsOnlyByHand, SecurityIsTheLastAsked,
                      WireGuardFaithful, Built

\* A step that builds nothing leaves the properties to the invariants.
LEMMA Unbuilt ==
    ASSUME EapInv', IsTunnel(wg)', ~checked',
           stage' \in {"start", "eap", "options", "credentials", "wireguard", "refused"}
    PROVE  Inv'
  BY DEF Inv, WifiInv, TunnelInv, PanicsOnlyByHand, SecurityIsTheLastAsked, WireGuardFaithful, Built

LEMMA EapSteps ==
    ASSUME Inv, SetEap \/ BuildEap \/ NewOptions \/ SetOptions \/ AssignField
    PROVE  Inv'
  <1>1. /\ UNCHANGED wg /\ ~checked'
        /\ stage' \in {"eap", "options", "refused"}
    <2>1. stage \in {"start", "eap", "options"} => ~checked
      BY DEF Inv, TunnelInv
    <2>2. CASE SetEap
      BY <2>1, <2>2 DEF SetEap
    <2>3. CASE BuildEap
      BY <2>1, <2>3 DEF BuildEap, Finish
    <2>4. CASE NewOptions
      BY <2>1, <2>4 DEF NewOptions, Finish
    <2>5. CASE SetOptions
      BY <2>1, <2>5 DEF SetOptions
    <2>6. CASE AssignField
      BY <2>1, <2>6 DEF AssignField
    <2> QED
      BY <2>2, <2>3, <2>4, <2>5, <2>6
  <1>2. IsTunnel(wg)'
    BY <1>1 DEF Inv, TunnelInv, IsTunnel
  <1>3. IsEap(eap) /\ (~byHand => OneForm(eap))
    BY DEF Inv, EapInv
  <1>4. ASSUME NEW i, NEW p, NEW m, NEW h, UNCHANGED byHand,
               eap' = [identity |-> i, password |-> p, method |-> m, phase2 |-> h, cert |-> eap.cert]
        PROVE  EapInv'
    <2> PICK g : g = [identity |-> i, password |-> p, method |-> m, phase2 |-> h, cert |-> eap.cert]
      OBVIOUS
    <2>0. eap' = g
      BY <1>4
    <2>1. IsEap(g) /\ (OneForm(eap) => OneForm(g))
      BY <1>3 DEF IsEap, OneForm, Both
    <2> QED
      BY <1>3, <1>4, <2>0, <2>1 DEF EapInv, IsEap, OneForm, Both
  <1>5. ASSUME NEW c \in Certs, NEW f \in Forms, NEW v, UNCHANGED byHand, eap' = Give(eap, c, f, v)
        PROVE  EapInv'
    <2>1. IsEap(eap') /\ (OneForm(eap) => OneForm(eap'))
      BY <1>3, <1>5, GiveOneForm, Zenon
    <2> QED
      BY <1>3, <1>5, <2>1 DEF EapInv, IsEap, OneForm, Both
  <1>6. EapInv'
    <2>1. CASE SetEap
      <3>1. UNCHANGED byHand
        BY <2>1 DEF SetEap
      <3>2. CASE \E c \in Certs, f \in Forms : \E v \in Given(f) : eap' = Give(eap, c, f, v)
        BY <1>5, <3>1, <3>2
      <3>3. CASE \E i \in {"", "user"} : eap' = [eap EXCEPT !.identity = i]
        BY <1>3, <1>4, <3>1, <3>3 DEF IsEap
      <3>4. CASE \E p \in {"", "secret"} : eap' = [eap EXCEPT !.password = p]
        BY <1>3, <1>4, <3>1, <3>4 DEF IsEap
      <3>5. CASE \E m \in {"peap", "ttls", "tls"} : eap' = [eap EXCEPT !.method = m]
        BY <1>3, <1>4, <3>1, <3>5 DEF IsEap
      <3>6. CASE \E p \in {"mschapv2", "pap"} : eap' = [eap EXCEPT !.phase2 = p]
        BY <1>3, <1>4, <3>1, <3>6 DEF IsEap
      <3> QED
        BY <2>1, <3>2, <3>3, <3>4, <3>5, <3>6 DEF SetEap
    <2>2. CASE BuildEap
      <3>1. UNCHANGED byHand
        BY <2>2 DEF BuildEap
      <3>2. CASE eap' = eap
        BY <1>3, <1>4, <3>1, <3>2 DEF IsEap
      <3>3. CASE eap' = [eap EXCEPT !.password = "", !.phase2 = "mschapv2"]
        BY <1>3, <1>4, <3>1, <3>3 DEF IsEap
      <3> QED
        BY <2>2, <3>2, <3>3 DEF BuildEap, EapOptions
    <2>3. CASE NewOptions
      <3>1. UNCHANGED byHand
        BY <2>3 DEF NewOptions
      <3> PICK e : e = EmptyEap
        OBVIOUS
      <3>2. IsEap(e) /\ OneForm(e)
        BY DEF IsEap, EmptyEap, OneForm, Both, NoCert
      <3>3. CASE \E i \in {"", "user"}, p \in {"", "secret"} :
                    eap' = [EmptyEap EXCEPT !.identity = i, !.password = p,
                                            !.method = "peap", !.phase2 = "mschapv2"]
        <4> PICK i, p : eap' = [e EXCEPT !.identity = i, !.password = p,
                                         !.method = "peap", !.phase2 = "mschapv2"]
          BY <3>3
        <4>1. eap' = [identity |-> i, password |-> p, method |-> "peap", phase2 |-> "mschapv2",
                      cert |-> e.cert]
          BY <3>2 DEF IsEap
        <4>2. IsEap(eap') /\ OneForm(eap')
          BY <3>2, <4>1, FieldsKeep, Zenon
        <4> QED
          BY <4>2 DEF EapInv, IsEap, OneForm, Both
      <3>4. CASE \E f \in Forms : \E k, c \in Given(f) :
                    eap' = [Give(Give(EmptyEap, "key", f, k), "client", f, c) EXCEPT
                               !.identity = "user", !.password = "", !.method = "tls",
                               !.phase2 = "mschapv2"]
        <4> PICK f \in Forms : \E k, c :
                eap' = [Give(Give(e, "key", f, k), "client", f, c) EXCEPT
                           !.identity = "user", !.password = "", !.method = "tls",
                           !.phase2 = "mschapv2"]
          BY <3>4
        <4> PICK k, c :
                eap' = [Give(Give(e, "key", f, k), "client", f, c) EXCEPT
                           !.identity = "user", !.password = "", !.method = "tls",
                           !.phase2 = "mschapv2"]
          OBVIOUS
        <4> PICK a : a = Give(e, "key", f, k)
          OBVIOUS
        <4> PICK b : b = Give(a, "client", f, c)
          OBVIOUS
        <4>1. "key" \in Certs /\ "client" \in Certs
          BY DEF Certs
        <4>2. IsEap(a) /\ OneForm(a)
          BY <3>2, <4>1, GiveOneForm, Zenon
        <4>3. IsEap(b) /\ OneForm(b)
          BY <4>1, <4>2, GiveOneForm, Zenon
        <4>4. eap' = [b EXCEPT !.identity = "user", !.password = "", !.method = "tls",
                               !.phase2 = "mschapv2"]
          BY Zenon
        <4>5. eap' = [identity |-> "user", password |-> "", method |-> "tls",
                      phase2 |-> "mschapv2", cert |-> b.cert]
          BY <4>3, <4>4 DEF IsEap
        <4>6. IsEap(eap') /\ OneForm(eap')
          BY <4>3, <4>5, FieldsKeep, Zenon
        <4> QED
          BY <4>6 DEF EapInv, IsEap, OneForm, Both
      <3> QED
        BY <2>3, <3>3, <3>4, Zenon DEF NewOptions
    <2>4. CASE SetOptions
      <3>1. UNCHANGED byHand
        BY <2>4 DEF SetOptions
      <3>2. CASE \E f \in Forms : \E v \in Given(f) : eap' = Give(eap, "ca", f, v)
        <4>1. "ca" \in Certs
          BY DEF Certs
        <4> QED
          BY <1>5, <3>1, <3>2, <4>1, Zenon
      <3>3. CASE \E m \in {"peap", "ttls", "tls"} : eap' = [eap EXCEPT !.method = m]
        BY <1>3, <1>4, <3>1, <3>3 DEF IsEap
      <3>4. CASE \E p \in {"mschapv2", "pap"} : eap' = [eap EXCEPT !.phase2 = p]
        BY <1>3, <1>4, <3>1, <3>4 DEF IsEap
      <3> QED
        BY <2>4, <3>2, <3>3, <3>4, Zenon DEF SetOptions
    <2>5. CASE AssignField
      <3>1. byHand' = TRUE /\ \E c \in Certs, f \in Forms : \E v : eap' = Assign(eap, c, f, v)
        BY <2>5, Zenon DEF AssignField
      <3>2. IsEap(eap')
        BY <1>3, <3>1, AssignIsEap, Zenon
      <3> QED
        BY <3>1, <3>2 DEF EapInv, IsEap
    <2> QED
      BY <2>1, <2>2, <2>3, <2>4, <2>5
  <1> QED
    BY <1>1, <1>2, <1>6, Unbuilt

\* A step that builds a Wi-Fi profile, from a builder with the security asked for.
LEMMA WifiBuilt ==
    ASSUME Inv, stage' = "built", NEW w, IsWifi(w), Secured(w, asked', eap),
           settings' = WifiSettings(w), UNCHANGED <<eap, byHand, wg>>
    PROVE  Inv'
  <1> PICK s : s = settings'
    OBVIOUS
  <1> PICK sec : sec = asked'
    OBVIOUS
  <1>1. s["connection"]["type"] = WIRELESS /\ WifiSummary(s).security = SummaryOf(sec, eap)
    BY Reads, Zenon
  <1>2. eap' = eap /\ byHand' = byHand /\ wg' = wg
    OBVIOUS
  <1>3. SecurityIsTheLastAsked'
    BY <1>1, <1>2, Zenon DEF SecurityIsTheLastAsked, SummaryOf
  <1>4. WireGuardFaithful'
    BY <1>1, stage' = "built" DEF WireGuardFaithful, Built
  <1>5. EapInv'
    BY <1>2 DEF Inv, EapInv, IsEap, OneForm, Both
  <1>6. TunnelInv'
    BY <1>2, stage' = "built" DEF Inv, TunnelInv, IsTunnel
  <1> QED
    BY <1>3, <1>4, <1>5, <1>6, stage' = "built" DEF Inv, WifiInv, PanicsOnlyByHand

\* A step that stays with the Wi-Fi builder, or panics.
LEMMA WifiKept ==
    ASSUME Inv, ~checked', UNCHANGED <<eap, byHand, wg>>,
           \/ stage' = "wifi" /\ IsWifi(wifi') /\ Secured(wifi', asked', eap)
           \/ stage' = "panicked" /\ Panics(eap) /\ asked'.mgmt \in Dot1xUsers
    PROVE  Inv'
  <1>1. eap' = eap /\ byHand' = byHand /\ wg' = wg
    OBVIOUS
  <1>2. EapInv'
    BY <1>1 DEF Inv, EapInv, IsEap, OneForm, Both
  <1>3. TunnelInv'
    BY <1>1 DEF Inv, TunnelInv, IsTunnel
  <1>4. stage' \in {"wifi", "panicked"}
    OBVIOUS
  <1>5. SecurityIsTheLastAsked' /\ WireGuardFaithful'
    BY <1>4 DEF SecurityIsTheLastAsked, WireGuardFaithful, Built
  <1>6. WifiInv' /\ PanicsOnlyByHand'
    <2>1. CASE stage' = "wifi"
      <3>1. IsWifi(wifi') /\ Secured(wifi', asked', eap')
        BY <1>1, <2>1
      <3>2. stage' # "panicked"
        BY <2>1
      <3> QED
        BY <3>1, <3>2, Zenon DEF WifiInv, PanicsOnlyByHand
    <2>2. CASE stage' = "panicked"
      <3>1. Panics(eap) /\ asked'.mgmt \in Dot1xUsers
        BY <2>2
      <3>2. ~ValidSecurity(asked', eap) /\ ~OneForm(eap)
        BY <3>1, PanicsInvalid, PanicsByHand, Zenon
      <3>3. byHand
        BY <3>2, Zenon DEF Inv, EapInv
      <3>4. stage' # "wifi"
        BY <2>2
      <3> QED
        BY <1>1, <3>2, <3>3, <3>4, Zenon DEF WifiInv, PanicsOnlyByHand
    <2> QED
      BY <1>4, <2>1, <2>2
  <1> QED
    BY <1>2, <1>3, <1>5, <1>6 DEF Inv

LEMMA AskedFor ==
    ASSUME NEW sec \in Securities
    PROVE  sec.mgmt \in {"open", "wpa-psk"} \cup Dot1xUsers
  <1>1. \/ sec = [mgmt |-> "open", psk |-> ""]
        \/ sec \in [mgmt : {"wpa-psk"}, psk : {"", "short", "secret12"}]
        \/ sec \in [mgmt : {"wpa-eap", SuiteB}, psk : {""}]
    BY Zenon DEF Securities
  <1>2. CASE sec = [mgmt |-> "open", psk |-> ""]
    BY <1>2
  <1>3. CASE sec \in [mgmt : {"wpa-psk"}, psk : {"", "short", "secret12"}]
    BY <1>3
  <1>4. CASE sec \in [mgmt : {"wpa-eap", SuiteB}, psk : {""}]
    BY <1>4 DEF Dot1xUsers
  <1> QED
    BY <1>1, <1>2, <1>3, <1>4

LEMMA WifiSteps ==
    ASSUME Inv, StartWifi \/ Ask \/ SetWifi \/ BuildWifiDirectly
    PROVE  Inv'
  <1>1. CASE StartWifi
    <2>1. stage' = "wifi" /\ ~checked' /\ UNCHANGED <<eap, byHand, wg>>
      BY <1>1 DEF StartWifi, Finish, Inv, TunnelInv
    <2>2. IsWifi(wifi') /\ Secured(wifi', asked', eap)
      BY <1>1, NewWifiIsWifi, Zenon DEF StartWifi
    <2> QED
      BY <2>1, <2>2, WifiKept
  <1>2. CASE Ask
    <2>1. ~checked' /\ UNCHANGED <<eap, byHand, wg>> /\ stage = "wifi"
      BY <1>2 DEF Ask, Inv, TunnelInv
    <2> PICK sec \in Securities :
            IF sec.mgmt \in {"wpa-eap", SuiteB} /\ Panics(eap)
            THEN stage' = "panicked" /\ asked' = sec /\ UNCHANGED wifi
            ELSE UNCHANGED stage /\ asked' = sec /\ wifi' = Secure(wifi, sec, eap)
      BY <1>2, Zenon DEF Ask
    <2>2. sec.mgmt \in {"open", "wpa-psk"} \cup Dot1xUsers
      BY AskedFor, Zenon
    <2>3. IsWifi(Secure(wifi, sec, eap)) /\ Secured(Secure(wifi, sec, eap), sec, eap)
      BY <2>1, <2>2, SecureMakes, Zenon DEF Inv, WifiInv
    <2>4. \/ stage' = "wifi" /\ IsWifi(wifi') /\ Secured(wifi', asked', eap)
          \/ stage' = "panicked" /\ Panics(eap) /\ asked'.mgmt \in Dot1xUsers
      BY <2>1, <2>3, Zenon DEF Dot1xUsers
    <2> QED
      BY <2>1, <2>4, WifiKept, Zenon
  <1>3. CASE SetWifi
    <2>1. ~checked' /\ UNCHANGED <<eap, byHand, wg, asked>> /\ stage = "wifi" /\ stage' = "wifi"
      BY <1>3 DEF SetWifi, Inv, TunnelInv
    <2>2. IsWifi(wifi) /\ Secured(wifi, asked, eap)
      BY <2>1 DEF Inv, WifiInv
    <2>3. IsWifi(wifi') /\ Secured(wifi', asked, eap)
      <3>1. CASE \E h \in BOOLEAN : wifi' = [wifi EXCEPT !.hidden = h]
        BY <2>2, <3>1 DEF IsWifi, Secured, OfSecurity, Dot1xUsers
      <3>2. CASE \E s : Keeps(wifi.sections, s) /\ wifi' = [wifi EXCEPT !.sections = s]
        BY <2>2, <3>2, SetKeeps, Zenon
      <3>3. \A a : Keeps(wifi.sections, Options(wifi.sections, a))
        BY OptionsKeep, Zenon
      <3>4. \A f \in {"ipv4", "ipv6"} : \A m : Keeps(wifi.sections, Method(wifi.sections, f, m))
        BY MethodKeeps, Zenon
      <3>5. CASE \E a \in BOOLEAN : wifi' = [wifi EXCEPT !.sections = Options(@, a)]
        BY <3>2, <3>3, <3>5
      <3>6. CASE \E f \in {"ipv4", "ipv6"} : \E m : wifi' = [wifi EXCEPT !.sections = Method(@, f, m)]
        BY <3>2, <3>4, <3>6
      <3>7. \/ \E m \in {"auto", "shared"} : wifi' = [wifi EXCEPT !.sections = Method(@, "ipv4", m)]
            \/ \E m \in {"auto", "ignore"} : wifi' = [wifi EXCEPT !.sections = Method(@, "ipv6", m)]
            => \E f \in {"ipv4", "ipv6"} : \E m : wifi' = [wifi EXCEPT !.sections = Method(@, f, m)]
        OBVIOUS
      <3> QED
        BY <1>3, <3>1, <3>5, <3>6, <3>7, Zenon DEF SetWifi
    <2> QED
      BY <2>1, <2>3, WifiKept
  <1>4. CASE BuildWifiDirectly
    <2>1. stage = "wifi" /\ stage' = "built" /\ UNCHANGED <<eap, byHand, wg, asked>>
      BY <1>4 DEF BuildWifiDirectly, Finish
    <2>2. IsWifi(wifi) /\ Secured(wifi, asked', eap)
      BY <2>1 DEF Inv, WifiInv
    <2>3. settings' = WifiSettings(wifi)
      BY <1>4, Zenon DEF BuildWifiDirectly
    <2> QED
      BY <2>1, <2>2, <2>3, WifiBuilt, Zenon
  <1> QED
    BY <1>1, <1>2, <1>3, <1>4

LEMMA ConnectWifiStep ==
    ASSUME Inv, ConnectWifi
    PROVE  Inv'
  <1>1. UNCHANGED <<eap, byHand, wg>>
    BY Zenon DEF ConnectWifi
  <1> PICK ssid \in Names, sec \in Securities :
          /\ asked' = sec
          /\ checked' = (ValidSsid(ssid) /\ ValidSecurity(sec, eap))
          /\ IF ~checked' THEN Finish("refused") /\ UNCHANGED settings
             ELSE IF sec.mgmt \in {"wpa-eap", SuiteB} /\ Panics(eap)
             THEN Finish("panicked") /\ UNCHANGED settings
             ELSE Finish("built") /\ settings' = BuildWifi(sec, eap)
    BY Zenon DEF ConnectWifi
  <1>2. sec.mgmt \in {"open", "wpa-psk"} \cup Dot1xUsers
    BY AskedFor, Zenon
  <1>3. CASE ~checked'
    <2>1. stage' = "refused"
      BY <1>3, Zenon DEF Finish
    <2>2. EapInv' /\ IsTunnel(wg)'
      BY <1>1 DEF Inv, EapInv, IsEap, OneForm, Both, TunnelInv, IsTunnel
    <2> QED
      BY <1>3, <2>1, <2>2, Unbuilt
  <1>4. CASE checked'
    <2>1. ~(sec.mgmt \in Dot1xUsers /\ Panics(eap))
      BY <1>4, PanicsInvalid, Zenon
    <2>2. stage' = "built" /\ settings' = BuildWifi(sec, eap)
      BY <1>4, <2>1, Zenon DEF Finish, Dot1xUsers
    <2> PICK b : b = [NewWifi EXCEPT !.sections =
                         Method(Method(Options(@, TRUE), "ipv4", "auto"), "ipv6", "auto")]
      OBVIOUS
    <2> PICK w : w = Secure(b, sec, eap)
      OBVIOUS
    <2>3. settings' = WifiSettings(w)
      BY <2>2, Zenon DEF BuildWifi
    <2>4. IsWifi(w) /\ Secured(w, sec, eap)
      BY <1>2, BasedIsWifi, SecureMakes, Zenon
    <2>5. Secured(w, asked', eap)
      BY <2>4, Zenon
    <2> QED
      BY <1>1, <2>2, <2>3, <2>4, <2>5, WifiBuilt, Zenon
  <1> QED
    BY <1>3, <1>4

\* A step that makes no WireGuard profile leaves the credentials a tunnel's.
LEMMA SetTunnelKeeps ==
    ASSUME IsTunnel(wg), SetTunnel
    PROVE  IsTunnel(wg)'
  <1>1. ASSUME NEW n, NEW g, NEW k, NEW a \in Addresses \cup {None}, NEW p \in Seq(Peers), NEW d, NEW m,
               wg' = [name |-> n, gateway |-> g, key |-> k, address |-> a, peers |-> p, dns |-> d, mtu |-> m]
        PROVE  IsTunnel(wg)'
    BY <1>1 DEF IsTunnel
  <1>2. CASE \E k \in Keys : wg' = [wg EXCEPT !.key = k]
    BY <1>1, <1>2 DEF IsTunnel
  <1>3. CASE \E a \in Addresses : wg' = [wg EXCEPT !.address = a]
    BY <1>1, <1>3 DEF IsTunnel
  <1>4. CASE \E p \in Peers : wg' = [wg EXCEPT !.peers = Append(@, p)]
    <2> PICK p \in Peers : wg' = [wg EXCEPT !.peers = Append(@, p)]
      BY <1>4
    <2> PICK q : q = Append(wg.peers, p)
      OBVIOUS
    <2>1. q \in Seq(Peers)
      BY DEF IsTunnel
    <2>2. wg' = [wg EXCEPT !.peers = q]
      OBVIOUS
    <2> QED
      BY <1>1, <2>1, <2>2 DEF IsTunnel
  <1>5. CASE \E d : wg' = [wg EXCEPT !.dns = d]
    BY <1>1, <1>5 DEF IsTunnel
  <1>6. CASE \E m : wg' = [wg EXCEPT !.mtu = m]
    BY <1>1, <1>6 DEF IsTunnel
  <1> QED
    BY <1>2, <1>3, <1>4, <1>5, <1>6 DEF SetTunnel

LEMMA TunnelSteps ==
    ASSUME Inv, SetCredentials \/ SetWireGuard
    PROVE  Inv'
  <1>1. UNCHANGED <<eap, byHand>> /\ ~checked' /\ stage' \in {"credentials", "wireguard"}
    BY DEF SetCredentials, SetWireGuard, Inv, TunnelInv
  <1>2. EapInv'
    BY <1>1 DEF Inv, EapInv, IsEap, OneForm, Both
  <1>3. IsTunnel(wg)
    BY DEF Inv, TunnelInv
  <1>4. IsTunnel(wg)'
    <2>1. CASE SetTunnel
      BY <1>3, <2>1, SetTunnelKeeps
    <2>2. CASE \E g \in Gateways : wg' = [wg EXCEPT !.gateway = g]
      BY <1>3, <2>2 DEF IsTunnel
    <2>3. CASE \E p \in Peers : wg' = [wg EXCEPT !.peers = <<p>>]
      BY <1>3, <2>3 DEF IsTunnel
    <2> QED
      BY <2>1, <2>2, <2>3, Zenon DEF SetCredentials, SetWireGuard
  <1> QED
    BY <1>1, <1>2, <1>4, Unbuilt

\* A step that builds a WireGuard profile from the credentials as they are now.
LEMMA WireGuardBuilt ==
    ASSUME Inv, stage' = "built", UNCHANGED <<eap, byHand>>, NEW c, c = wg',
           IsTunnel(c), c.address \in Addresses, c.peers # <<>>,
           NEW s, Named(s, c.name), settings' = WireGuardSettings(c, s)
    PROVE  Inv'
  <1> PICK z : z = settings'
    OBVIOUS
  <1>1. c.address.family \in Families
    BY BuildersAssumption, Zenon DEF Families
  <1>2. Tunnel(z, c) /\ (c.dns # None => \A f \in Families : Serves(z, f, c.dns))
    BY <1>1, WireGuardMakes, Zenon
  <1>3. c.peers \in Seq(Peers)
    BY DEF IsTunnel
  <1>4. Shown(z, c)
    BY <1>2, <1>3, TunnelShown, Zenon
  <1>5. z["connection"]["type"] = "wireguard"
    BY <1>2 DEF Tunnel, Named
  <1>6. stage' # "refused"
    OBVIOUS
  <1>7. WireGuardFaithful'
    BY <1>4, <1>6, Zenon DEF WireGuardFaithful, Shown
  <1>8. SecurityIsTheLastAsked'
    BY <1>5 DEF SecurityIsTheLastAsked, Built
  <1>9. EapInv' /\ TunnelInv'
    BY stage' = "built" DEF Inv, EapInv, IsEap, OneForm, Both, TunnelInv, IsTunnel
  <1> QED
    BY <1>7, <1>8, <1>9, stage' = "built" DEF Inv, WifiInv, PanicsOnlyByHand

\* Credentials that pass the validation fail to build over an octet only.
LEMMA LaxRefused ==
    ASSUME NEW c, CredentialsComplete(c), ValidCredentials(c), ~Buildable(c)
    PROVE  LaxOctets(c)
  <1>1. None \notin {c.key, c.address} /\ c.peers # <<>>
    BY Zenon DEF CredentialsComplete
  <1>2. c.key \in {"exact", "near"} /\ Fits(c.address)
    BY Zenon DEF ValidCredentials
  <1>3. \A p \in ToSet(c.peers) :
           p.key \in {"exact", "near"} /\ IsGateway(p.gateway) /\ p.allowed # <<>>
    BY Zenon DEF ValidCredentials, ValidPeer
  <1> QED
    BY <1>1, <1>2, <1>3, Zenon DEF Buildable, LaxOctets

\* Both look at everything but the name.
LEMMA BuildableUnnamed ==
    ASSUME NEW c, NEW d, d.key = c.key, d.address = c.address, d.peers = c.peers, d.dns = c.dns
    PROVE  Buildable(d) <=> Buildable(c)
  BY DEF Buildable

LEMMA WireGuardSteps ==
    ASSUME Inv, BuildWireGuard \/ ConnectWireGuard
    PROVE  Inv'
  <1>1. UNCHANGED <<eap, byHand>> /\ stage \in {"wireguard", "credentials"}
    BY Zenon DEF BuildWireGuard, ConnectWireGuard
  <1> PICK name : wg' = [wg EXCEPT !.name = name]
    BY Zenon DEF BuildWireGuard, ConnectWireGuard
  <1> PICK c : c = wg'
    OBVIOUS
  <1>2. ~checked /\ IsTunnel(wg)
    BY <1>1 DEF Inv, TunnelInv
  <1>3. /\ IsTunnel(c)
        /\ c.key = wg.key /\ c.address = wg.address /\ c.peers = wg.peers /\ c.dns = wg.dns
    BY <1>2 DEF IsTunnel
  <1>4. EapInv'
    BY <1>1 DEF Inv, EapInv, IsEap, OneForm, Both
  <1>5. ASSUME Buildable(wg), stage' = "built", NEW s, Named(s, c.name),
               settings' = WireGuardSettings(c, s)
        PROVE  Inv'
    <2>1. c.address \in Addresses /\ c.peers # <<>>
      BY <1>3, <1>5 DEF Buildable, IsTunnel
    <2> QED
      BY <1>1, <1>3, <1>5, <2>1, WireGuardBuilt, Zenon
  <1>6. CASE BuildWireGuard
    <2>1. CASE Buildable(wg)
      <3> PICK plain : plain = New("wireguard", c.name)
        OBVIOUS
      <3>1. Named(plain, c.name)
        BY NewNamed, Zenon
      <3>2. \A auto : Named(Options(plain, auto), c.name)
        BY <3>1, OptionsNamed, Zenon
      <3>3. stage' = "built" /\ \E s \in {plain} \cup {Options(plain, auto) : auto \in BOOLEAN} :
                                     settings' = WireGuardSettings(c, s)
        BY <1>6, <2>1, Zenon DEF BuildWireGuard, Finish
      <3> PICK s \in {plain} \cup {Options(plain, auto) : auto \in BOOLEAN} :
              settings' = WireGuardSettings(c, s)
        BY <3>3, Zenon
      <3>4. Named(s, c.name)
        BY <3>1, <3>2, Zenon
      <3> QED
        BY <1>5, <2>1, <3>3, <3>4, Zenon
    <2>2. CASE ~Buildable(wg)
      <3>1. stage' = "refused" /\ UNCHANGED checked
        BY <1>6, <2>2, Zenon DEF BuildWireGuard, Finish
      <3>2. IsTunnel(wg)'
        BY <1>3 DEF IsTunnel
      <3> QED
        BY <1>2, <1>4, <3>1, <3>2, Unbuilt, Zenon
    <2> QED
      BY <2>1, <2>2
  <1>7. CASE ConnectWireGuard
    <2>1. checked' = (CredentialsComplete(c) /\ ValidCredentials(c))
      BY <1>7, Zenon DEF ConnectWireGuard
    <2>2. CASE checked' /\ Buildable(wg)
      <3> PICK s : s = Options(New("wireguard", c.name), FALSE)
        OBVIOUS
      <3>1. Named(s, c.name)
        BY NewNamed, OptionsNamed, Zenon
      <3>2. stage' = "built" /\ settings' = WireGuardSettings(c, s)
        BY <1>7, <2>2, Zenon DEF ConnectWireGuard, Finish
      <3> QED
        BY <1>5, <2>2, <3>1, <3>2, Zenon
    <2>3. CASE ~(checked' /\ Buildable(wg))
      <3>1. stage' = "refused"
        BY <1>7, <2>3, Zenon DEF ConnectWireGuard, Finish
      <3>2. checked' => LaxOctets(c)
        BY <1>3, <2>1, <2>3, BuildableUnnamed, LaxRefused, Zenon
      <3>3. WireGuardFaithful'
        BY <3>1, <3>2, Zenon DEF WireGuardFaithful, Built
      <3>4. TunnelInv'
        BY <1>3, <3>1 DEF TunnelInv, IsTunnel
      <3> QED
        BY <1>4, <3>1, <3>3, <3>4 DEF Inv, WifiInv, PanicsOnlyByHand, SecurityIsTheLastAsked, Built
    <2> QED
      BY <2>2, <2>3
  <1> QED
    BY <1>6, <1>7

LEMMA OtherSteps ==
    ASSUME Inv, BuildOther
    PROVE  Inv'
  <1>1. UNCHANGED <<eap, byHand, wg, checked>>
    BY Zenon DEF BuildOther
  <1>2. ~checked'
    <2>1. stage = "start"
      BY Zenon DEF BuildOther
    <2> QED
      BY <1>1, <2>1 DEF Inv, TunnelInv
  <1>3. EapInv' /\ IsTunnel(wg)'
    BY <1>1 DEF Inv, EapInv, IsEap, OneForm, Both, TunnelInv, IsTunnel
  <1>4. \/ stage' = "refused"
        \/ stage' = "built" /\ \E type \in {"802-3-ethernet", "bluetooth", "vlan"} : Typed(settings', type)
    <2>1. CASE settings' = EthernetSettings /\ Finish("built")
      BY <2>1, OthersTyped, Zenon DEF Finish
    <2>2. CASE \E role \in {"panu", "dun"} : settings' = BluetoothSettings(role) /\ Finish("built")
      BY <2>2, OthersTyped, Zenon DEF Finish
    <2>3. CASE \E id \in VlanIds, parent \in {"", "eth0"} :
                  IF ValidVlan(id, parent)
                  THEN settings' = VlanSettings(id, parent) /\ Finish("built")
                  ELSE UNCHANGED settings /\ Finish("refused")
      <3>1. \/ \E id, parent : settings' = VlanSettings(id, parent) /\ stage' = "built"
            \/ stage' = "refused"
        BY <2>3, Zenon DEF Finish
      <3> QED
        BY <3>1, OthersTyped, Zenon
    <2> QED
      BY <2>1, <2>2, <2>3, Zenon DEF BuildOther
  <1>5. CASE stage' = "refused"
    BY <1>2, <1>3, <1>5, Unbuilt
  <1>6. CASE stage' = "built" /\ \E type \in {"802-3-ethernet", "bluetooth", "vlan"} : Typed(settings', type)
    <2>1. ~Built(WIRELESS)' /\ ~Built("wireguard")'
      BY <1>6 DEF Built, Typed
    <2>2. stage' = "built"
      BY <1>6
    <2>3. SecurityIsTheLastAsked' /\ WireGuardFaithful'
      BY <2>1, <2>2, Zenon DEF SecurityIsTheLastAsked, WireGuardFaithful
    <2>4. TunnelInv'
      BY <1>3, <2>2 DEF TunnelInv, IsTunnel
    <2> QED
      BY <1>3, <2>2, <2>3, <2>4 DEF Inv, WifiInv, PanicsOnlyByHand
  <1> QED
    BY <1>4, <1>5, <1>6

LEMMA StutterInv ==
    ASSUME Inv, UNCHANGED vars
    PROVE  Inv'
  <1>1. /\ stage' = stage /\ eap' = eap /\ byHand' = byHand /\ wifi' = wifi /\ asked' = asked
        /\ wg' = wg /\ checked' = checked /\ settings' = settings
    BY DEF vars
  <1>2. EapInv' /\ WifiInv'
    BY <1>1, Zenon DEF Inv, EapInv, WifiInv
  <1>3. TunnelInv' /\ PanicsOnlyByHand'
    BY <1>1, Zenon DEF Inv, TunnelInv, PanicsOnlyByHand
  <1>4. SecurityIsTheLastAsked'
    BY <1>1, Zenon DEF Inv, SecurityIsTheLastAsked, Built
  <1>5. WireGuardFaithful'
    BY <1>1, Zenon DEF Inv, WireGuardFaithful, Built
  <1> QED
    BY <1>2, <1>3, <1>4, <1>5 DEF Inv

LEMMA NextInv == Inv /\ [Next]_vars => Inv'
  BY EapSteps, WifiSteps, ConnectWifiStep, TunnelSteps, WireGuardSteps, OtherSteps, StutterInv, Zenon
     DEF Next

-----------------------------------------------------------------------------
(* The theorems.                                                           *)

LEMMA AlwaysInv == Spec => []Inv
  BY InitInv, NextInv, PTL DEF Spec

\* However the builders of EAP options and of Wi-Fi profiles are called, and in whatever
\* order, a builder panics on a certificate in two forms only if a field was assigned by
\* hand, and never after the validation of connect (wifi_builder.rs:425).
THEOREM PanicsAreByHand == Spec => []PanicsOnlyByHand
  <1>1. Inv => PanicsOnlyByHand
    BY DEF Inv
  <1> QED
    BY <1>1, AlwaysInv, PTL

\* The profile the Wi-Fi builder makes has the security asked for last and nothing of an
\* earlier one, as read back from it, for any number and order of calls.
THEOREM LastAskedHolds == Spec => []SecurityIsTheLastAsked
  <1>1. Inv => SecurityIsTheLastAsked
    BY DEF Inv
  <1> QED
    BY <1>1, AlwaysInv, PTL

\* For all addresses, servers and peers, valid credentials are refused by the builder only
\* over an octet the two parsers read differently, and what is built shows the caller's
\* name, address, servers and first peer.
THEOREM WireGuardIsFaithful == Spec => []WireGuardFaithful
  <1>1. Inv => WireGuardFaithful
    BY DEF Inv
  <1> QED
    BY <1>1, AlwaysInv, PTL


-----------------------------------------------------------------------------
(* The lexer.                                                               *)

\* The words a line can have.
WordsOf == [kind : {"word", "open", "close", "comment"}, text : Texts \cup {"#", "remark"}]

\* The lexer has read so many items, is in a comment that goes on or not, and
\* in a block or outside of one.
LexerFields == {"items", "current", "continuing", "block", "buffer", "error"}
HasRead(l, items, hid, blk) ==
    /\ DOMAIN l = LexerFields
    /\ l.items = items /\ l.error = FALSE
    /\ l.continuing = hid /\ (hid => l.current = Comment)
    /\ l.block = IF blk = None THEN None ELSE blk.key
    /\ blk # None => l.buffer = blk.rest

Refuses(l) == DOMAIN l = LexerFields /\ l.error = TRUE

\* The smallest and the greatest of a set of integers are what their names say.
LEMMA LeastIs ==
    ASSUME NEW S \in SUBSET Int, NEW i \in S, \A j \in S : i <= j
    PROVE  Min(S) = i
<1> DEFINE m == Min(S)
<1>1. m \in S /\ \A j \in S : m <= j
  BY Zenon DEF Min
<1> HIDE DEF m
<1>2. m = i
  BY <1>1
<1> QED BY <1>2 DEF m

LEMMA GreatestIs ==
    ASSUME NEW S \in SUBSET Int, NEW i \in S, \A j \in S : j <= i
    PROVE  Max(S) = i
<1> DEFINE m == Max(S)
<1>1. \A j \in S : i >= j
  OBVIOUS
<1>2. m \in S /\ \A j \in S : m >= j
  BY <1>1, Zenon DEF Max
<1> HIDE DEF m
<1>3. m = i
  BY <1>1, <1>2
<1> QED BY <1>3 DEF m

LEMMA Concatenated ==
    ASSUME NEW W, NEW s \in Seq(W), NEW t \in Seq(W)
    PROVE  /\ s \o t \in Seq(W)
           /\ Len(s \o t) = Len(s) + Len(t)
           /\ \A i \in 1..Len(s) : (s \o t)[i] = s[i]
           /\ \A i \in 1..Len(t) : (s \o t)[Len(s) + i] = t[i]
OBVIOUS

LEMMA SplitJoins ==
    ASSUME NEW W, NEW s \in Seq(W), NEW i \in 1..Len(s)
    PROVE  /\ SubSeq(s, 1, i) \in Seq(W) /\ SubSeq(s, i + 1, Len(s)) \in Seq(W)
           /\ SubSeq(s, 1, i) \o SubSeq(s, i + 1, Len(s)) = s
<1> DEFINE n == Len(s)
<1>1. n \in Nat /\ i \in 1..n /\ i \in 1..n + 1 /\ i + 1 \in 1..n + 1
  OBVIOUS
<1>2. SubSeq(s, 1, i) \in Seq(W) /\ SubSeq(s, i + 1, n) \in Seq(W)
  BY <1>1
<1>3. SubSeq(s, 1, i) \o SubSeq(s, i + 1, n) = SubSeq(s, 1, n)
  BY <1>1, ConcatAdjacentSubSeq
<1>4. SubSeq(s, 1, n) = s
  BY SubSeqFull
<1> QED BY <1>2, <1>3, <1>4, Zenon

\* Words without a comment stay as they are.
LEMMA NothingToCut ==
    ASSUME NEW words, \A i \in 1..Len(words) : words[i].kind # "comment"
    PROVE  Uncommented(words) = words
BY DEF Uncommented

\* A line that goes on from a comment is a comment.
LEMMA AllCut ==
    ASSUME NEW words \in Seq(WordsOf), words # <<>>, words[1].kind = "comment"
    PROVE  Uncommented(words) = <<>>
<1> DEFINE marks == {i \in 1..Len(words) : words[i].kind = "comment"}
           first == Min(marks)
<1>1. 1 \in marks /\ marks \subseteq Int /\ \A j \in marks : 1 <= j
  OBVIOUS
<1>2. Uncommented(words) = SubSeq(words, 1, first - 1)
  BY <1>1, Zenon DEF Uncommented
<1>3. first = 1
  <2> HIDE DEF marks
  <2> QED BY <1>1, LeastIs, Zenon
<1> HIDE DEF first, marks
<1>4. SubSeq(words, 1, first - 1) = <<>>
  BY <1>3
<1> QED BY <1>2, <1>4, Zenon

LEMMA CommentTyped == Comment \in Seq(WordsOf) /\ Len(Comment) = 2 /\ Comment[1].kind = "comment"
<1> DEFINE mark == [kind |-> "comment", text |-> "#"]
           remark == [kind |-> "word", text |-> "remark"]
<1>1. mark \in WordsOf /\ remark \in WordsOf
  BY DEF WordsOf
<1>2. Comment = <<mark, remark>>
  BY DEF Comment, Word
<1>3. mark.kind = "comment"
  OBVIOUS
<1> HIDE DEF mark, remark
<1> QED BY <1>1, <1>2, <1>3

\* A remark is cut off, and nothing else.
LEMMA RemarkCut ==
    ASSUME NEW words \in Seq(WordsOf), \A i \in 1..Len(words) : words[i].kind # "comment"
    PROVE  Uncommented(words \o Comment) = words
<1> DEFINE all == words \o Comment
           marks == {i \in 1..Len(all) : all[i].kind = "comment"}
           n == Len(words)
           first == Min(marks)
<1>1. /\ n \in Nat /\ all \in Seq(WordsOf) /\ Len(all) = n + Len(Comment)
      /\ \A i \in 1..n : all[i] = words[i]
      /\ \A i \in 1..Len(Comment) : all[n + i] = Comment[i]
  <2>1. Comment \in Seq(WordsOf)
    BY CommentTyped
  <2> QED BY <2>1, Concatenated, LenProperties
<1>2. Len(all) = n + 2 /\ all[n + 1].kind = "comment"
  BY <1>1, CommentTyped
<1>4. n + 1 \in marks /\ marks \subseteq Int /\ \A j \in marks : n + 1 <= j
  BY <1>1, <1>2
<1>5. Uncommented(all) = SubSeq(all, 1, first - 1)
  BY <1>4, Zenon DEF Uncommented
<1>6. first = n + 1
  <2> HIDE DEF marks, n
  <2> QED BY <1>4, LeastIs, Zenon
<1>7. SubSeq(all, 1, n) = words
  <2>1. SubSeq(all, 1, n) \in Seq(WordsOf) /\ Len(SubSeq(all, 1, n)) = n
    BY <1>1
  <2>2. \A i \in 1..n : SubSeq(all, 1, n)[i] = words[i]
    BY <1>1, <1>2
  <2> QED BY <2>1, <2>2
<1>8. first - 1 = n
  <2> HIDE DEF first
  <2> QED BY <1>1, <1>6
<1> QED BY <1>5, <1>7, <1>8, Zenon

\* The words of a directive.
WordsFor(d) == [i \in 1..Len(d) |-> Word(d[i])]

LEMMA WordsTyped ==
    ASSUME NEW d \in Seq(Texts), d # <<>>
    PROVE  /\ WordsFor(d) \in Seq(WordsOf) /\ WordsFor(d) # <<>>
           /\ Len(WordsFor(d)) = Len(d)
           /\ \A i \in 1..Len(WordsFor(d)) : WordsFor(d)[i].kind = "word"
           /\ [i \in 1..Len(WordsFor(d)) |-> TextOf(WordsFor(d)[i])] = d
<1> DEFINE words == WordsFor(d)
<1>1. Len(d) \in Nat /\ Len(d) > 0
  OBVIOUS
<1>2. \A i \in 1..Len(d) : d[i] \in Texts /\ Word(d[i]) \in WordsOf
  BY DEF Word, WordsOf
<1>3. words \in Seq(WordsOf) /\ Len(words) = Len(d)
  BY <1>1, <1>2 DEF WordsFor
<1>4. \A i \in 1..Len(d) : words[i].kind = "word" /\ words[i].text = d[i]
  BY DEF Word, WordsFor
<1>5. \A i \in 1..Len(d) : TextOf(words[i]) = d[i]
  BY <1>4 DEF TextOf
<1>6. [i \in 1..Len(words) |-> TextOf(words[i])] = d
  <2>1. [i \in 1..Len(words) |-> TextOf(words[i])] = [i \in 1..Len(d) |-> d[i]]
    BY <1>3, <1>5, Zenon
  <2>2. [i \in 1..Len(d) |-> d[i]] = d
    BY <1>1
  <2> QED BY <2>1, <2>2, Zenon
<1> HIDE DEF words
<1>7. words # <<>>
  BY <1>1, <1>3
<1> QED BY <1>3, <1>4, <1>6, <1>7 DEF words

\* The words of a directive make its item.
LEMMA DirectiveRead ==
    ASSUME NEW d \in Seq(Texts), d # <<>>, NEW items, NEW l, HasRead(l, items, FALSE, None)
    PROVE  HasRead(LogicalLine(l, WordsFor(d)), Append(items, Directive(d)), FALSE, None)
<1> DEFINE m == [l EXCEPT !.items = Append(@, Directive(d))]
<1>1. LogicalLine(l, WordsFor(d)) = m
  <2>1. ~Is("open", WordsFor(d)) /\ ~Is("close", WordsFor(d))
    <3> DEFINE words == WordsFor(d)
    <3>1. words \in Seq(WordsOf) /\ \A i \in 1..Len(words) : words[i].kind = "word"
      BY WordsTyped
    <3> HIDE DEF words
    <3>2. ~(Len(words) = 1 /\ words[1].kind = "open")
      BY <3>1
    <3>3. ~(Len(words) = 1 /\ words[1].kind = "close")
      BY <3>1
    <3> QED BY <3>2, <3>3 DEF words, Is
  <2> QED BY <2>1, WordsTyped, Zenon DEF LogicalLine
<1>2. HasRead(m, Append(items, Directive(d)), FALSE, None)
  <2> DEFINE item == Directive(d)
  <2> HIDE DEF item
  <2>1. HasRead([l EXCEPT !.items = Append(@, item)], Append(items, item), FALSE, None)
    BY DEF HasRead, LexerFields
  <2> QED BY <2>1 DEF item
<1> QED BY <1>1, <1>2, Zenon

\* A line as it continues what there is.
Joined(hid, words) == IF hid THEN Comment \o words ELSE words

Cleared(l) == [l EXCEPT !.current = <<>>, !.continuing = FALSE]

\* A line outside of a block, and two of them joined.
LEMMA LineRead ==
    ASSUME NEW items, NEW hid, NEW words, NEW l, HasRead(l, items, hid, None)
    PROVE  /\ HasRead(Cleared(l), items, FALSE, None)
           /\ Feed(l, Line(words, FALSE))
                = LogicalLine(Cleared(l), Uncommented(Joined(hid, words)))
<1> DEFINE all == Joined(hid, words)
           m == Cleared(l)
<1>1. l.error = FALSE /\ l.block = None
  BY DEF HasRead
<1>2. (IF l.continuing THEN l.current \o words ELSE words) = all
  BY DEF HasRead, Joined
<1>3. Line(words, FALSE).words = words /\ Line(words, FALSE).cont = FALSE
  BY DEF Line
<1>4. Feed(l, Line(words, FALSE)) = LogicalLine(m, Uncommented(all))
  <2> HIDE DEF all, m
  <2> SUFFICES Feed(l, Line(words, FALSE))
                 = LogicalLine(m, Uncommented(IF l.continuing THEN l.current \o words ELSE words))
    BY <1>2, Zenon
  <2> QED BY <1>1, <1>3, Zenon DEF Feed, m, Cleared
<1>5. HasRead(m, items, FALSE, None)
  BY DEF HasRead, LexerFields, Cleared
<1> QED BY <1>4, <1>5, Zenon

\* Two lines are read like one.
ReadsJoined(l, hid, words, more) ==
    Feed(Feed(l, Line(words, TRUE)), Line(more, FALSE))
        = LogicalLine(Cleared(Feed(l, Line(words, TRUE))), Uncommented(Joined(hid, words) \o more))

LEMMA JoinRead ==
    ASSUME NEW items, NEW hid, NEW words, NEW more,
           NEW l, HasRead(l, items, hid, None)
    PROVE  /\ HasRead(Cleared(Feed(l, Line(words, TRUE))), items, FALSE, None)
           /\ ReadsJoined(l, hid, words, more)
<1> DEFINE all == Joined(hid, words)
           held == [l EXCEPT !.current = all, !.continuing = TRUE]
           m == Cleared(held)
<1>1. l.error = FALSE /\ l.block = None
  BY DEF HasRead
<1>2. (IF l.continuing THEN l.current \o words ELSE words) = all
  BY DEF HasRead, Joined
<1>3. \A w, c : Line(w, c).words = w /\ Line(w, c).cont = c
  BY DEF Line
<1>4. Feed(l, Line(words, TRUE)) = held
  <2> HIDE DEF all
  <2> SUFFICES Feed(l, Line(words, TRUE))
                 = [l EXCEPT !.current = IF l.continuing THEN l.current \o words ELSE words,
                             !.continuing = TRUE]
    BY <1>2, Zenon
  <2> QED BY <1>1, <1>3, Zenon DEF Feed
<1>5. /\ held.error = FALSE /\ held.block = None /\ held.continuing = TRUE
      /\ held.current = all /\ DOMAIN held = LexerFields /\ held.items = items
  <2> HIDE DEF all
  <2> QED BY DEF HasRead, LexerFields
<1>6. Feed(held, Line(more, FALSE)) = LogicalLine(m, Uncommented(all \o more))
  <2> HIDE DEF all, held
  <2> SUFFICES Feed(held, Line(more, FALSE))
                 = LogicalLine(m, Uncommented(held.current \o more))
    BY <1>5, Zenon
  <2> QED BY <1>3, <1>5, Zenon DEF Feed, Cleared
<1>7. HasRead(m, items, FALSE, None)
  <2> HIDE DEF held
  <2> QED BY <1>5 DEF HasRead, LexerFields, Cleared
<1> QED BY <1>4, <1>6, <1>7, Zenon DEF ReadsJoined

\* What follows a comment that goes on is lost, in one line or two.
LEMMA HiddenLost ==
    ASSUME NEW words \in Seq(WordsOf), NEW more \in Seq(WordsOf)
    PROVE  /\ Uncommented(Comment \o words) = <<>>
           /\ Uncommented((Comment \o words) \o more) = <<>>
<1>1. Comment \in Seq(WordsOf) /\ 1 \in 1..Len(Comment) /\ Comment[1].kind = "comment"
  BY CommentTyped
<1>2. /\ Comment \o words \in Seq(WordsOf) /\ 1 \in 1..Len(Comment \o words)
      /\ (Comment \o words)[1].kind = "comment"
  <2>1. Len(Comment \o words) = 2 + Len(words) /\ (Comment \o words)[1] = Comment[1]
    <3>1. /\ Len(Comment \o words) = Len(Comment) + Len(words)
          /\ (Comment \o words)[1] = Comment[1]
      BY <1>1, Concatenated
    <3> QED BY <3>1, CommentTyped
  <2>2. Len(words) \in Nat
    OBVIOUS
  <2> QED BY <1>1, <2>1, <2>2, Concatenated
<1>3. ASSUME NEW w, w = Comment \o words
      PROVE  /\ w \o more \in Seq(WordsOf) /\ 1 \in 1..Len(w \o more)
             /\ (w \o more)[1].kind = "comment"
  <2>1. w \in Seq(WordsOf) /\ 1 \in 1..Len(w)
    BY <1>2, <1>3
  <2>2. /\ w \o more \in Seq(WordsOf) /\ Len(w \o more) = Len(w) + Len(more)
        /\ (w \o more)[1] = w[1]
    BY <2>1, Concatenated
  <2> QED BY <1>2, <1>3, <2>1, <2>2
<1>4. \A w \in Seq(WordsOf) : 1 \in 1..Len(w) => w # <<>>
  OBVIOUS
<1> QED BY <1>2, <1>3, <1>4, AllCut, Zenon

LEMMA NothingRead == ASSUME NEW m PROVE LogicalLine(m, <<>>) = m
BY DEF LogicalLine

LEMMA SomeItem ==
    ASSUME NEW i \in Items
    PROVE  i # None /\ i.key \in Texts /\ i.key # None /\ i.block \in BOOLEAN
BY OvpnImportAssumption DEF Items

LEMMA BlockTyped ==
    ASSUME NEW n \in Texts, NEW lines \in Seq(BlockLines)
    PROVE  Block(n, lines) \in Items /\ Block(n, lines).block = TRUE
           /\ Block(n, lines).key = n /\ Block(n, lines).rest = lines
BY DEF Block, Items

LEMMA DirectiveTyped ==
    ASSUME NEW d \in Seq(Texts), d # <<>>
    PROVE  Directive(d) \in Items /\ Directive(d).block = FALSE
           /\ Directive(d).key = Head(d) /\ Directive(d).rest = Tail(d)
<1>1. Head(d) \in Texts /\ Tail(d) \in Seq(Texts)
  OBVIOUS
<1> QED BY <1>1 DEF Directive, Items

\* The tag that opens a block, and the one that closes it.
LEMMA TagTyped ==
    ASSUME NEW n \in Texts
    PROVE  /\ <<Opening(n)>> \in Seq(WordsOf) /\ <<Closing(n)>> \in Seq(WordsOf)
           /\ Uncommented(<<Opening(n)>>) = <<Opening(n)>>
           /\ Uncommented(<<Closing(n)>>) = <<Closing(n)>>
           /\ Is("open", <<Opening(n)>>) /\ ~Is("open", <<Closing(n)>>)
           /\ Is("close", <<Closing(n)>>)
           /\ <<Opening(n)>>[1].text = n /\ <<Closing(n)>>[1].text = n
           /\ <<Opening(n)>> # <<>> /\ <<Closing(n)>> # <<>>
<1>1. Opening(n) \in WordsOf /\ Opening(n).kind = "open" /\ Opening(n).text = n
  BY DEF Opening, WordsOf
<1>2. Closing(n) \in WordsOf /\ Closing(n).kind = "close" /\ Closing(n).text = n
  BY DEF Closing, WordsOf
<1>3. ASSUME NEW w \in WordsOf
      PROVE  <<w>> \in Seq(WordsOf) /\ Len(<<w>>) = 1 /\ <<w>>[1] = w /\ <<w>> # <<>>
  OBVIOUS
<1>4. /\ \A i \in 1..Len(<<Opening(n)>>) : <<Opening(n)>>[i].kind # "comment"
      /\ \A i \in 1..Len(<<Closing(n)>>) : <<Closing(n)>>[i].kind # "comment"
  <2>1. ASSUME NEW w \in WordsOf, w.kind # "comment"
        PROVE  \A i \in 1..Len(<<w>>) : <<w>>[i].kind # "comment"
    BY <2>1
  <2>2. Opening(n).kind # "comment" /\ Closing(n).kind # "comment"
    BY <1>1, <1>2
  <2> QED BY <1>1, <1>2, <2>1, <2>2, Zenon
<1>5. "open" # "close"
  OBVIOUS
<1>6. /\ Is("open", <<Opening(n)>>) /\ ~Is("open", <<Closing(n)>>)
      /\ Is("close", <<Closing(n)>>)
  BY <1>1, <1>2, <1>3, <1>5, Zenon DEF Is
<1>7. /\ <<Opening(n)>> \in Seq(WordsOf) /\ <<Closing(n)>> \in Seq(WordsOf)
      /\ <<Opening(n)>>[1].text = n /\ <<Closing(n)>>[1].text = n
      /\ <<Opening(n)>> # <<>> /\ <<Closing(n)>> # <<>>
  BY <1>1, <1>2, <1>3, Zenon
<1>8. /\ Uncommented(<<Opening(n)>>) = <<Opening(n)>>
      /\ Uncommented(<<Closing(n)>>) = <<Closing(n)>>
  BY <1>4, NothingToCut, Zenon
<1> QED BY <1>6, <1>7, <1>8, Zenon

LEMMA OpeningRead ==
    ASSUME NEW items, NEW n \in Texts, NEW l, HasRead(l, items, FALSE, None)
    PROVE  HasRead(LogicalLine(l, <<Opening(n)>>), items, FALSE, Block(n, <<>>))
<1> DEFINE m == [l EXCEPT !.block = n, !.buffer = <<>>]
<1>1. LogicalLine(l, <<Opening(n)>>) = m
  BY TagTyped, Zenon DEF LogicalLine
<1>2. <<>> \in Seq(BlockLines)
  OBVIOUS
<1>3. PICK b : b = Block(n, <<>>)
  BY Zenon
<1>4. b # None /\ b.key = n /\ b.rest = <<>>
  <2>1. /\ Block(n, <<>>) \in Items /\ Block(n, <<>>).key = n /\ Block(n, <<>>).rest = <<>>
    BY <1>2, BlockTyped, Zenon
  <2> QED BY <1>3, <2>1, SomeItem, Zenon
<1>5. HasRead(m, items, FALSE, b)
  BY <1>4 DEF HasRead, LexerFields
<1> QED BY <1>1, <1>3, <1>5, Zenon

LEMMA ClosingRefused ==
    ASSUME NEW items, NEW n \in Texts, NEW l, HasRead(l, items, FALSE, None)
    PROVE  Refuses(LogicalLine(l, <<Closing(n)>>))
<1>1. LogicalLine(l, <<Closing(n)>>) = [l EXCEPT !.error = TRUE]
  BY TagTyped, Zenon DEF LogicalLine, LexError
<1>2. Refuses([l EXCEPT !.error = TRUE])
  BY DEF HasRead, LexerFields, Refuses
<1> QED BY <1>1, <1>2, Zenon

\* A line in a block.
LEMMA ContentRead ==
    ASSUME NEW items, NEW b \in Items, NEW l, HasRead(l, items, FALSE, b),
           NEW line, ~Closes(line), [b EXCEPT !.rest = Append(@, line)] \in Items
    PROVE  HasRead(Feed(l, line), items, FALSE, [b EXCEPT !.rest = Append(@, line)])
<1> DEFINE m == [l EXCEPT !.buffer = Append(@, line)]
           c == [b EXCEPT !.rest = Append(@, line)]
<1>1. l.error = FALSE /\ l.block # None
  BY SomeItem DEF HasRead
<1>2. Feed(l, line) = m
  BY <1>1, Zenon DEF Feed, InBlock
<1>3. DOMAIN b = {"block", "key", "rest"} /\ b # None
  BY SomeItem DEF Items
<1>4. c.key = b.key /\ c.rest = Append(b.rest, line)
  BY <1>3
<1>5. c # None
  BY SomeItem, Zenon
<1>6. HasRead(m, items, FALSE, c)
  <2> HIDE DEF c
  <2> QED BY <1>3, <1>4, <1>5 DEF HasRead, LexerFields
<1> QED BY <1>2, <1>6, Zenon

LEMMA ClosingRead ==
    ASSUME NEW items, NEW b \in Items, b.block = TRUE, NEW n \in Texts,
           NEW l, HasRead(l, items, FALSE, b)
    PROVE  LET m == Feed(l, Line(<<Closing(n)>>, FALSE))
           IN IF n = b.key THEN HasRead(m, Append(items, b), FALSE, None) ELSE Refuses(m)
<1> DEFINE line == Line(<<Closing(n)>>, FALSE)
<1>1. Closes(line) /\ line.words[1].text = n
  <2>1. line.words = <<Closing(n)>> /\ line.cont = FALSE
    BY DEF Line
  <2> QED BY <2>1, TagTyped, Zenon DEF Closes
<1>2. l.error = FALSE /\ l.block # None /\ l.block = b.key /\ l.buffer = b.rest
  BY SomeItem DEF HasRead
<1>3. CASE n = b.key
  <2> DEFINE m == [l EXCEPT !.items = Append(@, Block(l.block, l.buffer)), !.block = None,
                            !.buffer = <<>>]
  <2>1. Feed(l, line) = m
    <3> HIDE DEF line
    <3> QED BY <1>1, <1>2, <1>3, Zenon DEF Feed, InBlock
  <2>2. Block(l.block, l.buffer) = b
    BY <1>2 DEF Block, Items
  <2>3. HasRead([l EXCEPT !.items = Append(@, b), !.block = None, !.buffer = <<>>],
              Append(items, b), FALSE, None)
    BY DEF HasRead, LexerFields
  <2> QED BY <1>3, <2>1, <2>2, <2>3, Zenon
<1>4. CASE n # b.key
  <2>1. Feed(l, line) = [l EXCEPT !.error = TRUE]
    <3> HIDE DEF line
    <3> QED BY <1>1, <1>2, <1>4, Zenon DEF Feed, InBlock, LexError
  <2>2. Refuses([l EXCEPT !.error = TRUE])
    BY DEF HasRead, LexerFields, Refuses
  <2> QED BY <1>4, <2>1, <2>2, Zenon
<1> QED BY <1>3, <1>4, Zenon

-----------------------------------------------------------------------------
(* The file as it is written.                                               *)

Recorded ==
    /\ meant \in Seq(Items)
    /\ open = None \/ (open \in Items /\ open.block = TRUE /\ open.rest \in Seq(BlockLines))
    /\ hidden \in BOOLEAN /\ broken \in BOOLEAN
    /\ hidden => open = None

\* What the lexer makes of it: while it is written, all is in its items, its
\* block and its continued line; after the end, nothing is left open.
AsWritten ==
    /\ phase = "writing" =>
          IF broken THEN Refuses(lex) ELSE HasRead(lex, meant, hidden, open)
    /\ phase # "writing" => lex.error = broken /\ (~broken => lex.items = meant)

\* Only a file without errors goes on.
GoesOn == phase \notin {"writing", "refused"} => ~broken

LexerInv == Recorded /\ AsWritten /\ GoesOn

LEMMA InitLexer == ImportInit => LexerInv
<1> SUFFICES ASSUME ImportInit PROVE LexerInv
  OBVIOUS
<1>1. Recorded
  <2>1. <<>> \in Seq(Items)
    OBVIOUS
  <2> QED BY <2>1 DEF ImportInit, Recorded
<1>3. GoesOn /\ phase = "writing" /\ broken = FALSE
  BY DEF ImportInit, GoesOn
<1>2. HasRead(lex, meant, hidden, open)
  BY DEF ImportInit, Start, HasRead, LexerFields
<1> QED BY <1>1, <1>2, <1>3, Zenon DEF LexerInv, AsWritten

\* A write that the lexer follows keeps the invariant.
LEMMA WriteKeeps ==
    ASSUME NEW l, Write(l), Recorded', IF broken' THEN Refuses(l)
                                       ELSE HasRead(l, meant', hidden', open')
    PROVE  LexerInv'
<1>1. phase' = "writing" /\ lex' = l
  BY DEF Write
<1> QED BY <1>1 DEF LexerInv, AsWritten, GoesOn

LEMMA NothingKeeps == ASSUME LexerInv, WriteNothing PROVE LexerInv'
<1>1. PICK words \in {<<>>, Comment}, cont \in BOOLEAN :
        /\ cont => words # <<>> /\ ~hidden
        /\ Write(Feed(lex, Line(words, cont)))
        /\ hidden' = cont
  BY DEF WriteNothing
<1>2. UNCHANGED <<meant, open, broken>> /\ open = None /\ broken = FALSE
  BY <1>1 DEF WriteNothing, Write, LexerInv, Recorded
<1>3. Recorded'
  BY <1>1, <1>2 DEF LexerInv, Recorded
<1>4. HasRead(lex, meant, hidden, None)
  BY <1>1, <1>2 DEF LexerInv, AsWritten, Write
<1>5. words \in Seq(WordsOf) /\ Uncommented(words) = <<>>
  <2>1. Uncommented(<<>>) = <<>>
    <3>1. \A i \in 1..Len(<<>>) : <<>>[i].kind # "comment"
      OBVIOUS
    <3> QED BY <3>1, NothingToCut, Zenon
  <2>2. Uncommented(Comment) = <<>>
    <3>1. Comment # <<>>
      BY CommentTyped
    <3> QED BY <3>1, AllCut, CommentTyped, Zenon
  <2>3. <<>> \in Seq(WordsOf)
    OBVIOUS
  <2> QED BY <2>1, <2>2, <2>3, CommentTyped, Zenon
<1>6. HasRead(Feed(lex, Line(words, cont)), meant, cont, None)
  <2>1. CASE cont = TRUE
    <3>1. words = Comment /\ hidden = FALSE
      BY <1>1, <2>1 DEF LexerInv, Recorded
    <3>2. Feed(lex, Line(Comment, TRUE)) = [lex EXCEPT !.current = Comment, !.continuing = TRUE]
      <4>1. lex.error = FALSE /\ lex.block = None /\ lex.continuing = FALSE
        BY <1>4, <3>1 DEF HasRead
      <4>2. Line(Comment, TRUE).words = Comment /\ Line(Comment, TRUE).cont = TRUE
        BY DEF Line
      <4> QED BY <4>1, <4>2, Zenon DEF Feed
    <3>3. HasRead([lex EXCEPT !.current = Comment, !.continuing = TRUE], meant, TRUE, None)
      BY <1>4 DEF HasRead, LexerFields
    <3> QED BY <2>1, <3>1, <3>2, <3>3, Zenon
  <2>2. CASE cont = FALSE
    <3>1. /\ HasRead(Cleared(lex), meant, FALSE, None)
          /\ Feed(lex, Line(words, FALSE))
                = LogicalLine(Cleared(lex), Uncommented(Joined(hidden, words)))
      BY <1>4, LineRead, Zenon
    <3>2. Uncommented(Joined(hidden, words)) = <<>>
      BY <1>5, HiddenLost, Zenon DEF Joined
    <3> QED BY <2>2, <3>1, <3>2, NothingRead, Zenon
  <2> QED BY <2>1, <2>2
<1>7. HasRead(Feed(lex, Line(words, cont)), meant', hidden', open')
  BY <1>1, <1>2, <1>6, Zenon
<1> QED BY <1>1, <1>2, <1>3, <1>7, WriteKeeps, Zenon

LEMMA NoWordsTyped == <<>> \in Seq(WordsOf)
OBVIOUS

\* The three ways to lay a directive out come to the same.
LEMMA LayoutsRead ==
    ASSUME NEW d \in Seq(Texts), d # <<>>, NEW items, NEW hid \in BOOLEAN,
           NEW l, HasRead(l, items, hid, None), NEW after,
           \/ after = Feed(l, Line(WordsFor(d), FALSE))
           \/ after = Feed(l, Line(WordsFor(d) \o Comment, FALSE))
           \/ \E i \in 1..Len(d) :
                 after = Feed(Feed(l, Line(SubSeq(WordsFor(d), 1, i), TRUE)),
                              Line(SubSeq(WordsFor(d), i + 1, Len(WordsFor(d))), FALSE))
    PROVE  HasRead(after, IF hid THEN items ELSE Append(items, Directive(d)), FALSE, None)
<1> DEFINE words == WordsFor(d)
           Good(m) == HasRead(m, IF hid THEN items ELSE Append(items, Directive(d)), FALSE, None)
<1>1. /\ words \in Seq(WordsOf) /\ Comment \in Seq(WordsOf)
      /\ \A i \in 1..Len(words) : words[i].kind # "comment"
  <2>1. \A i \in 1..Len(words) : words[i].kind = "word"
    BY WordsTyped, Zenon
  <2>2. \A i \in 1..Len(words) : words[i].kind # "comment"
    <3> HIDE DEF words
    <3> QED BY <2>1
  <2> QED BY <2>2, WordsTyped, CommentTyped, Zenon
<1>2. words \o Comment \in Seq(WordsOf)
  BY <1>1, Concatenated, Zenon
<1>3. ASSUME NEW m, HasRead(m, items, FALSE, None), NEW w,
             IF hid THEN w = <<>> ELSE w = words
      PROVE  Good(LogicalLine(m, w))
  <2>1. CASE hid = TRUE
    BY <1>3, <2>1, NothingRead, Zenon
  <2>2. CASE hid = FALSE
    BY <1>3, <2>2, DirectiveRead, Zenon
  <2> QED BY <2>1, <2>2, Zenon
<1>4. CASE after = Feed(l, Line(words, FALSE))
  <2>1. /\ HasRead(Cleared(l), items, FALSE, None)
        /\ after = LogicalLine(Cleared(l), Uncommented(Joined(hid, words)))
    BY <1>4, LineRead, Zenon
  <2>2. IF hid THEN Uncommented(Joined(hid, words)) = <<>>
        ELSE Uncommented(Joined(hid, words)) = words
    BY <1>1, HiddenLost, NothingToCut, Zenon DEF Joined
  <2>3. PICK w : w = Uncommented(Joined(hid, words))
    BY Zenon
  <2>4. IF hid THEN w = <<>> ELSE w = words
    BY <2>2, <2>3, Zenon
  <2> QED BY <1>3, <2>1, <2>3, <2>4, Zenon
<1>5. CASE after = Feed(l, Line(words \o Comment, FALSE))
  <2>1. /\ HasRead(Cleared(l), items, FALSE, None)
        /\ after = LogicalLine(Cleared(l), Uncommented(Joined(hid, words \o Comment)))
    BY <1>5, LineRead, Zenon
  <2>2. IF hid THEN Uncommented(Joined(hid, words \o Comment)) = <<>>
        ELSE Uncommented(Joined(hid, words \o Comment)) = words
    BY <1>1, <1>2, HiddenLost, RemarkCut, Zenon DEF Joined
  <2>3. PICK w : w = Uncommented(Joined(hid, words \o Comment))
    BY Zenon
  <2>4. IF hid THEN w = <<>> ELSE w = words
    BY <2>2, <2>3, Zenon
  <2> QED BY <1>3, <2>1, <2>3, <2>4, Zenon
<1>6. ASSUME NEW begun \in Seq(WordsOf), NEW rest \in Seq(WordsOf), begun \o rest = words,
             after = Feed(Feed(l, Line(begun, TRUE)), Line(rest, FALSE))
      PROVE  Good(after)
  <2>1. PICK m : m = Cleared(Feed(l, Line(begun, TRUE)))
    BY Zenon
  <2>2. HasRead(m, items, FALSE, None)
    BY <2>1, JoinRead, Zenon
  <2>3. after = LogicalLine(m, Uncommented(Joined(hid, begun) \o rest))
    <3>1. ReadsJoined(l, hid, begun, rest)
      BY JoinRead, Zenon
    <3> QED BY <1>6, <2>1, <3>1, Zenon DEF ReadsJoined
  <2>4. IF hid THEN Uncommented(Joined(hid, begun) \o rest) = <<>>
        ELSE Uncommented(Joined(hid, begun) \o rest) = words
    <3>1. Joined(hid, begun) = IF hid THEN Comment \o begun ELSE begun
      BY Zenon DEF Joined
    <3>2. Uncommented((Comment \o begun) \o rest) = <<>>
      BY HiddenLost, Zenon
    <3>3. Uncommented(words) = words
      BY <1>1, NothingToCut, Zenon
    <3> HIDE DEF words
    <3> QED BY <1>6, <3>1, <3>2, <3>3, Zenon
  <2>5. PICK w : w = Uncommented(Joined(hid, begun) \o rest)
    BY Zenon
  <2>6. IF hid THEN w = <<>> ELSE w = words
    BY <2>4, <2>5, Zenon
  <2> QED BY <1>3, <2>2, <2>3, <2>5, <2>6, Zenon
<1>7. ASSUME NEW i \in 1..Len(d),
             after = Feed(Feed(l, Line(SubSeq(words, 1, i), TRUE)),
                          Line(SubSeq(words, i + 1, Len(words)), FALSE))
      PROVE  Good(after)
  <2>1. i \in 1..Len(words)
    BY WordsTyped, Zenon
  <2>2. /\ SubSeq(words, 1, i) \in Seq(WordsOf) /\ SubSeq(words, i + 1, Len(words)) \in Seq(WordsOf)
        /\ SubSeq(words, 1, i) \o SubSeq(words, i + 1, Len(words)) = words
    <3> HIDE DEF words
    <3> QED BY <1>1, <2>1, SplitJoins
  <2> HIDE DEF words, Good
  <2> QED BY <1>6, <1>7, <2>2, Zenon
<1> QED BY <1>4, <1>5, <1>7, Zenon

LEMMA DirectiveKeeps == ASSUME LexerInv, WriteDirective PROVE LexerInv'
<1>1. PICK d \in Directives :
        /\ \/ Write(Feed(lex, Line(WordsFor(d), FALSE)))
           \/ Write(Feed(lex, Line(WordsFor(d) \o Comment, FALSE)))
           \/ \E i \in 1..Len(d) :
                 Write(Feed(Feed(lex, Line(SubSeq(WordsFor(d), 1, i), TRUE)),
                            Line(SubSeq(WordsFor(d), i + 1, Len(WordsFor(d))), FALSE)))
        /\ meant' = IF hidden THEN meant ELSE Append(meant, Directive(d))
  BY Zenon DEF WriteDirective, WordsFor
<1>2. /\ open = None /\ hidden' = FALSE /\ UNCHANGED <<open, broken>>
      /\ phase = "writing" /\ broken = FALSE
  BY <1>1 DEF WriteDirective, Write, LexerInv, Recorded
<1>3. d \in Seq(Texts) /\ d # <<>> /\ hidden \in BOOLEAN /\ meant \in Seq(Items)
  BY OvpnImportAssumption DEF LexerInv, Recorded
<1>4. HasRead(lex, meant, hidden, None)
  BY <1>2 DEF LexerInv, AsWritten
<1>5. Write(lex')
  BY <1>1, Zenon DEF Write
<1>6. HasRead(lex', meant', FALSE, None)
  <2>1. \/ lex' = Feed(lex, Line(WordsFor(d), FALSE))
        \/ lex' = Feed(lex, Line(WordsFor(d) \o Comment, FALSE))
        \/ \E i \in 1..Len(d) :
              lex' = Feed(Feed(lex, Line(SubSeq(WordsFor(d), 1, i), TRUE)),
                          Line(SubSeq(WordsFor(d), i + 1, Len(WordsFor(d))), FALSE))
    BY <1>1, Zenon DEF Write
  <2>2. PICK h : h = hidden
    BY Zenon
  <2>3. h \in BOOLEAN /\ HasRead(lex, meant, h, None)
    BY <1>3, <1>4, <2>2, Zenon
  <2>4. HasRead(lex', IF h THEN meant ELSE Append(meant, Directive(d)), FALSE, None)
    BY <1>3, <2>1, <2>3, LayoutsRead, Zenon
  <2> QED BY <1>1, <2>2, <2>4, Zenon
<1>7. Recorded'
  <2>1. Directive(d) \in Items
    BY <1>3, DirectiveTyped, Zenon
  <2>2. PICK item \in Items : item = Directive(d)
    BY <2>1, Zenon
  <2>3. meant' \in Seq(Items)
    BY <1>1, <1>3, <2>2
  <2> QED BY <1>2, <2>3 DEF LexerInv, Recorded
<1> QED BY <1>2, <1>5, <1>6, <1>7, WriteKeeps, Zenon

LEMMA OpenKeeps == ASSUME LexerInv, OpenBlock PROVE LexerInv'
<1>1. PICK n \in Blocks :
        /\ Write(Feed(lex, Line(<<Opening(n)>>, FALSE)))
        /\ open' = IF hidden THEN None ELSE Block(n, <<>>)
  BY Zenon DEF OpenBlock
<1>2. /\ open = None /\ hidden' = FALSE /\ UNCHANGED <<meant, broken>>
      /\ phase = "writing" /\ broken = FALSE /\ hidden \in BOOLEAN
  BY <1>1 DEF OpenBlock, Write, LexerInv, Recorded
<1>3. HasRead(lex, meant, hidden, None)
  BY <1>2 DEF LexerInv, AsWritten
<1>4. n \in Texts
  BY OvpnImportAssumption
<1>5. PICK m : m = Cleared(lex)
  BY Zenon
<1>6. PICK after : after = Feed(lex, Line(<<Opening(n)>>, FALSE))
  BY Zenon
<1>7. /\ HasRead(m, meant, FALSE, None)
      /\ after = LogicalLine(m, Uncommented(Joined(hidden, <<Opening(n)>>)))
  BY <1>3, <1>5, <1>6, LineRead, Zenon
<1>8. HasRead(after, meant, FALSE, open')
  <2>1. CASE hidden = TRUE
    <3>1. Uncommented(Joined(hidden, <<Opening(n)>>)) = <<>>
      BY <1>4, <2>1, HiddenLost, TagTyped, Zenon DEF Joined
    <3> QED BY <1>1, <1>7, <2>1, <3>1, NothingRead, Zenon
  <2>2. CASE hidden = FALSE
    <3>1. Uncommented(Joined(hidden, <<Opening(n)>>)) = <<Opening(n)>>
      BY <1>4, <2>2, TagTyped, Zenon DEF Joined
    <3> QED BY <1>1, <1>4, <1>7, <2>2, <3>1, OpeningRead, Zenon
  <2> QED BY <1>2, <2>1, <2>2
<1>9. open' = None \/ (open' \in Items /\ open'.block = TRUE /\ open'.rest \in Seq(BlockLines))
  <2>1. <<>> \in Seq(BlockLines)
    OBVIOUS
  <2>2. /\ Block(n, <<>>) \in Items /\ Block(n, <<>>).block = TRUE
        /\ Block(n, <<>>).rest = <<>>
    BY <1>4, <2>1, BlockTyped, Zenon
  <2> QED BY <1>1, <2>1, <2>2, Zenon
<1>10. Recorded'
  BY <1>2, <1>9 DEF LexerInv, Recorded
<1> QED BY <1>1, <1>2, <1>6, <1>8, <1>10, WriteKeeps, Zenon

LEMMA ContentKeeps == ASSUME LexerInv, WriteContent PROVE LexerInv'
<1>1. PICK line \in BlockLines :
        /\ Write(Feed(lex, line))
        /\ open' = [open EXCEPT !.rest = Append(@, line)]
  BY Zenon DEF WriteContent
<1>2. /\ open # None /\ UNCHANGED <<meant, hidden, broken>>
      /\ phase = "writing" /\ broken = FALSE /\ hidden = FALSE
      /\ open \in Items /\ open.block = TRUE /\ open.rest \in Seq(BlockLines)
  BY <1>1 DEF WriteContent, Write, LexerInv, Recorded
<1>3. HasRead(lex, meant, FALSE, open)
  BY <1>2 DEF LexerInv, AsWritten
<1>4. /\ [open EXCEPT !.rest = Append(@, line)] \in Items
      /\ [open EXCEPT !.rest = Append(@, line)].block = TRUE
      /\ [open EXCEPT !.rest = Append(@, line)].rest \in Seq(BlockLines)
  <2>1. Append(open.rest, line) \in Seq(BlockLines)
    BY <1>2
  <2>2. PICK lines \in Seq(BlockLines) : lines = Append(open.rest, line)
    BY <2>1, Zenon
  <2>3. open \in [block : {TRUE}, key : Texts, rest : Seq(BlockLines)]
    BY <1>2 DEF Items
  <2>4. [open EXCEPT !.rest = lines] \in [block : {TRUE}, key : Texts, rest : Seq(BlockLines)]
    BY <2>3
  <2> QED BY <2>2, <2>4 DEF Items
<1>5. ~Closes(line)
  BY OvpnImportAssumption, Zenon
<1>6. HasRead(Feed(lex, line), meant, FALSE, [open EXCEPT !.rest = Append(@, line)])
  BY <1>2, <1>3, <1>4, <1>5, ContentRead, Zenon
<1>7. Recorded'
  BY <1>1, <1>2, <1>4 DEF LexerInv, Recorded
<1> QED BY <1>1, <1>2, <1>6, <1>7, WriteKeeps, Zenon

LEMMA ClosingKeeps == ASSUME LexerInv, WriteClosing PROVE LexerInv'
<1>1. PICK n \in Blocks :
        /\ Write(Feed(lex, Line(<<Closing(n)>>, FALSE)))
        /\ IF hidden THEN UNCHANGED <<meant, open, broken>>
           ELSE IF open # None /\ open.key = n
           THEN meant' = Append(meant, open) /\ open' = None /\ UNCHANGED broken
           ELSE broken' = TRUE /\ UNCHANGED <<meant, open>>
  BY Zenon DEF WriteClosing
<1>2. /\ hidden' = FALSE /\ phase = "writing" /\ broken = FALSE /\ hidden \in BOOLEAN
      /\ meant \in Seq(Items) /\ (hidden => open = None)
      /\ open = None \/ (open \in Items /\ open.block = TRUE /\ open.rest \in Seq(BlockLines))
  BY <1>1 DEF WriteClosing, Write, LexerInv, Recorded
<1>3. HasRead(lex, meant, hidden, open)
  BY <1>2 DEF LexerInv, AsWritten
<1>4. n \in Texts
  BY OvpnImportAssumption
<1>5. PICK after : after = Feed(lex, Line(<<Closing(n)>>, FALSE))
  BY Zenon
<1>6. PICK m : m = Cleared(lex)
  BY Zenon
<1>7. CASE open = None
  <2>1. /\ HasRead(m, meant, FALSE, None)
        /\ after = LogicalLine(m, Uncommented(Joined(hidden, <<Closing(n)>>)))
    BY <1>3, <1>5, <1>6, <1>7, LineRead, Zenon
  <2>2. CASE hidden = TRUE
    <3>1. Uncommented(Joined(hidden, <<Closing(n)>>)) = <<>>
      BY <1>4, <2>2, HiddenLost, TagTyped, Zenon DEF Joined
    <3>2. HasRead(after, meant, FALSE, None)
      BY <2>1, <3>1, NothingRead, Zenon
    <3>3. UNCHANGED <<meant, open, broken>>
      BY <1>1, <2>2
    <3>4. Recorded'
      BY <1>2, <3>3 DEF Recorded
    <3> QED BY <1>1, <1>2, <1>5, <1>7, <3>2, <3>3, <3>4, WriteKeeps, Zenon
  <2>3. CASE hidden = FALSE
    <3>1. Uncommented(Joined(hidden, <<Closing(n)>>)) = <<Closing(n)>>
      BY <1>4, <2>3, TagTyped, Zenon DEF Joined
    <3>2. Refuses(after)
      BY <1>4, <2>1, <3>1, ClosingRefused, Zenon
    <3>3. broken' = TRUE /\ UNCHANGED <<meant, open>>
      BY <1>1, <1>7, <2>3
    <3>4. Recorded'
      BY <1>2, <3>3 DEF Recorded
    <3> QED BY <1>1, <1>5, <3>2, <3>3, <3>4, WriteKeeps, Zenon
  <2> QED BY <1>2, <2>2, <2>3
<1>8. CASE open # None
  <2>1. hidden = FALSE /\ open \in Items /\ open.block = TRUE
    BY <1>2, <1>8
  <2>2. IF n = open.key THEN HasRead(after, Append(meant, open), FALSE, None) ELSE Refuses(after)
    BY <1>3, <1>4, <1>5, <2>1, ClosingRead, Zenon
  <2>3. CASE n = open.key
    <3>1. meant' = Append(meant, open) /\ open' = None /\ broken' = broken
      BY <1>1, <1>8, <2>1, <2>3
    <3>2. meant' \in Seq(Items)
      BY <1>2, <2>1, <3>1
    <3>3. Recorded'
      BY <1>2, <3>1, <3>2 DEF Recorded
    <3> QED BY <1>1, <1>2, <1>5, <2>2, <2>3, <3>1, <3>3, WriteKeeps, Zenon
  <2>4. CASE n # open.key
    <3>1. broken' = TRUE /\ UNCHANGED <<meant, open>>
      BY <1>1, <2>1, <2>4
    <3>2. Recorded'
      BY <1>2, <3>1 DEF Recorded
    <3> QED BY <1>1, <1>5, <2>2, <2>4, <3>1, <3>2, WriteKeeps, Zenon
  <2> QED BY <2>3, <2>4
<1> QED BY <1>7, <1>8

\* The end of the file refuses what is left open.
LEMMA EndKeeps == ASSUME LexerInv, EndOfFile PROVE LexerInv'
<1>1. /\ phase = "writing" /\ lex' = AtEnd(lex)
      /\ broken' = (broken \/ hidden \/ open # None)
      /\ phase' = IF lex'.error THEN "refused" ELSE "lexed"
      /\ UNCHANGED <<meant, open, hidden>>
      /\ broken \in BOOLEAN /\ hidden \in BOOLEAN
      /\ open = None \/ open \in Items
  BY DEF EndOfFile, LexerInv, Recorded
<1>2. phase' # "writing" /\ (phase' # "refused" => ~lex'.error)
  BY <1>1
<1>3. lex'.error = broken' /\ (~broken' => lex'.items = meant)
  <2>1. CASE broken = TRUE
    <3>1. Refuses(lex)
      BY <1>1, <2>1 DEF LexerInv, AsWritten
    <3>2. lex'.error = TRUE
      BY <1>1, <3>1 DEF AtEnd, LexError, Refuses, LexerFields
    <3> QED BY <1>1, <2>1, <3>2
  <2>2. CASE broken = FALSE
    <3>1. HasRead(lex, meant, hidden, open)
      BY <1>1, <2>2 DEF LexerInv, AsWritten
    <3>2. /\ lex.continuing = hidden /\ DOMAIN lex = LexerFields /\ lex.error = FALSE
          /\ lex.items = meant /\ (lex.block # None <=> open # None)
      BY <1>1, <3>1, SomeItem DEF HasRead
    <3>3. lex' = IF hidden \/ open # None THEN [lex EXCEPT !.error = TRUE] ELSE lex
      BY <1>1, <3>2 DEF AtEnd, LexError
    <3> QED BY <1>1, <2>2, <3>2, <3>3 DEF LexerFields
  <2> QED BY <1>1, <2>1, <2>2
<1>4. Recorded'
  BY <1>1 DEF LexerInv, Recorded
<1> QED BY <1>1, <1>2, <1>3, <1>4 DEF LexerInv, AsWritten, GoesOn

\* A builder is made without a file when nothing was written.
LEMMA NewBuilderKeeps == ASSUME LexerInv, NewBuilder PROVE LexerInv' /\ meant = <<>>
<1>1. /\ phase = "writing" /\ lex = Start /\ ~hidden /\ phase' = "populated"
      /\ UNCHANGED <<lex, meant, open, hidden, broken>>
  BY DEF NewBuilder, written
<1>2. lex.error = FALSE /\ lex.items = <<>>
  BY <1>1 DEF Start
<1>3. broken = FALSE /\ meant = <<>>
  BY <1>1, <1>2 DEF LexerInv, Recorded, AsWritten, Refuses, HasRead
<1> QED BY <1>1, <1>2, <1>3 DEF LexerInv, Recorded, AsWritten, GoesOn

\* From there on nothing touches the lexer.
LEMMA LaterKeeps ==
    ASSUME LexerInv, Parse \/ Populate \/ Override \/ Build \/ Connect
    PROVE  LexerInv'
<1>1. UNCHANGED <<lex, meant, open, hidden, broken>> /\ phase \notin {"writing", "refused"}
      /\ phase' # "writing"
  BY Zenon DEF Parse, Populate, Override, Build, Connect, written
<1> QED BY <1>1 DEF LexerInv, Recorded, AsWritten, GoesOn

LEMMA LexerStep == LexerInv /\ [ImportNext]_importVars => LexerInv'
<1> SUFFICES ASSUME LexerInv, [ImportNext]_importVars PROVE LexerInv'
  OBVIOUS
<1>1. CASE UNCHANGED importVars
  BY <1>1 DEF importVars, written, LexerInv, Recorded, AsWritten, GoesOn
<1>2. CASE ImportNext
  BY <1>2, NothingKeeps, DirectiveKeeps, OpenKeeps, ContentKeeps, ClosingKeeps, EndKeeps,
     NewBuilderKeeps, LaterKeeps, Zenon DEF ImportNext
<1> QED BY <1>1, <1>2

\* At every moment the lexer has exactly the items that were written, the block that is
\* open and nothing of a comment; from the end of the file on they do not change.
THEOREM LexerInvariant == ImportSpec => []LexerInv
BY InitLexer, LexerStep, PTL DEF ImportSpec

\* Whatever layout a file of any length has, the lexer (parser.rs:193) finds what was
\* written, and refuses the files that are not well-formed and no other.
THEOREM FilesAreReadAsWritten == ImportSpec => []ReadAsWritten
<1>1. LexerInv => ReadAsWritten
  BY DEF LexerInv, Recorded, AsWritten, ReadAsWritten
<1> QED BY <1>1, LexerInvariant, PTL

-----------------------------------------------------------------------------
(* The items, one after the other.                                          *)

LEMMA LeastNumber ==
    ASSUME NEW T, T \subseteq Nat, T # {}
    PROVE  \E n \in T : \A m \in T : ~(m < n)
<1>1. PICK n \in T : \A m \in T : ~(<<m, n>> \in OpToRel(<, Nat))
  BY NatLessThanWellFounded, WFMin, Zenon
<1>2. \A m \in T : m < n => <<m, n>> \in OpToRel(<, Nat)
  BY DEF OpToRel
<1> QED BY <1>1, <1>2

\* A set of numbers up to some bound has a greatest one and a smallest one.
LEMMA Extremes ==
    ASSUME NEW N \in Nat, NEW S, S \subseteq 0..N, S # {}
    PROVE  /\ Max(S) \in S /\ \A j \in S : j <= Max(S)
           /\ Min(S) \in S /\ \A j \in S : Min(S) <= j
<1> DEFINE T == {N - i : i \in S}
<1>1. T \subseteq Nat /\ T # {} /\ S \subseteq Nat /\ S \subseteq Int
  <2>1. \A i \in S : i \in 0..N /\ i \in Nat /\ i \in Int /\ N - i \in Nat
    OBVIOUS
  <2> QED BY <2>1
<1>2. PICK n \in T : \A m \in T : ~(m < n)
  BY <1>1, LeastNumber
<1>3. PICK i \in S : n = N - i
  OBVIOUS
<1>4. \A j \in S : j <= i
  <2> SUFFICES ASSUME NEW j \in S PROVE j <= i
    OBVIOUS
  <2>1. ~(N - j < N - i)
    BY <1>2, <1>3
  <2> QED BY <1>1, <2>1
<1>5. PICK k \in S : \A j \in S : ~(j < k)
  BY <1>1, LeastNumber
<1>6. \A j \in S : k <= j
  BY <1>1, <1>5
<1> HIDE DEF T
<1>7. Max(S) = i
  BY <1>1, <1>4, GreatestIs, Zenon
<1>8. Min(S) = k
  BY <1>1, <1>6, LeastIs, Zenon
<1> QED BY <1>4, <1>6, <1>7, <1>8

\* The file after each of the items.
UpTo(items, n, f) ==
    /\ DOMAIN f = 0..n /\ f[0] = EmptyFile
    /\ \A i \in 1..n : f[i] = TakeItem(f[i - 1], items[i])

LEMMA UpToExists ==
    ASSUME NEW items, Len(items) \in Nat
    PROVE  \E f : UpTo(items, Len(items), f)
<1> DEFINE Bad == {n \in Nat : \A f : ~UpTo(items, n, f)}
<1> SUFFICES ASSUME Bad # {} PROVE FALSE
  OBVIOUS
<1>1. PICK n \in Bad : \A m \in Bad : ~(m < n)
  BY LeastNumber
<1>2. CASE n = 0
  <2>1. UpTo(items, 0, [i \in 0..0 |-> EmptyFile])
    BY DEF UpTo
  <2> QED BY <1>1, <1>2, <2>1
<1>3. CASE n # 0
  <2>1. n - 1 \in Nat /\ n \in Nat /\ n - 1 < n
    BY <1>3
  <2>2. PICK f : UpTo(items, n - 1, f)
    BY <1>1, <2>1
  <2> DEFINE g == [i \in 0..n |-> IF i = n THEN TakeItem(f[n - 1], items[n]) ELSE f[i]]
  <2>3. /\ DOMAIN g = 0..n /\ g[n] = TakeItem(f[n - 1], items[n])
        /\ \A i \in 0..n - 1 : g[i] = f[i]
    BY <2>1
  <2> HIDE DEF g
  <2>4. ASSUME NEW i \in 1..n PROVE g[i] = TakeItem(g[i - 1], items[i])
    <3>1. g[i - 1] = f[i - 1]
      BY <2>1, <2>3
    <3>2. CASE i = n
      BY <2>3, <3>1, <3>2
    <3>3. CASE i # n
      <4>1. i \in 1..n - 1 /\ g[i] = f[i]
        BY <2>1, <2>3, <3>3
      <4>2. f[i] = TakeItem(f[i - 1], items[i])
        BY <2>2, <4>1, Zenon DEF UpTo
      <4> QED BY <3>1, <4>1, <4>2, Zenon
    <3> QED BY <3>2, <3>3, Zenon
  <2>5. g[0] = EmptyFile
    BY <2>1, <2>2, <2>3 DEF UpTo
  <2>6. UpTo(items, n, g)
    BY <2>3, <2>4, <2>5, Zenon DEF UpTo
  <2> QED BY <1>1, <2>6
<1> QED BY <1>2, <1>3

LEMMA TakenInOrder ==
    ASSUME NEW items, Len(items) \in Nat
    PROVE  \E f : UpTo(items, Len(items), f) /\ Taken(items) = f[Len(items)]
<1> DEFINE N == Len(items)
           IsFold(f) == f = [n \in 0..N |->
                               IF n = 0 THEN EmptyFile ELSE TakeItem(f[n - 1], items[n])]
           g == CHOOSE f : IsFold(f)
<1>1. PICK f : UpTo(items, N, f)
  BY UpToExists
<1>2. IsFold(f)
  <2> DEFINE F == [n \in 0..N |-> IF n = 0 THEN EmptyFile ELSE TakeItem(f[n - 1], items[n])]
  <2>1. f = [n \in 0..N |-> f[n]]
    BY <1>1 DEF UpTo
  <2>2. \A n \in 0..N : f[n] = IF n = 0 THEN EmptyFile ELSE TakeItem(f[n - 1], items[n])
    <3> SUFFICES ASSUME NEW n \in 0..N, n # 0
                 PROVE  f[n] = TakeItem(f[n - 1], items[n]) /\ f[0] = EmptyFile
      BY <1>1 DEF UpTo
    <3>1. n \in 1..N
      OBVIOUS
    <3> QED BY <1>1, <3>1, Zenon DEF UpTo
  <2>3. [n \in 0..N |-> f[n]] = F
    BY <2>2, Zenon
  <2> QED BY <2>1, <2>3, Zenon
<1>3. IsFold(g)
  BY <1>2, Zenon
<1>4. Taken(items) = g[N]
  BY Zenon DEF Taken
<1> HIDE DEF g
<1>5. UpTo(items, N, g)
  <2>1. DOMAIN g = 0..N
    BY <1>3
  <2>2. \A n \in 0..N : g[n] = IF n = 0 THEN EmptyFile ELSE TakeItem(g[n - 1], items[n])
    BY <1>3, Zenon
  <2>3. 0 \in 0..N /\ \A n \in 1..N : n \in 0..N /\ n # 0
    OBVIOUS
  <2> QED BY <2>1, <2>2, <2>3, Zenon DEF UpTo
<1> QED BY <1>4, <1>5

\* An item that gives some key: a block only with the name of a certificate.
Gives(item, key) == item.key = key /\ (item.block => key \in Inlinable)

\* A value is what the last of the first n items with some key says, or None.
Tracks(n, key, value, W) ==
    /\ (\A j \in 1..n : ~Gives(meant[j], key)) => value = None
    /\ \A i \in 1..n :
          Gives(meant[i], key) /\ (\A j \in 1..n : Gives(meant[j], key) => j <= i) => value = W[i]

LEMMA TrackStep ==
    ASSUME NEW n \in Nat, n # 0, NEW key, NEW old, NEW new, NEW W, Tracks(n - 1, key, old, W),
           new = IF Gives(meant[n], key) THEN W[n] ELSE old
    PROVE  Tracks(n, key, new, W)
<1> DEFINE G(i) == Gives(meant[i], key)
<1> HIDE DEF G
<1>1. /\ (\A j \in 1..n - 1 : ~G(j)) => old = None
      /\ \A i \in 1..n - 1 : G(i) /\ (\A j \in 1..n - 1 : G(j) => j <= i) => old = W[i]
  BY Zenon DEF Tracks, G
<1>2. new = IF G(n) THEN W[n] ELSE old
  BY Zenon DEF G
<1>3. n \in 1..n /\ n - 1 \in Nat /\ \A i \in 1..n : i = n \/ i \in 1..n - 1
  OBVIOUS
<1>4. \A i \in 1..n - 1 : i \in 1..n
  OBVIOUS
<1>5. (\A j \in 1..n : ~G(j)) => new = None
  BY <1>1, <1>2, <1>3, <1>4
<1>6. ASSUME NEW i \in 1..n, G(i), \A j \in 1..n : G(j) => j <= i
      PROVE  new = W[i]
  <2>1. CASE G(n)
    <3>1. i = n
      BY <1>3, <1>6, <2>1
    <3> QED BY <1>2, <2>1, <3>1
  <2>2. CASE ~G(n)
    <3>1. i \in 1..n - 1
      BY <1>3, <1>6, <2>2
    <3> QED BY <1>1, <1>2, <1>4, <1>6, <2>2, <3>1
  <2> QED BY <2>1, <2>2
<1> QED BY <1>5, <1>6, Zenon DEF Tracks, G

LEMMA TrackEnd ==
    ASSUME NEW key, NEW value, NEW W, Tracks(Len(meant), key, value, W), Len(meant) \in Nat
    PROVE  /\ ItemsOf({key}) = {} => value = None
           /\ ItemsOf({key}) # {} =>
                 /\ value = W[Max(ItemsOf({key}))]
                 /\ Max(ItemsOf({key})) \in 1..Len(meant)
                 /\ Gives(meant[Max(ItemsOf({key}))], key)
<1> DEFINE S == ItemsOf({key})
           N == Len(meant)
<1>1. S \subseteq 0..N /\ \A i : i \in S <=> i \in 1..N /\ Gives(meant[i], key)
  BY DEF ItemsOf, Gives
<1>2. CASE S = {}
  BY <1>1, <1>2, Zenon DEF Tracks
<1>3. CASE S # {}
  <2>1. Max(S) \in S /\ \A j \in S : j <= Max(S)
    <3> HIDE DEF S
    <3> QED BY <1>1, <1>3, Extremes
  <2>2. PICK m : m = Max(S)
    BY Zenon
  <2>3. m \in 1..N /\ Gives(meant[m], key) /\ \A j \in 1..N : Gives(meant[j], key) => j <= m
    BY <1>1, <2>1, <2>2, Zenon
  <2> QED BY <1>3, <2>2, <2>3, Zenon DEF Tracks
<1> QED BY <1>2, <1>3

RemoteOf(item) ==
    [host |-> item.rest[1], port |-> Arg(item.rest, 2), proto |-> Arg(item.rest, 3)]
RouteOf(item) ==
    [dest |-> item.rest[1], mask |-> Arg(item.rest, 2), hop |-> Arg(item.rest, 3)]
SourceOfItem(item) == IF item.block THEN Inline(item.rest) ELSE InFile(item.rest[1])
TlsAuthOf(item) ==
    IF item.block THEN [source |-> Inline(item.rest), direction |-> None]
    ELSE [source |-> InFile(item.rest[1]), direction |-> Arg(item.rest, 2)]
FileFields == {"remotes", "proto", "dev", "ca", "cert", "key", "tlsCrypt", "tlsAuth",
               "keyDirection", "cipher", "dataCiphers", "auth", "compress", "allowCompress",
               "routes", "redirectGateway", "authUserPass", "other", "error"}

\* What one item changes in the fields the profile is made from.
Follows(g, f, item) ==
    /\ DOMAIN g = FileFields /\ g.error = f.error
    /\ g.proto = IF Gives(item, "proto") THEN item.rest[1] ELSE f.proto
    /\ g.cipher = IF Gives(item, "cipher") THEN item.rest[1] ELSE f.cipher
    /\ g.keyDirection = IF Gives(item, "key-direction") THEN item.rest[1] ELSE f.keyDirection
    /\ g.ca = IF Gives(item, "ca") THEN SourceOfItem(item) ELSE f.ca
    /\ g.cert = IF Gives(item, "cert") THEN SourceOfItem(item) ELSE f.cert
    /\ g.key = IF Gives(item, "key") THEN SourceOfItem(item) ELSE f.key
    /\ g.tlsCrypt = IF Gives(item, "tls-crypt") THEN SourceOfItem(item) ELSE f.tlsCrypt
    /\ g.tlsAuth = IF Gives(item, "tls-auth") THEN TlsAuthOf(item) ELSE f.tlsAuth
    /\ g.authUserPass = IF Gives(item, "auth-user-pass") THEN TRUE ELSE f.authUserPass
    /\ g.remotes = IF Gives(item, "remote") THEN Append(f.remotes, RemoteOf(item)) ELSE f.remotes
    /\ g.routes = IF Gives(item, "route") THEN Append(f.routes, RouteOf(item)) ELSE f.routes
    /\ ~item.block => ~Malformed(item.key, item.rest)

LEMMA BlockTaken ==
    ASSUME NEW f, DOMAIN f = FileFields, f.error = FALSE,
           NEW item, item.block = TRUE
    PROVE  Follows(TakeItem(f, item), f, item)
<1>1. TakeItem(f, item) = TakeBlock(f, item.key, item.rest)
  BY Zenon DEF TakeItem
<1>2. Follows(TakeBlock(f, item.key, item.rest), f, item)
  BY DEF Follows, TakeBlock, SetCert, CertKeys, Gives, Inlinable, SourceOfItem, TlsAuthOf,
         FileFields
<1> QED BY <1>1, <1>2, Zenon

LEMMA DirectiveTaken ==
    ASSUME NEW f, DOMAIN f = FileFields, f.error = FALSE,
           NEW item, item.block = FALSE, ~Malformed(item.key, item.rest)
    PROVE  Follows(TakeItem(f, item), f, item)
<1> DEFINE key == item.key
           args == item.rest
<1>1. ~Malformed(key, args)
  OBVIOUS
<1>2. TakeItem(f, item) = TakeDirective(f, key, args)
  BY <1>1, Zenon DEF TakeItem
<1>3. key = item.key /\ args = item.rest
  OBVIOUS
<1> HIDE DEF key, args
<1>4. CASE key \in {"remote", "dev", "proto"}
  <2>1. ASSUME NEW a, NEW b, NEW c
        PROVE  (CASE key \in {"remote", "dev", "proto"} -> a
                  [] key \in CertKeys \cup {"tls-auth", "key-direction", "cipher", "data-ciphers",
                                            "auth"} -> b
                  [] OTHER -> c) = a
    BY <1>4 DEF CertKeys
  <2>2. TakeDirective(f, key, args) = TakeServer(f, key, args)
    BY <2>1, Zenon DEF TakeDirective
  <2>3. CASE key = "remote"
    <3>1. PICK r : r = RemoteOf(item)
      BY Zenon
    <3>2. TakeServer(f, key, args) = [f EXCEPT !.remotes = Append(@, r)]
      BY <1>3, <2>3, <3>1, Zenon DEF TakeServer, RemoteOf
    <3>3. Follows([f EXCEPT !.remotes = Append(@, r)], f, item)
      BY <1>1, <1>3, <2>3, <3>1 DEF Follows, Gives, FileFields
    <3> QED BY <1>2, <2>2, <3>2, <3>3, Zenon
  <2>4. CASE key = "dev"
    <3>1. TakeServer(f, key, args) = [f EXCEPT !.dev = args[1]]
      <4>1. "dev" # "remote" /\ "dev" # "proto"
        OBVIOUS
      <4> QED BY <2>4, <4>1, Zenon DEF TakeServer
    <3>2. Follows([f EXCEPT !.dev = args[1]], f, item)
      BY <1>1, <1>3, <2>4 DEF Follows, Gives, FileFields
    <3> QED BY <1>2, <2>2, <3>1, <3>2, Zenon
  <2>5. CASE key = "proto"
    <3>1. TakeServer(f, key, args) = [f EXCEPT !.proto = args[1]]
      <4>1. "dev" # "proto" /\ "proto" # "remote"
        OBVIOUS
      <4> QED BY <2>5, <4>1, Zenon DEF TakeServer
    <3>2. Follows([f EXCEPT !.proto = args[1]], f, item)
      BY <1>1, <1>3, <2>5 DEF Follows, Gives, FileFields
    <3> QED BY <1>2, <2>2, <3>1, <3>2, Zenon
  <2> QED BY <1>4, <2>3, <2>4, <2>5
<1>5. CASE key \in CertKeys \cup {"tls-auth", "key-direction", "cipher", "data-ciphers", "auth"}
  <2>1. Follows(TakeDirective(f, key, args), f, item)
    BY <1>1, <1>3, <1>5 DEF Follows, TakeDirective, TakeCrypto, SetCert, CertKeys, Gives,
       SourceOfItem, TlsAuthOf, Inlinable, FileFields
  <2> QED BY <1>2, <2>1, Zenon
<1>6. CASE key \notin {"remote", "dev", "proto"} /\ key \notin CertKeys
           /\ key \notin {"tls-auth", "key-direction", "cipher", "data-ciphers", "auth"}
  <2>1. Follows(TakeDirective(f, key, args), f, item)
    BY <1>1, <1>3, <1>6 DEF Follows, TakeDirective, TakeOption, CertKeys, Gives,
       RouteOf, Inlinable, FileFields
  <2> QED BY <1>2, <2>1, Zenon
<1> QED BY <1>4, <1>5, <1>6

LEMMA ItemTaken ==
    ASSUME NEW f, DOMAIN f = FileFields, f.error = FALSE, NEW item \in Items, NEW g,
           g = TakeItem(f, item)
    PROVE  DOMAIN g = FileFields /\ (g.error = TRUE \/ (g.error = FALSE /\ Follows(g, f, item)))
<1>1. CASE item.block = TRUE
  <2>1. Follows(g, f, item)
    BY <1>1, BlockTaken, Zenon
  <2> QED BY <2>1 DEF Follows
<1>2. CASE item.block = FALSE /\ ~Malformed(item.key, item.rest)
  <2>1. Follows(g, f, item)
    BY <1>2, DirectiveTaken, Zenon
  <2> QED BY <2>1 DEF Follows
<1>3. CASE item.block = FALSE /\ Malformed(item.key, item.rest)
  <2>1. g = [f EXCEPT !.error = TRUE]
    BY <1>3, Zenon DEF TakeItem
  <2> QED BY <2>1 DEF FileFields
<1> QED BY <1>1, <1>2, <1>3, SomeItem, Zenon

TextSaid == [i \in 1..Len(meant) |-> meant[i].rest[1]]
SourceSaid == [i \in 1..Len(meant) |-> SourceOfItem(meant[i])]
TlsAuthSaid == [i \in 1..Len(meant) |-> TlsAuthOf(meant[i])]

Remotes == [host : Texts, port : Texts \cup {None}, proto : Texts \cup {None}]
Routes == [dest : Texts, mask : DOMAIN Octets \cup {None}, hop : Texts \cup {None}]

\* Some item among the first n gives the key, and the first of them.
SomeGives(n, key) == \E j \in 1..n : Gives(meant[j], key)
FirstSays(n, remotes) ==
    /\ remotes \in Seq(Remotes)
    /\ remotes = <<>> <=> ~SomeGives(n, "remote")
    /\ \A i \in 1..n :
          Gives(meant[i], "remote") /\ (\A j \in 1..n : Gives(meant[j], "remote") => i <= j)
              => remotes[1] = RemoteOf(meant[i])

\* What the first n items say.
Says(f, n) ==
    /\ Tracks(n, "proto", f.proto, TextSaid)
    /\ Tracks(n, "cipher", f.cipher, TextSaid)
    /\ Tracks(n, "key-direction", f.keyDirection, TextSaid)
    /\ Tracks(n, "ca", f.ca, SourceSaid)
    /\ Tracks(n, "cert", f.cert, SourceSaid)
    /\ Tracks(n, "key", f.key, SourceSaid)
    /\ Tracks(n, "tls-crypt", f.tlsCrypt, SourceSaid)
    /\ Tracks(n, "tls-auth", f.tlsAuth, TlsAuthSaid)
    /\ f.authUserPass = IF SomeGives(n, "auth-user-pass") THEN TRUE ELSE FALSE
    /\ FirstSays(n, f.remotes)
    /\ f.routes \in Seq(Routes)
    /\ \A j \in 1..n : ~meant[j].block => ~Malformed(meant[j].key, meant[j].rest)

LEMMA ItemArgs ==
    ASSUME NEW item \in Items
    PROVE  /\ item.block \in BOOLEAN
           /\ ~item.block => item.rest \in Seq(Texts)
           /\ item.block => item.rest \in Seq(BlockLines)
BY DEF Items

LEMMA RemoteTyped ==
    ASSUME NEW item \in Items, Gives(item, "remote"), ~Malformed(item.key, item.rest)
    PROVE  /\ RemoteOf(item) \in Remotes
           /\ Len(item.rest) \in 1..3 /\ item.rest \in Seq(Texts)
           /\ Len(item.rest) > 1 => IsU16(item.rest[2])
<1>1. item.key = "remote" /\ item.block = FALSE
  BY ItemArgs DEF Gives, Inlinable, CertKeys
<1>2. item.rest \in Seq(Texts)
  BY <1>1, ItemArgs
<1> DEFINE args == item.rest
<1> HIDE DEF args
<1>3. ~(Len(args) \notin 1..3 \/ (Len(args) > 1 /\ ~IsU16(args[2])))
  BY <1>1, Zenon DEF Malformed, args
<1>4. PICK u : u = IsU16(args[2])
  BY Zenon
<1>5. Len(args) \in 1..3 /\ (Len(args) > 1 => u)
  BY <1>3, <1>4
<1>6. /\ args[1] \in Texts /\ (Len(args) >= 2 => args[2] \in Texts)
      /\ (Len(args) >= 3 => args[3] \in Texts)
  BY <1>2, <1>5 DEF args
<1>7. Arg(args, 2) \in Texts \cup {None} /\ Arg(args, 3) \in Texts \cup {None}
  BY <1>2, <1>5, <1>6 DEF Arg
<1>8. RemoteOf(item) \in Remotes
  <2>1. PICK p, q : p = Arg(args, 2) /\ q = Arg(args, 3)
    BY Zenon
  <2>2. RemoteOf(item) = [host |-> args[1], port |-> p, proto |-> q]
    BY <2>1, Zenon DEF RemoteOf, args
  <2> QED BY <1>6, <1>7, <2>1, <2>2 DEF Remotes
<1> QED BY <1>2, <1>4, <1>5, <1>8, Zenon DEF args

LEMMA RouteTyped ==
    ASSUME NEW item \in Items, Gives(item, "route"), ~Malformed(item.key, item.rest)
    PROVE  RouteOf(item) \in Routes
<1>1. item.key = "route" /\ item.block = FALSE
  BY ItemArgs DEF Gives, Inlinable, CertKeys
<1>2. item.rest \in Seq(Texts)
  BY <1>1, ItemArgs
<1> DEFINE args == item.rest
           n == Len(args)
           least == Min({n, 3})
<1> HIDE DEF args
<1>3. ~(n = 0 \/ \E i \in 1..least : args[i] \notin DOMAIN Octets)
  BY <1>1, Zenon DEF Malformed, args
<1>4. n \in Nat
  BY <1>2 DEF args
<1>5. least = IF n <= 3 THEN n ELSE 3
  <2>1. CASE n <= 3
    <3>1. {n, 3} \in SUBSET Int /\ n \in {n, 3} /\ \A j \in {n, 3} : n <= j
      BY <1>4, <2>1
    <3> QED BY <2>1, <3>1, LeastIs, Zenon
  <2>2. CASE ~(n <= 3)
    <3>1. {n, 3} \in SUBSET Int /\ 3 \in {n, 3} /\ \A j \in {n, 3} : 3 <= j
      BY <1>4, <2>2
    <3> QED BY <2>2, <3>1, LeastIs, Zenon
  <2> QED BY <2>1, <2>2
<1> HIDE DEF least
<1>6. n # 0 /\ \A i \in 1..least : args[i] \in DOMAIN Octets
  BY <1>3, Zenon
<1>7. /\ args[1] \in Texts /\ (n >= 2 => args[2] \in DOMAIN Octets)
      /\ (n >= 3 => args[3] \in Texts)
  BY <1>2, <1>4, <1>5, <1>6 DEF args
<1>8. Arg(args, 2) \in DOMAIN Octets \cup {None} /\ Arg(args, 3) \in Texts \cup {None}
  BY <1>4, <1>7 DEF Arg
<1>9. PICK p, q : p = Arg(args, 2) /\ q = Arg(args, 3)
  BY Zenon
<1>10. RouteOf(item) = [dest |-> args[1], mask |-> p, hop |-> q]
  BY <1>9, Zenon DEF RouteOf, args
<1> QED BY <1>7, <1>8, <1>9, <1>10 DEF Routes

LEMMA SomeStep ==
    ASSUME NEW n \in Nat, n # 0, NEW key
    PROVE  SomeGives(n, key) <=> SomeGives(n - 1, key) \/ Gives(meant[n], key)
<1> DEFINE G(i) == Gives(meant[i], key)
<1> HIDE DEF G
<1>1. (\E j \in 1..n : G(j)) <=> (\E j \in 1..n - 1 : G(j)) \/ G(n)
  OBVIOUS
<1> QED BY <1>1, Zenon DEF SomeGives, G

LEMMA FirstStep ==
    ASSUME NEW n \in Nat, n # 0, NEW old, NEW new, FirstSays(n - 1, old),
           Gives(meant[n], "remote") => RemoteOf(meant[n]) \in Remotes,
           new = IF Gives(meant[n], "remote") THEN Append(old, RemoteOf(meant[n])) ELSE old
    PROVE  FirstSays(n, new)
<1> DEFINE G(i) == Gives(meant[i], "remote")
           R(i) == RemoteOf(meant[i])
           S(m) == SomeGives(m, "remote")
<1>1. S(n) <=> S(n - 1) \/ G(n)
  BY SomeStep, Zenon
<1>2. S(n - 1) <=> \E j \in 1..n - 1 : G(j)
  BY Zenon DEF SomeGives
<1> HIDE DEF G, R, S
<1>3. /\ old \in Seq(Remotes) /\ (old = <<>> <=> ~S(n - 1))
      /\ \A i \in 1..n - 1 : G(i) /\ (\A j \in 1..n - 1 : G(j) => i <= j) => old[1] = R(i)
  BY Zenon DEF FirstSays, G, R, S
<1>4. (G(n) => R(n) \in Remotes) /\ new = IF G(n) THEN Append(old, R(n)) ELSE old
  BY Zenon DEF G, R
<1>5. n - 1 \in Nat /\ (\A i \in 1..n : i = n \/ i \in 1..n - 1) /\ n \in 1..n
      /\ \A i \in 1..n - 1 : i \in 1..n
  OBVIOUS
<1>6. CASE G(n)
  <2> PICK r \in Remotes : r = R(n)
    BY <1>4, <1>6
  <2>1. new = Append(old, r) /\ new \in Seq(Remotes) /\ new # <<>>
    BY <1>3, <1>4, <1>6
  <2>2. ASSUME NEW i \in 1..n, G(i), \A j \in 1..n : G(j) => i <= j
        PROVE  new[1] = R(i)
    <3>1. CASE i = n
      <4>1. ~S(n - 1)
        BY <1>2, <1>5, <2>2, <3>1
      <4>2. old = <<>>
        BY <1>3, <4>1
      <4> QED BY <2>1, <3>1, <4>2
    <3>2. CASE i # n
      <4>1. i \in 1..n - 1
        BY <1>5, <3>2
      <4>2. S(n - 1) /\ old[1] = R(i)
        BY <1>2, <1>3, <1>5, <2>2, <4>1
      <4>3. old # <<>>
        BY <1>3, <4>2
      <4> QED BY <1>3, <2>1, <4>2, <4>3
    <3> QED BY <3>1, <3>2
  <2>3. new = <<>> <=> ~S(n)
    BY <1>1, <1>6, <2>1
  <2> QED BY <2>1, <2>2, <2>3, Zenon DEF FirstSays, G, R, S
<1>7. CASE ~G(n)
  <2>1. new = old
    BY <1>4, <1>7
  <2>2. ASSUME NEW i \in 1..n, G(i), \A j \in 1..n : G(j) => i <= j
        PROVE  new[1] = R(i)
    <3>1. i \in 1..n - 1
      BY <1>5, <1>7, <2>2
    <3> QED BY <1>3, <1>5, <2>1, <2>2, <3>1
  <2>3. new \in Seq(Remotes) /\ (new = <<>> <=> ~S(n))
    BY <1>1, <1>3, <1>7, <2>1
  <2> QED BY <2>2, <2>3, Zenon DEF FirstSays, G, R, S
<1> QED BY <1>6, <1>7

LEMMA SaysNothing == Says(EmptyFile, 0) /\ DOMAIN EmptyFile = FileFields /\ EmptyFile.error = FALSE
<1>1. /\ DOMAIN EmptyFile = FileFields /\ EmptyFile.error = FALSE
      /\ EmptyFile.remotes = <<>> /\ EmptyFile.routes = <<>> /\ EmptyFile.authUserPass = FALSE
      /\ EmptyFile.proto = None /\ EmptyFile.cipher = None /\ EmptyFile.keyDirection = None
      /\ EmptyFile.ca = None /\ EmptyFile.cert = None /\ EmptyFile.key = None
      /\ EmptyFile.tlsCrypt = None /\ EmptyFile.tlsAuth = None
  BY DEF EmptyFile, FileFields
<1> PICK f : f = EmptyFile
  BY Zenon
<1>2. \A i \in 1..0 : FALSE
  OBVIOUS
<1>3. \A key, W : Tracks(0, key, None, W)
  BY <1>2, Zenon DEF Tracks
<1>4. \A key : ~SomeGives(0, key)
  BY <1>2, Zenon DEF SomeGives
<1>5. <<>> \in Seq(Remotes) /\ <<>> \in Seq(Routes)
  OBVIOUS
<1>6. FirstSays(0, <<>>)
  BY <1>2, <1>4, <1>5, Zenon DEF FirstSays
<1>7. Says(f, 0)
  BY <1>1, <1>2, <1>3, <1>4, <1>5, <1>6, Zenon DEF Says
<1> QED BY <1>1, <1>7, Zenon

LEMMA SaysStep ==
    ASSUME NEW n \in 1..Len(meant), Len(meant) \in Nat, meant[n] \in Items,
           NEW f, NEW g, Says(f, n - 1), Follows(g, f, meant[n])
    PROVE  Says(g, n)
<1>1. n \in Nat /\ n # 0
  OBVIOUS
<1>2. /\ TextSaid[n] = meant[n].rest[1] /\ SourceSaid[n] = SourceOfItem(meant[n])
      /\ TlsAuthSaid[n] = TlsAuthOf(meant[n])
  BY Zenon DEF TextSaid, SourceSaid, TlsAuthSaid
<1>3. /\ Tracks(n, "proto", g.proto, TextSaid)
      /\ Tracks(n, "cipher", g.cipher, TextSaid)
      /\ Tracks(n, "key-direction", g.keyDirection, TextSaid)
  BY <1>1, <1>2, TrackStep, Zenon DEF Says, Follows
<1>4. /\ Tracks(n, "ca", g.ca, SourceSaid)
      /\ Tracks(n, "cert", g.cert, SourceSaid)
      /\ Tracks(n, "key", g.key, SourceSaid)
      /\ Tracks(n, "tls-crypt", g.tlsCrypt, SourceSaid)
  BY <1>1, <1>2, TrackStep, Zenon DEF Says, Follows
<1>5. Tracks(n, "tls-auth", g.tlsAuth, TlsAuthSaid)
  BY <1>1, <1>2, TrackStep, Zenon DEF Says, Follows
<1>6. g.authUserPass = IF SomeGives(n, "auth-user-pass") THEN TRUE ELSE FALSE
  <2>1. SomeGives(n, "auth-user-pass")
          <=> SomeGives(n - 1, "auth-user-pass") \/ Gives(meant[n], "auth-user-pass")
    BY <1>1, SomeStep, Zenon
  <2>2. /\ f.authUserPass = IF SomeGives(n - 1, "auth-user-pass") THEN TRUE ELSE FALSE
        /\ g.authUserPass = IF Gives(meant[n], "auth-user-pass") THEN TRUE ELSE f.authUserPass
    BY Zenon DEF Says, Follows
  <2> QED BY <2>1, <2>2, Zenon
<1>7. ~meant[n].block => ~Malformed(meant[n].key, meant[n].rest)
  BY Zenon DEF Follows
<1>8. FirstSays(n, g.remotes)
  <2>1. Gives(meant[n], "remote") => ~meant[n].block
    BY DEF Gives, Inlinable, CertKeys
  <2>2. Gives(meant[n], "remote") => RemoteOf(meant[n]) \in Remotes
    BY <1>7, <2>1, RemoteTyped, Zenon
  <2> QED BY <1>1, <2>2, FirstStep, Zenon DEF Says, Follows
<1>9. g.routes \in Seq(Routes)
  <2>1. Gives(meant[n], "route") => ~meant[n].block
    BY DEF Gives, Inlinable, CertKeys
  <2>2. Gives(meant[n], "route") => RouteOf(meant[n]) \in Routes
    BY <1>7, <2>1, RouteTyped, Zenon
  <2>3. ASSUME NEW s \in Seq(Routes), NEW r \in Routes PROVE Append(s, r) \in Seq(Routes)
    OBVIOUS
  <2> QED BY <2>2, <2>3, Zenon DEF Says, Follows
<1>10. \A j \in 1..n : ~meant[j].block => ~Malformed(meant[j].key, meant[j].rest)
  <2>1. \A j \in 1..n : j = n \/ j \in 1..n - 1
    OBVIOUS
  <2> QED BY <1>7, <2>1, Zenon DEF Says
<1> QED BY <1>3, <1>4, <1>5, <1>6, <1>8, <1>9, <1>10, Zenon DEF Says

\* What the file says when all items are taken.
LEMMA AllSaid ==
    ASSUME meant \in Seq(Items), NEW f, f = Taken(meant)
    PROVE  /\ DOMAIN f = FileFields /\ f.error \in BOOLEAN
           /\ f.error = FALSE => Says(f, Len(meant))
<1> DEFINE N == Len(meant)
<1>1. N \in Nat /\ \A n \in 1..N : meant[n] \in Items
  OBVIOUS
<1>2. PICK upTo : UpTo(meant, N, upTo) /\ Taken(meant) = upTo[N]
  BY <1>1, TakenInOrder, Zenon
<1> DEFINE Good(n) == /\ DOMAIN upTo[n] = FileFields /\ upTo[n].error \in BOOLEAN
                      /\ upTo[n].error = FALSE => Says(upTo[n], n)
           Bad == {n \in Nat : n \in 0..N /\ ~Good(n)}
<1>3. Good(0)
  <2>1. upTo[0] = EmptyFile
    BY <1>2, Zenon DEF UpTo
  <2>2. EmptyFile.error \in BOOLEAN
    BY SaysNothing
  <2> QED BY <2>1, <2>2, SaysNothing, Zenon
<1>4. ASSUME NEW n \in 1..N, Good(n - 1) PROVE Good(n)
  <2>1. PICK f0, g0 : f0 = upTo[n - 1] /\ g0 = upTo[n]
    BY Zenon
  <2>2. g0 = TakeItem(f0, meant[n])
    BY <1>2, <2>1, Zenon DEF UpTo
  <2>3. CASE f0.error = TRUE
    <3>1. g0 = f0
      BY <2>2, <2>3, Zenon DEF TakeItem
    <3>2. g0.error # FALSE
      BY <2>3, <3>1
    <3> QED BY <1>4, <2>1, <3>1, <3>2, Zenon
  <2>4. CASE f0.error = FALSE
    <3>1. /\ DOMAIN g0 = FileFields
          /\ g0.error = TRUE \/ (g0.error = FALSE /\ Follows(g0, f0, meant[n]))
      BY <1>1, <1>4, <2>1, <2>2, <2>4, ItemTaken, Zenon
    <3>2. Says(f0, n - 1)
      BY <1>4, <2>1, <2>4, Zenon
    <3>3. g0.error = FALSE /\ Follows(g0, f0, meant[n]) => Says(g0, n)
      BY <1>1, <3>2, SaysStep, Zenon
    <3>4. g0.error \in BOOLEAN /\ (g0.error = TRUE => g0.error # FALSE)
      BY <3>1
    <3> QED BY <2>1, <3>1, <3>3, <3>4, Zenon
  <2>5. f0.error \in BOOLEAN
    BY <1>4, <2>1, Zenon
  <2> QED BY <2>3, <2>4, <2>5
<1> HIDE DEF Good
<1>5. \A n \in 0..N : Good(n)
  <2> SUFFICES ASSUME Bad # {} PROVE FALSE
    BY <1>1
  <2>1. PICK n \in Bad : \A m \in Bad : ~(m < n)
    BY LeastNumber
  <2>2. n \in 1..N /\ n - 1 \in 0..N /\ n - 1 \in Nat /\ n - 1 < n
    BY <1>1, <1>3, <2>1
  <2>3. Good(n - 1)
    BY <2>1, <2>2
  <2> QED BY <1>4, <2>1, <2>2, <2>3
<1>6. Good(N)
  BY <1>1, <1>5
<1> QED BY <1>2, <1>6, Zenon DEF Good

-----------------------------------------------------------------------------
(* The file.                                                                *)

SourceIs(key) == IF LastOf(key) = None THEN None ELSE SourceOfItem(LastOf(key))
First == meant[Min(ItemsOf({"remote"}))]

\* What the file is, from what was written.
FileIs(f) ==
    /\ DOMAIN f = FileFields
    /\ f.proto = Said("proto") /\ f.cipher = Said("cipher")
    /\ f.ca = SourceIs("ca") /\ f.cert = SourceIs("cert") /\ f.key = SourceIs("key")
    /\ f.tlsCrypt = SourceIs("tls-crypt")
    /\ f.tlsAuth = IF LastOf("tls-auth") = None THEN None
                   ELSE [source |-> SourceIs("tls-auth"), direction |-> Direction]
    /\ f.authUserPass = IF ItemsOf({"auth-user-pass"}) = {} THEN FALSE ELSE TRUE
    /\ IF ItemsOf({"remote"}) = {} THEN f.remotes = <<>>
       ELSE f.remotes # <<>> /\ Head(f.remotes) = RemoteOf(First)
    /\ f.routes \in Seq(Routes)

\* What was written has the arguments it must have.
WellFormed ==
    /\ \A key \in Inlinable : LastOf(key) # None =>
          /\ LastOf(key) \in Items
          /\ ~LastOf(key).block => LastOf(key).rest[1] \in Texts
    /\ LastOf("tls-auth") # None /\ ~LastOf("tls-auth").block =>
          /\ Len(LastOf("tls-auth").rest) \in 1..2
          /\ Len(LastOf("tls-auth").rest) = 2 => LastOf("tls-auth").rest[2] \in Texts
    /\ Said("key-direction") \in Texts \cup {None}
    /\ ItemsOf({"remote"}) # {} =>
          /\ RemoteOf(First) \in Remotes
          /\ First.rest \in Seq(Texts) /\ Len(First.rest) \in 1..3
          /\ Len(First.rest) > 1 => IsU16(First.rest[2])

\* A value is what the last item with some key says, or None.
LastSays(key, value, W) ==
    /\ LastOf(key) = None => value = None
    /\ LastOf(key) # None =>
          \E m \in 1..Len(meant) : /\ value = W[m] /\ LastOf(key) = meant[m]
                                   /\ meant[m] \in Items /\ Gives(meant[m], key)

LEMMA LastGives ==
    ASSUME NEW key, NEW value, NEW W, Tracks(Len(meant), key, value, W), meant \in Seq(Items)
    PROVE  LastSays(key, value, W)
<1>1. Len(meant) \in Nat /\ \A n \in 1..Len(meant) : meant[n] \in Items /\ meant[n] # None
  BY SomeItem
<1>2. CASE ItemsOf({key}) = {}
  BY <1>1, <1>2, TrackEnd, Zenon DEF LastOf, LastSays
<1>3. CASE ItemsOf({key}) # {}
  <2>1. PICK m : m = Max(ItemsOf({key}))
    BY Zenon
  <2>2. m \in 1..Len(meant) /\ value = W[m] /\ Gives(meant[m], key)
    BY <1>1, <1>3, <2>1, TrackEnd, Zenon
  <2>3. LastOf(key) = meant[m]
    BY <1>3, <2>1, Zenon DEF LastOf
  <2> QED BY <1>1, <2>2, <2>3, Zenon DEF LastSays
<1> QED BY <1>2, <1>3

LEMMA TextIs ==
    ASSUME NEW key, NEW value, Tracks(Len(meant), key, value, TextSaid), meant \in Seq(Items)
    PROVE  value = Said(key)
<1>0. LastSays(key, value, TextSaid)
  BY LastGives, Zenon
<1>1. CASE LastOf(key) = None
  BY <1>0, <1>1, Zenon DEF LastSays, Said
<1>2. CASE LastOf(key) # None
  <2>1. PICK m \in 1..Len(meant) :
           /\ value = TextSaid[m] /\ LastOf(key) = meant[m] /\ meant[m] \in Items
           /\ Gives(meant[m], key)
    BY <1>0, <1>2, Zenon DEF LastSays
  <2> QED BY <1>2, <2>1, Zenon DEF Said, TextSaid
<1> QED BY <1>1, <1>2

LEMMA ValueIs ==
    ASSUME NEW key, NEW value, NEW W, Tracks(Len(meant), key, value, W), meant \in Seq(Items)
    PROVE  /\ W = SourceSaid => value = SourceIs(key)
           /\ W = TlsAuthSaid =>
                 value = IF LastOf(key) = None THEN None ELSE TlsAuthOf(LastOf(key))
<1>0. LastSays(key, value, W)
  BY LastGives, Zenon
<1>1. CASE LastOf(key) = None
  BY <1>0, <1>1, Zenon DEF LastSays, SourceIs
<1>2. CASE LastOf(key) # None
  <2>1. PICK m \in 1..Len(meant) :
           /\ value = W[m] /\ LastOf(key) = meant[m] /\ meant[m] \in Items
           /\ Gives(meant[m], key)
    BY <1>0, <1>2, Zenon DEF LastSays
  <2> QED BY <1>2, <2>1, Zenon DEF SourceIs, SourceSaid, TlsAuthSaid
<1> QED BY <1>1, <1>2

LEMMA FirstIs ==
    ASSUME NEW remotes, FirstSays(Len(meant), remotes), meant \in Seq(Items)
    PROVE  IF ItemsOf({"remote"}) = {} THEN remotes = <<>>
           ELSE /\ remotes # <<>> /\ Head(remotes) = RemoteOf(First)
                /\ \E m \in 1..Len(meant) : First = meant[m] /\ Gives(meant[m], "remote")
<1> DEFINE S == ItemsOf({"remote"})
           N == Len(meant)
<1>1. S \subseteq 0..N /\ (\A i : i \in S <=> i \in 1..N /\ Gives(meant[i], "remote")) /\ N \in Nat
  BY DEF ItemsOf, Gives
<1>2. SomeGives(N, "remote") <=> S # {}
  BY <1>1, Zenon DEF SomeGives
<1>3. CASE S = {}
  BY <1>2, <1>3, Zenon DEF FirstSays
<1>4. CASE S # {}
  <2>1. Min(S) \in S /\ \A j \in S : Min(S) <= j
    <3> HIDE DEF S
    <3> QED BY <1>1, <1>4, Extremes
  <2>2. PICK m : m = Min(S)
    BY Zenon
  <2>3. m \in 1..N /\ Gives(meant[m], "remote")
        /\ \A j \in 1..N : Gives(meant[j], "remote") => m <= j
    BY <1>1, <2>1, <2>2, Zenon
  <2>4. First = meant[m]
    BY <2>2, Zenon DEF First
  <2>5. remotes \in Seq(Remotes) /\ remotes # <<>> /\ remotes[1] = RemoteOf(meant[m])
    BY <1>2, <1>4, <2>3, Zenon DEF FirstSays
  <2>6. Head(remotes) = remotes[1]
    BY <2>5
  <2> QED BY <1>4, <2>3, <2>4, <2>5, <2>6, Zenon
<1> QED BY <1>3, <1>4

LEMMA ItemsAreWellFormed ==
    ASSUME meant \in Seq(Items), NEW f, Says(f, Len(meant))
    PROVE  WellFormed
<1>1. \A j \in 1..Len(meant) : ~meant[j].block => ~Malformed(meant[j].key, meant[j].rest)
  BY Zenon DEF Says
<1>2. ASSUME NEW key \in CertKeys, LastOf(key) # None
      PROVE  LastOf(key) \in Items /\ (~LastOf(key).block => LastOf(key).rest[1] \in Texts)
  <2>1. \E value : Tracks(Len(meant), key, value, SourceSaid)
    BY <1>2, Zenon DEF Says, CertKeys
  <2>2. PICK m \in 1..Len(meant) : /\ LastOf(key) = meant[m] /\ meant[m] \in Items
                                   /\ Gives(meant[m], key)
    BY <1>2, <2>1, LastGives, Zenon DEF LastSays
  <2>3. ASSUME ~meant[m].block PROVE meant[m].rest[1] \in Texts
    <3>1. ~Malformed(key, meant[m].rest)
      BY <1>1, <2>2, <2>3, Zenon DEF Gives
    <3>2. Len(meant[m].rest) = 1
      BY <3>1, Zenon DEF Malformed
    <3>3. meant[m].rest \in Seq(Texts)
      BY <2>2, <2>3, ItemArgs, Zenon
    <3> QED BY <3>2, <3>3
  <2> QED BY <2>2, <2>3, Zenon
<1>3. ASSUME LastOf("tls-auth") # None
      PROVE  /\ LastOf("tls-auth") \in Items
             /\ ~LastOf("tls-auth").block =>
                   /\ LastOf("tls-auth").rest[1] \in Texts
                   /\ Len(LastOf("tls-auth").rest) \in 1..2
                   /\ Len(LastOf("tls-auth").rest) = 2 => LastOf("tls-auth").rest[2] \in Texts
  <2>1. PICK m \in 1..Len(meant) : /\ LastOf("tls-auth") = meant[m] /\ meant[m] \in Items
                                   /\ Gives(meant[m], "tls-auth")
    BY <1>3, LastGives, Zenon DEF Says, LastSays
  <2>2. ASSUME ~meant[m].block
        PROVE  /\ meant[m].rest[1] \in Texts /\ Len(meant[m].rest) \in 1..2
               /\ Len(meant[m].rest) = 2 => meant[m].rest[2] \in Texts
    <3>1. ~Malformed("tls-auth", meant[m].rest)
      BY <1>1, <2>1, <2>2, Zenon DEF Gives
    <3>2. Len(meant[m].rest) \in 1..2
      BY <3>1, Zenon DEF Malformed
    <3>3. meant[m].rest \in Seq(Texts)
      BY <2>1, <2>2, ItemArgs, Zenon
    <3> QED BY <3>2, <3>3
  <2> QED BY <2>1, <2>2, Zenon
<1>4. ASSUME ItemsOf({"remote"}) # {}
      PROVE  /\ RemoteOf(First) \in Remotes
             /\ First.rest \in Seq(Texts) /\ Len(First.rest) \in 1..3
             /\ Len(First.rest) > 1 => IsU16(First.rest[2])
  <2>1. PICK m \in 1..Len(meant) : First = meant[m] /\ Gives(meant[m], "remote")
    BY <1>4, FirstIs, Zenon DEF Says
  <2>2. meant[m] \in Items
    OBVIOUS
  <2>3. ~meant[m].block
    BY <2>1 DEF Gives, Inlinable, CertKeys
  <2> QED BY <1>1, <2>1, <2>2, <2>3, RemoteTyped, Zenon
<1>5. \A key \in Inlinable : key \in CertKeys \/ key = "tls-auth"
  BY DEF Inlinable
<1>6. ASSUME LastOf("key-direction") # None PROVE Said("key-direction") \in Texts
  <2>1. PICK m \in 1..Len(meant) : /\ LastOf("key-direction") = meant[m] /\ meant[m] \in Items
                                   /\ Gives(meant[m], "key-direction")
    BY <1>6, LastGives, Zenon DEF Says, LastSays
  <2>2. ~meant[m].block
    BY <2>1 DEF Gives, Inlinable, CertKeys
  <2>3. ~Malformed("key-direction", meant[m].rest)
    BY <1>1, <2>1, <2>2, Zenon DEF Gives
  <2>4. Len(meant[m].rest) # 0 /\ meant[m].rest \in Seq(Texts)
    BY <2>1, <2>2, <2>3, ItemArgs, Zenon DEF Malformed
  <2>5. meant[m].rest[1] \in Texts
    BY <2>4
  <2> QED BY <1>6, <2>1, <2>5, Zenon DEF Said
<1>7. LastOf("key-direction") = None => Said("key-direction") = None
  BY Zenon DEF Said
<1>8. Said("key-direction") \in Texts \cup {None}
  BY <1>6, <1>7, Zenon
<1> QED BY <1>2, <1>3, <1>4, <1>5, <1>8, Zenon DEF WellFormed

LEMMA Completes ==
    ASSUME meant \in Seq(Items), NEW f, DOMAIN f = FileFields, Says(f, Len(meant))
    PROVE  FileIs(Completed(f))
<1> DEFINE ta == LastOf("tls-auth")
           c == Completed(f)
<1>1. /\ f.proto = Said("proto") /\ f.cipher = Said("cipher")
      /\ f.keyDirection = Said("key-direction")
  BY TextIs, Zenon DEF Says
<1>2. /\ f.ca = SourceIs("ca") /\ f.cert = SourceIs("cert") /\ f.key = SourceIs("key")
      /\ f.tlsCrypt = SourceIs("tls-crypt")
  BY ValueIs, Zenon DEF Says
<1>3. f.tlsAuth = IF ta = None THEN None ELSE TlsAuthOf(ta)
  BY ValueIs, Zenon DEF Says
<1>4. f.authUserPass = IF ItemsOf({"auth-user-pass"}) = {} THEN FALSE ELSE TRUE
  <2>1. \A i : i \in ItemsOf({"auth-user-pass"})
                <=> i \in 1..Len(meant) /\ Gives(meant[i], "auth-user-pass")
    BY DEF ItemsOf, Gives
  <2>2. SomeGives(Len(meant), "auth-user-pass") <=> ItemsOf({"auth-user-pass"}) # {}
    BY <2>1, Zenon DEF SomeGives
  <2> QED BY <2>2, Zenon DEF Says
<1>5. IF ItemsOf({"remote"}) = {} THEN f.remotes = <<>>
      ELSE f.remotes # <<>> /\ Head(f.remotes) = RemoteOf(First)
  BY FirstIs, Zenon DEF Says
<1>6. f.routes \in Seq(Routes)
  BY Zenon DEF Says
<1>7. /\ DOMAIN c = FileFields
      /\ c.proto = f.proto /\ c.cipher = f.cipher /\ c.ca = f.ca /\ c.cert = f.cert
      /\ c.key = f.key /\ c.tlsCrypt = f.tlsCrypt /\ c.authUserPass = f.authUserPass
      /\ c.remotes = f.remotes /\ c.routes = f.routes
      /\ c.tlsAuth = IF f.tlsAuth # None /\ f.tlsAuth.direction = None
                     THEN [f.tlsAuth EXCEPT !.direction = f.keyDirection] ELSE f.tlsAuth
  BY DEF Completed, FileFields
<1>8. ASSUME ta # None PROVE c.tlsAuth = [source |-> SourceIs("tls-auth"), direction |-> Direction]
  <2>1. f.tlsAuth = TlsAuthOf(ta) /\ SourceIs("tls-auth") = SourceOfItem(ta)
    BY <1>3, <1>8, Zenon DEF SourceIs
  <2>2. /\ ta \in Items /\ (~ta.block => ta.rest[1] \in Texts /\ Len(ta.rest) \in 1..2)
        /\ ~ta.block /\ Len(ta.rest) = 2 => ta.rest[2] \in Texts
    <3>1. "tls-auth" \in Inlinable
      BY DEF Inlinable
    <3> QED BY <1>8, <3>1, ItemsAreWellFormed, Zenon DEF WellFormed
  <2>3. Direction = IF ~ta.block /\ Len(ta.rest) = 2 THEN ta.rest[2] ELSE f.keyDirection
    BY <1>1, <1>8, Zenon DEF Direction
  <2> HIDE DEF ta, c
  <2>4. ta.block \in BOOLEAN
    BY <2>2, ItemArgs, Zenon
  <2>5. PICK src : src = SourceOfItem(ta)
    BY Zenon
  <2>6. CASE ta.block = TRUE
    <3>1. TlsAuthOf(ta) = [source |-> src, direction |-> None]
      BY <2>5, <2>6, Zenon DEF TlsAuthOf, SourceOfItem
    <3>2. c.tlsAuth = [source |-> src, direction |-> f.keyDirection]
      <4>1. [source |-> src, direction |-> None] # None
        <5>1. src \in Sources
          <6>1. ta.rest \in Seq(BlockLines)
            BY <2>2, <2>6, ItemArgs
          <6>2. src = [inline |-> TRUE, of |-> ta.rest]
            BY <2>5, <2>6, Zenon DEF SourceOfItem, Inline
          <6> QED BY <6>1, <6>2 DEF Sources
        <5>2. [source |-> src, direction |-> None] \in TlsAuths
          BY <5>1 DEF TlsAuths
        <5> QED BY <5>2, OvpnImportAssumption
      <4> QED BY <1>7, <2>1, <3>1, <4>1
    <3> QED BY <2>1, <2>3, <2>5, <2>6, <3>2, Zenon
  <2>7. CASE ta.block = FALSE
    <3>1. TlsAuthOf(ta) = [source |-> src, direction |-> Arg(ta.rest, 2)]
      BY <2>5, <2>7, Zenon DEF TlsAuthOf, SourceOfItem
    <3>2. PICK d : d = Arg(ta.rest, 2)
      BY Zenon
    <3>3. d = IF Len(ta.rest) = 2 THEN ta.rest[2] ELSE None
      BY <2>2, <2>7, <3>2 DEF Arg
    <3>4. [source |-> src, direction |-> d] # None
      <4>1. src = [inline |-> FALSE, of |-> ta.rest[1]]
        BY <2>5, <2>7, Zenon DEF SourceOfItem, InFile
      <4>2. [source |-> src, direction |-> d] \in TlsAuths
        BY <2>2, <2>7, <3>3, <4>1 DEF TlsAuths, Sources
      <4> QED BY <4>2, OvpnImportAssumption
    <3>5. c.tlsAuth = [source |-> src, direction |->
                          IF d = None THEN f.keyDirection ELSE d]
      BY <1>7, <2>1, <3>1, <3>2, <3>4
    <3>6. Direction = IF d = None THEN f.keyDirection ELSE d
      <4>1. Len(ta.rest) = 2 => d # None
        BY <2>2, <2>7, <3>3, OvpnImportAssumption
      <4> QED BY <2>3, <2>7, <3>3, <4>1, Zenon
    <3> QED BY <2>1, <2>5, <3>5, <3>6, Zenon
  <2> QED BY <2>4, <2>6, <2>7
<1>9. ta = None => c.tlsAuth = None
  BY <1>3, <1>7, Zenon
<1> HIDE DEF c, ta
<1>10. FileIs(c)
  BY <1>1, <1>2, <1>4, <1>5, <1>6, <1>7, <1>8, <1>9, Zenon DEF FileIs, ta
<1> QED BY <1>10 DEF c

-----------------------------------------------------------------------------
(* The builder.                                                             *)

PortSaid ==
    IF ItemsOf({"remote"}) = {} THEN None
    ELSE IF Len(First.rest) < 2 THEN None ELSE Number[First.rest[2]]
AuthSaid ==
    IF ItemsOf({"auth-user-pass"}) = {}
    THEN IF SourceIs("cert") # None /\ SourceIs("key") # None THEN "tls" ELSE None
    ELSE IF SourceIs("cert") # None /\ SourceIs("key") # None THEN "password-tls" ELSE "password"

\* The fields of the builder as the file gives them, without the port and the
\* routes.
FromItems ==
    [remote |-> Server.host, tcp |-> IF Server.proto \in TcpNames THEN TRUE ELSE FALSE,
     authType |-> AuthSaid, cipher |-> Said("cipher"),
     ca |-> PathOf(SourceIs("ca"), "ca"), cert |-> PathOf(SourceIs("cert"), "cert"),
     key |-> PathOf(SourceIs("key"), "key"), tlsAuth |-> PathOf(SourceIs("tls-auth"), "ta"),
     tlsCrypt |-> PathOf(SourceIs("tls-crypt"), "tls-crypt"), direction |-> Direction,
     limits |-> None]
SaidFields == {"remote", "tcp", "authType", "cipher", "ca", "cert", "key", "tlsAuth", "tlsCrypt",
               "direction", "limits"}
BuilderFields == SaidFields \cup {"port", "username", "auth", "compression", "redirectGateway",
                                 "routes", "dataCiphers"}

InRange(routes) == \A i \in 1..Len(routes) : routes[i].mask <= 32

BuilderIs ==
    /\ DOMAIN builder = BuilderFields
    /\ \A field \in SaidFields : builder[field] = Wanted(field, FromItems[field])
    /\ IF "routes" \in DOMAIN own THEN builder.routes = own.routes ELSE InRange(builder.routes)

\* What a setter gives, and what all that were called gave.
SetterIs(call) ==
    /\ DOMAIN call \subseteq BuilderFields \ {"username"}
    /\ "direction" \in DOMAIN call <=> "tlsAuth" \in DOMAIN call
    /\ "tlsAuth" \in DOMAIN call => call.tlsAuth = PathTo("own.key")
    /\ "remote" \in DOMAIN call => call.remote \in {"", "h3"}
    /\ "port" \in DOMAIN call => call.port \in OwnPorts
    /\ "tcp" \in DOMAIN call => call.tcp \in BOOLEAN
    /\ \A field \in {"ca", "cert", "key"} \cap DOMAIN call :
          call[field] \in {PathTo(""), PathTo("own.pem")}
    /\ "limits" \in DOMAIN call => call.limits \in {"kept", "exceeded"}
    /\ "routes" \in DOMAIN call =>
          \E m \in {8, 33} : call.routes = <<[dest |-> "10.0.0.0", mask |-> m, hop |-> None]>>
OwnIs == SetterIs(own)

\* The content of the inline material is in the store.
IsStored(key, type) ==
    LastOf(key) # None /\ LastOf(key).block => store[type] = LastOf(key).rest
StoreIs ==
    /\ IsStored("ca", "ca") /\ IsStored("cert", "cert") /\ IsStored("key", "key")
    /\ IsStored("tls-auth", "ta") /\ IsStored("tls-crypt", "tls-crypt")

ImportInv ==
    /\ LexerInv
    /\ phase \in {"writing", "lexed", "parsed"} => own = <<>>
    /\ phase = "parsed" => FileIs(file) /\ WellFormed
    /\ phase \in {"populated", "built", "saved"} => WellFormed /\ StoreIs /\ OwnIs /\ BuilderIs
    /\ phase = "populated" => builder.port = Wanted("port", PortSaid)
    /\ phase \in {"built", "saved"} =>
          builder.port = Wanted("port", Server.port) /\ Complete(builder)
    /\ phase = "saved" => data = VpnData(builder)

LEMMA LastThere ==
    ASSUME meant \in Seq(Items), NEW key
    PROVE  /\ LastOf(key) = None <=> ItemsOf({key}) = {}
           /\ LastOf(key) # None => LastOf(key) \in Items
<1>1. Len(meant) \in Nat /\ \A n \in 1..Len(meant) : meant[n] \in Items /\ meant[n] # None
  BY SomeItem
<1> DEFINE S == ItemsOf({key})
<1>2. S \subseteq 0..Len(meant) /\ S \subseteq 1..Len(meant)
  BY DEF ItemsOf
<1>3. CASE S # {}
  <2>1. Max(S) \in S
    <3> HIDE DEF S
    <3> QED BY <1>1, <1>2, <1>3, Extremes
  <2>2. PICK m : m = Max(S)
    BY Zenon
  <2>3. LastOf(key) = meant[m] /\ m \in 1..Len(meant)
    BY <1>2, <1>3, <2>1, <2>2, Zenon DEF LastOf
  <2> QED BY <1>1, <1>3, <2>3, Zenon
<1>4. CASE S = {}
  BY <1>4, Zenon DEF LastOf
<1> QED BY <1>3, <1>4

LEMMA SourceTyped ==
    ASSUME WellFormed, NEW key \in Inlinable
    PROVE  /\ LastOf(key) = None => SourceIs(key) = None
           /\ LastOf(key) # None =>
                 /\ SourceIs(key) \in Sources /\ SourceIs(key) # None
                 /\ SourceIs(key).inline = LastOf(key).block
                 /\ LastOf(key).block => SourceIs(key).of = LastOf(key).rest
                 /\ ~LastOf(key).block =>
                       SourceIs(key).of = LastOf(key).rest[1] /\ LastOf(key).rest[1] \in Texts
<1>1. CASE LastOf(key) = None
  BY <1>1, Zenon DEF SourceIs
<1>2. CASE LastOf(key) # None
  <2>1. PICK item : item = LastOf(key)
    BY Zenon
  <2>2. item \in Items /\ (~item.block => item.rest[1] \in Texts)
    BY <1>2, <2>1, Zenon DEF WellFormed
  <2>3. SourceIs(key) = SourceOfItem(item)
    BY <1>2, <2>1, Zenon DEF SourceIs
  <2>4. PICK src : src = SourceOfItem(item)
    BY Zenon
  <2>5. item.block \in BOOLEAN /\ (item.block => item.rest \in Seq(BlockLines))
    BY <2>2, ItemArgs, Zenon
  <2>6. src = IF item.block THEN [inline |-> TRUE, of |-> item.rest]
              ELSE [inline |-> FALSE, of |-> item.rest[1]]
    BY <2>4, Zenon DEF SourceOfItem, Inline, InFile
  <2>7. /\ src \in Sources /\ src.inline = item.block
        /\ item.block => src.of = item.rest
        /\ ~item.block => src.of = item.rest[1]
    BY <2>2, <2>5, <2>6 DEF Sources
  <2>8. src # None
    BY <2>7, OvpnImportAssumption
  <2> QED BY <1>2, <2>1, <2>2, <2>3, <2>4, <2>7, <2>8, Zenon
<1> QED BY <1>1, <1>2

\* A path, and when there is one.
LEMMA PathTyped ==
    ASSUME WellFormed, NEW key \in Inlinable, NEW type \in CertNames
    PROVE  LET path == PathOf(SourceIs(key), type)
               item == LastOf(key)
           IN /\ item = None => path = None
              /\ item # None => path # None /\ path # PathTo("")
              /\ item # None /\ item.block => path.stored = TRUE /\ path.of = type
              /\ item # None /\ ~item.block => path = PathTo(item.rest[1])
<1> DEFINE path == PathOf(SourceIs(key), type)
<1>1. CASE LastOf(key) = None
  BY <1>1, SourceTyped, Zenon DEF PathOf
<1>2. CASE LastOf(key) # None
  <2>1. PICK src, item : src = SourceIs(key) /\ item = LastOf(key)
    BY Zenon
  <2>2. /\ src # None /\ src.inline = item.block
        /\ ~item.block => src.of = item.rest[1] /\ item.rest[1] \in Texts
    BY <1>2, <2>1, SourceTyped, Zenon
  <2>3. PICK p : p = path
    BY Zenon
  <2>4. p = IF item.block THEN [stored |-> TRUE, of |-> type]
            ELSE [stored |-> FALSE, of |-> item.rest[1]]
    BY <2>1, <2>2, <2>3, Zenon DEF PathOf
  <2>5. p \in CertPaths /\ p # [stored |-> FALSE, of |-> ""]
    BY <2>2, <2>4, OvpnImportAssumption DEF CertPaths
  <2>6. p # None
    BY <2>5, OvpnImportAssumption
  <2>7. item.block => p.stored = TRUE /\ p.of = type
    BY <2>4
  <2> HIDE DEF path
  <2> QED BY <1>2, <2>1, <2>3, <2>4, <2>5, <2>6, <2>7, Zenon DEF PathTo, path
<1> QED BY <1>1, <1>2, Zenon

\* What was written says the same as long as nothing more is written.
LEMMA SameItems ==
    ASSUME meant' = meant
    PROVE  /\ \A key : ItemsOf({key})' = ItemsOf({key}) /\ LastOf(key)' = LastOf(key)
           /\ \A key : Said(key)' = Said(key) /\ SourceIs(key)' = SourceIs(key)
           /\ First' = First /\ Direction' = Direction
<1>1. \A keys : ItemsOf(keys)' = ItemsOf(keys)
  BY Zenon DEF ItemsOf
<1>2. \A key : LastOf(key)' = LastOf(key)
  BY <1>1, Zenon DEF LastOf
<1>3. \A key : Said(key)' = Said(key) /\ SourceIs(key)' = SourceIs(key)
  BY <1>2, Zenon DEF Said, SourceIs
<1>4. First' = First
  BY <1>1, Zenon DEF First
<1>5. Direction' = Direction
  BY <1>2, <1>3, Zenon DEF Direction
<1> QED BY <1>1, <1>2, <1>3, <1>4, <1>5, Zenon

ServerOf(remotes, first, proto) ==
    IF remotes = {} THEN [host |-> None, port |-> DefaultPort, proto |-> None]
    ELSE [host |-> first[1], port |-> IF Len(first) < 2 THEN DefaultPort ELSE Number[first[2]],
          proto |-> IF Len(first) < 3 THEN proto ELSE first[3]]

LEMMA ServerIs == Server = ServerOf(ItemsOf({"remote"}), First.rest, Said("proto"))
BY Zenon DEF Server, ServerOf, First

LEMMA SameServer ==
    ASSUME meant' = meant
    PROVE  Server' = Server /\ PortSaid' = PortSaid /\ AuthSaid' = AuthSaid
<1>1. /\ ItemsOf({"remote"})' = ItemsOf({"remote"}) /\ First' = First
      /\ ItemsOf({"auth-user-pass"})' = ItemsOf({"auth-user-pass"})
      /\ Said("proto")' = Said("proto")
      /\ SourceIs("cert")' = SourceIs("cert") /\ SourceIs("key")' = SourceIs("key")
  BY SameItems, Zenon
<1>2. Server' = Server
  <2>1. Server = ServerOf(ItemsOf({"remote"}), First.rest, Said("proto"))
    BY ServerIs, Zenon
  <2>2. Server' = ServerOf(ItemsOf({"remote"})', First'.rest, Said("proto")')
    BY Zenon DEF Server, ServerOf, First
  <2> QED BY <1>1, <2>1, <2>2, Zenon
<1>3. PortSaid' = PortSaid /\ AuthSaid' = AuthSaid
  BY <1>1, Zenon DEF PortSaid, AuthSaid
<1> QED BY <1>2, <1>3

Filled(server, type, cipher, ca, cert, key, ta, crypt, direction) ==
    [remote |-> server.host, tcp |-> IF server.proto \in TcpNames THEN TRUE ELSE FALSE,
     authType |-> type, cipher |-> cipher, ca |-> PathOf(ca, "ca"), cert |-> PathOf(cert, "cert"),
     key |-> PathOf(key, "key"), tlsAuth |-> PathOf(ta, "ta"),
     tlsCrypt |-> PathOf(crypt, "tls-crypt"), direction |-> direction, limits |-> None]

LEMMA SameWritten ==
    ASSUME meant' = meant
    PROVE  /\ WellFormed' <=> WellFormed
           /\ FromItems' = FromItems
           /\ FileIs(file') => FileIs(file)'
           /\ store' = store => (StoreIs' <=> StoreIs)
<1>1. WellFormed' <=> WellFormed
  BY SameItems, Zenon DEF WellFormed
<1>2. FromItems' = FromItems
  <2>1. FromItems = Filled(Server, AuthSaid, Said("cipher"), SourceIs("ca"), SourceIs("cert"),
                           SourceIs("key"), SourceIs("tls-auth"), SourceIs("tls-crypt"), Direction)
    BY Zenon DEF FromItems, Filled
  <2>2. FromItems' = Filled(Server', AuthSaid', Said("cipher")', SourceIs("ca")',
                            SourceIs("cert")', SourceIs("key")', SourceIs("tls-auth")',
                            SourceIs("tls-crypt")', Direction')
    BY Zenon DEF FromItems, Filled
  <2>3. /\ Server' = Server /\ AuthSaid' = AuthSaid /\ Said("cipher")' = Said("cipher")
        /\ SourceIs("ca")' = SourceIs("ca") /\ SourceIs("cert")' = SourceIs("cert")
        /\ SourceIs("key")' = SourceIs("key") /\ SourceIs("tls-auth")' = SourceIs("tls-auth")
        /\ SourceIs("tls-crypt")' = SourceIs("tls-crypt") /\ Direction' = Direction
    BY SameItems, SameServer, Zenon
  <2> QED BY <2>1, <2>2, <2>3, Zenon
<1>3. ASSUME FileIs(file') PROVE FileIs(file)'
  <2>1. /\ Said("proto")' = Said("proto") /\ Said("cipher")' = Said("cipher")
        /\ SourceIs("ca")' = SourceIs("ca") /\ SourceIs("cert")' = SourceIs("cert")
        /\ SourceIs("key")' = SourceIs("key") /\ SourceIs("tls-crypt")' = SourceIs("tls-crypt")
        /\ SourceIs("tls-auth")' = SourceIs("tls-auth") /\ Direction' = Direction
        /\ LastOf("tls-auth")' = LastOf("tls-auth") /\ First' = First
        /\ ItemsOf({"auth-user-pass"})' = ItemsOf({"auth-user-pass"})
        /\ ItemsOf({"remote"})' = ItemsOf({"remote"})
    BY SameItems, Zenon
  <2>2. /\ (file.proto = Said("proto"))' /\ (file.cipher = Said("cipher"))'
        /\ (file.ca = SourceIs("ca"))' /\ (file.cert = SourceIs("cert"))'
        /\ (file.key = SourceIs("key"))' /\ (file.tlsCrypt = SourceIs("tls-crypt"))'
        /\ (DOMAIN file = FileFields)' /\ (file.routes \in Seq(Routes))'
    BY <1>3, <2>1, Zenon DEF FileIs
  <2>3. (file.tlsAuth = IF LastOf("tls-auth") = None THEN None
                        ELSE [source |-> SourceIs("tls-auth"), direction |-> Direction])'
    BY <1>3, <2>1, Zenon DEF FileIs
  <2>4. (file.authUserPass = IF ItemsOf({"auth-user-pass"}) = {} THEN FALSE ELSE TRUE)'
    BY <1>3, <2>1, Zenon DEF FileIs
  <2>5. (IF ItemsOf({"remote"}) = {} THEN file.remotes = <<>>
         ELSE file.remotes # <<>> /\ Head(file.remotes) = RemoteOf(First))'
    BY <1>3, <2>1, Zenon DEF FileIs
  <2> QED BY <2>2, <2>3, <2>4, <2>5, Zenon DEF FileIs
<1>4. ASSUME store' = store PROVE StoreIs' <=> StoreIs
  BY <1>4, SameItems, Zenon DEF StoreIs, IsStored
<1> QED BY <1>1, <1>2, <1>3, <1>4, Zenon

LEMMA InitImport == ImportInit => ImportInv
<1> SUFFICES ASSUME ImportInit PROVE ImportInv
  OBVIOUS
<1>1. phase = "writing" /\ own = <<>>
  BY DEF ImportInit
<1>2. phase \notin {"parsed", "populated", "built", "saved"}
  BY <1>1
<1> QED BY <1>1, <1>2, InitLexer, Zenon DEF ImportInv

LEMMA WritingImport ==
    ASSUME ImportInv, LexerInv', own' = own, phase = "writing",
           phase' \in {"writing", "lexed", "refused"}
    PROVE  ImportInv'
<1>1. phase' \notin {"parsed", "populated", "built", "saved"} /\ own' = <<>>
  BY DEF ImportInv
<1>2. phase' \notin {"populated", "built", "saved"} /\ phase' \notin {"built", "saved"}
      /\ phase' # "parsed" /\ phase' # "populated" /\ phase' # "saved"
  BY <1>1
<1> QED BY <1>1, <1>2, Zenon DEF ImportInv

LEMMA ParseImport ==
    ASSUME ImportInv, LexerInv', Parse
    PROVE  ImportInv'
<1>1. /\ phase = "lexed" /\ file' = Completed(Taken(lex.items)) /\ meant' = meant /\ own' = own
      /\ phase' = IF file'.error THEN "refused" ELSE "parsed"
  BY Zenon DEF Parse, written, called
<1>2. lex.items = meant /\ own = <<>> /\ meant \in Seq(Items)
  BY <1>1 DEF ImportInv, LexerInv, Recorded, AsWritten, GoesOn
<1>3. PICK f : f = Taken(meant)
  BY Zenon
<1>4. DOMAIN f = FileFields /\ f.error \in BOOLEAN /\ (f.error = FALSE => Says(f, Len(meant)))
  BY <1>2, <1>3, AllSaid, Zenon
<1>5. Completed(f).error = f.error
  BY <1>4 DEF Completed, FileFields
<1>6. ASSUME f.error = FALSE PROVE FileIs(file)' /\ WellFormed'
  <2>1. Says(f, Len(meant))
    BY <1>4, <1>6
  <2>2. FileIs(Completed(f)) /\ WellFormed
    BY <1>2, <1>4, <2>1, Completes, ItemsAreWellFormed, Zenon
  <2>3. FileIs(file')
    BY <1>1, <1>2, <1>3, <2>2, Zenon
  <2> QED BY <1>1, <2>2, <2>3, SameWritten, Zenon
<1>7. phase' = IF f.error THEN "refused" ELSE "parsed"
  BY <1>1, <1>2, <1>3, <1>5, Zenon
<1>8. phase' = "parsed" => f.error = FALSE
  BY <1>4, <1>7
<1>9. phase' \notin {"populated", "built", "saved"} /\ phase' \notin {"built", "saved"}
      /\ phase' # "populated" /\ phase' # "saved"
  BY <1>4, <1>7
<1> QED BY <1>1, <1>2, <1>6, <1>8, <1>9, Zenon DEF ImportInv

\* A state in which the import is refused keeps nothing but the lexer's part.
LEMMA RefusedImport == ASSUME LexerInv', phase' = "refused" PROVE ImportInv'
<1>1. phase' \notin {"writing", "lexed", "parsed"} /\ phase' \notin {"populated", "built", "saved"}
      /\ phase' \notin {"built", "saved"}
      /\ phase' # "parsed" /\ phase' # "populated" /\ phase' # "saved"
  OBVIOUS
<1> QED BY <1>1, Zenon DEF ImportInv

LEMMA NoneApart ==
    /\ None \notin Texts /\ None \notin TcpNames /\ None \notin Nat
    /\ None # "yes" /\ None # "exceeded"
BY OvpnImportAssumption, Zenon

LEMMA U16Number == ASSUME NEW t, IsU16(t) PROVE t \in DOMAIN Number
BY Zenon DEF IsU16

OrDefault(port) == IF port = None THEN DefaultPort ELSE port

LEMMA ServerSays ==
    ASSUME WellFormed, ItemsOf({"remote"}) # {}, NEW r, r = RemoteOf(First),
           NEW srv, srv = Server
    PROVE  /\ srv.host = r.host /\ r.host \in Texts
           /\ srv.port = OrDefault(PortSaid)
           /\ PortSaid = IF r.port = None THEN None ELSE Number[r.port]
           /\ srv.proto = IF r.proto # None THEN r.proto ELSE Said("proto")
           /\ r.port # None => Number[r.port] \in Nat
<1>1. PICK first, said : first = First.rest /\ said = Said("proto")
  BY Zenon
<1>2. r \in Remotes /\ first \in Seq(Texts) /\ Len(first) \in 1..3 /\ (Len(first) > 1 => IsU16(first[2]))
  BY <1>1, Zenon DEF WellFormed
<1>3. r = [host |-> first[1], port |-> Arg(first, 2), proto |-> Arg(first, 3)]
  BY <1>1, Zenon DEF RemoteOf
<1>4. Server = ServerOf(ItemsOf({"remote"}), first, said)
  BY <1>1, ServerIs, Zenon
<1>5. ServerOf(ItemsOf({"remote"}), first, said)
        = [host |-> first[1], port |-> IF Len(first) < 2 THEN DefaultPort ELSE Number[first[2]],
           proto |-> IF Len(first) < 3 THEN said ELSE first[3]]
  BY Zenon DEF ServerOf
<1>7. srv = [host |-> first[1], port |-> IF Len(first) < 2 THEN DefaultPort ELSE Number[first[2]],
             proto |-> IF Len(first) < 3 THEN said ELSE first[3]]
  BY <1>4, <1>5, Zenon
<1>8. PICK p, q : p = Arg(first, 2) /\ q = Arg(first, 3)
  BY Zenon
<1>9. /\ r.host = first[1] /\ r.port = p /\ r.proto = q
      /\ r.host \in Texts /\ p \in Texts \cup {None} /\ q \in Texts \cup {None}
  BY <1>2, <1>3, <1>8 DEF Remotes
<1>10. /\ p = IF Len(first) < 2 THEN None ELSE first[2]
       /\ q = IF Len(first) < 3 THEN None ELSE first[3]
  BY <1>2, <1>8 DEF Arg
<1>11. Len(first) >= 2 => first[2] \in Texts /\ Number[first[2]] \in Nat
  <2> SUFFICES ASSUME Len(first) >= 2 PROVE first[2] \in Texts /\ Number[first[2]] \in Nat
    OBVIOUS
  <2>1. first[2] \in DOMAIN Number
    <3>1. Len(first) > 1
      BY <1>2
    <3> QED BY <1>2, <3>1, U16Number, Zenon
  <2>2. Number[first[2]] \in Nat
    BY <2>1, OvpnImportAssumption, Zenon
  <2>3. first[2] \in Texts
    BY <1>2
  <2> QED BY <2>2, <2>3
<1>12. /\ srv.host = r.host
       /\ srv.port = IF r.port = None THEN DefaultPort ELSE Number[r.port]
       /\ srv.proto = IF r.proto # None THEN r.proto ELSE said
       /\ r.port # None => Number[r.port] \in Nat
  <2>1. Len(first) \in Nat /\ (Len(first) < 2 \/ Len(first) >= 2) /\ (Len(first) >= 3 => first[3] \in Texts)
    BY <1>2
  <2> QED BY <1>7, <1>9, <1>10, <1>11, <2>1, NoneApart
<1>13. PortSaid = IF Len(first) < 2 THEN None ELSE Number[first[2]]
  BY <1>1, Zenon DEF PortSaid
<1>14. PortSaid = IF r.port = None THEN None ELSE Number[r.port]
  <2>1. Len(first) \in Nat
    BY <1>2
  <2> QED BY <1>9, <1>10, <1>11, <1>13, <2>1, NoneApart
<1>15. srv.port = OrDefault(PortSaid)
  <2>1. r.port # None => Number[r.port] # None
    BY <1>12, NoneApart, Zenon
  <2>2. CASE r.port = None
    BY <1>12, <1>14, <2>2, Zenon DEF OrDefault
  <2>3. CASE r.port # None
    BY <1>12, <1>14, <2>1, <2>3, Zenon DEF OrDefault
  <2> QED BY <2>2, <2>3
<1> QED BY <1>1, <1>9, <1>12, <1>14, <1>15, Zenon

\* A netmask has at most 32 leading ones.
LEMMA PrefixInRange == ASSUME NEW mask \in DOMAIN Octets PROVE Prefix(mask) \in 0..32
<1> DEFINE o == Octets[mask]
           S == {k \in 0..4 : \A i \in 1..k : o[i] = 255}
           full == Max(S)
<1>1. o \in [1..4 -> 0..255]
  BY OvpnImportAssumption, Zenon
<1>2. full \in 0..4
  <2>1. S \subseteq 0..4 /\ 0 \in S /\ 4 \in Nat
    OBVIOUS
  <2> HIDE DEF S
  <2>2. Max(S) \in S
    BY <2>1, Extremes
  <2> QED BY <2>1, <2>2
<1>3. ASSUME NEW b \in 0..255 PROVE LeadingOnes(b) \in 0..8
  <2> DEFINE T == {n \in 0..8 : b >= Masks[n + 1]}
  <2>1. Masks[0 + 1] = 0
    BY DEF Masks
  <2>2. T \subseteq 0..8 /\ 0 \in T /\ 8 \in Nat
    BY <2>1
  <2>3. LeadingOnes(b) = Max(T)
    BY Zenon DEF LeadingOnes
  <2> HIDE DEF T
  <2>4. Max(T) \in T
    BY <2>2, Extremes
  <2> QED BY <2>2, <2>3, <2>4
<1>4. Prefix(mask) = 8 * full + (IF full = 4 THEN 0 ELSE LeadingOnes(o[full + 1]))
  BY Zenon DEF Prefix
<1> HIDE DEF o, full
<1>5. CASE full = 4
  BY <1>4, <1>5
<1>6. CASE full # 4
  <2>1. full \in 0..3 /\ full + 1 \in 1..4
    BY <1>2, <1>6
  <2>2. o[full + 1] \in 0..255
    BY <1>1, <2>1
  <2>3. PICK k : k = LeadingOnes(o[full + 1])
    BY Zenon
  <2>4. k \in 0..8
    BY <1>3, <2>2, <2>3, Zenon
  <2>5. Prefix(mask) = 8 * full + k
    BY <1>4, <1>6, <2>3, Zenon
  <2> QED BY <2>1, <2>4, <2>5
<1> QED BY <1>5, <1>6

LEMMA RouteInRange == ASSUME NEW r \in Routes PROVE Route(r).mask <= 32
<1>1. DOMAIN r = {"dest", "mask", "hop"} /\ (r.mask = None \/ r.mask \in DOMAIN Octets)
  BY DEF Routes
<1>2. CASE r.mask = None
  <2>1. Route(r).mask = 32
    BY <1>1, <1>2 DEF Route
  <2> QED BY <2>1
<1>3. CASE r.mask # None
  <2>1. PICK p : p = Prefix(r.mask)
    BY Zenon
  <2>2. p \in 0..32
    BY <1>1, <1>3, <2>1, PrefixInRange, Zenon
  <2>3. Route(r) = [r EXCEPT !.mask = p]
    BY <1>3, <2>1, Zenon DEF Route
  <2>4. Route(r).mask = p
    BY <1>1, <2>3, Zenon
  <2> QED BY <2>2, <2>4
<1> QED BY <1>2, <1>3

LEMMA RoutesInRange ==
    ASSUME NEW routes \in Seq(Routes)
    PROVE  InRange([i \in 1..Len(routes) |-> Route(routes[i])])
<1> DEFINE made == [i \in 1..Len(routes) |-> Route(routes[i])]
<1>1. Len(routes) \in Nat /\ \A i \in 1..Len(routes) : routes[i] \in Routes
  OBVIOUS
<1>2. \A i \in 1..Len(routes) : made[i] = Route(routes[i])
  BY Zenon
<1>3. DOMAIN made = 1..Len(routes)
  BY Zenon
<1> HIDE DEF made
<1>4. Len(made) = Len(routes)
  BY <1>1, <1>3
<1>5. \A i \in 1..Len(routes) : made[i].mask <= 32
  BY <1>1, <1>2, RouteInRange, Zenon
<1> QED BY <1>4, <1>5, Zenon DEF InRange, made

\* All inline material is stored.
LEMMA AllStored ==
    ASSUME NEW f, NEW type \in CertNames, IsInline(SourceOf(f, type))
    PROVE  Stored(f, Len(StoredAs))[type] = SourceOf(f, type).of
<1>1. Len(StoredAs) = 5
  BY DEF StoredAs
<1>2. \E j \in 1..5 : StoredAs[j] = type
  BY DEF StoredAs, CertNames
<1>3. PICK j \in 1..5 : StoredAs[j] = type
  BY <1>2, Zenon
<1>4. j \in 1..Len(StoredAs)
  BY <1>1
<1>5. type \in {StoredAs[i] : i \in {k \in 1..Len(StoredAs) : IsInline(SourceOf(f, StoredAs[k]))}}
  BY <1>3, <1>4, Zenon
<1> QED BY <1>5, Zenon DEF Stored

LEMMA DirectionTyped == ASSUME WellFormed PROVE Direction \in Texts \cup {None}
<1> DEFINE ta == LastOf("tls-auth")
<1>1. Direction = IF ta = None THEN None
                  ELSE IF ~ta.block /\ Len(ta.rest) = 2 THEN ta.rest[2] ELSE Said("key-direction")
  BY Zenon DEF Direction
<1>2. ta # None /\ ~ta.block /\ Len(ta.rest) = 2 => ta.rest[2] \in Texts
  BY Zenon DEF WellFormed
<1>3. Said("key-direction") \in Texts \cup {None}
  BY Zenon DEF WellFormed
<1> HIDE DEF ta
<1> QED BY <1>1, <1>2, <1>3, Zenon

LEMMA TlsAuthThere ==
    ASSUME FileIs(file), WellFormed
    PROVE  /\ LastOf("tls-auth") = None => file.tlsAuth = None
           /\ LastOf("tls-auth") # None =>
                 /\ file.tlsAuth # None /\ file.tlsAuth.source = SourceIs("tls-auth")
                 /\ file.tlsAuth.direction = Direction
<1>1. CASE LastOf("tls-auth") = None
  BY <1>1, Zenon DEF FileIs
<1>2. CASE LastOf("tls-auth") # None
  <2>1. PICK src, d : src = SourceIs("tls-auth") /\ d = Direction
    BY Zenon
  <2>2. file.tlsAuth = [source |-> src, direction |-> d]
    BY <1>2, <2>1, Zenon DEF FileIs
  <2>3. "tls-auth" \in Inlinable
    BY DEF Inlinable
  <2>4. src \in Sources /\ d \in Texts \cup {None}
    BY <1>2, <2>1, <2>3, SourceTyped, DirectionTyped, Zenon
  <2>5. [source |-> src, direction |-> d] \in TlsAuths
    BY <2>4 DEF TlsAuths
  <2>6. [source |-> src, direction |-> d] # None
    BY <2>5, OvpnImportAssumption
  <2>7. file.tlsAuth.source = src /\ file.tlsAuth.direction = d
    BY <2>2
  <2> QED BY <1>2, <2>1, <2>2, <2>6, <2>7, Zenon
<1> QED BY <1>1, <1>2

LEMMA SourcesAre ==
    ASSUME FileIs(file), WellFormed
    PROVE  /\ SourceOf(file, "ca") = SourceIs("ca") /\ SourceOf(file, "cert") = SourceIs("cert")
           /\ SourceOf(file, "key") = SourceIs("key")
           /\ SourceOf(file, "tls-crypt") = SourceIs("tls-crypt")
           /\ SourceOf(file, "ta") = SourceIs("tls-auth")
<1>1. /\ file.ca = SourceIs("ca") /\ file.cert = SourceIs("cert") /\ file.key = SourceIs("key")
      /\ file.tlsCrypt = SourceIs("tls-crypt")
  BY Zenon DEF FileIs
<1>2. \A f : /\ SourceOf(f, "ca") = f.ca /\ SourceOf(f, "cert") = f.cert
             /\ SourceOf(f, "key") = f.key /\ SourceOf(f, "tls-crypt") = f.tlsCrypt
             /\ SourceOf(f, "ta") = IF f.tlsAuth = None THEN None ELSE f.tlsAuth.source
  BY DEF SourceOf
<1>3. (IF file.tlsAuth = None THEN None ELSE file.tlsAuth.source) = SourceIs("tls-auth")
  BY TlsAuthThere, Zenon DEF SourceIs
<1> QED BY <1>1, <1>2, <1>3, Zenon

LEMMA StoreFollows ==
    ASSUME FileIs(file), WellFormed, store' = Stored(file, Len(StoredAs)), meant' = meant
    PROVE  StoreIs'
<1>1. /\ \A key \in Inlinable : key \in Inlinable
      /\ "ca" \in Inlinable /\ "cert" \in Inlinable /\ "key" \in Inlinable
      /\ "tls-auth" \in Inlinable /\ "tls-crypt" \in Inlinable
      /\ "ca" \in CertNames /\ "cert" \in CertNames /\ "key" \in CertNames
      /\ "ta" \in CertNames /\ "tls-crypt" \in CertNames
  BY DEF Inlinable, CertKeys, CertNames
<1>2. ASSUME NEW key \in Inlinable, NEW type \in CertNames, LastOf(key) # None,
             LastOf(key).block, SourceOf(file, type) = SourceIs(key)
      PROVE  store'[type] = LastOf(key).rest
  <2>1. /\ SourceIs(key) # None /\ SourceIs(key).inline = LastOf(key).block
        /\ SourceIs(key).of = LastOf(key).rest
    BY <1>2, SourceTyped, Zenon
  <2>2. IsInline(SourceOf(file, type))
    BY <1>2, <2>1, Zenon DEF IsInline
  <2> QED BY <1>2, <2>1, <2>2, AllStored, Zenon
<1>3. /\ SourceOf(file, "ca") = SourceIs("ca") /\ SourceOf(file, "cert") = SourceIs("cert")
      /\ SourceOf(file, "key") = SourceIs("key")
      /\ SourceOf(file, "tls-crypt") = SourceIs("tls-crypt")
      /\ SourceOf(file, "ta") = SourceIs("tls-auth")
  BY SourcesAre, Zenon
<1>4. \A key : LastOf(key)' = LastOf(key)
  BY SameItems, Zenon
<1>5. IsStored("ca", "ca")' /\ IsStored("cert", "cert")' /\ IsStored("key", "key")'
  BY <1>1, <1>2, <1>3, <1>4, Zenon DEF IsStored
<1>6. IsStored("tls-auth", "ta")' /\ IsStored("tls-crypt", "tls-crypt")'
  BY <1>1, <1>2, <1>3, <1>4, Zenon DEF IsStored
<1> QED BY <1>5, <1>6, Zenon DEF StoreIs

LEMMA FilledIs ==
    /\ FromItems["remote"] = Server.host
    /\ FromItems["tcp"] = IF Server.proto \in TcpNames THEN TRUE ELSE FALSE
    /\ FromItems["authType"] = AuthSaid /\ FromItems["cipher"] = Said("cipher")
    /\ FromItems["ca"] = PathOf(SourceIs("ca"), "ca")
    /\ FromItems["cert"] = PathOf(SourceIs("cert"), "cert")
    /\ FromItems["key"] = PathOf(SourceIs("key"), "key")
    /\ FromItems["tlsAuth"] = PathOf(SourceIs("tls-auth"), "ta")
    /\ FromItems["tlsCrypt"] = PathOf(SourceIs("tls-crypt"), "tls-crypt")
    /\ FromItems["direction"] = Direction /\ FromItems["limits"] = None
BY Zenon DEF FromItems

\* A builder made with no setter called.
LEMMA MadeBuilder ==
    ASSUME ImportInv, LexerInv', own = <<>>, own' = own, meant' = meant, phase' = "populated",
           WellFormed, StoreIs', DOMAIN builder' = BuilderFields,
           \A field \in SaidFields : builder'[field] = FromItems[field],
           InRange(builder'.routes), builder'.port = PortSaid
    PROVE  ImportInv'
<1>1. \A field : field \notin DOMAIN own'
  OBVIOUS
<1>2. WellFormed' /\ FromItems' = FromItems /\ PortSaid' = PortSaid
  BY SameWritten, SameServer, Zenon
<1>3. OwnIs'
  BY <1>1 DEF OwnIs, SetterIs
<1>4. BuilderIs'
  <2>1. ASSUME NEW field \in SaidFields PROVE (builder[field] = Wanted(field, FromItems[field]))'
    BY <1>1, <1>2, Zenon DEF Wanted
  <2>2. (IF "routes" \in DOMAIN own THEN builder.routes = own.routes ELSE InRange(builder.routes))'
    BY <1>1, Zenon DEF InRange
  <2> QED BY <2>1, <2>2, Zenon DEF BuilderIs
<1>5. (builder.port = Wanted("port", PortSaid))'
  BY <1>1, <1>2, Zenon DEF Wanted
<1>6. phase' \notin {"writing", "lexed", "parsed"} /\ phase' # "parsed" /\ phase' # "saved"
      /\ phase' \notin {"built", "saved"}
  OBVIOUS
<1> QED BY <1>2, <1>3, <1>4, <1>5, <1>6, Zenon DEF ImportInv

LEMMA PopulateImport ==
    ASSUME ImportInv, LexerInv', Populate
    PROVE  ImportInv'
<1>1. phase = "parsed" /\ meant' = meant /\ own' = own /\ file' = file
  BY Zenon DEF Populate, written, called
<1>2. FileIs(file) /\ WellFormed /\ own = <<>> /\ meant \in Seq(Items)
  BY <1>1 DEF ImportInv, LexerInv, Recorded
<1>3. CASE phase' = "refused"
  BY <1>3, RefusedImport, Zenon
<1>4. CASE phase' # "refused"
  <2>1. /\ file.remotes # <<>> /\ store' = Stored(file, Len(StoredAs)) /\ phase' = "populated"
        /\ builder' =
                [remote |-> Head(file.remotes).host,
                 port |-> LET p == Head(file.remotes).port
                          IN IF p = None THEN None ELSE Number[p],
                 tcp |-> Tcp(file), authType |-> AuthType(file), username |-> None,
                 auth |-> file.auth, cipher |-> file.cipher,
                 ca |-> PathOf(file.ca, "ca"), cert |-> PathOf(file.cert, "cert"),
                 key |-> PathOf(file.key, "key"), compression |-> Compression(file),
                 tlsAuth |-> PathOf(SourceOf(file, "ta"), "ta"),
                 direction |-> IF file.tlsAuth = None THEN None ELSE file.tlsAuth.direction,
                 tlsCrypt |-> PathOf(file.tlsCrypt, "tls-crypt"),
                 redirectGateway |-> file.redirectGateway,
                 routes |-> [i \in 1..Len(file.routes) |-> Route(file.routes[i])],
                 dataCiphers |-> file.dataCiphers, limits |-> None]
    BY <1>4, Zenon DEF Populate
  <2>2. DOMAIN builder' = BuilderFields
    <3>1. DOMAIN builder' = {"remote", "port", "tcp", "authType", "username", "auth", "cipher",
                             "ca", "cert", "key", "compression", "tlsAuth", "direction",
                             "tlsCrypt", "redirectGateway", "routes", "dataCiphers", "limits"}
      BY <2>1, Zenon
    <3> QED BY <3>1 DEF BuilderFields, SaidFields
  <2>3. ItemsOf({"remote"}) # {} /\ Head(file.remotes) = RemoteOf(First)
    BY <1>2, <2>1, Zenon DEF FileIs
  <2>4. PICK r, srv : r = RemoteOf(First) /\ srv = Server
    BY Zenon
  <2>5. /\ srv.host = r.host
        /\ PortSaid = IF r.port = None THEN None ELSE Number[r.port]
        /\ srv.proto = IF r.proto # None THEN r.proto ELSE Said("proto")
    BY <1>2, <2>3, <2>4, ServerSays, Zenon
  <2>6. builder'.remote = srv.host /\ builder'.port = PortSaid
    BY <2>1, <2>3, <2>4, <2>5, Zenon
  <2>7. builder'.tcp = IF srv.proto \in TcpNames THEN TRUE ELSE FALSE
    <3>1. builder'.tcp = Tcp(file)
      BY <2>1, Zenon
    <3>2. PICK first : first = Head(file.remotes).proto
      BY Zenon
    <3>3. Tcp(file) = ((IF first # None THEN first ELSE file.proto) \in TcpNames)
      BY <3>2, Zenon DEF Tcp, IsTcp
    <3>4. first = r.proto /\ file.proto = Said("proto")
      BY <1>2, <2>3, <2>4, <3>2, Zenon DEF FileIs
    <3>5. (IF first # None THEN first ELSE file.proto) = srv.proto
      BY <2>5, <3>4, Zenon
    <3>6. PICK t : t = srv.proto
      BY Zenon
    <3>7. builder'.tcp = (t \in TcpNames)
      BY <3>1, <3>3, <3>5, <3>6, Zenon
    <3>8. \A p \in BOOLEAN : p = IF p THEN TRUE ELSE FALSE
      OBVIOUS
    <3>9. (t \in TcpNames) \in BOOLEAN
      OBVIOUS
    <3> QED BY <3>6, <3>7, <3>8, <3>9, Zenon
  <2>8. builder'.authType = AuthSaid
    <3>1. builder'.authType = AuthType(file)
      BY <2>1, Zenon
    <3>2. PICK cert, key, user : cert = SourceIs("cert") /\ key = SourceIs("key")
                                /\ user = ItemsOf({"auth-user-pass"})
      BY Zenon
    <3>3. file.cert = cert /\ file.key = key /\ file.authUserPass = IF user = {} THEN FALSE ELSE TRUE
      BY <1>2, <3>2, Zenon DEF FileIs
    <3>4. AuthSaid = IF user = {} THEN IF cert # None /\ key # None THEN "tls" ELSE None
                     ELSE IF cert # None /\ key # None THEN "password-tls" ELSE "password"
      BY <3>2, Zenon DEF AuthSaid
    <3> QED BY <3>1, <3>3, <3>4 DEF AuthType
  <2>9. /\ builder'.cipher = Said("cipher") /\ builder'.ca = PathOf(SourceIs("ca"), "ca")
        /\ builder'.cert = PathOf(SourceIs("cert"), "cert")
        /\ builder'.key = PathOf(SourceIs("key"), "key")
        /\ builder'.tlsCrypt = PathOf(SourceIs("tls-crypt"), "tls-crypt")
    <3>1. /\ file.cipher = Said("cipher") /\ file.ca = SourceIs("ca")
          /\ file.cert = SourceIs("cert") /\ file.key = SourceIs("key")
          /\ file.tlsCrypt = SourceIs("tls-crypt")
      BY <1>2, Zenon DEF FileIs
    <3> QED BY <2>1, <3>1, Zenon
  <2>10. builder'.tlsAuth = PathOf(SourceIs("tls-auth"), "ta")
    BY <1>2, <2>1, SourcesAre, Zenon
  <2>11. builder'.direction = Direction
    <3>1. builder'.direction = IF file.tlsAuth = None THEN None ELSE file.tlsAuth.direction
      BY <2>1, Zenon
    <3>2. LastOf("tls-auth") = None => Direction = None
      BY Zenon DEF Direction
    <3>3. CASE LastOf("tls-auth") = None
      BY <1>2, <3>1, <3>2, <3>3, TlsAuthThere, Zenon
    <3>4. CASE LastOf("tls-auth") # None
      BY <1>2, <3>1, <3>4, TlsAuthThere, Zenon
    <3> QED BY <3>3, <3>4
  <2>12. builder'.limits = None /\ InRange(builder'.routes)
    <3>1. file.routes \in Seq(Routes)
      BY <1>2, Zenon DEF FileIs
    <3> QED BY <2>1, <3>1, RoutesInRange, Zenon
  <2>13. ASSUME NEW field \in SaidFields PROVE builder'[field] = FromItems[field]
    <3>1. \/ field = "remote" \/ field = "tcp" \/ field = "authType" \/ field = "cipher"
          \/ field = "ca" \/ field = "cert" \/ field = "key" \/ field = "tlsAuth"
          \/ field = "tlsCrypt" \/ field = "direction" \/ field = "limits"
      BY DEF SaidFields
    <3> QED BY <2>4, <2>6, <2>7, <2>8, <2>9, <2>10, <2>11, <2>12, <3>1, FilledIs, Zenon
  <2>14. StoreIs'
    BY <1>1, <1>2, <2>1, StoreFollows, Zenon
  <2> QED BY <1>1, <1>2, <2>1, <2>2, <2>6, <2>12, <2>13, <2>14, MadeBuilder, Zenon
<1> QED BY <1>3, <1>4

LEMMA NothingWritten ==
    ASSUME meant = <<>>
    PROVE  /\ \A keys : ItemsOf(keys) = {}
           /\ \A key : LastOf(key) = None /\ Said(key) = None /\ SourceIs(key) = None
           /\ Direction = None /\ PortSaid = None /\ AuthSaid = None
           /\ Server.host = None /\ Server.proto = None /\ Server.port = DefaultPort
<1>1. \A i : i \notin 1..Len(meant)
  OBVIOUS
<1>2. \A keys : ItemsOf(keys) = {}
  BY <1>1, Zenon DEF ItemsOf
<1>3. \A key : LastOf(key) = None /\ Said(key) = None /\ SourceIs(key) = None
  BY <1>2, Zenon DEF LastOf, Said, SourceIs
<1>4. Direction = None /\ PortSaid = None /\ AuthSaid = None
  BY <1>2, <1>3, Zenon DEF Direction, PortSaid, AuthSaid
<1>5. Server = [host |-> None, port |-> DefaultPort, proto |-> None]
  BY <1>2, Zenon DEF Server
<1> QED BY <1>2, <1>3, <1>4, <1>5, Zenon

LEMMA NewBuilderImport ==
    ASSUME ImportInv, LexerInv', NewBuilder
    PROVE  ImportInv'
<1>1. /\ phase = "writing" /\ phase' = "populated" /\ meant' = meant /\ own' = own
      /\ store' = store
      /\ builder' =
          [remote |-> None, port |-> None, tcp |-> FALSE, authType |-> None, username |-> None,
           auth |-> None, cipher |-> None, ca |-> None, cert |-> None, key |-> None,
           compression |-> None, tlsAuth |-> None, direction |-> None, tlsCrypt |-> None,
           redirectGateway |-> FALSE, routes |-> <<>>, dataCiphers |-> <<>>, limits |-> None]
  BY Zenon DEF NewBuilder, written, called
<1>2. own = <<>> /\ meant = <<>>
  <2>1. own = <<>>
    BY <1>1 DEF ImportInv
  <2> QED BY <2>1, NewBuilderKeeps, Zenon DEF ImportInv
<1>3. /\ \A key : LastOf(key) = None /\ Said(key) = None /\ SourceIs(key) = None
      /\ \A keys : ItemsOf(keys) = {}
      /\ Direction = None /\ PortSaid = None /\ AuthSaid = None
      /\ Server.host = None /\ Server.proto = None
  BY <1>2, NothingWritten, Zenon
<1>4. WellFormed
  <2>1. None \in Texts \cup {None}
    OBVIOUS
  <2> QED BY <1>3, <2>1, Zenon DEF WellFormed
<1>5. StoreIs'
  <2>1. \A key : LastOf(key)' = None
    BY <1>1, <1>3, SameItems, Zenon
  <2> QED BY <2>1, Zenon DEF StoreIs, IsStored
<1>6. DOMAIN builder' = BuilderFields
  <2>1. DOMAIN builder' = {"remote", "port", "tcp", "authType", "username", "auth", "cipher",
                           "ca", "cert", "key", "compression", "tlsAuth", "direction",
                           "tlsCrypt", "redirectGateway", "routes", "dataCiphers", "limits"}
    BY <1>1, Zenon
  <2> QED BY <2>1 DEF BuilderFields, SaidFields
<1>7. ASSUME NEW field \in SaidFields PROVE builder'[field] = FromItems[field]
  <2>1. \A type : PathOf(None, type) = None
    BY Zenon DEF PathOf
  <2>2. (IF Server.proto \in TcpNames THEN TRUE ELSE FALSE) = FALSE
    BY <1>3, NoneApart, Zenon
  <2>3. \/ field = "remote" \/ field = "tcp" \/ field = "authType" \/ field = "cipher"
        \/ field = "ca" \/ field = "cert" \/ field = "key" \/ field = "tlsAuth"
        \/ field = "tlsCrypt" \/ field = "direction" \/ field = "limits"
    BY DEF SaidFields
  <2>4. /\ builder'.remote = None /\ builder'.tcp = FALSE /\ builder'.authType = None
        /\ builder'.cipher = None /\ builder'.ca = None /\ builder'.cert = None
        /\ builder'.key = None /\ builder'.tlsAuth = None /\ builder'.tlsCrypt = None
        /\ builder'.direction = None /\ builder'.limits = None
    BY <1>1
  <2>5. /\ FromItems["remote"] = None /\ FromItems["tcp"] = FALSE
        /\ FromItems["authType"] = None /\ FromItems["cipher"] = None
        /\ FromItems["ca"] = None /\ FromItems["cert"] = None /\ FromItems["key"] = None
        /\ FromItems["tlsAuth"] = None /\ FromItems["tlsCrypt"] = None
        /\ FromItems["direction"] = None /\ FromItems["limits"] = None
    BY <1>3, <2>1, <2>2, FilledIs, Zenon
  <2> QED BY <2>3, <2>4, <2>5, Zenon
<1>8. InRange(builder'.routes) /\ builder'.port = PortSaid
  <2>1. builder'.routes = <<>> /\ builder'.port = None
    BY <1>1
  <2>2. InRange(<<>>)
    BY DEF InRange
  <2> QED BY <1>3, <2>1, <2>2, Zenon
<1> QED BY <1>1, <1>2, <1>4, <1>5, <1>6, <1>7, <1>8, MadeBuilder, Zenon

-----------------------------------------------------------------------------
(* The setters, and build.                                                  *)

LEMMA SetterTyped ==
    ASSUME NEW call \in ServerSetters \cup CertSetters \cup OptionSetters
    PROVE  SetterIs(call)
<1>1. /\ \A h \in {"", "h3"} : SetterIs([remote |-> h])
      /\ \A p \in OwnPorts : SetterIs([port |-> p])
      /\ \A b \in BOOLEAN : SetterIs([tcp |-> b])
  BY DEF SetterIs, BuilderFields, SaidFields
<1>2. /\ \A t : SetterIs([authType |-> t])
      /\ SetterIs([auth |-> "sha512"]) /\ SetterIs([cipher |-> "own"])
      /\ SetterIs([compression |-> "lz4"])
  BY DEF SetterIs, BuilderFields, SaidFields
<1>3. ASSUME NEW p \in {"", "own.pem"}
      PROVE  SetterIs([ca |-> PathTo(p)]) /\ SetterIs([cert |-> PathTo(p)])
             /\ SetterIs([key |-> PathTo(p)])
  <2>1. PICK q, blank, pem : q = PathTo(p) /\ blank = PathTo("") /\ pem = PathTo("own.pem")
    BY Zenon
  <2>2. q \in {blank, pem}
    BY <2>1, Zenon
  <2>3. ASSUME NEW c, NEW f \in {"ca", "cert", "key"}, DOMAIN c = {f}, c[f] = q
        PROVE  SetterIs(c)
    <3>1. \A field \in {"ca", "cert", "key"} \cap DOMAIN c : c[field] \in {PathTo(""), PathTo("own.pem")}
      BY <2>1, <2>2, <2>3, Zenon
    <3>2. /\ "direction" \notin DOMAIN c /\ "tlsAuth" \notin DOMAIN c /\ "remote" \notin DOMAIN c
          /\ "port" \notin DOMAIN c /\ "tcp" \notin DOMAIN c /\ "limits" \notin DOMAIN c
          /\ "routes" \notin DOMAIN c /\ DOMAIN c \subseteq BuilderFields \ {"username"}
      BY <2>3 DEF BuilderFields, SaidFields
    <3> QED BY <3>1, <3>2, Zenon DEF SetterIs
  <2>4. /\ DOMAIN [ca |-> q] = {"ca"} /\ [ca |-> q]["ca"] = q
        /\ DOMAIN [cert |-> q] = {"cert"} /\ [cert |-> q]["cert"] = q
        /\ DOMAIN [key |-> q] = {"key"} /\ [key |-> q]["key"] = q
    OBVIOUS
  <2>5. SetterIs([ca |-> q]) /\ SetterIs([cert |-> q]) /\ SetterIs([key |-> q])
    BY <2>3, <2>4, Zenon
  <2> QED BY <2>1, <2>5, Zenon
<1>4. SetterIs([tlsCrypt |-> PathTo("own.key")])
  BY DEF SetterIs, BuilderFields, SaidFields, PathTo
<1>5. \A d : SetterIs([tlsAuth |-> PathTo("own.key"), direction |-> d])
  BY DEF SetterIs, BuilderFields, SaidFields, PathTo
<1>6. ASSUME NEW m \in {8, 33}
      PROVE  SetterIs([routes |-> <<[dest |-> "10.0.0.0", mask |-> m, hop |-> None]>>])
  <2>1. PICK r : r = <<[dest |-> "10.0.0.0", mask |-> m, hop |-> None]>>
    BY Zenon
  <2>2. SetterIs([routes |-> r])
    BY <2>1 DEF SetterIs, BuilderFields, SaidFields
  <2> QED BY <2>1, <2>2, Zenon
<1>7. \A l \in {"kept", "exceeded"} : SetterIs([limits |-> l])
  BY DEF SetterIs, BuilderFields, SaidFields
<1>8. CASE call \in ServerSetters
  <2>1. \/ \E h \in {"", "h3"} : call = [remote |-> h]
        \/ \E p \in OwnPorts : call = [port |-> p]
        \/ \E v \in BOOLEAN : call = [tcp |-> v]
        \/ \E t \in {"password", "tls", "password-tls", "static-key"} : call = [authType |-> t]
        \/ call = [auth |-> "sha512"] \/ call = [cipher |-> "own"]
    BY <1>8, Zenon DEF ServerSetters
  <2>2. CASE \E h \in {"", "h3"} : call = [remote |-> h]
    BY <1>1, <2>2, Zenon
  <2>3. CASE \E p \in OwnPorts : call = [port |-> p]
    BY <1>1, <2>3, Zenon
  <2>4. CASE \E v \in BOOLEAN : call = [tcp |-> v]
    BY <1>1, <2>4, Zenon
  <2>5. CASE \E t \in {"password", "tls", "password-tls", "static-key"} : call = [authType |-> t]
    BY <1>2, <2>5, Zenon
  <2>6. CASE call = [auth |-> "sha512"] \/ call = [cipher |-> "own"]
    BY <1>2, <2>6, Zenon
  <2> QED BY <2>1, <2>2, <2>3, <2>4, <2>5, <2>6, Zenon
<1>9. CASE call \in CertSetters
  BY <1>3, <1>9, Zenon DEF CertSetters
<1>10. CASE call \in OptionSetters
  BY <1>2, <1>4, <1>5, <1>6, <1>7, <1>10, Zenon DEF OptionSetters
<1> QED BY <1>8, <1>9, <1>10

\* A call replaces the fields it is about and no other.
LEMMA OverriddenIs ==
    ASSUME NEW r, NEW call, NEW field
    PROVE  /\ DOMAIN Overridden(r, call) = DOMAIN r \cup DOMAIN call
           /\ field \in DOMAIN call => Overridden(r, call)[field] = call[field]
           /\ field \in DOMAIN r /\ field \notin DOMAIN call => Overridden(r, call)[field] = r[field]
BY DEF Overridden

LEMMA StillWanted ==
    ASSUME NEW call, own' = Overridden(own, call), builder' = Overridden(builder, call),
           NEW field, field \in DOMAIN builder, NEW value, builder[field] = Wanted(field, value)
    PROVE  builder'[field] = IF field \in DOMAIN own' THEN own'[field] ELSE value
<1>1. builder[field] = IF field \in DOMAIN own THEN own[field] ELSE value
  BY Zenon DEF Wanted
<1>2. DOMAIN own' = DOMAIN own \cup DOMAIN call
  BY OverriddenIs, Zenon
<1>3. CASE field \in DOMAIN call
  <2>1. builder'[field] = call[field] /\ own'[field] = call[field]
    BY <1>3 DEF Overridden
  <2> QED BY <1>2, <1>3, <2>1
<1>4. CASE field \notin DOMAIN call
  <2>1. builder'[field] = builder[field]
    BY <1>4 DEF Overridden
  <2>2. field \in DOMAIN own => own'[field] = own[field]
    BY <1>4 DEF Overridden
  <2> QED BY <1>1, <1>2, <1>4, <2>1, <2>2
<1> QED BY <1>3, <1>4

LEMMA BothGive ==
    ASSUME NEW r, NEW call, SetterIs(r), SetterIs(call), NEW o, o = Overridden(r, call)
    PROVE  SetterIs(o)
<1>1. DOMAIN o = DOMAIN r \cup DOMAIN call
  BY OverriddenIs, Zenon
<1>2. \A f \in DOMAIN o : \/ f \in DOMAIN call /\ o[f] = call[f]
                          \/ f \in DOMAIN r /\ o[f] = r[f]
  BY DEF Overridden
<1>3. DOMAIN o \subseteq BuilderFields \ {"username"}
  BY <1>1 DEF SetterIs
<1>4. "direction" \in DOMAIN o <=> "tlsAuth" \in DOMAIN o
  BY <1>1 DEF SetterIs
<1>5. /\ "tlsAuth" \in DOMAIN o => o.tlsAuth = PathTo("own.key")
      /\ "remote" \in DOMAIN o => o.remote \in {"", "h3"}
      /\ "port" \in DOMAIN o => o.port \in OwnPorts
      /\ "tcp" \in DOMAIN o => o.tcp \in BOOLEAN
      /\ "limits" \in DOMAIN o => o.limits \in {"kept", "exceeded"}
  <2>1. "tlsAuth" \in DOMAIN o => o.tlsAuth = PathTo("own.key")
    BY <1>2, Zenon DEF SetterIs
  <2>2. "remote" \in DOMAIN o => o.remote \in {"", "h3"}
    BY <1>2, Zenon DEF SetterIs
  <2>3. "port" \in DOMAIN o => o.port \in OwnPorts
    BY <1>2, Zenon DEF SetterIs
  <2>4. "tcp" \in DOMAIN o => o.tcp \in BOOLEAN
    BY <1>2, Zenon DEF SetterIs
  <2>5. "limits" \in DOMAIN o => o.limits \in {"kept", "exceeded"}
    BY <1>2, Zenon DEF SetterIs
  <2> QED BY <2>1, <2>2, <2>3, <2>4, <2>5
<1>6. \A field \in {"ca", "cert", "key"} \cap DOMAIN o : o[field] \in {PathTo(""), PathTo("own.pem")}
  BY <1>2, Zenon DEF SetterIs
<1>7. "routes" \in DOMAIN o =>
          \E m \in {8, 33} : o.routes = <<[dest |-> "10.0.0.0", mask |-> m, hop |-> None]>>
  BY <1>2, Zenon DEF SetterIs
<1> QED BY <1>3, <1>4, <1>5, <1>6, <1>7, Zenon DEF SetterIs

LEMMA OverrideImport ==
    ASSUME ImportInv, LexerInv', Override
    PROVE  ImportInv'
<1>1. PICK call \in ServerSetters \cup CertSetters \cup OptionSetters :
        builder' = Overridden(builder, call) /\ own' = Overridden(own, call)
  BY Zenon DEF Override
<1>2. phase = "populated" /\ phase' = phase /\ meant' = meant /\ store' = store
  BY Zenon DEF Override, written
<1>3. WellFormed /\ StoreIs /\ OwnIs /\ BuilderIs /\ builder.port = Wanted("port", PortSaid)
  BY <1>2 DEF ImportInv
<1>4. WellFormed' /\ StoreIs' /\ FromItems' = FromItems /\ PortSaid' = PortSaid
  BY <1>2, <1>3, SameWritten, SameServer, Zenon
<1>5. SetterIs(call)
  BY SetterTyped, Zenon
<1>6. OwnIs'
  <2>1. SetterIs(own')
    BY <1>1, <1>3, <1>5, BothGive, Zenon DEF OwnIs
  <2> QED BY <2>1, Zenon DEF OwnIs, SetterIs
<1>7. DOMAIN builder = BuilderFields /\ DOMAIN call \subseteq BuilderFields
      /\ "port" \in DOMAIN builder /\ "routes" \in DOMAIN builder /\ SaidFields \subseteq DOMAIN builder
  BY <1>3, <1>5 DEF BuilderIs, SetterIs, BuilderFields
<1>8. DOMAIN builder' = BuilderFields
  <2>1. DOMAIN builder' = DOMAIN builder \cup DOMAIN call
    BY <1>1, OverriddenIs, Zenon
  <2> QED BY <1>7, <2>1
<1>9. ASSUME NEW field \in SaidFields PROVE (builder[field] = Wanted(field, FromItems[field]))'
  <2>1. builder[field] = Wanted(field, FromItems[field]) /\ field \in DOMAIN builder
    BY <1>3, <1>7, Zenon DEF BuilderIs
  <2>2. builder'[field] = IF field \in DOMAIN own' THEN own'[field] ELSE FromItems[field]
    BY <1>1, <2>1, StillWanted, Zenon
  <2> QED BY <1>4, <2>2, Zenon DEF Wanted
<1>10. (builder.port = Wanted("port", PortSaid))'
  <2>1. builder'.port = IF "port" \in DOMAIN own' THEN own'["port"] ELSE PortSaid
    BY <1>1, <1>3, <1>7, StillWanted, Zenon
  <2> QED BY <1>4, <2>1, Zenon DEF Wanted
<1>11. IF "routes" \in DOMAIN own' THEN builder'.routes = own'.routes ELSE InRange(builder'.routes)
  <2>1. DOMAIN own' = DOMAIN own \cup DOMAIN call
    BY <1>1, OverriddenIs, Zenon
  <2>2. CASE "routes" \in DOMAIN call
    <3>1. builder'.routes = call.routes /\ own'.routes = call.routes
      BY <1>1, <2>2 DEF Overridden
    <3> QED BY <2>1, <2>2, <3>1, Zenon
  <2>3. CASE "routes" \notin DOMAIN call
    <3>1. builder'.routes = builder.routes
      BY <1>1, <1>7, <2>3 DEF Overridden
    <3>2. "routes" \in DOMAIN own => own'.routes = own.routes
      BY <1>1, <2>3 DEF Overridden
    <3> QED BY <1>3, <2>1, <2>3, <3>1, <3>2, Zenon DEF BuilderIs
  <2> QED BY <2>2, <2>3, Zenon
<1>12. BuilderIs'
  <2>1. (IF "routes" \in DOMAIN own THEN builder.routes = own.routes ELSE InRange(builder.routes))'
    BY <1>11, Zenon DEF InRange
  <2> QED BY <1>8, <1>9, <2>1, Zenon DEF BuilderIs
<1>13. phase' \notin {"writing", "lexed", "parsed"} /\ phase' # "parsed" /\ phase' # "saved"
       /\ phase' \notin {"built", "saved"}
  BY <1>2
<1> QED BY <1>4, <1>6, <1>10, <1>12, <1>13, Zenon DEF ImportInv

LEMMA NoRemote ==
    ASSUME ItemsOf({"remote"}) = {}
    PROVE  Server.host = None /\ Server.port = DefaultPort /\ Server.proto = None /\ PortSaid = None
<1>1. Server = [host |-> None, port |-> DefaultPort, proto |-> None] /\ PortSaid = None
  BY Zenon DEF Server, PortSaid
<1> QED BY <1>1

LEMMA BuildImport ==
    ASSUME ImportInv, LexerInv', Build
    PROVE  ImportInv'
<1>1. /\ phase = "populated" /\ meant' = meant /\ own' = own /\ store' = store
      /\ phase' = IF Complete(builder') THEN "built" ELSE "refused"
  BY Zenon DEF Build, written, called
<1>2. PICK u \in Usernames :
        builder' = [builder EXCEPT !.username = u, !.port = IF @ = None THEN DefaultPort ELSE @]
  BY Zenon DEF Build
<1>3. WellFormed /\ StoreIs /\ OwnIs /\ BuilderIs /\ builder.port = Wanted("port", PortSaid)
  BY <1>1 DEF ImportInv
<1>4. WellFormed' /\ StoreIs' /\ FromItems' = FromItems /\ Server' = Server
  BY <1>1, <1>3, SameWritten, SameServer, Zenon
<1>5. CASE phase' = "refused"
  BY <1>5, RefusedImport, Zenon
<1>6. CASE phase' # "refused"
  <2>1. phase' = "built" /\ Complete(builder')
    BY <1>1, <1>6, Zenon
  <2>2. DOMAIN builder = BuilderFields
    BY <1>3, Zenon DEF BuilderIs
  <2>3. DOMAIN builder' = BuilderFields
    BY <1>2, <2>2
  <2>4. "port" \in DOMAIN builder /\ \A f \in SaidFields \cup {"routes"} : f # "port" /\ f # "username"
        /\ f \in DOMAIN builder
    BY <2>2 DEF BuilderFields, SaidFields
  <2>5. \A f \in SaidFields \cup {"routes"} : builder'[f] = builder[f]
    <3> SUFFICES ASSUME NEW f, f \in DOMAIN builder, f # "port", f # "username"
                 PROVE  builder'[f] = builder[f]
      BY <2>4, Zenon
    <3> QED BY <1>2
  <2>6. builder'.port = IF builder.port = None THEN DefaultPort ELSE builder.port
    BY <1>2, <2>4
  <2>7. OwnIs'
    BY <1>1, <1>3, Zenon DEF OwnIs, SetterIs
  <2>8. BuilderIs'
    <3>1. ASSUME NEW field \in SaidFields PROVE (builder[field] = Wanted(field, FromItems[field]))'
      BY <1>1, <1>3, <1>4, <2>5, Zenon DEF BuilderIs, Wanted
    <3>2. builder'.routes = builder.routes
      BY <2>5
    <3>3. (IF "routes" \in DOMAIN own THEN builder.routes = own.routes ELSE InRange(builder.routes))'
      BY <1>1, <1>3, <3>2, Zenon DEF BuilderIs, InRange
    <3> QED BY <2>3, <3>1, <3>3, Zenon DEF BuilderIs
  <2>9. builder'.port = IF "port" \in DOMAIN own THEN own.port ELSE Server.port
    <3>1. builder.port = IF "port" \in DOMAIN own THEN own.port ELSE PortSaid
      BY <1>3, Zenon DEF Wanted
    <3>2. "port" \in DOMAIN own => own.port # None
      <4>1. "port" \in DOMAIN own => own.port \in OwnPorts
        BY <1>3, Zenon DEF OwnIs, SetterIs
      <4>2. \A p \in OwnPorts : p \in Nat
        BY DEF OwnPorts
      <4> QED BY <4>1, <4>2, NoneApart
    <3>3. Server.port = OrDefault(PortSaid)
      <4>1. CASE ItemsOf({"remote"}) = {}
        <5>1. Server.port = DefaultPort /\ PortSaid = None
          BY <4>1, NoRemote, Zenon
        <5> QED BY <5>1 DEF OrDefault
      <4>2. CASE ItemsOf({"remote"}) # {}
        BY <1>3, <4>2, ServerSays, Zenon
      <4> QED BY <4>1, <4>2
    <3>4. PICK said, port : said = PortSaid /\ port = Server.port
      BY Zenon
    <3>5. port = OrDefault(said) /\ builder.port = IF "port" \in DOMAIN own THEN own.port ELSE said
      BY <3>1, <3>3, <3>4, Zenon
    <3>6. builder'.port = IF "port" \in DOMAIN own THEN own.port ELSE port
      BY <2>6, <3>2, <3>5 DEF OrDefault
    <3> QED BY <3>4, <3>6, Zenon
  <2>10. (builder.port = Wanted("port", Server.port))'
    BY <1>1, <1>4, <2>9, Zenon DEF Wanted
  <2>11. Complete(builder)'
    BY <2>1, Zenon DEF Complete
  <2>12. phase' \notin {"writing", "lexed", "parsed"} /\ phase' # "parsed" /\ phase' # "saved"
         /\ phase' # "populated"
    BY <2>1
  <2> QED BY <1>4, <2>7, <2>8, <2>10, <2>11, <2>12, Zenon DEF ImportInv
<1> QED BY <1>5, <1>6

\* What is kept when nothing is written, given or stored.
LEMMA KeptImport ==
    ASSUME ImportInv, phase \in {"populated", "built", "saved"}, meant' = meant, own' = own,
           store' = store, builder' = builder
    PROVE  /\ WellFormed' /\ StoreIs' /\ OwnIs' /\ BuilderIs'
           /\ builder.port = Wanted("port", PortSaid) => (builder.port = Wanted("port", PortSaid))'
           /\ builder.port = Wanted("port", Server.port)
                => (builder.port = Wanted("port", Server.port))'
           /\ Complete(builder) => Complete(builder)'
<1>1. WellFormed /\ StoreIs /\ OwnIs /\ BuilderIs
  BY Zenon DEF ImportInv
<1>2. WellFormed' /\ StoreIs' /\ FromItems' = FromItems /\ Server' = Server /\ PortSaid' = PortSaid
  BY <1>1, SameWritten, SameServer, Zenon
<1>3. OwnIs'
  BY <1>1, Zenon DEF OwnIs, SetterIs
<1>4. BuilderIs'
  BY <1>1, <1>2, Zenon DEF BuilderIs, Wanted, InRange
<1>5. Complete(builder) => Complete(builder)'
  BY Zenon DEF Complete
<1> QED BY <1>2, <1>3, <1>4, <1>5, Zenon DEF Wanted

LEMMA ConnectImport ==
    ASSUME ImportInv, LexerInv', Connect
    PROVE  ImportInv'
<1>1. /\ phase = "built" /\ meant' = meant /\ own' = own /\ store' = store /\ builder' = builder
  BY Zenon DEF Connect, written, called
<1>2. CASE phase' = "refused"
  BY <1>2, RefusedImport, Zenon
<1>3. CASE phase' # "refused"
  <2>1. phase' = "saved" /\ data' = VpnData(builder)
    BY <1>3, Zenon DEF Connect
  <2>2. builder.port = Wanted("port", Server.port) /\ Complete(builder)
    BY <1>1 DEF ImportInv
  <2>3. phase \in {"populated", "built", "saved"}
    BY <1>1
  <2>4. /\ WellFormed' /\ StoreIs' /\ OwnIs' /\ BuilderIs'
        /\ (builder.port = Wanted("port", Server.port))' /\ Complete(builder)'
    BY <1>1, <2>2, <2>3, KeptImport, Zenon
  <2>5. (data = VpnData(builder))'
    BY <1>1, <2>1, Zenon DEF VpnData
  <2>6. phase' \notin {"writing", "lexed", "parsed"} /\ phase' # "parsed" /\ phase' # "populated"
    BY <2>1
  <2> QED BY <2>4, <2>5, <2>6, Zenon DEF ImportInv
<1> QED BY <1>2, <1>3

LEMMA IdleImport ==
    ASSUME ImportInv, LexerInv', UNCHANGED importVars
    PROVE  ImportInv'
<1>1. /\ phase' = phase /\ meant' = meant /\ own' = own /\ store' = store /\ builder' = builder
      /\ file' = file /\ data' = data
  BY Zenon DEF importVars, written, called
<1>2. CASE phase \in {"populated", "built", "saved"}
  <2>1. /\ WellFormed' /\ StoreIs' /\ OwnIs' /\ BuilderIs'
        /\ builder.port = Wanted("port", PortSaid) => (builder.port = Wanted("port", PortSaid))'
        /\ builder.port = Wanted("port", Server.port)
                => (builder.port = Wanted("port", Server.port))'
        /\ Complete(builder) => Complete(builder)'
    BY <1>1, <1>2, KeptImport, Zenon
  <2>2. (data = VpnData(builder)) => (data = VpnData(builder))'
    BY <1>1, Zenon DEF VpnData
  <2>3. phase' \notin {"writing", "lexed", "parsed"} /\ phase' # "parsed"
    BY <1>1, <1>2
  <2> QED BY <1>1, <2>1, <2>2, <2>3, Zenon DEF ImportInv
<1>3. CASE phase \notin {"populated", "built", "saved"}
  <2>1. phase # "populated" /\ phase # "saved" /\ phase \notin {"built", "saved"}
    BY <1>3
  <2>2. phase = "parsed" => FileIs(file)' /\ WellFormed'
    <3> SUFFICES ASSUME phase = "parsed" PROVE FileIs(file)' /\ WellFormed'
      OBVIOUS
    <3>1. FileIs(file) /\ WellFormed
      BY Zenon DEF ImportInv
    <3>2. FileIs(file')
      BY <1>1, <3>1, Zenon
    <3> QED BY <1>1, <3>1, <3>2, SameWritten, Zenon
  <2> QED BY <1>1, <1>3, <2>1, <2>2, Zenon DEF ImportInv
<1> QED BY <1>2, <1>3

LEMMA ImportStep == ImportInv /\ [ImportNext]_importVars => ImportInv'
<1> SUFFICES ASSUME ImportInv, [ImportNext]_importVars PROVE ImportInv'
  OBVIOUS
<1>1. LexerInv'
  BY LexerStep, Zenon DEF ImportInv
<1>2. CASE WriteNothing \/ WriteDirective \/ OpenBlock \/ WriteContent \/ WriteClosing
  <2>1. own' = own /\ phase = "writing" /\ phase' = phase
    BY <1>2, Zenon DEF WriteNothing, WriteDirective, OpenBlock, WriteContent, WriteClosing, Write, called
  <2>2. phase' \in {"writing", "lexed", "refused"}
    BY <2>1
  <2> QED BY <1>1, <2>1, <2>2, WritingImport, Zenon
<1>3. CASE EndOfFile
  <2>1. own' = own /\ phase = "writing" /\ phase' = IF lex'.error THEN "refused" ELSE "lexed"
    BY <1>3, Zenon DEF EndOfFile, called
  <2>2. phase' \in {"writing", "lexed", "refused"}
    BY <2>1
  <2> QED BY <1>1, <2>1, <2>2, WritingImport, Zenon
<1>4. CASE Parse
  BY <1>1, <1>4, ParseImport, Zenon
<1>5. CASE Populate
  BY <1>1, <1>5, PopulateImport, Zenon
<1>6. CASE NewBuilder
  BY <1>1, <1>6, NewBuilderImport, Zenon
<1>7. CASE Override
  BY <1>1, <1>7, OverrideImport, Zenon
<1>8. CASE Build
  BY <1>1, <1>8, BuildImport, Zenon
<1>9. CASE Connect
  BY <1>1, <1>9, ConnectImport, Zenon
<1>10. CASE UNCHANGED importVars
  BY <1>1, <1>10, IdleImport, Zenon
<1> QED BY <1>2, <1>3, <1>4, <1>5, <1>6, <1>7, <1>8, <1>9, <1>10, Zenon DEF ImportNext

\* From the lines of the file to the entries of the profile, each step has what the file
\* says and the setters gave, whatever the items and however many.
THEOREM ImportInvariant == ImportSpec => []ImportInv
BY InitImport, ImportStep, PTL DEF ImportSpec

-----------------------------------------------------------------------------
(* The profile.                                                             *)

LEMMA UncheckedIs ==
    /\ \A field \in {"ca", "cert", "key"} : PathTo("") \in Unchecked(field)
    /\ "exceeded" \in Unchecked("limits")
    /\ <<[dest |-> "10.0.0.0", mask |-> 33, hop |-> None]>> \in Unchecked("routes")
<1>1. ASSUME NEW field, NEW a, NEW b, NEW c
      PROVE  LET v == CASE field \in {"ca", "cert", "key"} -> a [] field = "limits" -> b
                        [] field = "routes" -> c [] OTHER -> {}
             IN /\ field \in {"ca", "cert", "key"} => v = a
                /\ field = "limits" => v = b
                /\ field = "routes" => v = c
  OBVIOUS
<1>2. \A field \in {"ca", "cert", "key"} : Unchecked(field) = {PathTo("")}
  BY <1>1, Zenon DEF Unchecked
<1>3. /\ Unchecked("limits") = {"exceeded"}
      /\ Unchecked("routes") = {<<[dest |-> "10.0.0.0", mask |-> 33, hop |-> None]>>}
  BY DEF Unchecked
<1> QED BY <1>2, <1>3, Zenon

\* No path of a file or of no file at all is blank.
LEMMA PathApart ==
    ASSUME NEW path \in {"", "own.pem", "own.key"} PROVE PathTo(path) # None
<1>1. PathTo(path) \in CertPaths
  BY DEF PathTo, CertPaths
<1> QED BY <1>1, OvpnImportAssumption, Zenon

LEMMA WantedIs ==
    ASSUME BuilderIs
    PROVE  /\ builder.remote = Wanted("remote", Server.host)
           /\ builder.tcp = Wanted("tcp", IF Server.proto \in TcpNames THEN TRUE ELSE FALSE)
           /\ builder.authType = Wanted("authType", AuthSaid)
           /\ builder.cipher = Wanted("cipher", Said("cipher"))
           /\ builder.ca = Wanted("ca", PathOf(SourceIs("ca"), "ca"))
           /\ builder.cert = Wanted("cert", PathOf(SourceIs("cert"), "cert"))
           /\ builder.key = Wanted("key", PathOf(SourceIs("key"), "key"))
           /\ builder.tlsAuth = Wanted("tlsAuth", PathOf(SourceIs("tls-auth"), "ta"))
           /\ builder.tlsCrypt = Wanted("tlsCrypt", PathOf(SourceIs("tls-crypt"), "tls-crypt"))
           /\ builder.direction = Wanted("direction", Direction)
           /\ builder.limits = Wanted("limits", None)
<1>1. \A field \in SaidFields : builder[field] = Wanted(field, FromItems[field])
  BY Zenon DEF BuilderIs
<1>2. /\ "remote" \in SaidFields /\ "tcp" \in SaidFields /\ "authType" \in SaidFields
      /\ "cipher" \in SaidFields /\ "ca" \in SaidFields /\ "cert" \in SaidFields
      /\ "key" \in SaidFields /\ "tlsAuth" \in SaidFields /\ "tlsCrypt" \in SaidFields
      /\ "direction" \in SaidFields /\ "limits" \in SaidFields
  BY DEF SaidFields
<1> QED BY <1>1, <1>2, FilledIs, Zenon

LEMMA OneRoute == ASSUME NEW r, r.mask = 8 PROVE InRange(<<r>>)
BY DEF InRange

LEMMA Agree == ASSUME ImportInv PROVE ChecksAgree
<1> SUFFICES ASSUME phase = "built", builder.username # "",
                    \A field \in DOMAIN own : own[field] \notin Unchecked(field)
             PROVE  Valid(builder)
  BY Zenon DEF ChecksAgree
<1>1. WellFormed /\ OwnIs /\ BuilderIs /\ Complete(builder)
  BY DEF ImportInv
<1>2. /\ builder.remote # ""
      /\ builder.authType \in NeedsUser => builder.username # None
      /\ builder.authType \in NeedsCerts => None \notin {builder.ca, builder.cert, builder.key}
  BY <1>1, Zenon DEF Complete
<1>3. ASSUME NEW field \in {"ca", "cert", "key"}, NEW path,
             path = Wanted(field, PathOf(SourceIs(field), field))
      PROVE  path # PathTo("")
  <2>1. field \in Inlinable /\ field \in CertNames
    BY DEF Inlinable, CertKeys, CertNames
  <2>2. CASE field \in DOMAIN own
    <3>1. own[field] # PathTo("")
      BY <2>2, UncheckedIs, Zenon
    <3> QED BY <1>3, <2>2, <3>1, Zenon DEF Wanted
  <2>3. CASE field \notin DOMAIN own
    <3>1. path = PathOf(SourceIs(field), field)
      BY <1>3, <2>3, Zenon DEF Wanted
    <3>2. "" \in {"", "own.pem", "own.key"}
      OBVIOUS
    <3>3. PathTo("") # None
      BY <3>2, PathApart, Zenon
    <3> QED BY <1>1, <2>1, <3>1, <3>3, PathTyped, Zenon
  <2> QED BY <2>2, <2>3
<1>4. \A path \in {builder.ca, builder.cert, builder.key} : path # PathTo("")
  <2>1. "ca" \in {"ca", "cert", "key"} /\ "cert" \in {"ca", "cert", "key"} /\ "key" \in {"ca", "cert", "key"}
    OBVIOUS
  <2>2. builder.ca # PathTo("") /\ builder.cert # PathTo("") /\ builder.key # PathTo("")
    BY <1>1, <1>3, <2>1, WantedIs, Zenon
  <2> QED BY <2>2, Zenon
<1>5. builder.limits # "exceeded"
  <2>1. "limits" \in DOMAIN own => own["limits"] # "exceeded"
    BY UncheckedIs, Zenon
  <2>2. builder.limits = IF "limits" \in DOMAIN own THEN own["limits"] ELSE None
    BY <1>1, WantedIs, Zenon DEF Wanted
  <2> QED BY <2>1, <2>2, NoneApart
<1>6. InRange(builder.routes)
  <2>1. CASE "routes" \in DOMAIN own
    <3>1. PICK m \in {8, 33} : own.routes = <<[dest |-> "10.0.0.0", mask |-> m, hop |-> None]>>
      BY <1>1, <2>1, Zenon DEF OwnIs, SetterIs
    <3>2. m # 33
      BY <2>1, <3>1, UncheckedIs, Zenon
    <3>3. builder.routes = own.routes
      BY <1>1, <2>1, Zenon DEF BuilderIs
    <3>4. builder.routes = <<[dest |-> "10.0.0.0", mask |-> m, hop |-> None]>> /\ m = 8
      BY <3>1, <3>2, <3>3
    <3>6. PICK r : r = [dest |-> "10.0.0.0", mask |-> m, hop |-> None]
      BY Zenon
    <3>7. r.mask = 8
      <4>1. m = 8
        BY <3>2
      <4> QED BY <3>6, <4>1
    <3> QED BY <3>4, <3>6, <3>7, OneRoute, Zenon
  <2>2. CASE "routes" \notin DOMAIN own
    BY <1>1, <2>2, Zenon DEF BuilderIs
  <2> QED BY <2>1, <2>2
<1>7. builder.authType \in NeedsUser => builder.username \notin {None, ""}
  BY <1>2
<1> QED BY <1>2, <1>4, <1>5, <1>6, <1>7, Zenon DEF Valid, InRange

\* What build (openvpn_builder.rs:579) accepts, validate_openvpn_config refuses only for a
\* value the caller gave: nothing a file says is found wrong after the guard was taken.
THEOREM BothChecksAgree == ImportSpec => []ChecksAgree
BY ImportInvariant, Agree, PTL

\* What is read of a key is what was given an entry.
IsEntry(key, value) ==
    /\ DataStr(key) = value
    /\ value # None => key \in DOMAIN data /\ data[key] = value

LEMMA EntryIs ==
    ASSUME NEW d, data = Entries(d), NEW key \in DOMAIN d PROVE IsEntry(key, d[key])
<1>1. PICK e : e = Entries(d)
  BY Zenon
<1>2. /\ DOMAIN e = {k \in DOMAIN d : d[k] # None}
      /\ \A k \in DOMAIN d : d[k] # None => e[k] = d[k]
  BY <1>1 DEF Entries
<1>3. data = e
  BY <1>1, Zenon
<1> QED BY <1>2, <1>3, Zenon DEF DataStr, IsEntry

\* What is read of the profile.
IsProfile(remote) ==
    /\ data["remote"] = remote
    /\ DataStr("connection_type") = builder.authType
    /\ DataStr("proto_tcp") = IF builder.tcp THEN "yes" ELSE None
    /\ DataStr("cipher") = builder.cipher /\ DataStr("ca") = builder.ca
    /\ DataStr("cert") = builder.cert /\ DataStr("key") = builder.key
    /\ DataStr("tls_auth") = builder.tlsAuth /\ DataStr("tls_crypt") = builder.tlsCrypt
    /\ DataStr("ta_dir") = IF builder.tlsAuth = None THEN None ELSE builder.direction

LEMMA ProfileIs ==
    ASSUME data = VpnData(builder), NEW remote, remote # None,
           remote = [host |-> builder.remote, port |-> builder.port]
    PROVE  IsProfile(remote)
<1>1. PICK d : /\ data = Entries(d)
               /\ d = [remote |-> [host |-> builder.remote, port |-> builder.port],
                      connection_type |-> builder.authType,
                      proto_tcp |-> IF builder.tcp THEN "yes" ELSE None,
                      username |-> builder.username, auth |-> builder.auth, cipher |-> builder.cipher,
                      ca |-> builder.ca, cert |-> builder.cert, key |-> builder.key,
                      compress |-> builder.compression, tls_auth |-> builder.tlsAuth,
                      ta_dir |-> IF builder.tlsAuth = None THEN None ELSE builder.direction,
                      tls_crypt |-> builder.tlsCrypt,
                      data_ciphers |-> IF builder.dataCiphers = <<>> THEN None ELSE builder.dataCiphers]
  BY Zenon DEF VpnData
<1>2. DOMAIN d = {"remote", "connection_type", "proto_tcp", "username", "auth", "cipher", "ca",
                  "cert", "key", "compress", "tls_auth", "ta_dir", "tls_crypt", "data_ciphers"}
  BY <1>1, Zenon
<1>3. /\ "remote" \in DOMAIN d /\ "connection_type" \in DOMAIN d /\ "proto_tcp" \in DOMAIN d
      /\ "cipher" \in DOMAIN d /\ "ca" \in DOMAIN d /\ "cert" \in DOMAIN d /\ "key" \in DOMAIN d
      /\ "tls_auth" \in DOMAIN d /\ "ta_dir" \in DOMAIN d /\ "tls_crypt" \in DOMAIN d
  BY <1>2
<1>4. /\ d["remote"] = remote
      /\ d["connection_type"] = builder.authType
      /\ d["proto_tcp"] = IF builder.tcp THEN "yes" ELSE None
      /\ d["cipher"] = builder.cipher /\ d["ca"] = builder.ca
      /\ d["cert"] = builder.cert /\ d["key"] = builder.key
      /\ d["tls_auth"] = builder.tlsAuth /\ d["tls_crypt"] = builder.tlsCrypt
      /\ d["ta_dir"] = IF builder.tlsAuth = None THEN None ELSE builder.direction
  <2>1. d["remote"] = remote /\ d["connection_type"] = builder.authType
    BY <1>1, Zenon
  <2>2. d["proto_tcp"] = IF builder.tcp THEN "yes" ELSE None
    BY <1>1, Zenon
  <2>3. d["cipher"] = builder.cipher /\ d["ca"] = builder.ca
    BY <1>1, Zenon
  <2>4. d["cert"] = builder.cert /\ d["key"] = builder.key
    BY <1>1, Zenon
  <2>5. d["tls_auth"] = builder.tlsAuth /\ d["tls_crypt"] = builder.tlsCrypt
    BY <1>1, Zenon
  <2>6. d["ta_dir"] = IF builder.tlsAuth = None THEN None ELSE builder.direction
    BY <1>1, Zenon
  <2> QED BY <2>1, <2>2, <2>3, <2>4, <2>5, <2>6
<1>5. \A key \in DOMAIN d : IsEntry(key, d[key])
  <2>1. data = Entries(d)
    BY <1>1, Zenon
  <2> QED BY <2>1, EntryIs, Zenon
<1>6. \A key \in DOMAIN d : DataStr(key) = d[key]
  BY <1>5, Zenon DEF IsEntry
<1>7. data["remote"] = remote
  BY <1>3, <1>4, <1>5, Zenon DEF IsEntry
<1> QED BY <1>3, <1>4, <1>6, <1>7, Zenon DEF IsProfile

\* A certificate of the profile is the one wanted.
LEMMA Held ==
    ASSUME WellFormed, NEW key \in Inlinable, NEW type \in CertNames, NEW field, NEW path,
           path = Wanted(field, PathOf(SourceIs(key), type)), IsStored(key, type)
    PROVE  Holds(field, path, LastOf(key))
<1>1. PICK p, item : p = PathOf(SourceIs(key), type) /\ item = LastOf(key)
  BY Zenon
<1>2. /\ item = None => p = None
      /\ item # None /\ item.block => p.stored = TRUE /\ p.of = type
      /\ item # None /\ ~item.block => p = PathTo(item.rest[1])
  BY <1>1, PathTyped, Zenon
<1>3. item # None /\ item.block => store[type] = item.rest
  BY <1>1, Zenon DEF IsStored
<1>4. path = IF field \in DOMAIN own THEN own[field] ELSE p
  BY <1>1, Zenon DEF Wanted
<1>5. Holds(field, path, item)
  BY <1>2, <1>3, <1>4, Zenon DEF Holds
<1> QED BY <1>1, <1>5, Zenon

LEMMA ServerTyped ==
    ASSUME WellFormed, OwnIs, NEW host, NEW port, host = Wanted("remote", Server.host),
           port = Wanted("port", Server.port), host # None
    PROVE  [host |-> host, port |-> port] \in Endpoints
<1>1. host \in Texts \cup {"", "h3"}
  <2>1. CASE "remote" \in DOMAIN own
    <3>1. host = own.remote /\ own.remote \in {"", "h3"}
      BY <2>1, Zenon DEF Wanted, OwnIs, SetterIs
    <3> QED BY <3>1
  <2>2. CASE "remote" \notin DOMAIN own
    <3>1. host = Server.host
      BY <2>2, Zenon DEF Wanted
    <3>2. ItemsOf({"remote"}) # {}
      BY <3>1, NoRemote, Zenon
    <3>3. PICK r, srv : r = RemoteOf(First) /\ srv = Server
      BY Zenon
    <3>4. srv.host = r.host /\ r.host \in Texts
      BY <3>2, <3>3, ServerSays, Zenon
    <3>5. host \in Texts
      BY <3>1, <3>3, <3>4, Zenon
    <3> QED BY <3>5
  <2> QED BY <2>1, <2>2
<1>2. port \in Nat
  <2>1. CASE "port" \in DOMAIN own
    <3>1. port = own.port /\ own.port \in OwnPorts
      BY <2>1, Zenon DEF Wanted, OwnIs, SetterIs
    <3> QED BY <3>1 DEF OwnPorts
  <2>2. CASE "port" \notin DOMAIN own
    <3>1. PICK sp : sp = Server.port
      BY Zenon
    <3>2. port = sp
      BY <2>2, <3>1, Zenon DEF Wanted
    <3>3. CASE ItemsOf({"remote"}) = {}
      <4>1. Server.port = DefaultPort
        BY <3>3, NoRemote, Zenon
      <4>2. sp = DefaultPort /\ DefaultPort \in Nat
        BY <3>1, <4>1 DEF DefaultPort
      <4> QED BY <3>2, <4>2
    <3>4. CASE ItemsOf({"remote"}) # {}
      <4>1. PICK r, srv, said : r = RemoteOf(First) /\ srv = Server /\ said = PortSaid
        BY Zenon
      <4>2. /\ srv.port = OrDefault(said) /\ said = IF r.port = None THEN None ELSE Number[r.port]
            /\ r.port # None => Number[r.port] \in Nat
        BY <3>4, <4>1, ServerSays, Zenon
      <4>3. OrDefault(said) \in Nat
        BY <4>2 DEF OrDefault, DefaultPort
      <4> QED BY <3>1, <3>2, <4>1, <4>2, <4>3, Zenon
    <3> QED BY <3>3, <3>4
  <2> QED BY <2>1, <2>2
<1> QED BY <1>1, <1>2 DEF Endpoints

LEMMA SavedAuth ==
    ASSUME WellFormed, meant \in Seq(Items), NEW type, type = AuthSaid,
           type \notin {None, "static-key"}
    PROVE  /\ type \in NeedsUser <=> ItemsOf({"auth-user-pass"}) # {}
           /\ type \in NeedsCerts <=> ItemsOf({"cert"}) # {} /\ ItemsOf({"key"}) # {}
<1>1. "cert" \in Inlinable /\ "key" \in Inlinable
  BY DEF Inlinable, CertKeys
<1>2. /\ SourceIs("cert") # None <=> ItemsOf({"cert"}) # {}
      /\ SourceIs("key") # None <=> ItemsOf({"key"}) # {}
  BY <1>1, LastThere, SourceTyped, Zenon
<1>3. PICK cert, key, user : /\ cert = SourceIs("cert") /\ key = SourceIs("key")
                             /\ user = ItemsOf({"auth-user-pass"})
  BY Zenon
<1>4. type = IF user = {} THEN IF cert # None /\ key # None THEN "tls" ELSE None
             ELSE IF cert # None /\ key # None THEN "password-tls" ELSE "password"
  BY <1>3, Zenon DEF AuthSaid
<1>5. /\ type \in NeedsUser <=> user # {}
      /\ type \in NeedsCerts <=> cert # None /\ key # None
  BY <1>4 DEF NeedsUser, NeedsCerts
<1> QED BY <1>2, <1>3, <1>5, Zenon

LEMMA Faithful == ASSUME ImportInv PROVE ImportIsFaithful
<1> SUFFICES ASSUME phase = "saved" PROVE ImportIsFaithful
  BY Zenon DEF ImportIsFaithful
<1>1. /\ WellFormed /\ StoreIs /\ OwnIs /\ BuilderIs /\ Complete(builder)
      /\ builder.port = Wanted("port", Server.port) /\ data = VpnData(builder)
      /\ meant \in Seq(Items)
  BY DEF ImportInv, LexerInv, Recorded
<1>2. builder.remote # None /\ builder.authType # None /\ builder.authType # "static-key"
  BY <1>1 DEF Complete
<1>3. PICK remote : remote = [host |-> builder.remote, port |-> builder.port]
  BY Zenon
<1>4. remote # None
  <2>1. remote \in Endpoints
    BY <1>1, <1>2, <1>3, WantedIs, ServerTyped, Zenon
  <2> QED BY <2>1, OvpnImportAssumption, Zenon
<1>5. /\ data["remote"] = remote
      /\ DataStr("connection_type") = builder.authType
      /\ DataStr("proto_tcp") = IF builder.tcp THEN "yes" ELSE None
      /\ DataStr("cipher") = builder.cipher /\ DataStr("ca") = builder.ca
      /\ DataStr("cert") = builder.cert /\ DataStr("key") = builder.key
      /\ DataStr("tls_auth") = builder.tlsAuth /\ DataStr("tls_crypt") = builder.tlsCrypt
      /\ DataStr("ta_dir") = IF builder.tlsAuth = None THEN None ELSE builder.direction
  <2>1. IsProfile(remote)
    BY <1>1, <1>3, <1>4, ProfileIs, Zenon
  <2> QED BY <2>1, Zenon DEF IsProfile
<1>6. data["remote"] = [host |-> Wanted("remote", Server.host),
                        port |-> Wanted("port", Server.port)]
  BY <1>1, <1>3, <1>5, WantedIs, Zenon
<1>7. LET host == data["remote"].host
      IN host \in DOMAIN Bracketed \/ host \notin WithColon =>
           /\ Details.remote = IF host \in DOMAIN Bracketed THEN Bracketed[host] ELSE host
           /\ Details.port = data["remote"].port
  <2>1. Details.remote = ParseRemote.host /\ Details.port = ParseRemote.port
    BY Zenon DEF Details
  <2>2. CASE data["remote"].host \in DOMAIN Bracketed
    <3>1. PICK host : host = data["remote"].host
      BY Zenon
    <3>2. ParseRemote = [data["remote"] EXCEPT !.host = Bracketed[host]]
      BY <2>2, <3>1 DEF ParseRemote
    <3>3. remote.host = builder.remote /\ DOMAIN remote = {"host", "port"}
      BY <1>3
    <3>4. ParseRemote.host = Bracketed[host] /\ ParseRemote.port = data["remote"].port
      BY <1>5, <3>2, <3>3
    <3> QED BY <2>1, <2>2, <3>1, <3>4, Zenon
  <2>3. CASE data["remote"].host \notin DOMAIN Bracketed /\ data["remote"].host \notin WithColon
    <3>1. ParseRemote = data["remote"]
      BY <2>3, Zenon DEF ParseRemote
    <3> QED BY <2>1, <2>3, <3>1, Zenon
  <2> QED BY <2>2, <2>3, Zenon
<1>8. Details.protocol = "tcp" <=> Wanted("tcp", Server.proto \in TcpNames)
  <2>1. Details.protocol = IF DataStr("proto_tcp") = "yes" THEN "tcp" ELSE "udp"
    BY Zenon DEF Details
  <2>2. Details.protocol = "tcp" <=> builder.tcp
    <3>1. PICK p, str, det : p = builder.tcp /\ str = DataStr("proto_tcp") /\ det = Details.protocol
      BY Zenon
    <3>2. str = (IF p THEN "yes" ELSE None) /\ det = IF str = "yes" THEN "tcp" ELSE "udp"
      BY <1>5, <2>1, <3>1, Zenon
    <3>3. det = "tcp" <=> p
      BY <3>2, NoneApart
    <3> QED BY <3>1, <3>3, Zenon
  <2>3. builder.tcp = Wanted("tcp", IF Server.proto \in TcpNames THEN TRUE ELSE FALSE)
    BY <1>1, WantedIs, Zenon
  <2>4. builder.tcp <=> Wanted("tcp", Server.proto \in TcpNames)
    <3>1. CASE "tcp" \in DOMAIN own
      BY <2>3, <3>1, Zenon DEF Wanted
    <3>2. CASE "tcp" \notin DOMAIN own
      <4>1. builder.tcp = IF Server.proto \in TcpNames THEN TRUE ELSE FALSE
        BY <2>3, <3>2, Zenon DEF Wanted
      <4>2. Wanted("tcp", Server.proto \in TcpNames) <=> Server.proto \in TcpNames
        BY <3>2, Zenon DEF Wanted
      <4> QED BY <4>1, <4>2, Zenon
    <3> QED BY <3>1, <3>2
  <2> QED BY <2>2, <2>4, Zenon
<1>9. Details.cipher = Wanted("cipher", Said("cipher"))
  <2>1. Details.cipher = DataStr("cipher")
    BY Zenon DEF Details
  <2> QED BY <1>1, <1>5, <2>1, WantedIs, Zenon
<1>10. /\ "ca" \in Inlinable /\ "cert" \in Inlinable /\ "key" \in Inlinable
       /\ "tls-auth" \in Inlinable /\ "tls-crypt" \in Inlinable
       /\ "ca" \in CertNames /\ "cert" \in CertNames /\ "key" \in CertNames
       /\ "ta" \in CertNames /\ "tls-crypt" \in CertNames
  BY DEF Inlinable, CertKeys, CertNames
<1>11. /\ IsStored("ca", "ca") /\ IsStored("cert", "cert") /\ IsStored("key", "key")
       /\ IsStored("tls-auth", "ta") /\ IsStored("tls-crypt", "tls-crypt")
  BY <1>1, Zenon DEF StoreIs
<1>12. /\ DecodeOpenVpn.ca = DataStr("ca") /\ DecodeOpenVpn.cert = DataStr("cert")
       /\ DecodeOpenVpn.key = DataStr("key")
       /\ DecodeOpenVpn.connectionType = DataStr("connection_type")
  BY Zenon DEF DecodeOpenVpn
<1>13. /\ Holds("ca", DecodeOpenVpn.ca, LastOf("ca"))
       /\ Holds("cert", DecodeOpenVpn.cert, LastOf("cert"))
       /\ Holds("key", DecodeOpenVpn.key, LastOf("key"))
  BY <1>1, <1>5, <1>10, <1>11, <1>12, WantedIs, Held, Zenon
<1>14. /\ Holds("tlsAuth", DataStr("tls_auth"), LastOf("tls-auth"))
       /\ Holds("tlsCrypt", DataStr("tls_crypt"), LastOf("tls-crypt"))
  BY <1>1, <1>5, <1>10, <1>11, WantedIs, Held, Zenon
<1>15. DataStr("ta_dir") = Wanted("direction", Direction)
  <2>1. /\ builder.direction = Wanted("direction", Direction)
        /\ builder.tlsAuth = Wanted("tlsAuth", PathOf(SourceIs("tls-auth"), "ta"))
    BY <1>1, WantedIs, Zenon
  <2>2. CASE builder.tlsAuth # None
    BY <1>5, <2>1, <2>2, Zenon
  <2>3. CASE builder.tlsAuth = None
    <3>1. "tlsAuth" \notin DOMAIN own
      <4>1. "own.key" \in {"", "own.pem", "own.key"}
        OBVIOUS
      <4>2. PathTo("own.key") # None
        BY <4>1, PathApart, Zenon
      <4>3. "tlsAuth" \in DOMAIN own => own["tlsAuth"] = PathTo("own.key")
        BY <1>1, Zenon DEF OwnIs, SetterIs
      <4> QED BY <2>1, <2>3, <4>2, <4>3, Zenon DEF Wanted
    <3>2. "direction" \notin DOMAIN own
      BY <1>1, <3>1, Zenon DEF OwnIs, SetterIs
    <3>3. PathOf(SourceIs("tls-auth"), "ta") = None
      BY <2>1, <2>3, <3>1, Zenon DEF Wanted
    <3>4. LastOf("tls-auth") = None
      BY <1>1, <1>10, <3>3, PathTyped, Zenon
    <3>5. Direction = None
      BY <3>4, Zenon DEF Direction
    <3> QED BY <1>5, <2>3, <3>2, <3>5, Zenon DEF Wanted
  <2> QED BY <2>2, <2>3
<1>16. IF "authType" \in DOMAIN own THEN DecodeOpenVpn.connectionType = own.authType
       ELSE /\ DecodeOpenVpn.connectionType \in NeedsUser <=> ItemsOf({"auth-user-pass"}) # {}
            /\ DecodeOpenVpn.connectionType \in NeedsCerts
                  <=> ItemsOf({"cert"}) # {} /\ ItemsOf({"key"}) # {}
  <2>1. PICK type : type = DecodeOpenVpn.connectionType
    BY Zenon
  <2>2. type = builder.authType /\ type = Wanted("authType", AuthSaid)
    BY <1>1, <1>5, <1>12, <2>1, WantedIs, Zenon
  <2>3. CASE "authType" \in DOMAIN own
    BY <2>1, <2>2, <2>3, Zenon DEF Wanted
  <2>4. CASE "authType" \notin DOMAIN own
    <3>1. type = AuthSaid /\ type \notin {None, "static-key"}
      BY <1>2, <2>2, <2>4, Zenon DEF Wanted
    <3>2. /\ type \in NeedsUser <=> ItemsOf({"auth-user-pass"}) # {}
          /\ type \in NeedsCerts <=> ItemsOf({"cert"}) # {} /\ ItemsOf({"key"}) # {}
      BY <1>1, <3>1, SavedAuth, Zenon
    <3> QED BY <2>1, <2>4, <3>2, Zenon
  <2> QED BY <2>3, <2>4
<1> QED BY <1>6, <1>7, <1>8, <1>9, <1>13, <1>14, <1>15, <1>16, Zenon DEF ImportIsFaithful

\* For every file and every order and number of setters, a profile that connect_vpn saves
\* is the one described; protocol, cipher, certificates and authentication are read back
\* the same, and the server too unless its host is an IPv6 address without brackets.
THEOREM ImportsAreFaithful == ImportSpec => []ImportIsFaithful
BY ImportInvariant, Faithful, PTL
=============================================================================
