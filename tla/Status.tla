------------------------------- MODULE Status -------------------------------
(***************************************************************************)
(* Reading the state of the network while it changes: core/scan.rs,        *)
(* core/active_connection.rs, core/wifi_device.rs, monitoring/info.rs, the *)
(* VPN listings of core/vpn.rs, the saved profiles of                      *)
(* core/saved_connection.rs and the rows that models/snapshot.rs derives.  *)
(*                                                                         *)
(* Every listing is a chain of D-Bus reads: the devices, then per device   *)
(* the active access point and the visible ones, then each access point.   *)
(* No guard is held and nothing is versioned, so radios are unplugged,     *)
(* access points come and go, and connections change between two reads.    *)
(* One caller runs one operation at a time against such a network.         *)
(*                                                                         *)
(* An access point is a member of Aps with its constant properties in      *)
(* ApInfo; a BSSID is the access point itself.  The addresses of a         *)
(* connection stand for the connection: ip = p is "the addresses of p".    *)
(***************************************************************************)
EXTENDS Naturals, Sequences, FiniteSets, SequencesExt

CONSTANTS
    WifiDevices,    \* the Wi-Fi devices in the order GetDevices gives them
    OtherDevices,   \* the other devices, listed before them
    Aps,            \* access points: naturals, which order the BSSIDs
    ApInfo,         \* Aps -> [dev, ssid, strength, flags, wpa, rsn]
    Hidden,         \* the SSID of an access point that hides its own
    Profiles,       \* saved Wi-Fi profiles: [ssid, dev, ap], the last two may be None
    Vpns,           \* VPN profiles
    VpnName,        \* their names: several profiles may share one
    Ops,            \* operations the caller may run
    MaxChanges,     \* bound: changes of the network over a behaviour
    MaxPaths,       \* bound: active-connection paths ever handed out
    None

AllDevices == OtherDevices \o WifiDevices

(* A device is listed once; strengths and BSSIDs have an order; None is    *)
(* nothing else.                                                           *)
ASSUME StatusAssumption ==
    /\ {OtherDevices, WifiDevices} \subseteq Seq(ToSet(AllDevices))
    /\ IsInjective(AllDevices)
    /\ Aps \subseteq Nat
    /\ \A a \in Aps : ApInfo[a].strength \in Nat
    /\ None \notin Nat \union Vpns \union ToSet(AllDevices)

VARIABLES
    devices,    \* the devices that exist, in that order
    seen,       \* access points that are visible
    link,       \* Wi-Fi device -> its active connection, or None
    kept,       \* VPN profiles that are still saved
    conns,      \* active connection -> [dev, ap, vpn], one of them None
    paths,      \* paths handed out so far: NetworkManager never reuses one
    changes,
    op,         \* the running operation and its argument
    phase,      \* which of its passes over the devices is under way
    pc,
    todo,       \* devices or connections still to read
    cur,        \* the device or connection being read
    act,        \* the active access point that was read for it
    left,       \* its access points still to read
    found,      \* access points read so far
    nets,       \* (interface, SSID) -> merged network
    listed,     \* active connections, or saved profiles, read so far
    up,         \* VPN profiles read to be active
    target,     \* the SSID that current_ssid returned
    addr,       \* the address read for the answer
    result,
    wasActive,  \* history: access points and VPNs active during the call
    steady      \* history: connections that were up all through the call

envVars == <<devices, seen, link, kept, conns, paths, changes>>
callVars ==
    <<op, phase, pc, todo, cur, act, left, found, nets, listed, up, target, addr, result>>
histVars == <<wasActive, steady>>
vars == <<envVars, callVars, histVars>>

Wifi == ToSet(WifiDevices)
plugged == ToSet(devices)
Ssids == {ApInfo[a].ssid : a \in Aps} \ {Hidden}

Connected(d) == d \in Wifi /\ link[d] # None
ActiveAp(d) == IF Connected(d) THEN conns[link[d]].ap ELSE None
VisibleOn(d) == {a \in seen : ApInfo[a].dev = d}
ActiveNow == ({ActiveAp(d) : d \in Wifi} \union {conns[p].vpn : p \in DOMAIN conns}) \ {None}

-----------------------------------------------------------------------------
(* What an access point advertises: models/access_point.rs.                *)

(* Capabilities from all three flag words, the pairs and key managements   *)
(* of WPA and RSN taken together.                                          *)
DecodeSecurity(ap) == ap.flags \union ap.wpa \union ap.rsn
KeyManagements == {"psk", "eap", "sae", "owe", "owe_tm", "suite_b"}
IsOpen(sec) == sec \intersect ({"privacy", "wep40", "wep104"} \union KeyManagements) = {}
IsEnterprise(sec) == sec \intersect {"eap", "suite_b"} # {}
PreferredConnectType(sec) ==
    CASE IsEnterprise(sec) -> "eap"
      [] ~IsEnterprise(sec) /\ "sae" \in sec -> "sae"
      [] ~IsEnterprise(sec) /\ "sae" \notin sec
            /\ sec \intersect {"owe", "owe_tm"} # {} -> "owe"
      [] OTHER -> IF "psk" \in sec THEN "psk" ELSE "open"

(* The network that one access point shows.                                *)
NetworkOf(ap, active, ip) ==
    LET info == ApInfo[ap]
        sec == DecodeSecurity(info)
    IN [ssid |-> info.ssid, dev |-> info.dev, bssid |-> ap, bssids |-> <<ap>>,
        strength |-> info.strength, security |-> sec, secured |-> ~IsOpen(sec),
        isEap |-> IsEnterprise(sec), active |-> active, ip |-> ip, known |-> FALSE]

(* A list without the members of X, prefix by prefix.                      *)
LeaveOut(s, X) ==
    LET rest[i \in 0 .. Len(s)] ==
            IF i = 0 THEN <<>>
            ELSE IF s[i] \in X THEN rest[i - 1] ELSE Append(rest[i - 1], s[i])
    IN rest[Len(s)]

(* Network::merge_ap: the stronger of the two is the representative and    *)
(* moves to the head of the BSSIDs; everything else accumulates.           *)
PushUnique(bssids, more) == bssids \o LeaveOut(more, ToSet(bssids))
(* Fault: the representative stays when a stronger one is merged.          *)
MergeKeepsBssid(n, o) ==
    [n EXCEPT !.strength = IF o.strength > n.strength THEN o.strength ELSE n.strength,
              !.bssids = PushUnique(@, o.bssids),
              !.security = @ \union o.security, !.secured = @ \/ o.secured,
              !.isEap = @ \/ o.isEap, !.active = @ \/ o.active,
              !.ip = IF @ = None THEN o.ip ELSE @]
MergeAp(n, o) ==
    LET best == IF o.strength > n.strength THEN o ELSE n
        all == PushUnique(n.bssids, o.bssids)
    IN [n EXCEPT !.strength = best.strength,
                 !.bssid = best.bssid,
                 !.bssids = <<best.bssid>> \o LeaveOut(all, {best.bssid}),
                 !.security = @ \union o.security,
                 !.secured = @ \/ o.secured,
                 !.isEap = @ \/ o.isEap,
                 !.active = @ \/ o.active,
                 !.ip = IF @ = None THEN o.ip ELSE @]

-----------------------------------------------------------------------------
(* What the snapshot derives: models/snapshot.rs, a pure transformation of *)
(* the access points (found) and the active connections (listed) it read.  *)

WifiOn(d) == {c \in ToSet(listed) : c.kind = "wifi" /\ c.dev = d}
ApIsActive(r) == r.active \/ \E c \in WifiOn(ApInfo[r.ap].dev) : c.bssid = r.ap

(* sort_access_points: by strength, then the active one, then the BSSID.   *)
(* Fault: the active access point outranks a stronger one.                 *)
BeforeActiveFirst(r, s) ==
    \/ ApIsActive(r) /\ ~ApIsActive(s)
    \/ ApIsActive(r) = ApIsActive(s)
       /\ \/ ApInfo[r.ap].strength > ApInfo[s.ap].strength
          \/ ApInfo[r.ap].strength = ApInfo[s.ap].strength /\ r.ap < s.ap
Before(r, s) ==
    \/ ApInfo[r.ap].strength > ApInfo[s.ap].strength
    \/ /\ ApInfo[r.ap].strength = ApInfo[s.ap].strength
       /\ \/ ApIsActive(r) /\ ~ApIsActive(s)
          \/ ApIsActive(r) = ApIsActive(s) /\ r.ap < s.ap

Sorted(group) ==
    CHOOSE s \in SetToSeqs(group) : \A i, j \in DOMAIN s : i < j => Before(s[i], s[j])

ProfileMatches(p, d, s, group) ==
    /\ p.ssid = s
    /\ p.dev \in {None, d}
    /\ p.ap # None => \E r \in group : r.ap = p.ap

(* NetworkSnapshot::wifi_groups: one row per interface and SSID, hidden    *)
(* access points left out.                                                 *)
WifiGroups ==
    LET shown == {r \in ToSet(found) : ApInfo[r.ap].ssid # Hidden}
        Group(d, s) == {r \in shown : ApInfo[r.ap].dev = d /\ ApInfo[r.ap].ssid = s}
        Row(d, s, group) ==
            [dev |-> d, ssid |-> s,
             aps |-> Sorted(group),
             saved |-> {p \in Profiles : ProfileMatches(p, d, s, group)},
             active |-> \E c \in WifiOn(d) :
                            c.ssid = s \/ \E r \in group : r.ap = c.bssid]
    IN {Row(k[1], k[2], Group(k[1], k[2])) :
            k \in {<<ApInfo[r.ap].dev, ApInfo[r.ap].ssid>> : r \in shown}}

(* The profiles that the snapshot files under an SSID.                     *)
KnownWifi(s) == {p \in Profiles : p.ssid = s}

-----------------------------------------------------------------------------
Idle == [name |-> "none", arg |-> None]

Init ==
    /\ devices = AllDevices
    /\ seen \in {Aps, {a \in Aps : ApInfo[a].dev = Head(WifiDevices)}}
    /\ link = [d \in Wifi |-> None]
    /\ kept = Vpns
    /\ conns = <<>>
    /\ paths = 0
    /\ changes = 0
    /\ op = Idle /\ phase = "none" /\ pc = "idle"
    /\ todo = <<>> /\ cur = None /\ act = None /\ left = {}
    /\ found = <<>> /\ nets = <<>> /\ listed = <<>> /\ up = {}
    /\ target = None /\ addr = None /\ result = None
    /\ wasActive = {} /\ steady = {}

(* The network changes, whatever the caller is doing.                      *)
Changed ==
    /\ changes < MaxChanges
    /\ changes' = changes + 1
    /\ wasActive' = wasActive \union ActiveNow'
    /\ steady' = steady \intersect DOMAIN conns'
    /\ UNCHANGED callVars

Without(ps) == [p \in DOMAIN conns \ ps |-> conns[p]]

ApAppears(a) ==
    /\ a \notin seen /\ ApInfo[a].dev \in plugged
    /\ seen' = seen \union {a}
    /\ UNCHANGED <<devices, link, kept, conns, paths>>
    /\ Changed

ApVanishes(a) ==
    /\ a \in seen \ ActiveNow
    /\ seen' = seen \ {a}
    /\ UNCHANGED <<devices, link, kept, conns, paths>>
    /\ Changed

Connects(d, a) ==
    /\ link[d] = None /\ a \in VisibleOn(d) /\ paths < MaxPaths
    /\ paths' = paths + 1
    /\ conns' = [p \in DOMAIN conns \union {paths'} |->
                    IF p = paths' THEN [dev |-> d, ap |-> a, vpn |-> None] ELSE conns[p]]
    /\ link' = [link EXCEPT ![d] = paths']
    /\ UNCHANGED <<devices, seen, kept>>
    /\ Changed

Roams(d, a) ==
    /\ link[d] # None /\ a \in VisibleOn(d) \ {ActiveAp(d)}
    /\ ApInfo[a].ssid = ApInfo[ActiveAp(d)].ssid
    /\ conns' = [conns EXCEPT ![link[d]].ap = a]
    /\ UNCHANGED <<devices, seen, link, kept, paths>>
    /\ Changed

Disconnects(d) ==
    /\ link[d] # None
    /\ conns' = Without({link[d]})
    /\ link' = [link EXCEPT ![d] = None]
    /\ UNCHANGED <<devices, seen, kept, paths>>
    /\ Changed

VpnPaths(v) == {p \in DOMAIN conns : conns[p].vpn = v}

VpnUp(v) ==
    /\ v \in kept /\ VpnPaths(v) = {} /\ paths < MaxPaths
    /\ paths' = paths + 1
    /\ conns' = [p \in DOMAIN conns \union {paths'} |->
                    IF p = paths' THEN [dev |-> None, ap |-> None, vpn |-> v] ELSE conns[p]]
    /\ UNCHANGED <<devices, seen, link, kept>>
    /\ Changed

VpnDown(v) ==
    /\ VpnPaths(v) # {}
    /\ conns' = Without(VpnPaths(v))
    /\ UNCHANGED <<devices, seen, link, kept, paths>>
    /\ Changed

VpnForgotten(v) ==
    /\ v \in kept
    /\ kept' = kept \ {v}
    /\ conns' = Without(VpnPaths(v))
    /\ UNCHANGED <<devices, seen, link, paths>>
    /\ Changed

Unplugged(d) ==
    /\ \E i \in DOMAIN devices : devices[i] = d /\ devices' = RemoveAt(devices, i)
    /\ seen' = {a \in seen : ApInfo[a].dev # d}
    /\ conns' = Without({p \in DOMAIN conns : conns[p].dev = d})
    /\ link' = [e \in Wifi |-> IF e = d THEN None ELSE link[e]]
    /\ UNCHANGED <<kept, paths>>
    /\ Changed

-----------------------------------------------------------------------------
(* The caller.  A step is one round trip: a proxy reads all the properties *)
(* of its object with the first one it is asked for.                       *)

Still(changed) == UNCHANGED <<envVars, histVars>> /\ UNCHANGED changed

FirstPhase(name) ==
    CASE name \in {"ssid", "current", "details"} -> "ssid"
      [] name \in {"active", "snapshot"} -> "active"
      [] name \in {"saved", "vpns", "active_vpns", "vpn_info"} -> name
      [] OTHER -> "walk"

Begin(o) ==
    /\ pc = "idle"
    /\ op' = o
    /\ phase' = FirstPhase(o.name)
    /\ pc' = "get"
    /\ wasActive' = ActiveNow
    /\ steady' = DOMAIN conns
    /\ UNCHANGED envVars
    /\ UNCHANGED <<todo, cur, act, left, found, nets, listed, up, target, addr, result>>

GetDevices ==
    /\ pc = "get" /\ phase \in {"ssid", "pick", "addr", "walk"}
    /\ todo' = devices
    /\ pc' = "device"
    /\ Still(<<op, phase, cur, act, left, found, nets, listed, up, target, addr, result>>)

Finish(r) ==
    /\ result' = r
    /\ pc' = "done"
    /\ UNCHANGED <<op, phase, todo, cur, act, left, found, nets, listed, up, target, addr>>

Answer(v) == Finish([ok |-> TRUE, value |-> v])
Fail == Finish([ok |-> FALSE])

NextPhase(p) ==
    /\ phase' = p
    /\ pc' = "get"
    /\ UNCHANGED <<op, todo, cur, act, left, found, nets, listed, up, addr, result>>

AtDevice(p, d) == pc = "device" /\ phase = p /\ todo # <<>> /\ d = Head(todo)

Skip ==
    /\ todo' = Tail(todo)
    /\ pc' = "device"
    /\ UNCHANGED <<op, phase, cur, act, left, found, nets, listed, up, target, addr, result>>

(* The active access point of d is noted and will be read next.            *)
NoteActive(d, next) ==
    /\ cur' = d
    /\ act' = ActiveAp(d)
    /\ pc' = next
    /\ UNCHANGED <<op, phase, todo, left, found, nets, listed, up, target, addr, result>>

(* current_ssid is done with s: its callers go on, each in its way.        *)
SsidIs(s) ==
    \/ op.name = "ssid" /\ Answer(s)
    \/ op.name = "current" /\ s = None /\ Answer(None)
    \/ op.name = "current" /\ s # None /\ target' = s /\ NextPhase("pick")
    \/ op.name = "details" /\ target' = s
          /\ NextPhase(IF s = op.arg.ssid THEN "addr" ELSE "walk")

(* current_ssid: the first radio with an active access point decides; any  *)
(* read that fails before ends the search with "not connected".            *)
SsidDevice(d) ==
    /\ AtDevice("ssid", d)
    /\ \/ d \notin plugged /\ SsidIs(None)
       \/ d \in plugged /\ ActiveAp(d) = None /\ Skip
       \/ d \in plugged /\ ActiveAp(d) # None /\ NoteActive(d, "active_ap")
    /\ Still(<<>>)

SsidAp ==
    /\ pc = "active_ap" /\ phase = "ssid"
    /\ SsidIs(IF act \in seen THEN ApInfo[act].ssid ELSE None)
    /\ Still(<<>>)

SsidNone ==
    /\ pc = "device" /\ phase = "ssid" /\ todo = <<>>
    /\ SsidIs(None)
    /\ Still(<<>>)

(* current_network: a second pass looks for the radio with that SSID.      *)
(* Fault: the SSID of the first pass is taken for granted in the second.   *)
PickApAnySsid ==
    /\ pc = "active_ap" /\ phase = "pick"
    /\ \/ act \notin seen /\ Fail
       \/ /\ act \in seen
          /\ pc' = "address"
          /\ UNCHANGED <<op, phase, todo, cur, act, left, found, nets, listed, up, target, addr, result>>
    /\ Still(<<>>)
PickDevice(d) ==
    /\ AtDevice("pick", d)
    /\ \/ d \notin plugged /\ Fail
       \/ d \in plugged /\ ActiveAp(d) = None /\ Skip
       \/ d \in plugged /\ ActiveAp(d) # None /\ NoteActive(d, "active_ap")
    /\ Still(<<>>)

PickAp ==
    /\ pc = "active_ap" /\ phase = "pick"
    /\ \/ act \notin seen /\ Fail
       \/ act \in seen /\ ApInfo[act].ssid # target /\ Skip
       \/ /\ act \in seen /\ ApInfo[act].ssid = target
          /\ pc' = "address"
          /\ UNCHANGED <<op, phase, todo, cur, act, left, found, nets, listed, up, target, addr, result>>
    /\ Still(<<>>)

PickAddress ==
    /\ pc = "address" /\ phase = "pick"
    /\ Answer([NetworkOf(act, TRUE, link[cur]) EXCEPT !.known = TRUE])
    /\ Still(<<>>)

PickNone ==
    /\ pc = "device" /\ phase = "pick" /\ todo = <<>>
    /\ Answer(None)
    /\ Still(<<>>)

(* show_details, when the network is the connected one: the addresses of   *)
(* the first radio that has a connection, whichever that is.               *)
AddrDevice(d) ==
    /\ AtDevice("addr", d)
    /\ \/ ~Connected(d) /\ Skip
       \/ /\ Connected(d)
          /\ addr' = link[d] /\ phase' = "walk" /\ pc' = "get"
          /\ UNCHANGED <<op, todo, cur, act, left, found, nets, listed, up, target, result>>
    /\ Still(<<>>)

AddrNone ==
    /\ pc = "device" /\ phase = "addr" /\ todo = <<>>
    /\ target' = target /\ NextPhase("walk")
    /\ Still(<<>>)

(* The pass over all access points: list_access_points, list_networks,     *)
(* for_each_access_point.                                                  *)
Wanted(d) == d \in Wifi /\ (op.name \in {"networks", "scan"} => op.arg \in {None, d})

WalkDevice(d) ==
    /\ AtDevice("walk", d) /\ op.name \in {"networks", "snapshot", "details"}
    /\ \/ d \notin plugged /\ Fail
       \/ d \in plugged /\ ~Wanted(d) /\ Skip
       \/ d \in plugged /\ Wanted(d) /\ NoteActive(d, "ap_list")
    /\ Still(<<>>)

(* The other passes stop at the device: they list it, or ask it to scan.   *)
VisitDevice(d, wanted) ==
    /\ \/ d \notin plugged /\ Fail
       \/ d \in plugged /\ ~wanted /\ Skip
       \/ /\ d \in plugged /\ wanted
          /\ found' = Append(found, [ap |-> ActiveAp(d), active |-> ActiveAp(d) # None, dev |-> d])
          /\ todo' = Tail(todo)
          /\ UNCHANGED <<op, phase, pc, cur, act, left, nets, listed, up, target, addr, result>>
    /\ Still(<<>>)

ScanDevice(d) ==
    /\ AtDevice("walk", d) /\ op.name = "scan"
    /\ VisitDevice(d, Wanted(d)) \/ (Wanted(d) /\ Fail /\ Still(<<>>))
ListDevice(d) ==
    AtDevice("walk", d) /\ op.name = "devices" /\ VisitDevice(d, TRUE)
ListWifiDevice(d) ==
    AtDevice("walk", d) /\ op.name = "wifi_devices" /\ VisitDevice(d, d \in Wifi)
ListWiredDevice(d) ==
    AtDevice("walk", d) /\ op.name = "wired_devices" /\ VisitDevice(d, d \notin Wifi)

ListAps ==
    /\ pc = "ap_list"
    /\ \/ cur \notin plugged /\ Fail
       \/ /\ cur \in plugged
          /\ left' = VisibleOn(cur)
          /\ pc' = "ap"
          /\ UNCHANGED <<op, phase, todo, cur, act, found, nets, listed, up, target, addr, result>>
    /\ Still(<<>>)

Keep(a) == op.name = "details" => ApInfo[a].ssid = op.arg.ssid
(* Fault: whether it is the active one is read with each access point.     *)
IsActiveNow(a) == ActiveAp(cur) = a
IsActiveAp(a) == act = a

ReadAp(a) ==
    /\ pc = "ap" /\ a \in left
    /\ \/ a \notin seen /\ Fail
       \/ /\ a \in seen
          /\ left' = left \ {a}
          /\ found' = IF Keep(a)
                      THEN Append(found, [ap |-> a, active |-> IsActiveAp(a), dev |-> cur])
                      ELSE found
          /\ UNCHANGED <<op, phase, pc, todo, cur, act, nets, listed, up, target, addr, result>>
    /\ Still(<<>>)

EndOfDevice ==
    /\ pc = "ap" /\ left = {}
    /\ Skip
    /\ Still(<<>>)

(* What the pass found becomes the answer of the operation.                *)
EndOfWalk ==
    /\ pc = "device" /\ phase = "walk" /\ todo = <<>>
    /\ \/ /\ op.name = "networks"
          /\ todo' = found
          /\ pc' = "merge"
          /\ UNCHANGED <<op, phase, cur, act, left, found, nets, listed, up, target, addr, result>>
       \/ /\ op.name = "details"
          /\ Answer(IF found = <<>> THEN "not_found"
                    ELSE [ssid |-> op.arg.ssid, bssid |-> Head(found).ap,
                          strength |-> op.arg.strength, addr |-> addr,
                          connected |-> target = op.arg.ssid])
       \/ /\ op.name = "scan"
          /\ Answer(IF op.arg # None /\ found = <<>> THEN "not_found" ELSE "ok")
       \/ op.name = "snapshot" /\ Answer(WifiGroups)
       \/ op.name \in {"devices", "wifi_devices", "wired_devices"} /\ Answer(found)
    /\ Still(<<>>)

(* list_networks merges the access points by interface and SSID; the       *)
(* addresses of an active one are read here, after the pass is over.       *)
MergeNext ==
    /\ pc = "merge" /\ todo # <<>>
    /\ LET r == Head(todo)
           key == <<r.dev, ApInfo[r.ap].ssid>>
           net == NetworkOf(r.ap, r.active, IF r.active THEN link[r.dev] ELSE None)
       IN nets' = [k \in DOMAIN nets \union {key} |->
                      IF k # key THEN nets[k]
                      ELSE IF key \in DOMAIN nets THEN MergeAp(nets[key], net) ELSE net]
    /\ todo' = Tail(todo)
    /\ UNCHANGED <<op, phase, pc, cur, act, left, found, listed, up, target, addr, result>>
    /\ Still(<<>>)

MarkKnown ==
    /\ pc = "merge" /\ todo = <<>>
    /\ Answer({[nets[k] EXCEPT !.known = KnownWifi(nets[k].ssid) # {}] : k \in DOMAIN nets})
    /\ Still(<<>>)

(* list_active_connections: a connection that went away is passed over,    *)
(* after a fresh list has confirmed that it did.  NetworkManager gives     *)
(* them in any order.                                                      *)
GetPaths ==
    /\ \/ pc = "get" /\ phase \in {"active", "vpn_info"}
       \/ pc = "vpn_get"
    /\ todo' \in SetToSeqs(DOMAIN conns)
    /\ pc' = CASE phase = "active" -> "path" [] phase = "vpn_info" -> "info" [] OTHER -> "vpn_path"
    /\ Still(<<op, phase, cur, act, left, found, nets, listed, up, target, addr, result>>)

(* Fault: the first connection that went away ends the listing.            *)
PathGoneStops ==
    /\ pc = "gone"
    /\ todo' = <<>> /\ pc' = "path"
    /\ UNCHANGED <<op, phase, cur, act, left, found, nets, listed, up, target, addr, result>>
    /\ Still(<<>>)
PathGone ==
    /\ pc = "gone"
    /\ \/ cur \in DOMAIN conns /\ Fail
       \/ /\ cur \notin DOMAIN conns
          /\ pc' = "path"
          /\ UNCHANGED <<op, phase, todo, cur, act, left, found, nets, listed, up, target, addr, result>>
    /\ Still(<<>>)

ReadPath ==
    /\ pc = "path" /\ todo # <<>>
    /\ cur' = Head(todo)
    /\ todo' = Tail(todo)
    /\ act' = IF Head(todo) \in DOMAIN conns THEN conns[Head(todo)] ELSE None
    /\ pc' = IF Head(todo) \in DOMAIN conns THEN "path_device" ELSE "gone"
    /\ UNCHANGED <<op, phase, left, found, nets, listed, up, target, addr, result>>
    /\ Still(<<>>)

(* The kind follows from the device and the profile; the SSID and the      *)
(* BSSID from the access point, or the SSID from the profile's name.       *)
ReadPathDevice ==
    /\ pc = "path_device"
    /\ LET wifi == act.dev \in plugged
           inRange == wifi /\ act.ap \in seen
       IN listed' = Append(listed,
              [path |-> cur,
               kind |-> IF wifi THEN "wifi" ELSE IF act.dev = None THEN "vpn" ELSE "other",
               dev |-> IF wifi THEN act.dev ELSE None,
               ssid |-> IF wifi THEN ApInfo[act.ap].ssid ELSE None,
               bssid |-> IF inRange THEN act.ap ELSE None])
    /\ pc' = "path"
    /\ UNCHANGED <<op, phase, todo, cur, act, left, found, nets, up, target, addr, result>>
    /\ Still(<<>>)

EndOfPaths ==
    /\ pc = "path" /\ todo = <<>>
    /\ \/ op.name = "active" /\ Answer(listed)
       \/ op.name = "snapshot" /\ target' = target /\ NextPhase("walk")
    /\ Still(<<>>)

(* list_saved_connections and list_vpn_connections: the profiles are       *)
(* listed, then read in any order; one that is gone by then is passed      *)
(* over.  Between the two, list_vpn_connections reads which are active.    *)
ListSaved ==
    /\ pc = "get" /\ phase \in {"saved", "vpns", "active_vpns"}
    /\ left' = kept
    /\ pc' = IF phase = "saved" THEN "profile" ELSE "vpn_get"
    /\ Still(<<op, phase, todo, cur, act, found, nets, listed, up, target, addr, result>>)

(* build_active_vpn_map, one active connection after the other.            *)
ReadVpnPath ==
    /\ pc = "vpn_path" /\ todo # <<>>
    /\ todo' = Tail(todo)
    /\ up' = up \union ({conns[p].vpn : p \in {Head(todo)} \intersect DOMAIN conns} \ {None})
    /\ Still(<<op, phase, pc, cur, act, left, found, nets, listed, target, addr, result>>)

EndOfVpnPaths ==
    /\ pc = "vpn_path" /\ todo = <<>>
    /\ pc' = "profile"
    /\ Still(<<op, phase, todo, cur, act, left, found, nets, listed, up, target, addr, result>>)

ReadProfile(v) ==
    /\ pc = "profile" /\ v \in left
    /\ left' = left \ {v}
    /\ listed' = IF v \in kept THEN Append(listed, [vpn |-> v, active |-> v \in up]) ELSE listed
    /\ Still(<<op, phase, pc, todo, cur, act, found, nets, up, target, addr, result>>)

EndOfProfiles ==
    /\ pc = "profile" /\ left = {}
    /\ Answer(IF op.name = "active_vpns" THEN LeaveOut(listed, {r \in ToSet(listed) : ~r.active})
              ELSE listed)
    /\ Still(<<>>)

(* get_vpn_info: the first active connection whose profile is a VPN of the *)
(* name; what is gone is passed over before it is found, not after.        *)
ReadInfoPath ==
    /\ pc = "info" /\ todo # <<>>
    /\ cur' = Head(todo)
    /\ todo' = Tail(todo)
    /\ act' = IF cur' \in DOMAIN conns THEN conns[cur'] ELSE None
    /\ pc' = IF cur' \in DOMAIN conns THEN "info_settings" ELSE "info"
    /\ Still(<<op, phase, left, found, nets, listed, up, target, addr, result>>)

ReadInfoSettings ==
    /\ pc = "info_settings"
    /\ pc' = IF act.vpn \in kept /\ VpnName[act.vpn] = op.arg THEN "info_device" ELSE "info"
    /\ Still(<<op, phase, todo, cur, act, left, found, nets, listed, up, target, addr, result>>)

(* The device of a WireGuard VPN goes with the connection, that of a       *)
(* plugin need not.                                                        *)
ReadInfoDevice ==
    /\ pc = "info_device"
    /\ \/ Answer(act.vpn)
       \/ cur \notin DOMAIN conns /\ Fail
    /\ Still(<<>>)

EndOfInfo ==
    /\ pc = "info" /\ todo = <<>>
    /\ Fail
    /\ Still(<<>>)

Return ==
    /\ pc = "done"
    /\ op' = Idle /\ phase' = "none" /\ pc' = "idle"
    /\ todo' = <<>> /\ cur' = None /\ act' = None /\ left' = {}
    /\ found' = <<>> /\ nets' = <<>> /\ listed' = <<>> /\ up' = {}
    /\ target' = None /\ addr' = None /\ result' = None
    /\ wasActive' = {} /\ steady' = {}
    /\ UNCHANGED envVars

Network ==
    \/ \E a \in Aps : ApAppears(a) \/ ApVanishes(a)
    \/ \E d \in Wifi, a \in Aps : Connects(d, a) \/ Roams(d, a)
    \/ \E d \in Wifi : Disconnects(d)
    \/ \E v \in Vpns : VpnUp(v) \/ VpnDown(v) \/ VpnForgotten(v)
    \/ \E d \in ToSet(AllDevices) : Unplugged(d)

Caller ==
    \/ \E o \in Ops : Begin(o)
    \/ GetDevices \/ GetPaths
    \/ \E d \in ToSet(AllDevices) :
          \/ SsidDevice(d) \/ PickDevice(d) \/ AddrDevice(d) \/ WalkDevice(d)
          \/ ScanDevice(d) \/ ListDevice(d) \/ ListWifiDevice(d) \/ ListWiredDevice(d)
    \/ SsidAp \/ SsidNone
    \/ PickAp \/ PickAddress \/ PickNone
    \/ AddrNone
    \/ ListAps \/ EndOfDevice \/ EndOfWalk
    \/ \E a \in Aps : ReadAp(a)
    \/ MergeNext \/ MarkKnown
    \/ ReadPath \/ PathGone \/ ReadPathDevice \/ EndOfPaths
    \/ ListSaved \/ ReadVpnPath \/ EndOfVpnPaths \/ EndOfProfiles
    \/ \E v \in Vpns : ReadProfile(v)
    \/ ReadInfoPath \/ ReadInfoSettings \/ ReadInfoDevice \/ EndOfInfo
    \/ Return

Next == Network \/ Caller

Spec == Init /\ [][Next]_vars

-----------------------------------------------------------------------------
Returned(name) == pc = "done" /\ op.name = name /\ result.ok

(* However the radio roams while its access points are read one by one, a  *)
(* listing shows at most one active access point per radio, and it was the *)
(* active one at some time during the call: the active one is read once,   *)
(* before the others (scan.rs:131).                                        *)
OneActivePerRadio ==
    /\ \A d \in Wifi : Cardinality({r \in ToSet(found) : r.dev = d /\ r.active}) <= 1
    /\ op.name \in {"networks", "snapshot"} =>
          \A r \in ToSet(found) : r.active => r.ap \in wasActive

(* A merged network is what its access points are together, in whatever    *)
(* order they were read: as strong as the strongest, represented by one of *)
(* that strength, which heads a list of every BSSID once; secured when any *)
(* is; with an address only if one of them is active.                      *)
MergedFaithful ==
    Returned("networks") =>
        \A n \in result.value :
            LET mine == {r.ap : r \in {q \in ToSet(found) :
                                   q.dev = n.dev /\ ApInfo[q.ap].ssid = n.ssid}}
            IN /\ ToSet(n.bssids) = mine /\ Len(n.bssids) = Cardinality(mine)
               /\ n.bssid = Head(n.bssids)
               /\ n.strength = ApInfo[n.bssid].strength
               /\ \A a \in mine : ApInfo[a].strength <= n.strength
               /\ n.secured = (\E a \in mine : ~IsOpen(DecodeSecurity(ApInfo[a])))
               /\ PreferredConnectType(n.security) = "open" =>
                      \A a \in mine : PreferredConnectType(DecodeSecurity(ApInfo[a])) = "open"
               /\ n.ip # None => n.active

(* The rows of a snapshot share out the visible access points: each is in  *)
(* exactly one row, behind none that is weaker; a profile bound to another *)
(* radio or to an absent BSSID is not attached; and at most one row of a   *)
(* radio is active.                                                        *)
RowsFaithful ==
    Returned("snapshot") =>
        /\ \A r \in ToSet(found) :
              Cardinality({w \in result.value : r \in ToSet(w.aps)})
                  = (IF ApInfo[r.ap].ssid = Hidden THEN 0 ELSE 1)
        /\ \A w \in result.value : \A i \in 1..(Len(w.aps) - 1) :
              ApInfo[w.aps[i].ap].strength >= ApInfo[w.aps[i + 1].ap].strength
        /\ \A w \in result.value, p \in Profiles :
              p \in w.saved <=>
                  /\ p \in KnownWifi(w.ssid)
                  /\ p.dev = None \/ p.dev = w.dev
                  /\ p.ap = None \/ \E r \in ToSet(w.aps) : r.ap = p.ap
        /\ \A d \in Wifi : Cardinality({w \in result.value : w.dev = d /\ w.active}) <= 1

(* Connections and profiles that come and go do not disturb the listing of *)
(* the others: it never fails, and what was up, or saved, all through the  *)
(* call is in it, once (active_connection.rs:52-64, vpn.rs:447-502).  A    *)
(* VPN listed active was active during the call, and one that was up all   *)
(* through is listed so; get_vpn_info finds it if no other has its name.   *)
Once(list, x) == Cardinality({i \in DOMAIN list : x = list[i]}) = 1
Listings == {"active", "saved", "vpns", "active_vpns"}
StableReported ==
    LET rows == result.value
        steadyVpns == {conns[p].vpn : p \in steady} \ {None}
    IN /\ pc = "done" /\ op.name \in Listings => result.ok
       /\ Returned("active") =>
              \A p \in steady : Cardinality({i \in DOMAIN rows : rows[i].path = p}) = 1
       /\ Returned("saved") \/ Returned("vpns") =>
              \A v \in kept : Cardinality({i \in DOMAIN rows : rows[i].vpn = v}) = 1
       /\ Returned("vpns") \/ Returned("active_vpns") =>
              /\ \A v \in steadyVpns : Once(rows, [vpn |-> v, active |-> TRUE])
              /\ \A i \in DOMAIN rows : rows[i].active => rows[i].vpn \in wasActive
       /\ pc = "done" /\ op.name = "vpn_info" =>
              /\ result.ok => rows \in wasActive /\ VpnName[rows] = op.arg
              /\ \A v \in steadyVpns :
                    (VpnName[v] = op.arg
                     /\ \A w \in Vpns \intersect wasActive : VpnName[w] = op.arg => w = v)
                        => result.ok /\ rows = v

(* current_network names a network that some radio was connected to during *)
(* the call, with the SSID that was found first.                           *)
CurrentWasConnected ==
    Returned("current") /\ result.value # None =>
        result.value.bssid \in wasActive /\ result.value.ssid = target
=============================================================================
