------------------------------ MODULE Profiles ------------------------------
(***************************************************************************)
(* Saved profiles other than Wi-Fi's and the calls that use them: VPN      *)
(* connections (core/vpn.rs), OpenVPN import with its certificate store    *)
(* (builders/openvpn_builder.rs, util/cert_store.rs), Bluetooth            *)
(* (core/bluetooth.rs), wired (core/connection.rs) and custom connections  *)
(* (core/custom_connection.rs), and the editing of profiles                *)
(* (core/saved_connection.rs).  Most calls hold the connect guard of       *)
(* NetworkManager (api/network_manager.rs); importing takes it after the   *)
(* certificates are stored, and editing, renaming included, does without.  *)
(*                                                                         *)
(* A profile has a path, which stands for its UUID too and is used for one *)
(* profile only.  Whoever looks for a profile has NetworkManager list the  *)
(* paths, in any order, and reads the settings of each by a call of its    *)
(* own; what it does with the one it is after is again another call.       *)
(***************************************************************************)
EXTENDS Integers, FiniteSets

CONSTANTS
    Paths,      \* paths of profiles
    Names,      \* connection.id values
    Keys,       \* settings of a profile that a patch may set: "id" is its name
    Calls,      \* calls of the library, each made once
    OpsOf,      \* the operations each may be: [op, name, path, key]
    Starts,     \* profiles there may be at the start
    MaxOthers,  \* bound on what other programs do
    None

Guarded == {"connect_vpn", "connect_vpn_by_uuid", "connect_vpn_by_id", "disconnect_vpn",
            "disconnect_vpn_by_uuid", "forget_vpn", "connect_bluetooth", "forget_bluetooth",
            "connect_wired", "add_and_activate"}
Operations == Guarded \cup {"import_ovpn", "update", "delete", "add"}
Kinds == {"openvpn", "wireguard", "bluetooth", "wired"}
VpnKinds == {"openvpn", "wireguard"}
Answers == {"ok", "failed", "invalid", "not found", "ambiguous", "stuck"}

(* What a call is asked for: a name, or the path its UUID stands for; an   *)
(* update, the setting to change and, if that is "id", the new name.       *)
Op == [op : Operations, name : Names \cup {None}, path : Paths \cup {None},
       key : Keys \cup {None}, kind : Kinds \cup {None}]

NoProfile == [id |-> None, kind |-> None, certs |-> None, by |-> None, renamed |-> FALSE,
              unsaved |-> FALSE, set |-> [k \in Keys |-> None]]

(* certs is the name under which the certificates were stored that the     *)
(* profile's paths lead to; by (history) the call that made it, renamed    *)
(* (history) that it has had another name since; set, which update wrote   *)
(* each setting.                                                           *)
Settings == [id : Names, kind : Kinds, certs : Names \cup {None}, by : Calls \cup {None},
             renamed : BOOLEAN, unsaved : BOOLEAN, set : [Keys -> Calls \cup {None}]]

(* What makes a profile names it and gives its type; the profiles of the   *)
(* start were made by no call.                                             *)
ASSUME ProfilesAssumption ==
    /\ None \notin Paths \cup Names \cup Keys \cup Calls \cup Op \cup Answers
    /\ \A c \in Calls : OpsOf[c] \subseteq Op
    /\ \A c \in Calls : \A o \in OpsOf[c] :
          o.op \in {"connect_vpn", "import_ovpn", "connect_bluetooth", "connect_wired",
                   "add_and_activate", "add"} => o.name \in Names /\ o.kind \in Kinds
    /\ \A c \in Calls : \A o \in OpsOf[c] :
          (o.op = "forget_vpn" \/ (o.op = "update" /\ o.key = "id")) => o.name \in Names
    /\ Starts \subseteq [Paths -> Settings \cup {NoProfile}]
    /\ \A f \in Starts, p \in Paths : f[p].by = None
    /\ MaxOthers \in Nat

VARIABLES
    saved,      \* the profile at each path, or NoProfile
    fresh,      \* paths not used so far
    active,     \* the active connection of each profile: its state, or "none"
    certs,      \* <<n, c>>: what import c stored under the name n is there, unharmed
    guard,      \* the call that holds the connect guard, or None
    others,     \* what other programs did
    call        \* the calls

world == <<saved, fresh, active, certs, others>>
vars == <<world, guard, call>>

(* A call: its operation, what it does next, the profile it works on, the  *)
(* profiles it has still to read, the settings and the unsaved flag it     *)
(* read, its answer; overlapped (history): an update of the profile was    *)
(* written after the call had read its settings and before it used them.   *)
Idle == [op |-> None, at |-> "idle", path |-> None, left |-> {},
         copy |-> NoProfile, result |-> None, overlapped |-> FALSE]
Is(c, op, stage) == call[c].at = stage /\ call[c].op.op \in op
Active(c) == call[c].at \notin {"idle", "done"}
Saved == {p \in Paths : saved[p] # NoProfile}
Named(n) == {p \in Saved : saved[p].id = n}
Vpns == {p \in Saved : saved[p].kind \in VpnKinds}

Init ==
    /\ saved \in Starts
    /\ fresh = {p \in Paths : saved[p] = NoProfile}
    /\ active \in [Paths -> {"none", "activated"}]
    /\ \A p \in Paths : active[p] # "none" => saved[p] # NoProfile
    /\ certs = {<<saved[p].certs, None>> : p \in {q \in Paths : saved[q].certs # None}}
    /\ guard = None
    /\ others = 0
    /\ call = [c \in Calls |-> Idle]

-----------------------------------------------------------------------------
(* NetworkManager and other programs.                                      *)

Activates(p) ==
    /\ active[p] = "activating"
    /\ active' = [active EXCEPT ![p] = "activated"]
    /\ UNCHANGED <<saved, fresh, certs, others, guard, call>>

Drops(p) ==
    /\ active[p] = "activating" \/ (active[p] = "activated" /\ others < MaxOthers)
    /\ others' = IF active[p] = "activated" THEN others + 1 ELSE others
    /\ active' = [active EXCEPT ![p] = "none"]
    /\ UNCHANGED <<saved, fresh, certs, guard, call>>

(* Profiles that use one device take each other's place on it.             *)
SameDevice(p, q) == saved[p].kind = saved[q].kind /\ saved[p].kind \notin VpnKinds
Activated(p) == [q \in Paths |-> IF q = p THEN "activating"
                                 ELSE IF SameDevice(p, q) THEN "none" ELSE active[q]]
Profile(c, kind, id) ==
    [NoProfile EXCEPT !.id = id, !.kind = kind, !.by = c,
                      !.certs = IF call[c].op.op = "import_ovpn" THEN id ELSE None]

-----------------------------------------------------------------------------
(* The parts calls are made of.                                            *)

Goto(c, stage) == call' = [call EXCEPT ![c].at = stage] /\ UNCHANGED guard

(* On with profile p, the settings of which the call has just read.        *)
GotoWith(c, stage, p) ==
    /\ call' = [call EXCEPT ![c] = [@ EXCEPT !.at = stage, !.path = p, !.left = {},
                                             !.overlapped = FALSE]]
    /\ UNCHANGED guard

(* The paths are listed, to read the settings of each; one is done with.   *)
GoOver(c, stage, paths) ==
    call' = [call EXCEPT ![c].at = stage, ![c].left = paths] /\ UNCHANGED guard
Pass(c, p) == call' = [call EXCEPT ![c].left = @ \ {p}] /\ UNCHANGED guard

(* The guard goes when the call returns, whatever it returns.              *)
Answer(c, r) ==
    /\ call' = [call EXCEPT ![c] = [@ EXCEPT !.at = "done", !.result = r, !.left = {},
                                             !.copy = NoProfile]]
    /\ guard' = IF guard = c THEN None ELSE guard

FirstStage(op) ==
    CASE op \in {"connect_vpn", "import_ovpn"} -> "lookup"
      [] op = "connect_vpn_by_uuid" -> "resolve"
      [] op = "connect_vpn_by_id" -> "list"
      [] op \in {"disconnect_vpn", "disconnect_vpn_by_uuid", "forget_vpn"} -> "off"
      [] op \in {"connect_bluetooth", "connect_wired"} -> "device"
      [] op \in {"forget_bluetooth", "add_and_activate"} -> "free"

Begin(c) ==
    /\ call[c].at = "idle"
    /\ \E o \in OpsOf[c] :
        call' = [call EXCEPT ![c] =
            [@ EXCEPT !.op = o, !.path = o.path,
                      !.at = CASE o.op \in Guarded -> "lock"
                               [] o.op = "import_ovpn" -> "store"
                               [] o.op = "add" -> "add only"
                               [] OTHER -> "resolve"]]
    /\ UNCHANGED <<world, guard>>

(* from_ovpn_file writes the inline certificates under the profile's name, *)
(* before the rest of the file is found to be complete and before the      *)
(* guard is asked for.  It writes over what was there of the same kinds,   *)
(* whosever it is; it may fail at any of the files.                        *)
Under(n) == {x \in certs : x[1] = n}
StoreCerts(c) ==
    /\ Is(c, {"import_ovpn"}, "store")
    /\ \E lost \in SUBSET (Under(call[c].op.name) \ {<<call[c].op.name, c>>}) :
        \/ /\ certs' = (certs \ lost) \cup {<<call[c].op.name, c>>}
           /\ (Goto(c, "lock") \/ Answer(c, "invalid"))
        \/ certs' = certs \ lost /\ Answer(c, "invalid")
    /\ UNCHANGED <<saved, fresh, active, others>>

(* Fault: the calls are not serialised.                                    *)
LockShared(c) ==
    /\ call[c].at = "lock"
    /\ guard' = c
    /\ call' = [call EXCEPT ![c].at = FirstStage(call[c].op.op)]
    /\ UNCHANGED world

Lock(c) ==
    /\ call[c].at = "lock" /\ guard = None
    /\ guard' = c
    /\ call' = [call EXCEPT ![c].at = FirstStage(call[c].op.op)]
    /\ UNCHANGED world

(* The already connected device ends a Bluetooth or wired connect.  A      *)
(* Bluetooth device goes by its address, not by the profile's name: one    *)
(* that was renamed may be of this device or of another.                   *)
CheckDevice(c) ==
    /\ call[c].at = "device"
    /\ LET on == {p \in Saved : active[p] = "activated" /\ saved[p].kind = call[c].op.kind}
           bluetooth == call[c].op.op = "connect_bluetooth"
       IN \/ /\ \E p \in on : bluetooth => saved[p].renamed \/ saved[p].id = call[c].op.name
             /\ Answer(c, "ok")
          \/ /\ \A p \in on : bluetooth /\ (saved[p].renamed \/ saved[p].id # call[c].op.name)
             /\ Goto(c, "lookup")
          \/ Answer(c, "not found")
    /\ UNCHANGED world

(* find_saved_connection_by_name: ListConnections, then GetSettings of     *)
(* each.  An error of any of them ends the call, that a profile is gone    *)
(* included.                                                               *)
Lookup(c) ==
    /\ call[c].at = "lookup"
    /\ (GoOver(c, "find", Saved) \/ Answer(c, "failed"))
    /\ UNCHANGED world

(* The first profile of the name is used whatever its type and its         *)
(* settings; only without one a profile is made, of a configuration found  *)
(* valid.                                                                  *)
FindSaved(c) ==
    /\ call[c].at = "find"
    /\ \/ \E p \in call[c].left \cap Named(call[c].op.name) : GotoWith(c, "activate", p)
       \/ \E p \in (call[c].left \cap Saved) \ Named(call[c].op.name) : Pass(c, p)
       \/ call[c].left # {} /\ Answer(c, "failed")
       \/ call[c].left = {} /\ (Goto(c, "add") \/ Answer(c, "invalid"))
    /\ UNCHANGED world

(* AddConnection, and in the same call to NetworkManager its activation    *)
(* where the code uses AddAndActivateConnection.                           *)
Add(c) ==
    /\ call[c].at \in {"add", "add only"}
    /\ \/ \E p \in fresh :
            /\ saved' = [saved EXCEPT ![p] = Profile(c, call[c].op.kind, call[c].op.name)]
            /\ fresh' = fresh \ {p}
            /\ IF call[c].at = "add only" THEN active' = active /\ Answer(c, "ok")
               ELSE IF call[c].op.op \in {"connect_vpn", "import_ovpn"}
               THEN active' = active /\ GotoWith(c, "activate", p)
               ELSE /\ active' = [q \in Paths |->
                            IF q = p THEN "activating"
                            ELSE IF saved[q].kind = call[c].op.kind THEN "none" ELSE active[q]]
                    /\ GotoWith(c, "wait", p)
       \/ Answer(c, "failed") /\ UNCHANGED <<saved, fresh, active>>
    /\ UNCHANGED <<certs, others>>

Activate(c) ==
    /\ call[c].at = "activate"
    /\ \/ call[c].path \in Saved /\ active' = Activated(call[c].path) /\ Goto(c, "wait")
       \/ Answer(c, "failed") /\ UNCHANGED active
    /\ UNCHANGED <<saved, fresh, certs, others>>

(* The wait ends with the activation, its failure or the timeout; nothing  *)
(* undoes the profile.  connect_vpn then looks once more.                  *)
Wait(c) ==
    /\ call[c].at = "wait"
    /\ \/ /\ active[call[c].path] = "activated"
          /\ IF call[c].op.op \in {"connect_vpn", "import_ovpn"} THEN Goto(c, "check")
             ELSE Answer(c, "ok")
       \/ active[call[c].path] = "none" /\ Answer(c, "failed")
       \/ Answer(c, "stuck")
    /\ UNCHANGED world

Check(c) ==
    /\ call[c].at = "check"
    /\ Answer(c, CASE active[call[c].path] = "activated" -> "ok"
                   [] active[call[c].path] = "none" -> "failed"
                   [] OTHER -> "stuck")
    /\ UNCHANGED world

(* connect_vpn_by_id lists the VPNs and goes on with the UUID of the one   *)
(* of the name.  A profile that cannot be read is passed over; after the   *)
(* second of the name nothing else matters.                                *)
ListVpns(c) ==
    /\ call[c].at = "list"
    /\ (GoOver(c, "list each", Saved) \/ Answer(c, "failed"))
    /\ UNCHANGED world

ReadVpn(c) ==
    /\ call[c].at = "list each"
    /\ \/ \E p \in call[c].left : Pass(c, p)
       \/ \E p \in call[c].left \cap Named(call[c].op.name) \cap Vpns :
            \/ /\ call[c].path = None
               /\ call' = [call EXCEPT ![c].left = @ \ {p}, ![c].path = p]
               /\ UNCHANGED guard
            \/ call[c].path # None /\ Answer(c, "ambiguous")
       \/ /\ call[c].left = {}
          /\ IF call[c].path = None THEN Answer(c, "not found") ELSE Goto(c, "resolve")
    /\ UNCHANGED world

EmptyPatch(c) == call[c].op.op = "update" /\ call[c].op.key = None

(* GetConnectionByUuid, for connecting, editing and deleting; every error  *)
(* counts as no such profile.                                              *)
Resolve(c) ==
    /\ call[c].at = "resolve"
    /\ \/ Answer(c, "not found")
       \/ call[c].path \in Saved /\ ~EmptyPatch(c)
          /\ Goto(c, CASE call[c].op.op = "update" -> "read"
                       [] call[c].op.op = "delete" -> "delete"
                       [] OTHER -> "activate")
       \/ call[c].path \in Saved /\ EmptyPatch(c) /\ Answer(c, "ok")
    /\ UNCHANGED world

(* What disconnect_vpn and disconnect_vpn_by_uuid do next when they are    *)
(* through; to forget_vpn no error matters.                                *)
Off(c, answer) ==
    IF call[c].op.op = "forget_vpn" THEN Goto(c, "forget") ELSE Answer(c, answer)

(* Both list the active connections.  The UUID's form takes those it       *)
(* cannot list for none.                                                   *)
ListActive(c) ==
    /\ call[c].at = "off"
    /\ \/ GoOver(c, "off each", {p \in Saved : active[p] # "none"})
       \/ Off(c, IF call[c].op.op = "disconnect_vpn_by_uuid" THEN "ok" ELSE "failed")
    /\ UNCHANGED world

(* Fault: an active connection is chosen by its name alone.                *)
MeantByName(c, p) ==
    IF call[c].op.op = "disconnect_vpn_by_uuid" THEN p = call[c].op.path
    ELSE p \in Named(call[c].op.name)

(* The active connection meant: of the UUID, or of a VPN of the name.      *)
Meant(c, p) ==
    IF call[c].op.op = "disconnect_vpn_by_uuid" THEN p = call[c].op.path
    ELSE p \in Named(call[c].op.name) \cap Vpns

(* The active connection, then the settings of its profile are read; one   *)
(* that cannot be read is passed over.  None meant is as good as one that  *)
(* is deactivated.                                                         *)
ReadActive(c) ==
    /\ call[c].at = "off each"
    /\ \/ \E p \in call[c].left : Pass(c, p)
       \/ \E p \in call[c].left : /\ active[p] # "none" /\ Meant(c, p)
                                  /\ GotoWith(c, "deactivate", p)
       \/ call[c].left = {} /\ Off(c, "ok")
    /\ UNCHANGED world

Deactivate(c) ==
    /\ call[c].at = "deactivate"
    /\ \/ /\ active[call[c].path] # "none"
          /\ active' = [active EXCEPT ![call[c].path] = "none"]
          /\ Off(c, "ok")
       \/ active' = active /\ Off(c, "failed")
    /\ UNCHANGED <<saved, fresh, certs, others>>

Removed(p) == [saved EXCEPT ![p] = NoProfile]
Without(p) == [active EXCEPT ![p] = "none"]

(* forget_vpn then lists the profiles and reads the settings of each, but  *)
(* for those it cannot read, up to the first VPN of the name.              *)
ForgetVpn(c) ==
    /\ call[c].at = "forget"
    /\ (GoOver(c, "forget each", Saved) \/ Answer(c, "failed"))
    /\ UNCHANGED world

FindForgotten(c) ==
    /\ call[c].at = "forget each"
    /\ \/ \E p \in call[c].left : Pass(c, p)
       \/ \E p \in call[c].left \cap Named(call[c].op.name) \cap Vpns :
            GotoWith(c, "delete vpn", p)
       \/ call[c].left = {} /\ Answer(c, "ok")
    /\ UNCHANGED world

(* Fault: the certificates go first.                                       *)
DeleteVpnLast(c) ==
    /\ call[c].at = "delete vpn"
    /\ certs' = certs \ Under(call[c].op.name)
    /\ \/ /\ call[c].path \in Saved /\ saved' = Removed(call[c].path)
          /\ active' = Without(call[c].path) /\ Answer(c, "ok")
       \/ Answer(c, "failed") /\ UNCHANGED <<saved, active>>
    /\ UNCHANGED <<fresh, others>>

(* That one is deleted, whatever its name is now; the certificates of an   *)
(* OpenVPN one go after it.                                                *)
DeleteVpn(c) ==
    /\ call[c].at = "delete vpn"
    /\ \/ /\ call[c].path \in Saved
          /\ saved' = Removed(call[c].path) /\ active' = Without(call[c].path)
          /\ IF saved[call[c].path].kind = "openvpn" THEN Goto(c, "clean") ELSE Answer(c, "ok")
       \/ Answer(c, "failed") /\ UNCHANGED <<saved, active>>
    /\ UNCHANGED <<fresh, certs, others>>

(* The directory of the name forget_vpn was asked for is removed, whoever  *)
(* stored what is in it; an error, that may leave a part, is passed over.  *)
CleanupCerts(c) ==
    /\ call[c].at = "clean"
    /\ \E lost \in SUBSET Under(call[c].op.name) : certs' = certs \ lost
    /\ Answer(c, "ok")
    /\ UNCHANGED <<saved, fresh, active, others>>

(* disconnect_wifi_and_wait or disconnect_bluetooth_and_wait, for every    *)
(* device of the kind.                                                     *)
Free(c, next) ==
    /\ LET on == {p \in Saved : saved[p].kind = call[c].op.kind /\ active[p] # "none"}
       IN \/ /\ active' = [p \in Paths |-> IF p \in on THEN "none" ELSE active[p]]
             /\ Goto(c, next)
          \/ on # {} /\ active' = active /\ Answer(c, "stuck")
    /\ UNCHANGED <<saved, fresh, certs, others>>

(* A custom connection frees the device it is for; for want of a device,   *)
(* or when the settings do not say which, the call is over.  A VPN needs   *)
(* none.                                                                   *)
FreeDevice(c) ==
    /\ Is(c, {"add_and_activate"}, "free")
    /\ \/ call[c].op.kind \notin VpnKinds /\ Free(c, "add")
       \/ call[c].op.kind \in VpnKinds /\ Goto(c, "add") /\ UNCHANGED world
       \/ Answer(c, "not found") /\ UNCHANGED world

(* forget_bluetooth frees every Bluetooth device, of whatever name.        *)
FreeBluetooth(c) ==
    /\ Is(c, {"forget_bluetooth"}, "free")
    /\ Free(c, "profiles")

(* Then it lists the profiles and deletes those of the name, of any type;  *)
(* one that cannot be read, and a deletion that fails, are passed over.    *)
ListProfiles(c) ==
    /\ call[c].at = "profiles"
    /\ (GoOver(c, "each", Saved) \/ Answer(c, "failed"))
    /\ UNCHANGED world

ForgetEach(c) ==
    /\ call[c].at = "each"
    /\ \/ \E p \in call[c].left : Pass(c, p)
       \/ \E p \in call[c].left \cap Named(call[c].op.name) :
            /\ call' = [call EXCEPT ![c].at = "delete each", ![c].path = p, ![c].left = @ \ {p}]
            /\ UNCHANGED guard
       \/ call[c].left = {} /\ Answer(c, "ok")
    /\ UNCHANGED world

DeleteEach(c) ==
    /\ call[c].at = "delete each"
    /\ Goto(c, "each")
    /\ \/ /\ call[c].path \in Saved
          /\ saved' = Removed(call[c].path) /\ active' = Without(call[c].path)
       \/ UNCHANGED <<saved, active>>
    /\ UNCHANGED <<fresh, certs, others>>

DeleteProfile(c) ==
    /\ call[c].at = "delete"
    /\ \/ call[c].path \in Saved /\ saved' = Removed(call[c].path)
          /\ active' = Without(call[c].path) /\ Answer(c, "ok")
       \/ Answer(c, "failed") /\ UNCHANGED <<saved, active>>
    /\ UNCHANGED <<fresh, certs, others>>

(* update_saved_connection: GetSettings, the patch merged into the copy,   *)
(* the Unsaved property, and the whole settings written back, to disk only *)
(* if the profile was there.                                               *)
ReadSettings(c) ==
    /\ call[c].at = "read"
    /\ \/ call[c].path \in Saved
          /\ call' = [call EXCEPT ![c].at = "unsaved", ![c].copy = saved[call[c].path]]
          /\ UNCHANGED guard
       \/ Answer(c, "failed")
    /\ UNCHANGED world

ReadUnsaved(c) ==
    /\ call[c].at = "unsaved"
    /\ \/ call[c].path \in Saved
          /\ call' = [call EXCEPT ![c].at = "write",
                                  ![c].copy.unsaved = saved[call[c].path].unsaved]
          /\ UNCHANGED guard
       \/ Answer(c, "failed")
    /\ UNCHANGED world

(* The name of the settings once the patch is in.                          *)
Renamed(s, c) == IF call[c].op.key = "id" THEN call[c].op.name ELSE s.id

(* Fault: the patch is written in place of the settings.                   *)
PatchOnly(s, c) ==
    [s EXCEPT !.set = [k \in Keys |-> IF k = call[c].op.key THEN c ELSE None],
              !.id = Renamed(s, c)]

Merged(s, c) == [s EXCEPT !.set = [@ EXCEPT ![call[c].op.key] = c], !.id = Renamed(s, c)]

(* The name goes back with the rest, as it was read unless the patch has   *)
(* another.  Nothing changes the kind of a profile or the paths of its     *)
(* certificates: they are the same in every copy.                          *)
Written(c) ==
    LET new == Merged(call[c].copy, c)
        old == saved[call[c].path]
    IN [old EXCEPT !.set = new.set, !.id = new.id, !.unsaved = new.unsaved,
                   !.renamed = old.renamed \/ new.id # old.id]

(* The stages at which a call has read the settings it is about to use.    *)
HasRead(d, p) ==
    /\ call[d].at \in {"unsaved", "write", "deactivate", "delete vpn"}
    /\ call[d].path = p

WriteSettings(c) ==
    /\ call[c].at = "write"
    /\ \/ /\ call[c].path \in Saved
          /\ saved' = [saved EXCEPT ![call[c].path] = Written(c)]
          /\ call' = [d \in Calls |->
                IF d = c THEN [call[c] EXCEPT !.at = "done", !.result = "ok", !.copy = NoProfile]
                ELSE IF HasRead(d, call[c].path) THEN [call[d] EXCEPT !.overlapped = TRUE]
                ELSE call[d]]
          /\ UNCHANGED guard
       \/ Answer(c, "failed") /\ UNCHANGED saved
    /\ UNCHANGED <<fresh, active, certs, others>>

-----------------------------------------------------------------------------
CallStep(c) ==
    \/ StoreCerts(c)
    \/ Lock(c)
    \/ CheckDevice(c)
    \/ Lookup(c)
    \/ FindSaved(c)
    \/ Add(c)
    \/ Activate(c)
    \/ Wait(c)
    \/ Check(c)
    \/ ListVpns(c)
    \/ ReadVpn(c)
    \/ Resolve(c)
    \/ ListActive(c)
    \/ ReadActive(c)
    \/ Deactivate(c)
    \/ ForgetVpn(c)
    \/ FindForgotten(c)
    \/ DeleteVpn(c)
    \/ CleanupCerts(c)
    \/ FreeDevice(c)
    \/ FreeBluetooth(c)
    \/ ListProfiles(c)
    \/ ForgetEach(c)
    \/ DeleteEach(c)
    \/ DeleteProfile(c)
    \/ ReadSettings(c)
    \/ ReadUnsaved(c)
    \/ WriteSettings(c)

Next ==
    \/ \E p \in Paths : Activates(p) \/ Drops(p)
    \/ \E c \in Calls : Begin(c) \/ CallStep(c)

Spec == Init /\ [][Next]_vars

-----------------------------------------------------------------------------

(* The shape of the variables.                                              *)
TypeOK ==
    /\ \A p \in Paths : saved[p] = NoProfile \/
        /\ saved[p].id \in Names /\ saved[p].kind \in Kinds
        /\ saved[p].set \in [Keys -> Calls \cup {None}]
    /\ fresh \subseteq Paths \ Saved
    /\ \A p \in Paths : active[p] = "none" \/
            (active[p] \in {"activating", "activated"} /\ p \in Saved)
    /\ certs \subseteq Names \X (Calls \cup {None})
    /\ guard \in Calls \cup {None}
    /\ \A c \in Calls : call[c].result \in Answers \cup {None}

(* However connects and imports of one name overlap, and whatever happens  *)
(* to the profiles while they look through them, no two profiles of the    *)
(* name come of them but by renaming one: between the first that is read   *)
(* and the one that is added, the guard keeps the others from adding, and  *)
(* a profile whose activation failed stays and is found                    *)
(* (connection_settings.rs:24, vpn.rs:676, bluetooth.rs:138,               *)
(* connection.rs:160).  An update, which holds no guard, can give a        *)
(* profile the name after it was read.                                     *)
ByConnect(p) ==
    /\ saved[p].by # None
    /\ call[saved[p].by].op.op \in {"connect_vpn", "import_ovpn", "connect_bluetooth",
                                    "connect_wired"}
NoTwins ==
    \A p, q \in Saved :
        (p # q /\ ByConnect(p) /\ ByConnect(q) /\ saved[p].id = saved[q].id) =>
            saved[p].renamed \/ saved[q].renamed

(* Disconnecting and forgetting a VPN deletes and takes down nothing but   *)
(* VPNs of the name, or of the UUID, whatever else bears the name; only a  *)
(* VPN that was edited between the reading of its settings and the call    *)
(* that acts on them may have another name by then (disconnect_vpn,        *)
(* disconnect_vpn_by_uuid, forget_vpn).                                    *)
VpnOpsSpare ==
    [][\A c \in Calls, p \in Saved :
        (/\ Active(c) /\ call'[c].at # call[c].at
         /\ call[c].op.op \in {"disconnect_vpn", "disconnect_vpn_by_uuid", "forget_vpn"}
         /\ saved'[p] # saved[p] \/ (active[p] # "none" /\ active'[p] = "none"))
            => \/ p = call[c].op.path
               \/ /\ saved[p].kind \in VpnKinds
                  /\ saved[p].id = call[c].op.name \/ call[c].overlapped]_vars

(* No update, of the name or of another setting, is lost but to one of the *)
(* same setting, or to one that read the settings before it and wrote them *)
(* after: update_saved_connection writes back all it read, the name too,   *)
(* without a guard or a version.                                           *)
Carries(s, c) ==
    /\ s.set[call[c].op.key] = c
    /\ call[c].op.key = "id" => s.id = call[c].op.name
UpdatesKept ==
    \A c \in Calls :
        (/\ call[c].op # None /\ call[c].result = "ok"
         /\ call[c].op.op = "update" /\ call[c].op.key # None /\ call[c].path \in Saved) =>
            \/ Carries(saved[call[c].path], c)
            \/ \E d \in Calls \ {c} :
                /\ call[d].op # None /\ call[d].op.op = "update" /\ call[d].result = "ok"
                /\ call[d].path = call[c].path
                /\ call[d].overlapped \/ call[d].op.key = call[c].op.key

(* What was stored for a profile stays where its paths lead, renamed or    *)
(* not, but for two things: a forget that was answered with Ok of the name *)
(* it was stored under, and another import of that name that has written   *)
(* its own (cert_store.rs).  A forget that fails, one of the name the      *)
(* profile has now, deleting it and editing it leave the files alone.      *)
HasCerts(p) == saved[p].certs # None => <<saved[p].certs, saved[p].by>> \in certs
TakesCerts(c, n, owner) ==
    /\ call[c].op # None /\ call[c].op.name = n
    /\ \/ call[c].op.op = "forget_vpn" /\ call[c].result = "ok"
       \/ call[c].op.op = "import_ovpn" /\ call[c].at # "store" /\ c # owner
CertsStay ==
    \A p \in Saved :
        HasCerts(p) \/ \E c \in Calls : TakesCerts(c, saved[p].certs, saved[p].by)

(* Importing persists the certificates and builds the profile that needs   *)
(* them (network_manager.rs:742): no profile imported lacks them.          *)
ImportedHaveCerts == \A p \in Saved : saved[p].by # None => HasCerts(p)

=============================================================================
