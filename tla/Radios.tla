------------------------------- MODULE Radios -------------------------------
(***************************************************************************)
(* The radio switches: NetworkManager's Wi-Fi and WWAN flags, the power of *)
(* BlueZ's Bluetooth adapters with the kernel's rfkill blocks, and the     *)
(* airplane mode that flips all three in parallel.  core/airplane.rs,      *)
(* core/rfkill.rs, core/wifi_device.rs and models/radio.rs.                *)
(*                                                                         *)
(* A call has a branch for each radio it touches; a branch is a task whose *)
(* awaits are separate steps, and the call answers when all have ended.    *)
(***************************************************************************)
EXTENDS Integers, FiniteSets

CONSTANTS
    Calls,      \* calls of the library, each made once
    OpsOf,      \* the operations each may be
    Adapters,   \* the Bluetooth adapters of the host
    Hosts,      \* hosts: what they have and how their radios are at the start
    MaxChanges  \* bound on what others do to the radios

ASSUME RadiosAssumption ==
    /\ IsFiniteSet(Adapters)
    /\ OpsOf \in [Calls -> SUBSET {"wireless", "wwan", "bluetooth", "airplane", "state",
                                   "interface"}]
    /\ Hosts \subseteq [types : SUBSET {"wifi", "modem"},
                        killed : SUBSET {"wifi", "wwan", "bt"},
                        switch : [{"wifi", "wwan"} -> BOOLEAN],
                        bluez : BOOLEAN, soft : BOOLEAN,
                        power : [Adapters -> BOOLEAN]]
    /\ MaxChanges \in Nat

VARIABLES
    types,      \* device types NetworkManager has: "wifi", "modem"
    switch,     \* WirelessEnabled and WwanEnabled
    killed,     \* radios rfkill reports as hard blocked
    soft,       \* rfkill's soft block of Bluetooth
    bluez,      \* whether BlueZ runs
    power,      \* Powered of each adapter
    asked,      \* values of Powered that BlueZ accepted and has not applied
    card,       \* Autoconnect and the activity of the Wi-Fi device
    changes,    \* number of changes made by others
    call        \* the calls

world == <<types, switch, killed, soft, bluez, power, asked, card, changes>>
vars == <<world, call>>

Unknown == {"unknown"}                  \* the device types could not be listed
NmRadios == {"wifi", "wwan"}
DeviceType == [wifi |-> "wifi", wwan |-> "modem"]
Branches(op) ==
    CASE op = "wireless" -> {"wifi"}
      [] op = "wwan" -> {"wwan"}
      [] op = "bluetooth" -> {"bt"}
      [] op = "interface" -> {"card"}
      [] op \in {"airplane", "state"} -> {"wifi", "wwan", "bt"}
      [] OTHER -> {}

Over == {"ok", "failed", "unavailable", "toggle failed", "not found", "not wifi"}
Stages == Over \cup {"none", "types", "todo", "list", "toggle", "wait", "verify", "down"}

(* A call: op and its argument, the device types it read, the stage of each *)
(* branch, the adapters it listed, those still awaited, the Powered values  *)
(* in the caches of its proxies, what it read, whether an adapter refused   *)
(* or could not be read, its answer; calm (history) says that nothing but   *)
(* the call moved a radio.  A reading is whether the radio is on, whether   *)
(* its hardware is enabled, whether it is present and (history) whether all *)
(* that it rests on could be read.                                          *)
Idle == [op |-> "none", on |-> FALSE, known |-> {},
         at |-> [b \in {"wifi", "wwan", "bt", "card"} |-> "none"],
         listed |-> {}, left |-> {}, seen |-> [a \in Adapters |-> FALSE],
         read |-> [r \in {"wifi", "wwan", "bt"} |-> <<FALSE, FALSE, FALSE, FALSE>>],
         missed |-> FALSE, result |-> "none", calm |-> FALSE]

Active(c) == call[c].op # "none" /\ call[c].result = "none"
Settled == /\ \A a \in Adapters : asked[a] = {}
           /\ ~(soft /\ \E a \in Adapters : power[a])
Disturbed(f) == [c \in Calls |-> [f[c] EXCEPT !.calm = FALSE]]

Init ==
    /\ \E h \in Hosts :
        /\ types = h.types /\ killed = h.killed /\ switch = h.switch
        /\ bluez = h.bluez /\ soft = h.soft /\ power = h.power
    /\ asked = [a \in Adapters |-> {}]
    /\ card = [auto |-> TRUE, active |-> "wifi" \in types /\ switch["wifi"]]
    /\ changes = 0
    /\ call = [c \in Calls |-> Idle]

-----------------------------------------------------------------------------
(* What NetworkManager, BlueZ, the kernel and other programs do.           *)

BluezApplies(a) ==
    /\ \E v \in asked[a] : power' = [power EXCEPT ![a] = v /\ ~soft]
    /\ asked' = [asked EXCEPT ![a] = {}]
    /\ UNCHANGED <<types, switch, killed, soft, bluez, card, changes, call>>

KernelBlocks(a) ==
    /\ soft /\ power[a]
    /\ power' = [power EXCEPT ![a] = FALSE]
    /\ UNCHANGED <<types, switch, killed, soft, bluez, asked, card, changes, call>>

AutoActivate ==
    /\ card.auto /\ ~card.active /\ "wifi" \in types
    /\ switch["wifi"] /\ "wifi" \notin killed
    /\ card' = [card EXCEPT !.active = TRUE]
    /\ UNCHANGED <<types, switch, killed, soft, bluez, power, asked, changes, call>>

OtherChange ==
    /\ changes < MaxChanges
    /\ changes' = changes + 1
    /\ \/ \E a \in Adapters : power' = [power EXCEPT ![a] = ~@] /\ UNCHANGED bluez
       \/ bluez' = ~bluez /\ UNCHANGED power
    /\ call' = Disturbed(call)
    /\ UNCHANGED <<types, switch, killed, soft, asked, card>>

(* PropertiesChanged reaches the cache of a call's proxy.                  *)
CacheUpdate(c, a) ==
    /\ call[c].at["bt"] \in {"wait", "verify"}
    /\ a \in call[c].listed /\ call[c].seen[a] # power[a]
    /\ call' = [call EXCEPT ![c].seen[a] = power[a]]
    /\ UNCHANGED world

-----------------------------------------------------------------------------
(* The calls.                                                              *)

(* Only airplane mode, and reading the state, ask for the devices first.   *)
Begin(c) ==
    /\ call[c].op = "none"
    /\ \E op \in OpsOf[c], on \in BOOLEAN :
        call' = [IF op = "state" THEN call ELSE Disturbed(call) EXCEPT ![c] =
            [Idle EXCEPT !.op = op, !.on = on,
                         !.calm = Settled /\ \A d \in Calls : ~Active(d),
                         !.at = [b \in DOMAIN Idle.at |->
                                    IF b \notin Branches(op) THEN "none"
                                    ELSE IF op \in {"airplane", "state"} THEN "types"
                                    ELSE "todo"]]]
    /\ UNCHANGED world

FetchTypes(c) ==
    /\ "types" \in {call[c].at[b] : b \in DOMAIN Idle.at}
    /\ \E k \in {types, Unknown} :
        call' = [call EXCEPT ![c].known = k,
                             ![c].at = [b \in DOMAIN Idle.at |->
                                          IF @[b] = "types" THEN "todo" ELSE @[b]]]
    /\ UNCHANGED world

(* Fault: airplane mode on switches the radios on.                         *)
RadioOnAsGiven(c) == call[c].on

(* The value a setter writes: airplane mode on is radios off.              *)
RadioOn(c) == IF call[c].op = "airplane" THEN ~call[c].on ELSE call[c].on
Present(k, r) == k = Unknown \/ DeviceType[r] \in k

(* NetworkManager takes the Wi-Fi device down when its radio is off.       *)
SetSwitch(c, r) ==
    /\ call[c].op # "state" /\ call[c].at[r] = "todo"
    /\ \/ /\ switch' = [switch EXCEPT ![r] = RadioOn(c)]
          /\ card' = [card EXCEPT !.active = @ /\ switch'["wifi"]]
          /\ call' = [call EXCEPT ![c].at[r] = "ok"]
       \/ /\ call' = [call EXCEPT ![c].at[r] = "failed"]
          /\ UNCHANGED <<switch, card>>
    /\ UNCHANGED <<types, killed, soft, bluez, power, asked, changes>>

(* Both flags; rfkill is trusted where NetworkManager does not know of a   *)
(* block yet, and the device list says whether there is such a radio.      *)
Reconcile(nmHardware, hardBlock) == nmHardware /\ ~hardBlock

(* read_rfkill: what it may say of a radio's block.  A directory or a file  *)
(* that cannot be read, as in a container, is no block.                     *)
HardBlocks(r) == {FALSE, (r \in killed)}

ReadSwitch(c, r) ==
    /\ call[c].op = "state" /\ call[c].at[r] = "todo"
    /\ \/ \E nmHardware \in {TRUE, r \notin killed}, block \in HardBlocks(r) :
            call' = [call EXCEPT ![c].at[r] = "ok", ![c].read[r] =
                <<switch[r], Reconcile(nmHardware, block), Present(call[c].known, r),
                  block = (r \in killed)>>]
       \/ call' = [call EXCEPT ![c].at[r] = "failed"]
    /\ UNCHANGED world

(* The rfkill command comes first; that it failed is only logged.          *)
Rfkill(c) ==
    /\ call[c].op # "state" /\ call[c].at["bt"] = "todo"
    /\ \E v \in {soft, ~RadioOn(c)} : soft' = v
    /\ call' = [call EXCEPT ![c].at["bt"] = "list"]
    /\ UNCHANGED <<types, switch, killed, bluez, power, asked, card, changes>>

(* No BlueZ, an error or no adapter: unavailable to a setter, and a radio  *)
(* that is absent to a reader.                                             *)
EnumerateAdapters(c) ==
    /\ call[c].at["bt"] = IF call[c].op = "state" THEN "todo" ELSE "list"
    /\ \E found \in {{}, IF bluez THEN Adapters ELSE {}} :
        call' = [call EXCEPT
            ![c].listed = found, ![c].left = found,
            ![c].at["bt"] = IF found # {} THEN "toggle"
                            ELSE IF @ = "list" THEN "unavailable" ELSE "ok"]
    /\ UNCHANGED world

(* One adapter after the other, up to the first that is powered; one that  *)
(* cannot be read counts as off.                                           *)
ReadAdapter(c) ==
    /\ call[c].op = "state" /\ call[c].at["bt"] = "toggle"
    /\ \E a \in call[c].left, readable \in {FALSE, bluez}, block \in HardBlocks("bt") :
        LET v == readable /\ power[a]
            sure == v \/ (readable /\ ~call[c].missed)
        IN call' = IF v \/ call[c].left = {a}
                   THEN [call EXCEPT ![c].left = {}, ![c].at["bt"] = "ok",
                            ![c].read["bt"] =
                                <<v, ~block, TRUE, sure /\ block = ("bt" \in killed)>>]
                   ELSE [call EXCEPT ![c].left = @ \ {a}, ![c].missed = ~sure]
    /\ UNCHANGED world

(* All adapters are set in parallel; an adapter that is blocked refuses to *)
(* be switched on.  The answers of all are awaited before any is judged.   *)
SetPowered(c, a) ==
    /\ call[c].op # "state" /\ call[c].at["bt"] = "toggle" /\ a \in call[c].left
    /\ \/ /\ bluez /\ ~(soft /\ RadioOn(c))
          /\ asked' = [asked EXCEPT ![a] = {RadioOn(c)}]
          /\ call' = [call EXCEPT ![c].left = @ \ {a}]
       \/ /\ call' = [call EXCEPT ![c].left = @ \ {a}, ![c].missed = TRUE]
          /\ UNCHANGED asked
    /\ UNCHANGED <<types, switch, killed, soft, bluez, power, card, changes>>

(* One refusal fails the branch.  Otherwise each proxy is subscribed to    *)
(* its adapter and then reads it.                                          *)
JoinToggles(c) ==
    /\ call[c].op # "state" /\ call[c].at["bt"] = "toggle" /\ call[c].left = {}
    /\ call' = IF call[c].missed
               THEN [call EXCEPT ![c].at["bt"] = "toggle failed"]
               ELSE [call EXCEPT ![c].at["bt"] = "wait", ![c].left = call[c].listed,
                                 ![c].seen = power]
    /\ UNCHANGED world

(* The wait for an adapter ends when its cache shows the value asked for.  *)
SeePowered(c, a) ==
    /\ call[c].at["bt"] = "wait" /\ a \in call[c].left
    /\ call[c].seen[a] = RadioOn(c)
    /\ call' = [call EXCEPT ![c].left = @ \ {a}]
    /\ UNCHANGED world

(* All have settled, or the two seconds are over.                          *)
AllSettled(c) ==
    /\ call[c].at["bt"] = "wait" /\ call[c].left = {}
    /\ call' = [call EXCEPT ![c].at["bt"] = "verify"]
    /\ UNCHANGED world

SettleTimeout(c) ==
    /\ call[c].at["bt"] = "wait"
    /\ call' = [call EXCEPT ![c].at["bt"] = "verify"]
    /\ UNCHANGED world

(* Fault: nothing is read again after the wait.                            *)
VerifyNothing(c) ==
    /\ call[c].at["bt"] = "verify"
    /\ call' = [call EXCEPT ![c].at["bt"] = "ok", ![c].left = {}, ![c].seen = Idle.seen]
    /\ UNCHANGED world

(* Both ways Powered is read again, from the caches, which may fail.       *)
VerifyPowered(c) ==
    /\ call[c].at["bt"] = "verify"
    /\ \E readable \in BOOLEAN :
        call' = [call EXCEPT ![c].at["bt"] =
                    IF readable /\ \A a \in call[c].listed : call[c].seen[a] = RadioOn(c)
                    THEN "ok" ELSE "toggle failed",
                           ![c].left = {}, ![c].seen = Idle.seen]
    /\ UNCHANGED world

(* Fault: the interface is disconnected and its Autoconnect left set.      *)
DisconnectOnly(c) ==
    /\ call[c].at["card"] = "todo"
    /\ \E e \in {"not found", "not wifi", IF call[c].on THEN "ok" ELSE "down"} :
        call' = [call EXCEPT ![c].at["card"] = e]
    /\ UNCHANGED world

(* set_wifi_enabled_for_interface: the name of no device, of a device that *)
(* is no Wi-Fi device, or of the Wi-Fi device; Autoconnect first.          *)
SetAutoconnect(c) ==
    /\ call[c].at["card"] = "todo"
    /\ \/ \E e \in {"not found", "not wifi"} :
            call' = [call EXCEPT ![c].at["card"] = e] /\ UNCHANGED card
       \/ "wifi" \in types
          /\ \/ /\ card' = [card EXCEPT !.auto = call[c].on]
                /\ call' = [call EXCEPT ![c].at["card"] = IF call[c].on THEN "ok" ELSE "down"]
             \/ call' = [call EXCEPT ![c].at["card"] = "failed"] /\ UNCHANGED card
    /\ UNCHANGED <<types, switch, killed, soft, bluez, power, asked, changes>>

(* disconnect_wifi_and_wait: the device comes to rest, or the wait fails.  *)
DisconnectCard(c) ==
    /\ call[c].at["card"] = "down"
    /\ \/ /\ card' = [card EXCEPT !.active = FALSE]
          /\ call' = [call EXCEPT ![c].at["card"] = "ok"]
       \/ /\ call' = [call EXCEPT ![c].at["card"] = "failed"]
          /\ UNCHANGED card
    /\ UNCHANGED <<types, switch, killed, soft, bluez, power, asked, changes>>

(* Fault: devices that could not be listed are taken for none.             *)
ExcusedIfListed(c) == call[c].known \cap {"wifi", "modem"} # {}

(* finalize_airplane_toggle_results: Wi-Fi's error first, then WWAN's; no  *)
(* Bluetooth is no error, and a toggle that failed is one only on a host   *)
(* known to have neither of the others.                                    *)
BluetoothExcused(c) ==
    call[c].known = Unknown \/ call[c].known \cap {"wifi", "modem"} # {}

Finalize(c) ==
    LET at == call[c].at
    IN IF at["wifi"] # "ok" THEN "failed"
       ELSE IF at["wwan"] # "ok" THEN "failed"
       ELSE IF at["bt"] = "toggle failed" /\ ~BluetoothExcused(c) THEN "toggle failed"
       ELSE "ok"

Answer(c) ==
    LET at == call[c].at
    IN /\ Active(c)
       /\ \A b \in Branches(call[c].op) : at[b] \in Over
       /\ call' = [call EXCEPT ![c] =
            [@ EXCEPT !.known = {}, !.listed = {}, !.missed = FALSE,
                      !.result = IF call[c].op = "airplane" THEN Finalize(c)
                                 ELSE IF \A b \in Branches(call[c].op) : at[b] = "ok" THEN "ok"
                                 ELSE CHOOSE e \in Over \ {"ok"} :
                                        \E b \in Branches(call[c].op) : at[b] = e]]
       /\ UNCHANGED world

(* What AirplaneModeState makes of the three.                              *)
IsAirplaneMode(read) ==
    /\ \E r \in DOMAIN read : read[r][3]
    /\ \A r \in DOMAIN read : read[r][3] => ~read[r][1]
AnyHardwareKilled(read) == \E r \in DOMAIN read : read[r][3] /\ ~read[r][2]

-----------------------------------------------------------------------------
CallStep(c) ==
    \/ FetchTypes(c)
    \/ \E r \in NmRadios : SetSwitch(c, r) \/ ReadSwitch(c, r)
    \/ Rfkill(c)
    \/ EnumerateAdapters(c)
    \/ ReadAdapter(c)
    \/ \E a \in Adapters : SetPowered(c, a) \/ SeePowered(c, a)
    \/ JoinToggles(c)
    \/ AllSettled(c)
    \/ SettleTimeout(c)
    \/ VerifyPowered(c)
    \/ SetAutoconnect(c)
    \/ DisconnectCard(c)
    \/ Answer(c)

Next ==
    \/ \E a \in Adapters : BluezApplies(a) \/ KernelBlocks(a)
    \/ AutoActivate
    \/ OtherChange
    \/ \E c \in Calls : Begin(c) \/ CallStep(c) \/ \E a \in Adapters : CacheUpdate(c, a)

Spec == Init /\ [][Next]_vars

-----------------------------------------------------------------------------

(* The shape of the variables.                                              *)
TypeOK ==
    /\ types \subseteq {"wifi", "modem"}
    /\ switch \in [NmRadios -> BOOLEAN]
    /\ killed \subseteq {"wifi", "wwan", "bt"}
    /\ soft \in BOOLEAN /\ bluez \in BOOLEAN
    /\ power \in [Adapters -> BOOLEAN]
    /\ asked \in [Adapters -> SUBSET BOOLEAN]
    /\ card \in [auto : BOOLEAN, active : BOOLEAN]
    /\ changes \in 0 .. MaxChanges
    /\ \A c \in Calls :
        /\ DOMAIN call[c] = DOMAIN Idle
        /\ call[c].op \in OpsOf[c] \cup {"none"}
        /\ \A b \in DOMAIN Idle.at : call[c].at[b] \in Stages
        /\ call[c].left \subseteq Adapters /\ call[c].listed \subseteq Adapters
        /\ call[c].result \in Over \cup {"none"}

(* Where there is Wi-Fi or a modem the Bluetooth branch decides nothing,   *)
(* also when the devices could not be listed; a missing BlueZ never does.  *)
BluetoothNeverBlocks ==
    \A c \in Calls :
        (call[c].op = "airplane" /\ call[c].result \notin {"none", "ok"}) =>
            \/ \E r \in NmRadios : call[c].at[r] = "failed"
            \/ types = {} /\ call[c].at["bt"] = "toggle failed"

(* What a call that nobody interfered with says is so: a setter's radios   *)
(* have the value asked for when it answers Ok (the reason for waiting     *)
(* until Powered has settled), and a reader finds the software switches,   *)
(* reports no block and no Bluetooth power that is not there and no radio  *)
(* of NetworkManager absent that it has; the rest is so too unless a block *)
(* or an adapter's power could not be read, which counts as none.          *)
SaidIsSo ==
    \A c \in Calls : (call[c].calm /\ call[c].result = "ok") =>
        /\ call[c].op \notin {"state", "interface"} =>
            /\ \A r \in NmRadios \cap Branches(call[c].op) : switch[r] = RadioOn(c)
            /\ call[c].at["bt"] = "ok" => \A a \in Adapters : power[a] = RadioOn(c)
        /\ call[c].op = "state" =>
            /\ \A r \in NmRadios :
                /\ call[c].read[r][1] = switch[r]
                /\ r \notin killed => call[c].read[r][2]
                /\ call[c].read[r][4] => call[c].read[r][2] = (r \notin killed)
                /\ DeviceType[r] \in types => call[c].read[r][3]
            /\ AnyHardwareKilled(call[c].read) => killed # {}
            /\ call[c].read["bt"][3] =>
                /\ bluez
                /\ call[c].read["bt"][1] => \E a \in Adapters : power[a]
                /\ "bt" \notin killed => call[c].read["bt"][2]
                /\ call[c].read["bt"][4] =>
                    /\ call[c].read["bt"][1] = (\E a \in Adapters : power[a])
                    /\ call[c].read["bt"][2] = ("bt" \notin killed)

(* After set_airplane_mode, airplane_mode_state reads the mode that was    *)
(* set, when the host has a radio and its Bluetooth radio, if it is        *)
(* present, was toggled too and could be read.                             *)
ReadAfterWrite ==
    \A c, d \in Calls :
        (/\ call[c].op = "airplane" /\ call[d].op = "state"
         /\ call[c].calm /\ call[c].result = "ok"
         /\ call[d].calm /\ call[d].result = "ok"
         /\ call[d].read["bt"][3] => (call[c].at["bt"] = "ok" /\ call[d].read["bt"][4])) =>
            (IsAirplaneMode(call[d].read) <=>
                call[c].on /\ \E r \in DOMAIN call[d].read : call[d].read[r][3])

(* A Wi-Fi interface that set_wifi_enabled(.., false) has switched off     *)
(* stays down, whatever NetworkManager would connect by itself.            *)
DisabledStaysDown ==
    \A c \in Calls :
        (call[c].op = "interface" /\ ~call[c].on /\ call[c].calm /\ call[c].result = "ok")
            => ~card.active

=============================================================================
