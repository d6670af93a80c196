-------------------------- MODULE MCWifiConnect --------------------------
\* The calls of the instances and the profiles that may be saved before them.
EXTENDS WifiConnect, TLC

CONSTANTS a, b, c1, c2, r1, p1, p2, p3

OneRadio == <<r1>>

Call(op, ssid, creds, radio, try) ==
    [op |-> op, ssid |-> ssid, creds |-> creds, radio |-> radio, try |-> try]

\* Every way to connect, and the calls that undo it, on one radio.
OneRadioCalls ==
    {Call("connect", a, "stored", "any", "no"), Call("connect", a, "psk", "any", "no"),
     Call("connect", a, "open", "any", "every"), Call("bssid", a, "open", r1, "own"),
     Call("forget", a, "open", "any", "no"), Call("disconnect", a, "open", "any", "no")}

\* Calls for one of two networks, one of each kind.
NetworkCalls ==
    {Call("connect", a, "open", "any", "every"), Call("connect", b, "stored", "any", "no"),
     Call("forget", a, "open", "any", "no"), Call("disconnect", a, "open", "any", "no")}

\* One profile for each of two networks.
TwoSaved == {(p1 :> a) @@ (p2 :> b) @@ [p \in Profiles |-> "unused"]}

\* add_connection saves one profile of the network, or none.
OneAdded == {<<p3, a>>}
NoneAdded == {}

Symmetry == Permutations(Clients)

=============================================================================
