---------------------------- MODULE MCStateWait ----------------------------
\* The state graphs of active connections and devices, and the waits on them.
EXTENDS StateWait

\* An active connection: up, down, or down before it was ever up.
ConnectionStates == {"activating", "activated", "deactivating", "deactivated"}
ConnectionMoves ==
    {<<"activating", "activated">>, <<"activating", "deactivating">>,
     <<"activating", "deactivated">>, <<"activated", "deactivating">>,
     <<"activated", "deactivated">>, <<"deactivating", "deactivated">>}
\* A Wi-Fi device: it is disconnected, may be blocked, and may connect again.
DeviceStates == {"activated", "stopping", "disconnected", "unavailable", "preparing"}
DeviceMoves ==
    {<<"activated", "stopping">>, <<"stopping", "disconnected">>,
     <<"disconnected", "unavailable">>, <<"unavailable", "disconnected">>,
     <<"disconnected", "preparing">>, <<"preparing", "activated">>,
     <<"preparing", "disconnected">>}

AllStates == ConnectionStates \cup DeviceStates

Wait(kind, warm, start, moves, good) ==
    [kind |-> kind, warm |-> warm, start |-> start, moves |-> moves, good |-> good]

\* wait_for_connection_activation, on a proxy of its own
Activation == Wait("activation", FALSE, ConnectionStates, ConnectionMoves, {"activated"})

\* wait_for_device_disconnect, called with the proxy Disconnect was called on
Disconnection ==
    Wait("device", TRUE, {"activated", "stopping", "preparing"}, DeviceMoves,
         {"disconnected", "unavailable"})

\* wait_for_wifi_device_ready
Ready == Wait("device", FALSE, DeviceStates, DeviceMoves, {"disconnected", "activated"})

AllWaits == {Activation, Disconnection, Ready}
=============================================================================
