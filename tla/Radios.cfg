CONSTANTS
    Calls = {"setter", "reader"}
    OpsOf <- OneOfEach
    Adapters = {"hci0"}
    Hosts <- SomeHosts
    MaxChanges = 1
SPECIFICATION Spec
INVARIANTS
    BluetoothNeverBlocks
    SaidIsSo
    ReadAfterWrite
    DisabledStaysDown
CHECK_DEADLOCK FALSE
