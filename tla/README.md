# nmrs in TLA+

nmrs is a Rust library that controls NetworkManager over D-Bus: an application
calls `NetworkManager::connect(...)`, `forget(...)`, `monitor_...(...)` and so on,
or serves as NetworkManager's secret agent.  All the state that matters lives
elsewhere (in NetworkManager, in the property caches of the D-Bus proxies, in
channels), every step of a call is an `await` at which other tasks and
NetworkManager move on, and every D-Bus call may fail.  These modules model that
part of the library.  Paths below are relative to `nmrs/src` in the repository.

## Inventory

| Component | State it keeps | Operations | Hard because | Correct when |
|---|---|---|---|---|
| Secret agent (`agent/iface.rs`, `agent/request.rs`) | map of pending requests, bounded request channel, one reply channel and one cancel channel per call, response timers, channel of cancel reasons | `GetSecrets`, `CancelGetSecrets`, `SaveSecrets`, `DeleteSecrets`; `SecretResponder` methods | each D-Bus call is a task; reply, cancellation and timeout race; a full queue holds calls back; the consumer may drop anything | one answer per call, its own; a cancellation hits exactly the open calls of its key; a cancelled call always returns |
| Agent registration (`agent/builder.rs`) | registration at NetworkManager | register, reregister, unregister | NetworkManager restarts; the request stream ends only when every clone of the connection is gone | registered once; streams complete after unregister |
| Waits (`core/state_wait.rs`) | signal stream, property cache, timer | wait for activation, for disconnection, for a ready device | signals and cache are updated by different tasks; the timer races the transition; the reason is only in the signal | success and failure are real, no change is lost, every wait ends |
| Wi-Fi connect / disconnect / forget (`core/connection.rs`, `api/network_manager.rs`, `api/wifi_scope.rs`) | `connect_guard`; saved profiles and radios in NetworkManager | connect, connect_to_bssid, try_ variants, disconnect, forget, delete_saved_connection, add_connection | ten and more D-Bus calls with an await at each; clean-up after failures; calls that are dropped; NetworkManager acts by itself | calls are serialised, Ok means connected, failures are undone, stored secrets are kept |
| Wired, VPN, Bluetooth, custom connections (`core/connection.rs`, `vpn.rs`, `bluetooth.rs`, `custom_connection.rs`) | profiles and activations in NetworkManager | connect, connect by name or UUID, disconnect, forget, add, add and activate, import | profiles are found by name, names are shared, failed activations leave profiles, an update may rename any of them at any time | no twins but by renaming; only VPNs are taken down by the VPN calls; an imported profile has its certificates |
| Saved profiles (`core/saved_connection.rs`) | none | list, get, update, delete, reload | update is a read-modify-write without a guard | what a patch does not name stays |
| Radios (`core/airplane.rs`, `rfkill.rs`, `wifi_device.rs`) | none | read and set Wi-Fi, WWAN, Bluetooth, airplane mode; switch one interface | three toggles in parallel, each may fail; BlueZ settles later | an Ok is true; Bluetooth never decides over Wi-Fi and WWAN; reading gives back what was set |
| Monitoring (`monitoring/*`, `api/models/monitor.rs`) | merged signal streams, set of watched access points, event channel, shutdown channel | monitor network, device, settings, events; `MonitorHandle::stop` | streams are added while they run; objects appear before they are subscribed to | every change reaches the callback; stop ends the task |
| Scanning and status (`core/scan.rs`, `active_connection.rs`, `wifi_device.rs`, `monitoring/info.rs`, `models/snapshot.rs`) | none | scan, list, details, current network, snapshot | a chain of reads with no version: objects vanish and radios move between two of them | one active access point per radio, one entry per network, what was up throughout is reported |
| Connectivity (`core/connectivity.rs`) | none | read, check | - | - |
| OpenVPN import, certificates (`core/ovpn_parser`, `api/builders/openvpn_builder.rs`, `util/cert_store.rs`) | certificate files, by connection name | parse, fill the builder, store, clean up | lines, blocks, repeated directives; two codes that check one configuration; files written before the guard | the connection is what the file says; certificates stay until their name is forgotten or imported again |
| Models, builders, validation (`api/models`, `api/builders`, `util`) | none | setters in any order, checks, settings dictionaries and their readers | sections that several setters share; two parsers for one address | the security asked for last, nothing lost, no panic of a checked configuration |
| D-Bus proxies (`dbus/*`) | property caches (in zbus) | generated | the caches lag | - |

Interactions: the connect, disconnect and forget calls use the waits; the waits
and the lookups read proxies whose caches zbus updates; connect calls may make
NetworkManager call the secret agent in the same process; `connect_guard` is
shared by every clone of a `NetworkManager` and every `WifiScope`.  A VPN import runs
parser, builder and certificate store before it takes that guard.  The readers, the
radio switches and the editing of profiles run beside everything else, without it.

## Modules

| Module | What it is |
|---|---|
| `SecretAgent` | the secret agent with its map, channels, timers and tasks, and its properties |
| `SecretExchange` | what the agent promises: an abstract exchange of requests, withdrawals and answers |
| `SecretAgentProofs` | theorems about `SecretAgent`; that it implements `SecretExchange` |
| `StateWait` | one wait for a state change, with NetworkManager, stream, cache and timer around it |
| `WifiConnect` | tasks that connect, disconnect and forget on shared radios and profiles under `connect_guard` |
| `StateWaitProofs`, `WifiConnectProofs`, `MonitorProofs`, `RadiosProofs`, `ProfilesProofs`, `StatusProofs`, `BuildersProofs` | theorems about the module each is named after; `BuildersProofs` also has those about `OvpnImport`, whose builder is the third |
| `Monitor` | one of the four signal monitors, the objects it watches and the application that reads the state when told to |
| `Radios` | calls that set or read the radio switches, with NetworkManager, BlueZ and rfkill around them |
| `Profiles` | calls that connect, import, forget, disconnect, add and update profiles other than Wi-Fi's on one store |
| `Status` | one reader of the air and of the active connections, object by object, while they change |
| `OvpnImport` | one `.ovpn` file from its lines to the stored connection and back |
| `Builders` | any sequence of calls on the Wi-Fi, WireGuard and credentials builders, to the settings and the summaries of them |
| `Option` | `None`, which `Builders` and `OvpnImport` share |
| `MCSecretAgent`, `MCStateWait`, `MCWifiConnect`, `MCMonitor`, `MCRadios`, `MCProfiles`, `MCStatus`, `MCOvpnImport`, `MCBuilders` | the constants of the instances TLC checks |

An operator whose comment begins with "Fault:" is a plausible mistake in the
operator that follows it.  No specification uses it; substituting it for the
operator must make a property fail, which is how each property is known to say
something (`PROJECT.json`, "mutants").

### SecretAgent

One element of `Calls` is one `GetSecrets` call, in a task of its own; `pc[c]`
says between which two awaits it is: `Register` is the block under the lock of the
map (`iface.rs:83`), `Send` and `PollSend` the first and the later polls of
`select(cancel_rx, send_request)` (`:115`), `PollWait` a poll of the second `select`
(`:137`) and `Return` the removal from the map and the return (`:48`, `:139`).
`CancelSignal` is the part of `cancel_get_secrets` under the lock, `CancelNotify` the
send of the `CancelReason`.  `Respond` is any method of `SecretResponder`, which
consumes it; a drop replies `noSecrets`, and `DropReceiver` does so for the
whole queue.

`future::select` polls left first, so cancellation beats reply and reply beats
timeout when both are ready.  The request channel is that of the `futures` crate:
each request is sent through a fresh clone of the sender, which owns one slot, so
a request is in the queue at once and its sender parks while `QueueDepth` or more
requests are ahead (`Parked`).

Abstractions: a request is its call; secrets are one value; a key is the pair of
connection path and setting name.  `pending` maps each key to a set of calls, the
order in the vector being of no effect.  Calls with the same key may overlap, as
they may in D-Bus.  A reply sent after its call returned goes nowhere.

### StateWait

`wait` is the call: `wait_for_activation_state` or `wait_for_device_state`, which have
one control flow: subscribe, read, then loop { read; select(timer, signal) }, with
another read after the timeout.  `state` is NetworkManager's; each `Change` goes
to `signals` (if subscribed) and to `props`, from which `CacheUpdate`, the proxy's
own task, moves it into `cache`.  The first read of a fresh proxy asks
NetworkManager; any later read is answered by the cache.  `wait.warm` says that the
caller has read the state before, as `disconnect_wifi_and_wait` has.  `Refine` is
`refine_device_disconnected_error`.  A malformed signal is one whose arguments do
not parse.  Reasons are the codes of NetworkManager's two tables, one for connections
(`models/connection_state.rs`) and one for devices (`models/state_reason.rs`), which
give one number different meanings; `ConnectionError` and `DeviceError` are what the
library makes of them.

Between a signal and the property change of the same transition either may be seen
first: the stream and the cache are fed by different tasks.

### WifiConnect

Each element of `Clients` makes one call of `Requests`; `pc` names the D-Bus call or
wait it is at.  `connect` goes `check` (try_ variants) - `lookup` - `current` - `scan` -
`down`/`downWait` - `activate`/`savedWait` or `add`/`freshWait`, with
`dropLink`/`dropProfile` when a saved profile is replaced and
`undoLink`/`undoProfile` when a fresh one failed; `forget` goes `visit` (devices) -
`list` - `delete`; `disconnect` goes `deactivate` - `down`.  `Fail` is a D-Bus error
that ends a call, and the actions of clean-up calls have a failing disjunct of
their own, since the code logs their errors and goes on.  `Abandon` drops the
future of a call, which releases the guard and cleans up nothing.

NetworkManager is the rest: `LinkUp`, `LinkDown`, `Autoconnect` at any time.
`DeleteSaved` is `delete_saved_connection` and `AddConnection` is `add_connection`: neither takes
the guard, so both happen at any stage of the other calls.  `late` remembers what `AddConnection`
saved after a forget had listed the profiles, which that forget cannot know of.

Abstractions: a profile's name is its SSID; a wait is over successfully only if the
transition happened since it began (`news`; what `StateWait` shows) and may fail at
any time; a profile is active on one radio at a time; secrets are one of "no secret
given", "open", "carries a secret".  Which of several radios `find_wifi_device`
takes is the first in the order NetworkManager lists them (`RadioOrder`).
A forget visits devices and profiles in any order; a radio whose access point it fails to read
it passes over, as the code does.  The network a profile is for stays: what `update_saved_connection`
may do to a name under the calls that look for it is in `Profiles`, not here.

### Monitor

`kind` is the monitor: `monitor_network_changes`, `monitor_device_changes`,
`settings_events` or `network_events`.  They differ in what they subscribe to and in
which order, and have one shape: set up, report ready, then take one signal after
the other from the merged streams.  `plan` is what the task has still to do before it
looks at the signals again, as a sequence of steps with an await before each; `Setup`,
`Watch` and `Reaction` are the four programs.  `parts` and `streams` are the
subscriptions, `inbox` the signals that have come and not been handled, `monitored` is
`monitored_access_points`.  Some subscriptions are to values, those of an access point's
strength and of NetworkManager's properties: zbus keeps no queue of them, only that there is
a newer one, and the code skips the first (`receive_..._changed().await.skip(1)`).  `Valued`
says which objects have such a stream, `Settle` takes its first value, at any look of the
task, and only then is a new value (`SetValue`) a signal for the inbox; one that comes before
is in `skipped`, until a later one is heard.  `StepFails` is a D-Bus call that fails because the
connection is lost or the device is gone or no Wi-Fi device; some failures end the
set-up or the reaction, others are skipped.  `handle` is the future, then the
`MonitorHandle` or stream, of the application.

The application reads all state (`Refresh`) when the callback or an event has come;
`dirty` is what happened since.  `Appear`, `Vanish`, `Change` and `SetValue` are NetworkManager,
bounded by `MaxChanges` and by the life of the monitor.

Abstractions: the streams of one object are one subscription; equal signals in the
inbox are one; which `NetworkEvent` an event is does not matter; the settings stream
inside `network_events` is the monitor `settings_events`; device removals are
announced after those of their access points; a path is not used again.

### Radios

`call[c]` is one call with a stage per radio (`at`): `wireless`, `wwan` and `bluetooth` have
one branch, `airplane` and `state` have all three, running as tasks of one `join3`;
`interface` is `set_wifi_enabled` on one device.  The Bluetooth branch is the long one:
`Rfkill` (a command whose failure is only logged), `EnumerateAdapters`, a toggle of each
adapter, the wait for `Powered` or the two-second timer, and `VerifyPowered`, which
reads the value from the proxy's cache (`seen`).  A reader's `HardBlocks` and `ReadAdapter` may fail
to read: a block that cannot be read is none (`rfkill.rs:30-48`), a `Powered` that cannot be read
is off (`airplane.rs:100-114`), and the fourth part of a reading, which the program does not have,
remembers whether that happened.  BlueZ accepts a value (`asked`) and
applies it later or never.  `Answer` combines the branches as
`finalize_airplane_toggle_results` does.  `OtherChange` is the user, a hardware switch or
another program.  `calm` remembers that nobody but the call moved a radio since it began:
nothing can be promised of a call that was interfered with.

### Profiles

A profile has a path (which stands for its UUID as well), a name, a kind, its settings and,
in `certs`, the name under which the certificate files its paths lead to were stored; it keeps
that when it is renamed.  The variable `certs` is the store: `<<n, c>>` is there as long as what
import `c` wrote under the name `n` is unharmed.  Every call is a sequence of stages, and each
D-Bus call that matters to another call is one: a lookup lists the paths (`Lookup`) and then reads
the settings of one profile after the other, in any order (`FindSaved`), until it has the name;
disconnect lists the active connections (`ListActive`), reads each (`ReadActive`) and
takes the one it means down (`Deactivate`); forget goes on with the profiles (`ForgetVpn`,
`FindForgotten`), deletes one (`DeleteVpn`) and removes the directory of the name it was
asked for (`CleanupCerts`); `connect_vpn_by_id` (`ListVpns`, `ReadVpn`) and `forget_bluetooth`
(`ListProfiles`, `ForgetEach`, `DeleteEach`) go over the profiles in the same way.  So anything may
happen to a profile after it was listed, after it was read and before it is acted on.  `import_ovpn`
has `StoreCerts` before `Lock`, and may write over what another import stored; `update` reads
(`copy`), merges (`Merged`) and writes the whole settings back without the guard, with a new
name if its patch has one (the key `"id"`).  What a device is freed of is `FreeDevice` for
a custom connection and `FreeBluetooth` for `forget_bluetooth`.  An activation may be lost at
any time, and what is up may go down `MaxOthers` times by itself.

Three fields are history: `by` and `renamed` of a profile, the call that made it and whether it has
had another name, and `overlapped` of a call: an update was written between its reading of a
profile and its use of what it read.

Abstractions: the settings a patch can carry are `Keys`, a value is the call that wrote
it; what a `raw_overlay` may do beyond settings and the name (change a profile's type, its UUID or
the paths of its certificates) is left out, and so are edits by other programs; the freeing of
devices (`Free`) and the look at the device a connect starts with (`CheckDevice`) are one step;
the files of one import are written in one step, and lost by parts; `forget_bluetooth` is
asked for by name, not by address; an activation reaches its state or is lost in one step, as
`StateWait` has the detail; a name that `validate_connection_name` refuses is `invalid` at once;
what NetworkManager answers can be decoded.

### Status

One caller runs one operation of `Ops`.  `devices` is NetworkManager's list of plugged devices, in
its order.  `pc` is the next read: devices, the active access
point of a device (`act`), the visible ones, each access point's properties, or the active
connections one by one, in whatever order NetworkManager lists them; `MergeNext` merges an access point into the networks by
`MergeAp`, and `Before` is the order of the rows.  The listings of devices have a read per device
(`VisitDevice`).  `ListSaved` and `ReadProfile` are the listing of saved profiles, with
`ReadVpnPath` between them that of VPNs, which notes in `up` what is active before it reads the
profiles; `ReadInfoPath`, `ReadInfoSettings` and `ReadInfoDevice` are `get_vpn_info`.  The environment plugs and unplugs
radios, shows and hides access points, connects, roams and disconnects, brings VPNs up and
down and deletes their profiles, at most
`MaxChanges` times between the reads.  An object that is gone makes its read fail, which
some listings pass over (`PathGone`) and others hand to the caller, as the code does.
`wasActive` and `steady` remember what was active at some time, and what was up at all
times, during the call.

Abstractions: an access point has constant properties and is its own BSSID; an address is
the connection it belongs to; the saved Wi-Fi profiles are constant, and only VPN profiles are
deleted.  Where a VPN goes down, the read of its device by `get_vpn_info` may succeed or fail:
that of WireGuard goes with it, that of a plugin stays.

### OvpnImport

Whoever writes the file adds one item at a time - a directive, a block with its lines - and
chooses its layout: comments, blank lines, a backslash that continues a line.
`meant` is what was written.  The lexer runs line by line beside it (`Feed`), then
`Parse`, `Populate` (the builder from the file, storing inline material), any setters of
the caller (`Override`), `Build`, and `Connect`, which validates and writes the `vpn.data`
dictionary; the readers of `core/vpn.rs` decode it.  `phase` says how far the file has come,
`lex` is the lexer's state, `file` is `OvpnFile`, `builder` is `OpenVpnBuilder` and then
`OpenVpnConfig`, `store` the inline material written so far, `data` the saved dictionary.
`own` notes what the setters gave.  What a file says is stated without the parser:
`LastOf` and `ItemsOf` look into `meant` for the last item of a key and for all of them.

Abstractions: a word is a text, a tag or the start of a comment; numbers, addresses and the
texts that start with "tcp" are those `Number`, `Octets` and `TcpNames` know; a line of a block
is kept as it stands, and is not the closing tag of a block; no tag is empty (`parser.rs:288`).  A setter gives one of a few values,
in the proofs too: those the two checks tell apart.

### Builders

`calls` counts the calls made on a builder.  `eap` is `EapOptionsBuilder` and then the public
struct it makes, whose fields may be assigned by hand; `wifi` is
`WifiConnectionBuilder`; `wg` the credentials, then the WireGuard builder.  A settings
dictionary is a function from sections to functions from keys to values, and each
setter changes it as the code does: a section is made by one call, filled by another and
read by `WifiSummary`, `WireGuardSummary` and `FirstPeer`.  A dash in a key is written as an
underscore.  `ValidSecurity` and
`ValidCredentials` are `util/validation.rs`.

Abstractions: a passphrase, a name, an address are members of small sets that tell apart
what the checks tell apart (`lax`: an octet with a leading zero; `near`: a key that only one
of the two key checks accepts).  The summaries are read from the dictionary as it was built:
NetworkManager hands a saved profile out without its secrets, so there `has_psk_field` says less.

## Runs

* `agent` - three calls on two keys, one cancellation, queue depth 1.  Two calls with
  one key are what the map's vectors are for, the third call fills the queue with
  another key, and a cancellation may find the entry empty, filled or taken.
  `PendingExact`, `BackPressure`, `AcceptedReplyDelivered`, `CancelWins`, and the refinement
  of `SecretExchange` (`ImplementsExchange`).  Calls with one key are interchangeable
  (`CallSymmetry`).
* `agent_live` - queue depth 0, so that every request holds its call back:
  `CallReturns`, if the consumer takes requests, and `CancelledReturns`, whatever it does.
* `waits` - the waits for an activation, a disconnection and a ready device.
  `MaxMoves` of 4 lets an object go down and come back, once more than a wait can be
  waiting for; the reasons include numbers that the two tables read differently.
  `OkWasReached`, `FailureIsReal`, `WaitEnds`, and `FreshRestNoticed`: without any timer a final
  state is noticed by signals and reads alone, on a fresh proxy.
* `wifi_one_radio` - two tasks with any pair of connect, connect_to_bssid, forget and
  disconnect calls on one radio, starting with a profile of the network and one of another, either
  of which may be deleted at any time; a third path is for the profile a task creates or
  add_connection saves (`Additions`), so that a forget can meet two of its network.  `Serialised`,
  `OkMeansConnected`, `FailedConnectUndone`, `ForgetComplete`, `ProfilesKept`,
  `TryConnectYields`.
* `wifi_live` - two networks with a profile each, paths for both tasks to add one, no
  add_connection: `CallReturns`.
* `monitor` - the four monitors with a Wi-Fi device, its access point and a wired
  device, one or the other of which is there at the start; three changes let a device and its
  access point appear and the access point's strength change, at any step of the monitor.
  `NothingMissed`, `SilentAfterStop`, `StopEnds`.  `NothingMissed` spells out, in `Promised`,
  the limits the code has: `monitor_network_changes` misses a Wi-Fi device plugged in
  between its enumeration and its subscription to new ones, `monitor_device_changes` the
  state of a device plugged in later, `network_events` what happens to a new object before
  it is subscribed to, and all of them a value that comes between the subscription to a
  property and the stream's first value (`skipped`).
* `radios` - a setter (airplane mode, Bluetooth or one interface) beside a reader (the
  airplane state) or a second setter, on a host with Wi-Fi on, one with Wi-Fi blocked and
  no BlueZ, one with Bluetooth only; one change by others, so that every answer is checked
  with and without one.  Every reading may lack what could not be read; `SaidIsSo` then promises
  one side only (no block and no Bluetooth power is reported that is not there), and
  `ReadAfterWrite` asks for a Bluetooth radio that could be read.  `BluetoothNeverBlocks`, `SaidIsSo`, `ReadAfterWrite`, `DisabledStaysDown`.
* `profiles` - one call that connects or imports, one of any kind, one that renames a profile to
  the name the others look for or away from it; profiles of the same name and of other kinds at
  the start; four paths let every call add one; one connection that goes down by itself.  A lookup,
  a disconnect and a forget each go over up to three profiles, read by read, which is enough for
  a rename before, between and after the reads.  `NoTwins`, `UpdatesKept`, `CertsStay`,
  `VpnOpsSpare`.  All four say what a rename or an edit in the window may do, since no guard
  keeps it out: profiles that were renamed can be twins, a VPN that was edited after it was read is
  taken down or deleted whatever its name is by then, and files are removed by the name they were
  stored under.
* `profiles_certs` - a finding, see below, with the two calls it takes.
* `status` - two radios, four access points (two of one network with different security on one
  radio, one hidden), a card, two VPN profiles of one name; three changes before or between the
  reads, each with a path of its own if it needs one, so that a radio or a VPN that is up can leave
  and come back under a new path while it is read.  `OneActivePerRadio`, `MergedFaithful`,
  `RowsFaithful`, `StableReported`, `CurrentWasConnected`, all of which are also proved for any
  number of changes.  The two VPN profiles are interchangeable (`Symmetry`).  The caller starts
  its next operation when one has answered, so the system never stops and deadlock is checked.
* `ovpn` - files of up to four items, among them every directive whose repetition or absence
  matters, blocks with a line that looks like a comment, setters on top.  `ReadAsWritten`,
  `ImportIsFaithful`, `ChecksAgree`, all of which are also proved for files of any length.
  `ImportIsFaithful` has two limits, which are the code's: of the hosts with a colon only those in
  brackets are read back (the remotes are a name, `[v6]` and `v6`), and the key of tls-auth is looked
  for in the saved profile, not in what is read back.
* `builders` - five calls on an options or WireGuard builder and three on finished options or on
  the Wi-Fi builder: one security after another, and a third setter after both.
  `PanicsOnlyByHand`, `SecurityIsTheLastAsked`, `WireGuardFaithful`.

`CHECK_DEADLOCK FALSE` is set in all other runs: calls and changes are finite in number
and the system stops when all have returned.

### Fairness

* `FairSpec` of the agent: a task that is ready is polled by the executor, and an
  armed timer fires.  Nothing is assumed of NetworkManager or of the consumer;
  `CallReturns` has the premise that the consumer keeps taking requests (not answering
  them), which is what `SecretAgentHandle` asks of it.  Without the premise it is
  false: the response timer is started after the send (`iface.rs:132`).
* `FairSpec` of the waits: the waiter and the task that keeps the cache are polled.
  The timer is a premise of `WaitEnds` and of nothing else, to show that the other
  properties do not rest on it.
* `FairSpec` of `WifiConnect`: weak fairness of each call's own step, which includes the
  failing alternatives: a D-Bus call is answered or fails, and waits have timeouts
  (`WaitEnds`).  The radios owe nothing.  Waiting for the guard is under weak fairness
  only; with one call per task each holder leaves for good, so it suffices, and no
  fairness of the lock is assumed.
* `FairSpec` of `Monitor`: the monitor's task and the one that awaits it are polled.
  `select!` polls its branches in random order; with finitely many changes no fairness
  between them is needed.

## Findings

`profiles_certs` is a run that TLC ends with a counterexample, of a statement made by the
repository.  `import_ovpn` stores the certificates of the file under the connection's name
while it fills the builder (`openvpn_builder.rs:234`), and only the connect that follows takes
`connect_guard`.  A `forget_vpn` of that name which holds the guard meanwhile deletes the old
profile and the directory of certificates, the new ones with them; the import then adds and
activates a profile whose certificate paths lead nowhere, and answers Ok or with an activation
error that says nothing of it.  The documentation says that the certificates are persisted
(`network_manager.rs:742`) and that mutating calls are serialised (`:153`).

### Observations

Behaviour of the code met while modelling, which the models follow and no run asserts or
denies.

Agent and waits.
A `CancelReason` may be received before NetworkManager has its reply (`iface.rs:185`).  The
response timer does not cover the send: a call held back there waits for an idle consumer
without limit, while `iface.rs:65` says the timeout ends it.  `disconnect_wifi_and_wait` reads the state
and calls Disconnect before the wait subscribes (`connection.rs:460`), so it can miss the
disconnection and sit until its timer, which `state_wait.rs:18` and `:321` mean to exclude.  The last
look after a timeout reads a cache that may be older than a signal in the stream
(`state_wait.rs:141`), and reading the cache before taking a queued signal drops the reason the
signal carries (`:129`).

Wi-Fi and monitors.
A connect for one interface returns Ok because another interface is on the network
(`connection.rs:75`; `wifi_scope.rs:3` speaks of pinning).  forget returns Ok although a
profile was found and its deletion failed (`connection.rs:400` against `network_manager.rs:1483`).  A
connect with fresh credentials leaves the old profile beside the new one
(`connection.rs:964`).  `monitor_device_changes` announces a device plugged in later and never
watches it (`monitoring/device.rs:64`).  The property streams of the monitors skip their first
value (`monitoring/network.rs:312`, `events.rs:177-203` and `:339`, `settings.rs:71`), taking it for the
one before any change: a strength, or a state of NetworkManager, set between the subscription
and the task's first look at the stream is not reported until the next one.
Events go into an unbounded channel, and that a consumer is gone is noticed only when the next
event is sent (`monitoring/events.rs:50`).

Radios.
The doc of `set_bluetooth_radio_enabled` names rfkill among the causes of
`BluetoothToggleFailed` (`airplane.rs:171-174`); a failing rfkill is only logged.  Two
`set_airplane_mode` calls for opposite values are not serialised and can leave the radios mixed.
Where sysfs cannot be read, as in containers, a radio blocked by hardware that NetworkManager does
not know of is reported as enabled (`rfkill.rs:23-33`), and an adapter that cannot be read as off
(`airplane.rs:106`), so that `is_airplane_mode` may be true with Bluetooth on.

Profiles.
`forget_bluetooth` takes every active Bluetooth device down, not the one named
(`connection.rs:413`, doc `network_manager.rs:1499`), and deletes profiles of the name whatever
their type.  `connect_vpn` activates whatever saved profile bears the name and then does
not look at the credentials (`vpn.rs:676`).  A lookup by name ends with an error when any of the
listed profiles vanishes before it is read (`connection_settings.rs:42`).  `update_saved_connection`
takes no guard: it can give a profile the name for which a connect, past that profile already, is
about to add one (`saved_connection.rs:36`), and writes back a name that was changed since it
read.  `forget_vpn` deletes the first VPN of the name only, also if it was renamed since its settings
were read (`vpn.rs:890`), and removes the directory of the name it was asked for: that of another profile which was
renamed or shares the name, while the directory of a renamed profile lingers
(`cert_store.rs:3`).  A second import of a name writes over the files of the first.  `disconnect_vpn_by_uuid` takes an error of
`active_connections` for "none active" (`vpn.rs:637`).  The state of a VPN's active connection is
decoded with the table of device states (`vpn.rs:554-558`).  A failed activation leaves the new
VPN, wired or Bluetooth profile saved.

Status.
A snapshot is documented as a point in time and is several reads one after the other.
`current_ssid` "checks all Wi-Fi devices" and stops at the first that has an access point;
`current_network` and `is_connected` see only that one.  `show_details` mixes a
network found by SSID and strength with the address of its device.  `list_access_points` and
`list_devices` fail as a whole when an object vanishes while it is read, where
`list_active_connections` goes on.  Of two VPNs of one name, `get_vpn_info` settles on the
first that is active and fails when that one goes down while it is read, whether or not the other
is up.  `is_eap` is not set for suite B (`scan.rs:322` and `:202`).

Import and builders.
A comment that ends in a backslash swallows the next line.  The builder
stores the key of tls-auth under a name that the decoder does not look for (`builders/vpn.rs:237`,
`core/vpn.rs:289`).  An IPv6 remote without brackets is read back, with its port, as a host, and
with the default port (`core/vpn.rs:1151-1160`).
`redirect-gateway` only turns `never-default` off; options that are not known are dropped; a netmask
with holes is cut at its first; port 0 of a proxy passes both checks and is refused where the settings are made (`builders/vpn.rs:288`), and port 0 of a remote passes the
validator (`validation.rs:599`) though not the builder.  Certificates stored before a build
that fails stay on disk.  In the connection builder `ipv4_dns`, a gateway or routes set before
the method are lost.  The validator takes octets such as `010`, which the WireGuard builder
refuses; it wants keys of exactly 44 characters where the builder takes 40 to 50.  The
interface name of a WireGuard profile is made of the first alphanumerics of its name, so two
profiles can share it.

## Proofs

TLAPS checks the following for every value of the constants: any number of calls, tasks,
devices, profiles, settings and changes.  Each of them is also a property of a run, where TLC
tries it on a small instance with all its steps; each inductive invariant was tried by TLC
before it was proved.  No property below is inductive by itself, and what had to be added is
the reason it holds.

| Module | Theorem | States | Because |
|---|---|---|---|
| `SecretAgentProofs` | `TypeCorrect`, `PendingMapExact`, `OneResponderPerCall`, `QueueBackPressure`, `OutcomesJustified`, `CancellationWins` | `TypeOK`, `PendingExact`, `OneResponder`, `BackPressure`, `OutcomeJustified`, `CancelWins` | `Inv`: a step reads a phase and relies on what the phase implies of the other variables (`Bookkeeping`): an outcome exists exactly from "leaving" on, before its send a request is nowhere, what the cancellations took is what is cancelled |
| | `AcceptedRepliesArrive` | `AcceptedReplyDelivered` | `ClosedUnsent`: a call resolves "channelClosed" only before its responder was given away; where a call waits, the reply is looked at before the timer |
| | `AgentImplementsExchange` | `ImplementsExchange` | under `Inv` every action maps to `Open`, `Withdraw`, `Give`, `Answer` or a stutter of `SecretExchange` |
| `StateWaitProofs` | `OkIsReached`, `FailuresAreReal` | `OkWasReached`, `FailureIsReal` | `Learnt`: all that signals, cache and pending changes can tell did happen since the call; `Explained`: a deactivation heard of with a reason has that cause, as a connection that is down stays down |
| `WifiConnectProofs` | `CallsSerialised`, `TypesKept` | `Serialised`, `TypeOK` | `GuardInv`: who is past the guard holds it |
| | `OkIsConnected`, `FailedIsUndone`, `ProfilesAreKept` | `OkMeansConnected`, `FailedConnectUndone`, `ProfilesKept` | `CallInv`, `StoreInv`, `LinkInv`, `NewsInv`: at each stage, what the call has found, made, activated and heard; a profile once found stays one of its network until it is deleted |
| | `TryYields`, `ForgetIsComplete` | `TryConnectYields`, `ForgetComplete` | `YieldInv`, `ForgetInv`: what the guard keeps the others from doing between the stages; a profile of the network that is not on a forget's list is one add_connection saved since |
| `ProfilesProofs` | `OneOfEachName` | `NoTwins` | `AddInv`: while a connect goes over the profiles, every profile of its name that it could double, unless renamed, is still among those it has to read, and at the end there is none: whoever could add one waits for the guard |
| | `CertsAreKept` | `CertsStay` | `CertsInv`: an import past its first step has its certificates, and so has its profile, unless they were `Taken`, which is for good |
| | `UpdatesLast` | `UpdatesKept` | `UpdateInv`: what an update is about to write has every earlier one in it, or it overlapped with it |
| | `VpnOpsTouchNoOther` | `VpnOpsSpare` | `MeantInv`: what is about to be taken down or deleted was meant when it was read, and its path is never used for another profile (`NotFresh`); if it was edited since, the call is marked |
| `RadiosProofs` | `BluetoothIsExcused`, `SayingsAreTrue`, `ReadsWhatWasSet` | `BluetoothNeverBlocks`, `SaidIsSo`, `ReadAfterWrite` | `Formed`, `Knows`, `Blames`, `Means`: where the parallel branches of a call can be together and what they have found; `Calmly` (`Alone`, `Stable`, `Powers`, `Sets`, `Reads`): while a call is calm nobody else sets a radio, so that what a branch has set or read is still so when all have ended; an adapter the reader has passed is off unless one could not be read |
| | `OffStaysOff` | `DisabledStaysDown` | the order of `Autoconnect` off and disconnection |
| `MonitorProofs` | `NothingIsMissed` | `NothingMissed` | `Covered`: every object the monitor has to hear of is subscribed to, planned to be, or the subject of a signal that waits; `Announces`: what the application has not seen has a signal or a refresh on its way (`Due`), but for values a stream skips |
| | `SilentOnceStopped` | `SilentAfterStop` | `Ended`: a stopped monitor has ended, and one that has ended has nothing left to do |
| `StatusProofs` | `OneIsActive` | `OneActivePerRadio` | `Walk`: a device still to be read has no row, and the active row of the one being read is the access point noted before the others; `Noted`: what was read to be active was so during the call |
| | `CurrentIsReal` | `CurrentWasConnected` | `Course` and `Noted`: the second pass goes on only with an access point of the SSID of the first |
| | `WhatStaysIsListed` | `StableReported` | `ListsInv`: what has been up all through the call is still to be read, is being read or has one row; paths are never used again (`Formed`), and while a connection is read no other of its radio or VPN is left to read (`Queue`) |
| | `MergedIsFaithful` | `MergedFaithful` | `Merging`: each network agrees with those of its access points that have been merged (`Agrees`), and merging one more keeps it so (`MergeAgrees`) |
| | `RowsAreFaithful` | `RowsFaithful` | `Shown`: an access point is listed once, with its own radio; `Before` is an order on such rows, so the sorted row exists (`SortedSorts`); `Listed`: a radio has one Wi-Fi connection, and its SSID is that of its BSSID |
| `BuildersProofs` | `PanicsAreByHand` | `PanicsOnlyByHand` | `EapInv`: no certificate has two forms unless by hand, as each setter takes the other form back; what panics does not pass the validation |
| | `LastAskedHolds` | `SecurityIsTheLastAsked` | `Secured`: whatever the sections held, those of a builder are those of the security asked for last, and no other setter touches them (`Keeps`) |
| | `WireGuardIsFaithful` | `WireGuardFaithful` | `Tunnel`: name, section and address outlive the setters that follow; `Serves`: each family has its servers and no others |
| | `FilesAreReadAsWritten` | `ReadAsWritten` | `LexerInv`: between two items the lexer has what was written, the open block and a comment that goes on, or nothing (`HasRead`), unless the file is broken already (`Refuses`); a line that goes on is read like its halves joined |
| | `BothChecksAgree` | `ChecksAgree` | `ImportInv`: each field of the builder is what a setter gave or else what the file says (`BuilderIs`); what the file says is a text, which is not blank, and a prefix of at most 32 (`PrefixInRange`), and what build asks for is the rest of what is validated |
| | `ImportsAreFaithful` | `ImportIsFaithful` | `ImportInv` again: after n items each field has what the last of them with its key said (`Says`, `ItemTaken`), the remotes begin with the first; completed, that is the file (`FileIs`); whatever is inline is stored before the builder has its path (`StoreIs`), and only what is there has an entry (`IsEntry`) |

The proofs have one lemma per action or per group of actions that disturb the same conjuncts;
where a step changes one call among many (`ProfilesProofs`) it is first reduced to what it may
do to a call, to a profile and to the guard.  Facts that are true by induction over finite data
(what is left of a list, that a finite set can be sorted, what a file says after n items) are
proved by looking at a least counterexample (`LeastNumber`; `LeftOut`, `SortedSorts` in
`StatusProofs`, `UpToExists`, `AllSaid` in `BuildersProofs`); `LeaveOut` and `Sorted` in `Status` and
`Taken` in `OvpnImport` are written out, as recursive functions and a choice, so that a proof can
open them.

### Assumptions

The constants are assumed to be no more than what makes the modules meaningful:

* `ConstantsAssumption` (`SecretAgent`): each call has a key; the depth is a natural number.
* `WaitAssumption`: the fields of a wait; an active connection that is deactivated does not come
  back (NetworkManager makes a new one), and a wait for an activation is one for "activated"; the reason of a
  device that was disconnected on request is none of the reasons of a connection.
* `WifiAssumption`: only connects have a `try_` variant; there is a radio; what `add_connection` saves has a path and a network; the values that stand for
  "nobody", "no profile", "no network" are no task, profile or network.
* `ProfilesAssumption`: who makes a profile names it and gives its kind, a forget and a rename
  come with a name; the profiles of the start were made by no call; `None` is nothing else.
* `RadiosAssumption`: there are finitely many adapters; what hosts and operations look like.
* `MonitorAssumption`: devices and access points are finitely many and distinct, an access point
  belongs to a Wi-Fi device and is there at the start only with it.  Finiteness makes an
  enumeration a sequence.
* `BuildersAssumption`: an address is of one of the two families; what a peer consists of.
* `OvpnImportAssumption`: texts are not blank; a directive has a word; a line of a block does not
  close it; numbers are naturals and addresses four octets; `None` is nothing else.
* `StatusAssumption`: NetworkManager lists a device once; strengths are naturals, and so are the
  access points, standing for the order of their BSSIDs; `None` is nothing else.

TLC evaluates them on every run of the module.  The bounds of the runs (`MaxMoves`, `MaxChanges`,
`MaxPaths`, `MaxOthers`) are constants like the others in the proofs.

### Only model-checked

* Everything under fairness (`CallReturns` of `SecretAgent` and `WifiConnect`, `CancelledReturns`,
  `FreshRestNoticed`, `WaitEnds`, `StopEnds`): the prover has neither fairness nor ENABLED.
* `ImportedHaveCerts`, which the code violates (see Findings).

Every other property of a run is a theorem.

## Not modelled, and the plan

Next, in this order:

1. The registration of the agent (`agent/builder.rs`): register, restart of NetworkManager,
   reregister, unregister.
2. The conversion of a parsed file without the builder (`TryFrom<OvpnFile>`), which drops tls-auth and
   tls-crypt and leaves the name empty.

Left out for good: the D-Bus proxies (declarations), connectivity checks (one read or call
each), value models that only carry or display data, the listing of Bluetooth
devices, error texts, examples and documentation code.
