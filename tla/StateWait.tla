----------------------------- MODULE StateWait -----------------------------
(***************************************************************************)
(* Waiting for NetworkManager to finish a state change (core/state_wait.rs). *)
(* NetworkManager owns the state of an object (an active connection or a   *)
(* device) and announces each change twice: as a StateChanged signal, which *)
(* the waiter's stream queues, and as a property change, which a task of   *)
(* the proxy writes into the proxy's property cache.  The waiter reads the *)
(* cache, never the object, except for the first read of a fresh proxy.    *)
(*                                                                         *)
(* wait_for_activation_state and wait_for_device_state have the same shape; *)
(* wait says which one this is and which states it waits for.              *)
(***************************************************************************)
EXTENDS Integers, Sequences

CONSTANTS
    Waits,      \* the waits there are, see WaitAssumption
    States,     \* states of the objects
    Reasons,    \* the numbers of the reasons for a deactivation, as its signal gives
                \* them, but the one that says nothing
    DeviceReasons, \* the numbers of a device's reasons, as its StateReason gives them
    MaxMoves    \* bound on the number of state changes

\* The wait for an activation or for a device; warm when the proxy has read the
\* state before; the states the object may be in when the wait is called; its
\* state changes <<from, to>>; the states waited for.  An activation is waited for
\* until it is up, and an active connection that is down stays so.
ASSUME WaitAssumption ==
    /\ \A w \in Waits :
         /\ DOMAIN w = {"kind", "warm", "start", "moves", "good"}
         /\ w.kind \in {"activation", "device"}
         /\ w.warm \in BOOLEAN
         /\ w.start \subseteq States /\ w.good \subseteq States
         /\ w.moves \subseteq States \X States
         /\ w.kind = "activation" =>
              "activated" \in w.good /\ \A m \in w.moves : m[1] # "deactivated"
    /\ States \cap {"unread", "malformed"} = {}
    /\ Reasons \subseteq Nat \ {3} /\ DeviceReasons \subseteq Nat
    /\ MaxMoves \in Nat

\* ConnectionStateReason::from and StateReason::from, for the reasons that make
\* a difference.
ConnectionStateReason ==
    [deviceDisconnected |-> 3, ipConfigInvalid |-> 5, connectTimeout |-> 6,
     serviceStartTimeout |-> 7, noSecrets |-> 9, loginFailed |-> 10]
StateReason ==
    [supplicantDisconnected |-> 7, supplicantConfigFailed |-> 8, supplicantFailed |-> 9,
     supplicantTimeout |-> 10, dhcpStartFailed |-> 15, dhcpError |-> 16, dhcpFailed |-> 17,
     gsmPinCheckFailed |-> 51, ssidNotFound |-> 70, simPinIncorrect |-> 76]

\* The one reason that says nothing.
DeviceDisconnected == ConnectionStateReason.deviceDisconnected

\* A device before its connection was deactivated.
NoReason == -1

\* Fault: the two tables of reasons are taken for one.
ErrorByDeviceTable(code) ==
    CASE code \in {StateReason.supplicantFailed, StateReason.supplicantDisconnected} -> "authFailed"
      [] code = StateReason.supplicantTimeout -> "supplicantTimeout"
      [] OTHER -> "deviceFailed"

\* connection_state_reason_to_error: the timeout is the one the wait itself
\* reports.
ConnectionError(code) ==
    LET r == ConnectionStateReason
    IN CASE code \in {r.noSecrets, r.loginFailed} -> "authFailed"
         [] code \in {r.connectTimeout, r.serviceStartTimeout} -> "timeout"
         [] code = r.ipConfigInvalid -> "dhcpFailed"
         [] OTHER -> "activationFailed"

\* reason_to_error
DeviceError(code) ==
    LET r == StateReason
    IN CASE code \in {r.supplicantFailed, r.supplicantDisconnected,
                      r.simPinIncorrect, r.gsmPinCheckFailed} -> "authFailed"
         [] code = r.supplicantConfigFailed -> "supplicantConfigFailed"
         [] code = r.supplicantTimeout -> "supplicantTimeout"
         [] code \in {r.dhcpStartFailed, r.dhcpError, r.dhcpFailed} -> "dhcpFailed"
         [] code = r.ssidNotFound -> "notFound"
         [] OTHER -> "deviceFailed"

Failures ==
    {"authFailed", "dhcpFailed", "activationFailed", "supplicantConfigFailed",
     "supplicantTimeout", "notFound", "deviceFailed"}
VARIABLES
    wait,     \* the wait that is called
    state,    \* the state of the object in NetworkManager
    cause,    \* the reason NetworkManager gave for the deactivation
    device,   \* the reason its device shows at the moment
    changes,  \* number of state changes so far
    signals,  \* the waiter's signal stream
    props,    \* property changes the cache has not taken in
    cache,    \* the cached state, "unread" before the first read
    closed,   \* the stream ended with the D-Bus connection
    timer,    \* the timeout of the wait
    pc,       \* where the waiter is
    outcome,  \* what the wait returned
    reached   \* states of the object since the wait was called (history)

objectVars == <<wait, state, cause, device, changes>>
waiterVars == <<timer, pc, outcome>>
vars == <<wait, state, cause, device, changes, signals, props, cache, closed, timer, pc,
          outcome, reached>>

Init ==
    /\ wait \in Waits
    /\ state \in wait.start
    /\ cause = DeviceDisconnected
    /\ device = NoReason
    /\ changes = 0
    /\ signals = << >>
    /\ props = << >>
    /\ cache = IF wait.warm THEN state ELSE "unread"
    /\ closed = FALSE
    /\ timer = "off"
    /\ pc = "called"
    /\ outcome = "none"
    /\ reached = {state}

-----------------------------------------------------------------------------
(* What a state means to the waiter.                                       *)

\* classify_activation_state: a deactivation without a reason of its own sends
\* the waiter to the device for one.
ActivationDecision(s, reason) ==
    CASE s = "activated" -> "ok"
      [] s = "deactivated" /\ reason = DeviceDisconnected -> "refine"
      [] s = "deactivated" /\ reason # DeviceDisconnected -> ConnectionError(reason)
      [] OTHER -> "pending"

\* Fault: a device on its way down counts as disconnected.
DeviceDecisionLenient(s) == IF s # "activated" THEN "ok" ELSE "pending"

\* is_disconnected_state, is_wifi_ready_state
DeviceDecision(s) == IF s \in wait.good THEN "ok" ELSE "pending"

Decision(s, reason) ==
    IF wait.kind = "activation" THEN ActivationDecision(s, reason) ELSE DeviceDecision(s)

\* A property read carries no reason.
ReadDecision(s) == Decision(s, DeviceDisconnected)

-----------------------------------------------------------------------------
(* NetworkManager and the proxy.                                           *)

\* Fault: the stream is set up after the first read.
SubscribedLate == pc \notin {"called", "subscribed", "loop"}

Subscribed == pc # "called"

\* The object changes state.  A stream sees what comes after its subscription,
\* and the cache what comes after its first read.  A signal the proxy cannot
\* parse reaches the waiter as such.
Change(s, r, garbled) ==
    /\ <<state, s>> \in wait.moves
    /\ changes < MaxMoves
    /\ ~closed
    /\ state' = s
    /\ changes' = changes + 1
    /\ reached' = reached \cup {s}
    /\ UNCHANGED wait
    /\ IF s = "deactivated" THEN cause' = r ELSE cause' = cause /\ r = DeviceDisconnected
    /\ IF s = "deactivated" THEN device' \in DeviceReasons ELSE device' = device
    /\ signals' = IF Subscribed
                  THEN Append(signals, [state |-> IF garbled THEN "malformed" ELSE s,
                                        reason |-> r])
                  ELSE signals
    /\ props' = IF cache = "unread" THEN props ELSE Append(props, s)
    /\ UNCHANGED <<cache, closed, waiterVars>>

CacheUpdate ==
    /\ props # << >>
    /\ cache' = Head(props)
    /\ props' = Tail(props)
    /\ UNCHANGED <<objectVars, signals, closed, waiterVars, reached>>

CloseStream ==
    /\ ~closed
    /\ pc \notin {"called", "done"}
    /\ closed' = TRUE
    /\ UNCHANGED <<objectVars, signals, props, cache, waiterVars, reached>>

TimerFires ==
    /\ timer = "armed"
    /\ timer' = "fired"
    /\ UNCHANGED <<objectVars, signals, props, cache, closed, pc, outcome, reached>>

-----------------------------------------------------------------------------
(* The waiter.                                                             *)

Finish(o) == pc' = "done" /\ outcome' = o

Subscribe ==
    /\ pc = "called"
    /\ \/ pc' = "subscribed" /\ UNCHANGED outcome
       \/ Finish("dbusError")
    /\ UNCHANGED <<objectVars, signals, props, cache, closed, timer, reached>>

\* Acts on a decision; a pending one leads to the given phase.
Act(d, next) ==
    \/ d = "pending" /\ pc' = next /\ UNCHANGED outcome
    \/ d = "refine" /\ pc' = "refine" /\ UNCHANGED outcome
    \/ d \notin {"pending", "refine"} /\ Finish(d)

\* Reads the object on a fresh proxy, which fails when it is gone or does not
\* answer, or else the cache; then starts the timer.
FirstRead ==
    /\ pc = "subscribed"
    /\ \/ /\ cache' = IF cache = "unread" THEN state ELSE cache
          /\ Act(ReadDecision(cache'), "loop")
          /\ timer' = "armed"
       \/ /\ cache = "unread"
          /\ Finish("dbusError")
          /\ UNCHANGED <<cache, timer>>
    /\ UNCHANGED <<objectVars, signals, props, closed, reached>>

Reread ==
    /\ pc = "loop"
    /\ Act(ReadDecision(cache), "select")
    /\ UNCHANGED <<objectVars, signals, props, cache, closed, timer, reached>>

\* Fault: after a timeout an undecided wait goes on.
TimeoutRetries ==
    /\ pc = "select"
    /\ timer = "fired"
    /\ Act(ReadDecision(cache), "loop")
    /\ UNCHANGED <<objectVars, signals, props, cache, closed, timer, reached>>

\* select! takes a ready timer or a ready signal at random; after a timeout the
\* state is read once more.
Timeout ==
    /\ pc = "select"
    /\ timer = "fired"
    /\ IF ReadDecision(cache) = "pending"
       THEN Finish("timeout")
       ELSE Act(ReadDecision(cache), "select")
    /\ UNCHANGED <<objectVars, signals, props, cache, closed, timer, reached>>

TakeSignal ==
    /\ pc = "select"
    /\ signals # << >>
    /\ Act(Decision(Head(signals).state, Head(signals).reason), "loop")
    /\ signals' = Tail(signals)
    /\ UNCHANGED <<objectVars, props, cache, closed, timer, reached>>

StreamEnd ==
    /\ pc = "select"
    /\ signals = << >>
    /\ closed
    /\ Finish("streamEnded")
    /\ UNCHANGED <<objectVars, signals, props, cache, closed, timer, reached>>

\* refine_device_disconnected_error: the reason of a device of the connection,
\* if the connection still has one and it answers.
Refine ==
    /\ pc = "refine"
    /\ \/ device # NoReason /\ Finish(DeviceError(device))
       \/ Finish(ConnectionError(DeviceDisconnected))
    /\ UNCHANGED <<objectVars, signals, props, cache, closed, timer, reached>>

-----------------------------------------------------------------------------

Waiter == Subscribe \/ FirstRead \/ Reread \/ Timeout \/ TakeSignal \/ StreamEnd \/ Refine

Next ==
    \/ Waiter
    \/ \E s \in States, r \in Reasons \cup {DeviceDisconnected}, g \in BOOLEAN : Change(s, r, g)
    \/ CacheUpdate
    \/ CloseStream
    \/ TimerFires

Spec == Init /\ [][Next]_vars

\* The waiter's task and the task that keeps the cache are polled.  The timer is
\* left out: a property that needs it says so.
FairSpec == Spec /\ WF_vars(Waiter) /\ WF_vars(CacheUpdate)

-----------------------------------------------------------------------------
(* Properties.                                                             *)

\* A wait succeeds only if the object was in a state waited for after the wait
\* was called, or when it was called.
OkWasReached == outcome = "ok" => reached \cap wait.good # {}

\* An activation is reported as failed only if the connection was deactivated;
\* as an authentication failure only if NetworkManager says so of the connection
\* or of its device; as a timeout only if the timer fired or NetworkManager gave
\* up itself.  The error is found on four ways: a signal's reason, a read without
\* a reason that sends the waiter to the device, either after the timer, and the
\* device's own reason, which is numbered differently.
FailureIsReal ==
    /\ outcome \in Failures => "deactivated" \in reached
    /\ outcome = "authFailed" => cause \in {9, 10} \/ device \in {7, 9, 51, 76}
    /\ outcome = "timeout" => timer = "fired" \/ cause \in {6, 7}

\* Every wait ends, by its timer if by nothing else.
WaitEnds == WF_vars(TimerFires) => (pc = "called" ~> pc = "done")

\* "We won't miss rapid state transitions": once the object has come to rest in
\* a state that decides the wait, the wait ends without the help of the timer,
\* provided the signals can be parsed.
RestNoticed ==
    [](\A i \in DOMAIN signals : signals[i].state # "malformed")
    /\ <>[](ReadDecision(state) # "pending")
      => <>(pc = "done")

\* A wait on a proxy that has not read the state before misses nothing.
FreshRestNoticed == ~wait.warm => RestNoticed

=============================================================================
