------------------------------ MODULE Monitor ------------------------------
(***************************************************************************)
(* The monitors that tell an application when to read NetworkManager's     *)
(* state again: monitor_network_changes, monitor_device_changes (with a    *)
(* callback and a MonitorHandle), settings_events and network_events (with *)
(* an event stream).  monitoring/{network,device,settings,events}.rs.      *)
(*                                                                         *)
(* Each is a task that subscribes to signals and enumerates objects, says  *)
(* it is ready, and then handles one signal after the other; handling one  *)
(* may subscribe to more.  What such a task still has to do, up to its next *)
(* look at the signals, is its plan, with an await before each step.       *)
(*                                                                         *)
(* The objects are devices with their access points; for settings_events   *)
(* the devices stand for saved profiles, which have no parts.  The object  *)
(* Root is NetworkManager itself.  A path is used for one object only.     *)
(***************************************************************************)
EXTENDS Integers, Sequences, FiniteSets, SequencesExt

CONSTANTS
    Kinds,      \* monitors to consider
    Devices,    \* devices, or saved profiles
    Wifi,       \* the devices that are Wi-Fi devices
    Points,     \* access points
    Home,       \* the device of each access point
    Starts,     \* sets of objects there may be at the start
    MaxChanges  \* bound on what happens to the objects

Root == "root"
Objects == Devices \cup Points \cup {Root}
Parent(o) == IF o \in Points THEN Home[o] ELSE Root

ASSUME MonitorAssumption ==
    /\ Kinds \subseteq {"network", "device", "settings", "events"}
    /\ IsFiniteSet(Devices) /\ IsFiniteSet(Points)
    /\ Devices \cap Points = {}
    /\ Wifi \subseteq Devices
    /\ Home \in [Points -> Wifi]
    /\ Root \notin Devices \cup Points
    /\ \A S \in Starts : S \subseteq Devices \cup Points /\ \A p \in S \cap Points : Home[p] \in S
    /\ MaxChanges \in Nat

VARIABLES
    kind,       \* the monitor
    life,       \* "new", "here" or "gone" for each object
    changes,    \* how much has happened to them
    start,      \* the objects there were when the monitor was called (history)
    gap,        \* devices added before the monitor heard of additions (history)
    parts,      \* objects whose added and removed parts are subscribed to
    streams,    \* number of subscriptions to each object's own changes
    settled,    \* objects whose property stream has given its first value
    monitored,  \* monitored_access_points
    inbox,      \* signals not handled: <<what happened, to which object>>
    plan,       \* what the task does before its next look at the inbox
    phase,      \* "setup", "running", "ended" well, or "failed"
    up,         \* whether the D-Bus connection stands
    handle,     \* the application's hold on the monitor
    bell,       \* a callback or an event the application has not acted on
    dirty,      \* what happened since the application last read the state
    late,       \* of that, what came while network_events had a plan (history)
    skipped     \* of that, values that came before the stream's first (history)

worldVars == <<life, changes, gap, up>>
taskVars == <<parts, streams, settled, monitored, inbox, plan, phase>>
vars == <<kind, start, worldVars, taskVars, handle, bell, dirty, late, skipped>>

Happenings == {"added", "removed", "changed", "set"} \X Objects
Ops == {"root", "eachOwn", "eachParts", "own", "parts", "list", "ring", "ready"}
Callback == kind \in {"network", "device"}

\* The shape of the variables.
TypeOK ==
    /\ kind \in Kinds
    /\ life \in [Objects -> {"new", "here", "gone"}]
    /\ changes \in 0 .. MaxChanges
    /\ start \subseteq Objects
    /\ gap \subseteq Devices
    /\ parts \subseteq Devices \cup {Root}
    /\ streams \in [Objects -> 0 .. 3]
    /\ settled \subseteq Points \cup {Root}
    /\ monitored \subseteq Points
    /\ inbox \subseteq Happenings
    /\ plan \in Seq(Ops \X Objects)
    /\ phase \in {"setup", "running", "ended", "failed"}
    /\ up \in BOOLEAN
    /\ handle \in {"calling", "givenUp", "held", "released", "stopping", "stopped"}
    /\ bell \in BOOLEAN
    /\ dirty \subseteq Happenings
    /\ late \subseteq Happenings
    /\ skipped \subseteq Happenings

-----------------------------------------------------------------------------
(* What the four monitors do.                                              *)

\* Root is subscribed to before the objects are enumerated, or after.
Setup ==
    CASE kind = "network" -> << "eachParts", "root", "ready" >>
      [] kind = "events" -> << "root", "eachOwn", "eachParts", "ready" >>
      [] OTHER -> << "root", "eachOwn", "ready" >>

\* What is done with a device once it is known.
Watch(d) ==
    CASE kind = "network" -> << <<"parts", d>>, <<"list", d>> >>
      [] kind = "events" -> << <<"own", d>>, <<"parts", d>>, <<"list", d>> >>
      [] OTHER -> << <<"own", d>> >>

\* Fault: settings_events reports a new profile before it subscribes to it.
ReactionReportsFirst(what, o) == << <<"ring", o>> >> \o (IF what = "added" THEN Watch(o) ELSE << >>)

\* What is done with a signal: network_events sends the event before it
\* subscribes to what is new, monitor_device_changes does not subscribe at all.
Reaction(what, o) ==
    CASE what = "added" /\ kind = "network" /\ o \in Points ->
           IF o \in monitored THEN << <<"ring", o>> >> ELSE << <<"own", o>>, <<"ring", o>> >>
      [] what = "added" /\ kind \in {"network", "settings"} /\ o \in Devices ->
           Append(Watch(o), <<"ring", o>>)
      [] what = "added" /\ kind = "events" ->
           << <<"ring", o>> >> \o (IF o \in Points THEN << <<"own", o>> >> ELSE Watch(o))
      [] OTHER -> << <<"ring", o>> >>

-----------------------------------------------------------------------------
(* NetworkManager.                                                         *)

Here(S) == {o \in S : life[o] = "here"}

\* Root signals additions and removals of devices (monitor_network_changes does
\* not ask for removals) and its own changes, a device its changes and those of
\* its parts.  Properties - the strength of an access point, those of Root - have
\* streams of values, which say that there is a newer value and queue none; the
\* first, that of the subscription or what has replaced it by then, is skipped.
Heard(what, o) ==
    CASE what = "set" -> o \in settled
      [] what = "changed" /\ o # Root -> streams[o] > 0
      [] what = "changed" /\ o = Root -> Root \in parts /\ kind \in {"device", "events"}
      [] what \in {"added", "removed"} /\ o \in Points -> Home[o] \in parts
      [] OTHER -> Root \in parts /\ (kind # "network" \/ what = "added")

\* There is a stream of the object's values.
Valued(o) ==
    \/ o \in Points /\ streams[o] > 0
    \/ o = Root /\ Root \in parts /\ kind \in {"settings", "events"}

Happens(what, o) ==
    /\ up
    /\ phase \in {"setup", "running"}    \* a bound: what comes later is nobody's concern
    /\ changes < MaxChanges
    /\ changes' = changes + 1
    /\ inbox' = IF Heard(what, o) THEN inbox \cup {<<what, o>>} ELSE inbox
    /\ late' = IF kind = "events" /\ plan # << >> THEN late \cup {<<what, o>>} ELSE late
    /\ skipped' = CASE what = "set" /\ Valued(o) /\ o \notin settled -> skipped \cup {<<what, o>>}
                    [] what = "set" /\ o \in settled -> skipped \ {<<what, o>>}
                    [] OTHER -> skipped
    /\ UNCHANGED <<kind, start, up, parts, streams, settled, monitored, plan, phase,
                   handle, bell>>

Appear(o) ==
    /\ life[o] = "new"
    /\ life[Parent(o)] = "here"
    /\ life' = [life EXCEPT ![o] = "here"]
    /\ gap' = IF o \in Devices /\ Root \notin parts THEN gap \cup {o} ELSE gap
    /\ dirty' = dirty \cup {<<"added", o>>}
    /\ Happens("added", o)

\* A device loses its access points first.  What the application never knew of
\* is nothing to it when it goes.
Vanish(o) ==
    /\ life[o] = "here" /\ o # Root
    /\ \A p \in Points : Home[p] = o => life[p] # "here"
    /\ life' = [life EXCEPT ![o] = "gone"]
    /\ dirty' = IF <<"added", o>> \in dirty
                THEN {h \in dirty : h[2] # o}
                ELSE dirty \cup {<<"removed", o>>}
    /\ Happens("removed", o)
    /\ UNCHANGED gap

\* A change of state, with a signal of its own.
Change(o) ==
    /\ life[o] = "here" /\ o \notin Points
    /\ dirty' = dirty \cup {<<"changed", o>>}
    /\ Happens("changed", o)
    /\ UNCHANGED <<life, gap>>

\* A new value of a property.
SetValue(o) ==
    /\ life[o] = "here" /\ o \in Points \cup {Root}
    /\ dirty' = dirty \cup {<<"set", o>>}
    /\ Happens("set", o)
    /\ UNCHANGED <<life, gap>>

LoseConnection ==
    /\ up
    /\ up' = FALSE
    /\ UNCHANGED <<kind, start, life, changes, gap, taskVars, handle, bell, dirty, late,
                   skipped>>

-----------------------------------------------------------------------------
(* The task.                                                               *)

Init ==
    /\ kind \in Kinds
    /\ start \in Starts
    /\ life = [o \in Objects |-> IF o \in start \cup {Root} THEN "here" ELSE "new"]
    /\ changes = 0
    /\ gap = Here(Devices)
    /\ parts = {}
    /\ streams = [o \in Objects |-> 0]
    /\ settled = {}
    /\ monitored = {}
    /\ inbox = {}
    /\ plan = [i \in DOMAIN Setup |-> <<Setup[i], Root>>]
    /\ phase = "setup"
    /\ up = TRUE
    /\ handle = "calling"
    /\ bell = FALSE
    /\ dirty = {}
    /\ late = {}
    /\ skipped = {}

\* The next step of the plan is op on o.
Doing(op, o) == plan # << >> /\ Head(plan) = <<op, o>>

Then(steps) == plan' = steps \o Tail(plan)

\* A subscription to the additions and removals in Root or a device.
SubscribeParts(o) ==
    /\ \/ Doing("root", o)
       \/ Doing("parts", o) /\ o \in Here(Wifi)
    /\ up
    /\ parts' = parts \cup {o}
    /\ Then(<< >>)
    /\ UNCHANGED <<kind, start, worldVars, streams, settled, monitored, inbox, phase,
                   handle, bell, dirty, late, skipped>>

SubscribeOwn(o) ==
    /\ Doing("own", o)
    /\ up
    /\ streams' = [streams EXCEPT ![o] = @ + 1]
    /\ Then(<< >>)
    /\ UNCHANGED <<kind, start, worldVars, parts, settled, monitored, inbox, phase, handle,
                   bell, dirty, late, skipped>>

\* Each device in turn is watched for its parts, which are then listed.
PartsOfEach(ds) ==
    [i \in 1 .. 2 * Len(ds) |-> <<IF i % 2 = 1 THEN "parts" ELSE "list", ds[(i + 1) \div 2]>>]

\* get_devices or list_connections, in any order.
Enumerate(op) ==
    /\ Doing(op, Root)
    /\ up
    /\ gap' = gap \ Here(Devices)
    /\ \E ds \in SetToSeqs(Here(Devices)) :
          Then(IF op = "eachOwn" THEN [i \in DOMAIN ds |-> <<"own", ds[i]>>] ELSE PartsOfEach(ds))
    /\ UNCHANGED <<kind, start, life, changes, up, parts, streams, settled, monitored,
                   inbox, phase,
                   handle, bell, dirty, late, skipped>>

\* The access points of a device; monitor_network_changes skips those it has.
List(d) ==
    /\ Doing("list", d)
    /\ up
    /\ LET new == {p \in Here(Points) : Home[p] = d /\ p \notin monitored}
       IN  /\ \E ps \in SetToSeqs(new) : Then([i \in DOMAIN ps |-> <<"own", ps[i]>>])
           /\ monitored' = IF kind = "network" THEN monitored \cup new ELSE monitored
    /\ UNCHANGED <<kind, start, worldVars, parts, streams, settled, inbox, phase, handle,
                   bell, dirty, late, skipped>>

\* A step fails without the connection, or on a device that is gone or not for
\* Wi-Fi.  Some end the setup or what is done for a signal, others are skipped.
StepFails(op, o) ==
    /\ Doing(op, o)
    /\ op \notin {"ring", "ready"}
    /\ up => (op = "parts" /\ o \notin Here(Wifi))
    /\ LET wired == up /\ op = "parts" /\ life[o] = "here"
           fatal == IF kind = "network" THEN op \in {"root", "eachParts", "parts"}
                    ELSE op \in {"root", "eachOwn", "eachParts"}
       IN  IF ~fatal \/ (phase = "setup" /\ wired)
           THEN Then(<< >>) /\ UNCHANGED phase
           ELSE /\ plan' = << >>
                /\ phase' = IF phase = "setup" THEN "failed" ELSE phase
    /\ UNCHANGED <<kind, start, worldVars, parts, streams, settled, monitored, inbox,
                   handle, bell, dirty, late, skipped>>

\* The caller gets its handle or stream, and reads the state for the first time.
Ready ==
    /\ Doing("ready", Root)
    /\ Then(<< >>)
    /\ IF handle = "calling"
       THEN phase' = "running" /\ handle' = "held" /\ bell' = TRUE
       ELSE phase' = "ended" /\ UNCHANGED <<handle, bell>>
    /\ UNCHANGED <<kind, start, worldVars, parts, streams, settled, monitored, inbox,
                   dirty, late, skipped>>

\* The callback, or an event, which nobody takes once the stream is dropped.
Ring(o) ==
    /\ Doing("ring", o)
    /\ IF Callback \/ handle = "held"
       THEN bell' = TRUE /\ Then(<< >>) /\ UNCHANGED phase
       ELSE phase' = "ended" /\ plan' = << >> /\ UNCHANGED bell
    /\ UNCHANGED <<kind, start, worldVars, parts, streams, settled, monitored, inbox,
                   handle, dirty, late, skipped>>

Idle == phase = "running" /\ plan = << >>

\* The streams are merged in any order.
Handle(what, o) ==
    /\ Idle
    /\ <<what, o>> \in inbox
    /\ inbox' = inbox \ {<<what, o>>}
    /\ plan' = Reaction(what, o)
    /\ monitored' = CASE kind = "network" /\ what = "added" /\ o \in Points -> monitored \cup {o}
                      [] what = "removed" -> monitored \ {o}
                      [] OTHER -> monitored
    /\ UNCHANGED <<kind, start, worldVars, parts, streams, settled, phase, handle, bell,
                   dirty, late, skipped>>

\* The first value of a property stream is taken and skipped.
Settle(o) ==
    /\ Idle
    /\ Valued(o) /\ o \notin settled
    /\ settled' = settled \cup {o}
    /\ UNCHANGED <<kind, start, worldVars, parts, streams, monitored, inbox, plan, phase,
                   handle,
                   bell, dirty, late, skipped>>

StreamsEnd ==
    /\ Idle
    /\ ~up /\ inbox = {}
    /\ phase' = "failed"
    /\ UNCHANGED <<kind, start, worldVars, parts, streams, settled, monitored, inbox, plan,
                   handle, bell,
                   dirty, late, skipped>>

\* Fault: the shutdown is looked at when a signal has come.
ShutdownAfterSignal ==
    /\ Idle /\ inbox # {}
    /\ Callback /\ handle \in {"released", "stopping"}
    /\ phase' = "ended"
    /\ UNCHANGED <<kind, start, worldVars, parts, streams, settled, monitored, inbox, plan,
                   handle, bell,
                   dirty, late, skipped>>

\* select! sees the shutdown, at any of its polls.
Shutdown ==
    /\ Idle
    /\ Callback /\ handle \in {"released", "stopping"}
    /\ phase' = "ended"
    /\ UNCHANGED <<kind, start, worldVars, parts, streams, settled, monitored, inbox, plan,
                   handle, bell,
                   dirty, late, skipped>>

-----------------------------------------------------------------------------
(* The application.                                                        *)

Refresh ==
    /\ bell
    /\ bell' = FALSE
    /\ dirty' = {}
    /\ late' = {}
    /\ skipped' = {}
    /\ UNCHANGED <<kind, start, worldVars, taskVars, handle>>

Hold(from, to) ==
    /\ handle = from
    /\ handle' = to
    /\ UNCHANGED <<kind, start, worldVars, taskVars, bell, dirty, late, skipped>>

\* The call that sets the monitor up is dropped.
GiveUp == Hold("calling", "givenUp")

\* shutdown, or the drop of the handle or of the stream
Release == Hold("held", "released")

\* stop, also after shutdown
Stop == Callback /\ (Hold("held", "stopping") \/ Hold("released", "stopping"))

\* Fault: stop does not wait for the task.
StopReturnsEarly == Hold("stopping", "stopped")

\* stop returns what the task returned.
StopReturns == phase \in {"ended", "failed"} /\ Hold("stopping", "stopped")

-----------------------------------------------------------------------------

Task ==
    \/ \E o \in Objects : SubscribeParts(o) \/ SubscribeOwn(o) \/ Ring(o)
    \/ \E d \in Devices : List(d)
    \/ \E op \in {"eachOwn", "eachParts"} : Enumerate(op)
    \/ \E op \in Ops, o \in Objects : StepFails(op, o)
    \/ Ready
    \/ \E h \in inbox : Handle(h[1], h[2])
    \/ StreamsEnd
    \/ Shutdown

Next ==
    \/ Task
    \/ \E o \in Objects : Settle(o)
    \/ \E o \in Objects : Appear(o) \/ Vanish(o) \/ Change(o) \/ SetValue(o)
    \/ LoseConnection
    \/ Refresh \/ GiveUp \/ Release \/ Stop \/ StopReturns

Spec == Init /\ [][Next]_vars

\* The task is polled, and so is the task that awaits it in stop.
FairSpec == Spec /\ WF_vars(Task) /\ WF_vars(StopReturns)

-----------------------------------------------------------------------------
(* Properties.                                                             *)

\* What each monitor undertakes to report.  settings_events: all that happens to
\* profiles, and to the list of them.  monitor_network_changes: all that happens to
\* access points, except on a device that was plugged in between the enumeration of
\* the devices and the subscription to new ones.  monitor_device_changes: devices
\* that come and go, and the changes of those that were there at the start and of
\* Root.  network_events: all that happens to what was there at the start or while
\* it has nothing else to do; a new access point or device is announced before it
\* is subscribed to.  None of them a value that comes before its stream's first.
Promised(h) ==
    LET o == h[2]
    IN  /\ h \notin skipped
        /\ CASE kind = "settings" -> o \notin Points /\ h # <<"changed", Root>>
             [] kind = "network" ->
                  o \in Points /\ Home[o] \notin gap /\ Home[o] \in parts \cup Here(Wifi)
             [] kind = "device" ->
                  o \notin Points /\ h[1] # "set" /\ (h[1] = "changed" => o \in start \cup {Root})
             [] kind = "events" -> o \in start \cup {Root} \/ h \notin late

\* A refresh is on its way: requested, planned, or to be planned for a signal.
Announced ==
    \/ bell
    \/ \E i \in DOMAIN plan : plan[i][1] = "ring"
    \/ \E h \in inbox : kind = "network" => h[2] \in Points \cup Here(Wifi)

\* Nothing that a monitor undertakes to report is missed, whatever the order of
\* the subscriptions, the enumerations, the signals, the values that replace one
\* another and the application's reads: while the application's view is out of
\* date in something promised, a refresh is on its way.
NothingMissed ==
    phase = "running" /\ up => \A h \in dirty : Promised(h) => Announced

\* stop "waits for it to finish": no callback runs after stop has returned.
SilentAfterStop ==
    [][handle = "stopped" => (bell' => bell)]_vars

\* stop returns, whatever the monitor is subscribing to and however many signals
\* wait for it.
StopEnds == handle = "stopping" ~> handle = "stopped"

=============================================================================
