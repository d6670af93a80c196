--------------------------- MODULE MonitorProofs ---------------------------
(***************************************************************************)
(* That no monitor of Monitor misses what it undertakes to report, for     *)
(* every number of devices and access points and however much happens to   *)
(* them, and that a stopped monitor is silent.                             *)
(*                                                                         *)
(* The argument is one inductive invariant, Inv.  Its parts say that every *)
(* object a monitor has to hear of is subscribed to, planned to be, or the *)
(* subject of a signal that waits (Covered, by kind of subscription), and  *)
(* that what the application has not seen has a signal that waits or a     *)
(* refresh that is planned (Announces).                                    *)
(***************************************************************************)
EXTENDS Monitor, FiniteSetTheorems, TLAPS

Things == Devices \cup Points

\* The steps a plan is made of.
Steps == ({"root", "eachOwn", "eachParts", "ready"} \X {Root})
         \cup ({"own", "ring"} \X Objects) \cup ({"parts", "list"} \X Devices)

Planned(op, o) == \E i \in DOMAIN plan : plan[i] = <<op, o>>
Coming(o) == <<"added", o>> \in inbox
Ringing == \E o \in Objects : Planned("ring", o)
Subscribed(o) == streams[o] > 0 \/ Planned("own", o)
Live == up /\ phase \in {"setup", "running"}

Typed ==
    /\ kind \in {"network", "device", "settings", "events"}
    /\ life \in [Objects -> {"new", "here", "gone"}]
    /\ start \subseteq Things
    /\ gap \subseteq Devices
    /\ parts \subseteq Devices \cup {Root}
    /\ streams \in [Objects -> Nat]
    /\ settled \subseteq Points \cup {Root}
    /\ monitored \subseteq Points
    /\ inbox \subseteq Happenings
    /\ dirty \subseteq Happenings
    /\ late \subseteq Happenings
    /\ skipped \subseteq Happenings
    /\ plan \in Seq(Steps)
    /\ phase \in {"setup", "running", "ended", "failed"}
    /\ up \in BOOLEAN
    /\ bell \in BOOLEAN
    /\ handle \in {"calling", "givenUp", "held", "released", "stopping", "stopped"}

\* What is not there yet is unknown to the monitor and to the application.
Known ==
    /\ life[Root] = "here"
    /\ \A p \in Points : life[p] = "here" => life[Home[p]] = "here"
    /\ \A p \in Points : life[p] # "new" => life[Home[p]] # "new"
    /\ \A o \in start \cup parts \cup monitored : life[o] # "new"
    /\ \A h \in inbox \cup dirty : life[h[2]] # "new"
    /\ ~Coming(Root)
    /\ \A d \in Devices : Planned("parts", d) => life[d] # "new"

\* A plan and a handle go with a phase.
Ended ==
    /\ phase = "setup" =>
          /\ plan # << >>
          /\ plan[Len(plan)] = <<"ready", Root>>
          /\ \A i \in DOMAIN plan : i < Len(plan) => plan[i][1] \notin {"ready", "ring"}
    /\ phase = "running" =>
          \A op \in {"ready", "root", "eachOwn", "eachParts"} : ~Planned(op, Root)
    /\ phase \in {"ended", "failed"} => plan = << >>
    /\ handle = "stopped" => phase \in {"ended", "failed"}
    /\ handle = "calling" => phase # "running"

\* The setup's order: monitor_network_changes subscribes to Root last, the
\* others first; a device's parts are listed after they are subscribed to.
Ordered ==
    Live =>
      /\ Root \in parts \/ Planned("root", Root)
      /\ (IF kind = "network" THEN Planned("eachParts", Root) ELSE Root \notin parts) =>
            Root \notin parts /\ plan = [i \in DOMAIN Setup |-> <<Setup[i], Root>>]
      /\ kind = "network" => ~Planned("eachOwn", Root)
      /\ kind # "network" => monitored = {}
      /\ \A i \in DOMAIN plan : \A d \in Devices :
            plan[i] = <<"parts", d>> => \E j \in DOMAIN plan : j > i /\ plan[j] = <<"list", d>>

\* A running monitor's plan ends in a refresh, except that of network_events,
\* which begins with it.
Rings ==
    Live /\ phase = "running" /\ kind # "events" /\ plan # << >> =>
      /\ \E o \in Objects : plan[Len(plan)] = <<"ring", o>>
      /\ \A d \in Devices : kind = "network" /\ Planned("parts", d) =>
            plan = << <<"parts", d>>, <<"list", d>>, <<"ring", d>> >>

\* The devices whose own changes a monitor needs.
OwnCovered ==
    Live /\ kind # "network" =>
      \A d \in Here(Devices) : (kind = "device" => d \in start) =>
        Subscribed(d) \/ (kind # "device" /\ Coming(d)) \/ Planned("eachOwn", Root)

\* The Wi-Fi devices whose access points a monitor needs.
PartsCovered ==
    Live /\ kind \in {"network", "events"} =>
      \A d \in Here(Wifi) : (kind = "network" => d \notin gap) =>
        d \in parts \/ Planned("parts", d) \/ Coming(d) \/ Planned("eachParts", Root)

\* The access points whose changes a monitor needs, and those it thinks it has.
PointsCovered ==
    Live /\ kind \in {"network", "events"} =>
      \A p \in Here(Points) :
        /\ (kind = "network" => Home[p] \notin gap) =>
              \/ Subscribed(p)
              \/ Planned("list", Home[p])
              \/ Coming(p) \/ Coming(Home[p])
              \/ Planned("eachParts", Root)
        /\ p \in monitored => Subscribed(p)

\* network_events has what was there at the start when its setup is over.
StartCovered ==
    Live /\ kind = "events" =>
      /\ \A d \in start \cap Here(Devices) :
            streams[d] > 0 \/ (phase = "setup" /\ (Planned("own", d) \/ Planned("eachOwn", Root)))
      /\ \A p \in start \cap Here(Points) :
            /\ \/ streams[p] > 0
               \/ /\ phase = "setup"
                  /\ Planned("own", p) \/ Planned("list", Home[p]) \/ Planned("eachParts", Root)
            /\ \/ Home[p] \in parts
               \/ phase = "setup" /\ (Planned("parts", Home[p]) \/ Planned("eachParts", Root))

\* monitor_network_changes hears of a device once.
Fresh ==
    Live /\ kind = "network" =>
      \A d \in Devices :
        /\ Coming(d) => Root \in parts /\ d \notin parts /\ ~Planned("parts", d)
        /\ phase = "running" /\ Planned("parts", d) => d \notin parts

Covered ==
    Ordered /\ Rings /\ OwnCovered /\ PartsCovered /\ PointsCovered /\ StartCovered /\ Fresh

\* A refresh is planned that cannot fail, or a signal waits that leads to one:
\* for monitor_network_changes one on the object, or on its device.
Due(h) ==
    IF kind = "network"
    THEN \/ \E g \in inbox : g[2] = h[2]
         \/ Coming(Home[h[2]])
         \/ Ringing /\ \A e \in Devices : Planned("parts", e) => e = Home[h[2]]
    ELSE inbox # {} \/ Ringing

Announces ==
    Live /\ phase = "running" /\ ~bell => \A h \in dirty : Promised(h) => Due(h)

Inv == Typed /\ Known /\ Ended /\ Covered /\ Announces

-----------------------------------------------------------------------------
(* What the devices and access points are, and where they are kept.        *)

LEMMA Apart ==
    /\ Root \notin Devices /\ Root \notin Points /\ Root \in Objects
    /\ \A d \in Devices : d \notin Points /\ d \in Objects
    /\ \A p \in Points : p \notin Devices /\ p \in Objects /\ Home[p] \in Wifi
                         /\ Home[p] \in Devices
    /\ \A d \in Wifi : d \in Devices
    /\ IsFiniteSet(Devices) /\ IsFiniteSet(Points)
  BY MonitorAssumption DEF MonitorAssumption, Objects

\* Whether a step comes after the first of the plan, and among others.
Later(op, o) == \E i \in 2 .. Len(plan) : plan[i] = <<op, o>>
Among(steps, op, o) == \E i \in DOMAIN steps : steps[i] = <<op, o>>

\* Then(steps) puts steps in the place of the plan's first.
LEMMA StepPlan ==
    ASSUME plan \in Seq(Steps), plan # << >>, NEW steps \in Seq(Steps), Then(steps)
    PROVE  /\ plan' \in Seq(Steps)
           /\ Len(plan) \in Nat \ {0} /\ Len(steps) \in Nat
           /\ Len(plan') = Len(steps) + Len(plan) - 1
           /\ \A i \in 1 .. Len(steps) : plan'[i] = steps[i]
           /\ \A i \in 2 .. Len(plan) : plan'[Len(steps) + i - 1] = plan[i]
  <1> DEFINE rest == Tail(plan)
  <1>1. /\ Len(plan) \in Nat \ {0} /\ Len(steps) \in Nat
        /\ rest \in Seq(Steps) /\ Len(rest) = Len(plan) - 1
        /\ \A i \in 1 .. Len(rest) : rest[i] = plan[i + 1]
    OBVIOUS
  <1>2. /\ plan' = steps \o rest
        /\ Len(plan') = Len(steps) + Len(rest)
        /\ \A i \in 1 .. Len(steps) : plan'[i] = steps[i]
        /\ \A i \in 1 .. Len(rest) : plan'[Len(steps) + i] = rest[i]
    <2> HIDE DEF rest
    <2>1. plan' = steps \o rest
      BY DEF Then, rest
    <2> QED
      BY <1>1, <2>1
  <1>3. plan' \in Seq(Steps)
    <2> HIDE DEF rest
    <2> QED
      BY <1>1, <1>2
  <1>4. ASSUME NEW i \in 2 .. Len(plan)
        PROVE  plan'[Len(steps) + i - 1] = plan[i]
    <2> DEFINE j == i - 1
    <2>1. j \in 1 .. Len(rest) /\ i = j + 1 /\ Len(steps) + i - 1 = Len(steps) + j
      <3> HIDE DEF rest
      <3> QED
        BY <1>1
    <2> HIDE DEF rest, j
    <2>2. plan'[Len(steps) + j] = plan[j + 1]
      BY <1>1, <1>2, <2>1
    <2> QED
      BY <2>1, <2>2
  <1> HIDE DEF rest
  <1> QED
    BY <1>1, <1>2, <1>3, <1>4

\* What is planned before and after a step.
LEMMA PlannedNow ==
    ASSUME plan \in Seq(Steps), plan # << >>, NEW op, NEW o
    PROVE  Planned(op, o) <=> (Head(plan) = <<op, o>> \/ Later(op, o))
  <1>1. Len(plan) \in Nat \ {0} /\ Head(plan) = plan[1] /\ DOMAIN plan = 1 .. Len(plan)
    OBVIOUS
  <1>2. \A i : i \in 1 .. Len(plan) <=> (i = 1 \/ i \in 2 .. Len(plan))
    BY <1>1
  <1> QED
    BY <1>1, <1>2 DEF Planned, Later

LEMMA PlannedNext ==
    ASSUME plan \in Seq(Steps), plan # << >>, NEW steps \in Seq(Steps), Then(steps)
    PROVE  \A op, o : Planned(op, o)' <=> (Among(steps, op, o) \/ Later(op, o))
  <1> SUFFICES ASSUME NEW op, NEW o
               PROVE  Planned(op, o)' <=> (Among(steps, op, o) \/ Later(op, o))
    OBVIOUS
  <1>1. /\ plan' \in Seq(Steps)
        /\ Len(plan) \in Nat \ {0} /\ Len(steps) \in Nat
        /\ Len(plan') = Len(steps) + Len(plan) - 1
        /\ \A i \in 1 .. Len(steps) : plan'[i] = steps[i]
        /\ \A i \in 2 .. Len(plan) : plan'[Len(steps) + i - 1] = plan[i]
    BY StepPlan
  <1>2. DOMAIN plan' = 1 .. Len(plan') /\ DOMAIN steps = 1 .. Len(steps)
    BY <1>1
  <1>3. ASSUME Planned(op, o)'
        PROVE  Among(steps, op, o) \/ Later(op, o)
    <2>1. PICK i \in 1 .. Len(plan') : plan'[i] = <<op, o>>
      BY <1>2, <1>3 DEF Planned
    <2>2. CASE i <= Len(steps)
      <3>1. i \in 1 .. Len(steps)
        BY <1>1, <2>1, <2>2
      <3> QED
        BY <1>1, <1>2, <2>1, <3>1 DEF Among
    <2>3. CASE i > Len(steps)
      <3> DEFINE j == i - Len(steps) + 1
      <3>1. j \in 2 .. Len(plan) /\ i = Len(steps) + j - 1
        BY <1>1, <2>1, <2>3
      <3> HIDE DEF j
      <3> QED
        BY <1>1, <2>1, <3>1 DEF Later
    <2> QED
      BY <1>1, <2>1, <2>2, <2>3
  <1>4. ASSUME Among(steps, op, o)
        PROVE  Planned(op, o)'
    <2>1. PICK i \in 1 .. Len(steps) : steps[i] = <<op, o>>
      BY <1>2, <1>4 DEF Among
    <2>2. i \in 1 .. Len(plan')
      BY <1>1
    <2> QED
      BY <1>1, <1>2, <2>1, <2>2 DEF Planned
  <1>5. ASSUME Later(op, o)
        PROVE  Planned(op, o)'
    <2>1. PICK i \in 2 .. Len(plan) : plan[i] = <<op, o>>
      BY <1>5 DEF Later
    <2> DEFINE j == Len(steps) + i - 1
    <2>2. j \in 1 .. Len(plan')
      BY <1>1
    <2>3. plan'[j] = <<op, o>>
      BY <1>1, <2>1
    <2> QED
      BY <1>2, <2>2, <2>3 DEF Planned
  <1> QED
    BY <1>3, <1>4, <1>5

-----------------------------------------------------------------------------
(* Steps that leave the objects and the task as they are, or end the task. *)

LEMMA NotLive ==
    ASSUME ~Live' PROVE Covered' /\ Announces'
  BY DEF Covered, Ordered, Rings, OwnCovered, PartsCovered, PointsCovered, StartCovered, Fresh,
         Announces

\* What depends on the plan alone.
LEMMA SamePlan ==
    ASSUME plan' = plan
    PROVE  (\A op, o : Planned(op, o)' <=> Planned(op, o)) /\ (Ringing' <=> Ringing)
  <1>1. \A op, o : Planned(op, o)' <=> Planned(op, o)
    BY DEF Planned
  <1> QED
    BY <1>1 DEF Ringing

LEMMA Aside ==
    ASSUME Covered, kind' = kind, start' = start, life' = life, gap' = gap, up' = up,
           parts' = parts, streams' = streams, monitored' = monitored, inbox' = inbox,
           plan' = plan, phase' = phase
    PROVE  Covered' /\ (\A h : Due(h)' <=> Due(h)) /\ (Live' <=> Live)
  <1>1. (\A op, o : Planned(op, o)' <=> Planned(op, o)) /\ (Ringing' <=> Ringing)
    BY SamePlan
  <1>2. Live' <=> Live
    BY DEF Live
  <1>3. \A o : (Coming(o)' <=> Coming(o)) /\ (Subscribed(o)' <=> Subscribed(o))
    BY <1>1 DEF Coming, Subscribed
  <1>4. Here(Devices)' = Here(Devices) /\ Here(Wifi)' = Here(Wifi) /\ Here(Points)' = Here(Points)
    BY DEF Here
  <1>5. Ordered'
    <2>1. Setup' = Setup
      BY DEF Setup
    <2> QED
      BY <1>1, <1>2, <2>1 DEF Covered, Ordered
  <1>6. Rings'
    BY <1>1, <1>2 DEF Covered, Rings
  <1>7. OwnCovered'
    BY <1>1, <1>2, <1>3, <1>4 DEF Covered, OwnCovered
  <1>8. PartsCovered'
    BY <1>1, <1>2, <1>3, <1>4 DEF Covered, PartsCovered
  <1>9. PointsCovered'
    BY <1>1, <1>2, <1>3, <1>4 DEF Covered, PointsCovered
  <1>10. StartCovered'
    BY <1>1, <1>2, <1>3, <1>4 DEF Covered, StartCovered
  <1>11. Fresh'
    BY <1>1, <1>2, <1>3, <1>4 DEF Covered, Fresh
  <1>12. \A h : Due(h)' <=> Due(h)
    BY <1>1, <1>3 DEF Due
  <1> QED
    BY <1>2, <1>5, <1>6, <1>7, <1>8, <1>9, <1>10, <1>11, <1>12 DEF Covered

LEMMA RefreshKeeps ==
    ASSUME Inv, Refresh PROVE Inv'
  <1>1. Covered' /\ (\A h : Due(h)' <=> Due(h)) /\ (Live' <=> Live)
    BY Aside DEF Inv, Refresh, worldVars, taskVars
  <1>2. Typed'
    BY DEF Inv, Typed, Refresh, worldVars, taskVars
  <1>3. Known'
    <2>1. \A op, o : Planned(op, o)' <=> Planned(op, o)
      BY SamePlan DEF Refresh, taskVars
    <2> QED
      BY <2>1 DEF Inv, Known, Coming, Refresh, worldVars, taskVars
  <1>4. Ended'
    <2>1. \A op, o : Planned(op, o)' <=> Planned(op, o)
      BY SamePlan DEF Refresh, taskVars
    <2> QED
      BY <2>1 DEF Inv, Ended, Refresh, worldVars, taskVars
  <1>5. Announces'
    BY DEF Announces, Refresh
  <1> QED
    BY <1>1, <1>2, <1>3, <1>4, <1>5 DEF Inv

LEMMA HoldKeeps ==
    ASSUME Inv, NEW from, NEW to, Hold(from, to),
           to \in {"givenUp", "released", "stopping", "stopped"},
           to = "stopped" => phase \in {"ended", "failed"}
    PROVE  Inv'
  <1>1. Covered' /\ (\A h : Due(h)' <=> Due(h)) /\ (Live' <=> Live)
    BY Aside DEF Inv, Hold, worldVars, taskVars
  <1>2. Typed'
    BY DEF Inv, Typed, Hold, worldVars, taskVars
  <1>3. Known'
    <2>1. \A op, o : Planned(op, o)' <=> Planned(op, o)
      BY SamePlan DEF Hold, taskVars
    <2> QED
      BY <2>1 DEF Inv, Known, Coming, Hold, worldVars, taskVars
  <1>4. Ended'
    <2>1. \A op, o : Planned(op, o)' <=> Planned(op, o)
      BY SamePlan DEF Hold, taskVars
    <2> QED
      BY <2>1 DEF Inv, Ended, Hold, worldVars, taskVars
  <1>5. Announces'
    <2>1. \A h : Promised(h)' <=> Promised(h)
      BY DEF Promised, Here, Hold, worldVars, taskVars
    <2> QED
      BY <1>1, <2>1 DEF Inv, Announces, Hold, worldVars, taskVars
  <1> QED
    BY <1>1, <1>2, <1>3, <1>4, <1>5 DEF Inv

LEMMA LoseConnectionKeeps ==
    ASSUME Inv, LoseConnection PROVE Inv'
  <1>1. Covered' /\ Announces'
    <2>1. ~Live'
      BY DEF Live, LoseConnection
    <2> QED
      BY <2>1, NotLive
  <1>2. Typed'
    BY DEF Inv, Typed, LoseConnection, taskVars
  <1>3. \A op, o : Planned(op, o)' <=> Planned(op, o)
    BY SamePlan DEF LoseConnection, taskVars
  <1>4. Known'
    BY <1>3 DEF Inv, Known, Coming, LoseConnection, taskVars
  <1>5. Ended'
    BY <1>3 DEF Inv, Ended, LoseConnection, taskVars
  <1> QED
    BY <1>1, <1>2, <1>4, <1>5 DEF Inv

\* StreamsEnd and Shutdown.
LEMMA IdleEnds ==
    ASSUME Inv, Idle, phase' \in {"ended", "failed"},
           UNCHANGED <<kind, start, worldVars, parts, streams, settled, monitored, inbox, plan,
                       handle, bell, dirty, late, skipped>>
    PROVE  Inv'
  <1>1. Covered' /\ Announces'
    <2>1. ~Live'
      BY DEF Live
    <2> QED
      BY <2>1, NotLive
  <1>2. Typed'
    BY DEF Inv, Typed, worldVars
  <1>3. \A op, o : Planned(op, o)' <=> Planned(op, o)
    BY SamePlan
  <1>4. Known'
    BY <1>3 DEF Inv, Known, Coming, worldVars
  <1>5. Ended'
    BY <1>3 DEF Inv, Ended, Idle, worldVars
  <1> QED
    BY <1>1, <1>2, <1>4, <1>5 DEF Inv

LEMMA SettleKeeps ==
    ASSUME Inv, NEW o \in Objects, Settle(o) PROVE Inv'
  <1>1. /\ kind' = kind /\ start' = start /\ life' = life /\ gap' = gap /\ up' = up
        /\ parts' = parts /\ streams' = streams /\ monitored' = monitored /\ inbox' = inbox
        /\ plan' = plan /\ phase' = phase /\ handle' = handle /\ bell' = bell
        /\ dirty' = dirty /\ late' = late /\ skipped' = skipped
        /\ settled' = settled \cup {o} /\ o \in Points \cup {Root}
    BY DEF Settle, Valued, worldVars
  <1>2. Covered' /\ (\A h : Due(h)' <=> Due(h)) /\ (Live' <=> Live)
    BY <1>1, Aside DEF Inv
  <1>3. \A op, x : Planned(op, x)' <=> Planned(op, x)
    BY <1>1, SamePlan
  <1>4. Typed'
    BY <1>1 DEF Inv, Typed
  <1>5. Known'
    BY <1>1, <1>3 DEF Inv, Known, Coming
  <1>6. Ended'
    BY <1>1, <1>3 DEF Inv, Ended
  <1>7. Announces'
    <2>1. \A h : Promised(h)' <=> Promised(h)
      BY <1>1 DEF Promised, Here
    <2> QED
      BY <1>1, <1>2, <2>1 DEF Inv, Announces
  <1> QED
    BY <1>2, <1>4, <1>5, <1>6, <1>7 DEF Inv

-----------------------------------------------------------------------------
(* What happens to the objects.                                            *)

\* The plan the setup begins with, step by step.
LEMMA SetupShape ==
    ASSUME kind \in {"network", "device", "settings", "events"},
           plan = [i \in DOMAIN Setup |-> <<Setup[i], Root>>]
    PROVE  /\ plan \in Seq(Steps) /\ plan # << >> /\ DOMAIN plan = 1 .. Len(plan)
           /\ kind = "network" =>
                /\ Len(plan) = 3 /\ plan[1] = <<"eachParts", Root>>
                /\ plan[2] = <<"root", Root>> /\ plan[3] = <<"ready", Root>>
           /\ kind = "events" =>
                /\ Len(plan) = 4 /\ plan[1] = <<"root", Root>> /\ plan[2] = <<"eachOwn", Root>>
                /\ plan[3] = <<"eachParts", Root>> /\ plan[4] = <<"ready", Root>>
           /\ kind \in {"device", "settings"} =>
                /\ Len(plan) = 3 /\ plan[1] = <<"root", Root>>
                /\ plan[2] = <<"eachOwn", Root>> /\ plan[3] = <<"ready", Root>>
  <1>1. /\ Setup \in Seq({"root", "eachOwn", "eachParts", "ready"})
        /\ kind = "network" =>
             Len(Setup) = 3 /\ Setup[1] = "eachParts" /\ Setup[2] = "root" /\ Setup[3] = "ready"
        /\ kind = "events" =>
             /\ Len(Setup) = 4 /\ Setup[1] = "root" /\ Setup[2] = "eachOwn"
             /\ Setup[3] = "eachParts" /\ Setup[4] = "ready"
        /\ kind \in {"device", "settings"} =>
             Len(Setup) = 3 /\ Setup[1] = "root" /\ Setup[2] = "eachOwn" /\ Setup[3] = "ready"
    <2>1. CASE kind = "network"
      <3>1. Setup = << "eachParts", "root", "ready" >>
        BY <2>1 DEF Setup
      <3> QED
        BY <2>1, <3>1
    <2>2. CASE kind = "events"
      <3>1. Setup = << "root", "eachOwn", "eachParts", "ready" >>
        BY <2>2 DEF Setup
      <3> QED
        BY <2>2, <3>1
    <2>3. CASE kind \in {"device", "settings"}
      <3>1. Setup = << "root", "eachOwn", "ready" >>
        BY <2>3 DEF Setup
      <3> QED
        BY <2>3, <3>1
    <2> QED
      BY <2>1, <2>2, <2>3
  <1>2. Len(Setup) \in {3, 4}
    BY <1>1
  <1>3. PICK setup : setup = Setup
    OBVIOUS
  <1>4. /\ plan \in Seq(Steps) /\ Len(plan) = Len(setup) /\ DOMAIN plan = 1 .. Len(plan)
        /\ \A i \in 1 .. Len(setup) : plan[i] = <<setup[i], Root>>
    <2>1. /\ setup \in Seq({"root", "eachOwn", "eachParts", "ready"})
          /\ plan = [i \in DOMAIN setup |-> <<setup[i], Root>>]
      BY <1>1, <1>3, Zenon
    <2> QED
      BY <2>1 DEF Steps
  <1>5. plan # << >>
    BY <1>2, <1>3, <1>4
  <1>6. /\ kind = "network" =>
             Len(setup) = 3 /\ setup[1] = "eachParts" /\ setup[2] = "root" /\ setup[3] = "ready"
        /\ kind = "events" =>
             /\ Len(setup) = 4 /\ setup[1] = "root" /\ setup[2] = "eachOwn"
             /\ setup[3] = "eachParts" /\ setup[4] = "ready"
        /\ kind \in {"device", "settings"} =>
             Len(setup) = 3 /\ setup[1] = "root" /\ setup[2] = "eachOwn" /\ setup[3] = "ready"
    BY <1>1, <1>3, Zenon
  <1>7. ASSUME Len(setup) = 3
        PROVE  Len(plan) = 3 /\ plan[1] = <<setup[1], Root>> /\ plan[2] = <<setup[2], Root>>
               /\ plan[3] = <<setup[3], Root>>
    BY <1>4, <1>7
  <1>8. ASSUME Len(setup) = 4
        PROVE  Len(plan) = 4 /\ plan[1] = <<setup[1], Root>> /\ plan[2] = <<setup[2], Root>>
               /\ plan[3] = <<setup[3], Root>> /\ plan[4] = <<setup[4], Root>>
    BY <1>4, <1>8
  <1> QED
    BY <1>4, <1>5, <1>6, <1>7, <1>8

LEMMA SetupPlans ==
    ASSUME kind \in {"network", "device", "settings", "events"},
           plan = [i \in DOMAIN Setup |-> <<Setup[i], Root>>]
    PROVE  /\ plan # << >>
           /\ \A op, o : Planned(op, o) =>
                o = Root /\ op \in {"root", "eachOwn", "eachParts", "ready"}
           /\ kind = "network" => ~Planned("eachOwn", Root)
           /\ kind \in {"network", "events"} => Planned("eachParts", Root)
           /\ kind # "network" => Planned("eachOwn", Root)
           /\ Planned("root", Root)
  <1>1. /\ plan # << >> /\ DOMAIN plan = 1 .. Len(plan)
        /\ kind = "network" =>
             /\ Len(plan) = 3 /\ plan[1] = <<"eachParts", Root>>
             /\ plan[2] = <<"root", Root>> /\ plan[3] = <<"ready", Root>>
        /\ kind = "events" =>
             /\ Len(plan) = 4 /\ plan[1] = <<"root", Root>> /\ plan[2] = <<"eachOwn", Root>>
             /\ plan[3] = <<"eachParts", Root>> /\ plan[4] = <<"ready", Root>>
        /\ kind \in {"device", "settings"} =>
             /\ Len(plan) = 3 /\ plan[1] = <<"root", Root>>
             /\ plan[2] = <<"eachOwn", Root>> /\ plan[3] = <<"ready", Root>>
    BY SetupShape
  <1>2. ASSUME NEW op, NEW o, Planned(op, o)
        PROVE  /\ o = Root /\ op \in {"root", "eachOwn", "eachParts", "ready"}
               /\ kind = "network" => op # "eachOwn"
    <2>1. PICK i \in 1 .. Len(plan) : plan[i] = <<op, o>>
      BY <1>1, <1>2 DEF Planned
    <2>2. CASE kind = "network"
      <3> Len(plan) = 3
        BY <1>1, <2>2
      <3>1. i = 1 \/ i = 2 \/ i = 3
        OBVIOUS
      <3> QED
        BY <1>1, <2>1, <2>2, <3>1
    <2>3. CASE kind = "events"
      <3> Len(plan) = 4
        BY <1>1, <2>3
      <3>1. i = 1 \/ i = 2 \/ i = 3 \/ i = 4
        OBVIOUS
      <3> QED
        BY <1>1, <2>1, <2>3, <3>1
    <2>4. CASE kind \in {"device", "settings"}
      <3> Len(plan) = 3
        BY <1>1, <2>4
      <3>1. i = 1 \/ i = 2 \/ i = 3
        OBVIOUS
      <3> QED
        BY <1>1, <2>1, <2>4, <3>1
    <2> QED
      BY <2>2, <2>3, <2>4
  <1>3. /\ kind \in {"network", "events"} => Planned("eachParts", Root)
        /\ kind # "network" => Planned("eachOwn", Root)
        /\ Planned("root", Root)
    <2>1. CASE kind = "network"
      BY <1>1, <2>1 DEF Planned
    <2>2. CASE kind = "events"
      BY <1>1, <2>2 DEF Planned
    <2>3. CASE kind \in {"device", "settings"}
      BY <1>1, <2>3 DEF Planned
    <2> QED
      BY <2>1, <2>2, <2>3
  <1> QED
    BY <1>1, <1>2, <1>3

\* A running monitor's planned steps come before a refresh, unless it is
\* network_events; monitor_network_changes subscribes to one device at most.
LEMMA RingFollows ==
    ASSUME Typed, Rings, Live, phase = "running", kind # "events",
           NEW op, NEW o, Planned(op, o)
    PROVE  /\ Ringing
           /\ kind = "network" =>
                \A e \in Devices : Planned("parts", e) => op \in {"parts", "list", "ring"} /\ o = e
  <1>1. plan # << >>
    BY DEF Planned
  <1>2. plan \in Seq(Steps) /\ Len(plan) \in DOMAIN plan
    BY <1>1 DEF Typed
  <1>3. Ringing
    BY <1>1, <1>2 DEF Rings, Ringing, Planned
  <1>4. ASSUME kind = "network", NEW e \in Devices, Planned("parts", e)
        PROVE  op \in {"parts", "list", "ring"} /\ o = e
    <2>1. plan = << <<"parts", e>>, <<"list", e>>, <<"ring", e>> >>
      BY <1>1, <1>4 DEF Rings
    <2>2. DOMAIN plan = 1 .. 3 /\ plan[1] = <<"parts", e>> /\ plan[2] = <<"list", e>>
          /\ plan[3] = <<"ring", e>>
      BY <2>1
    <2>3. PICK i \in 1 .. 3 : plan[i] = <<op, o>>
      BY <2>2 DEF Planned
    <2>4. i = 1 \/ i = 2 \/ i = 3
      OBVIOUS
    <2> QED
      BY <2>2, <2>3, <2>4
  <1> QED
    BY <1>3, <1>4

\* What is planned, subscribed to, heard and due stays so.
LEMMA Happening ==
    ASSUME NEW what, NEW o, Happens(what, o)
    PROVE  /\ \A op, x : Planned(op, x)' <=> Planned(op, x)
           /\ Ringing' <=> Ringing
           /\ \A x : Subscribed(x)' <=> Subscribed(x)
           /\ Live' <=> Live
           /\ inbox \subseteq inbox' /\ inbox' \subseteq inbox \cup {<<what, o>>}
           /\ Heard(what, o) => <<what, o>> \in inbox'
           /\ \A x : Coming(x) => Coming(x)'
           /\ \A x : Coming(x)' => Coming(x) \/ (what = "added" /\ x = o /\ Heard(what, o))
           /\ \A h : Due(h) => Due(h)'
  <1>1. (\A op, x : Planned(op, x)' <=> Planned(op, x)) /\ (Ringing' <=> Ringing)
    BY SamePlan DEF Happens
  <1>2. /\ inbox \subseteq inbox' /\ inbox' \subseteq inbox \cup {<<what, o>>}
        /\ Heard(what, o) => <<what, o>> \in inbox'
    BY DEF Happens
  <1>3. \A x : Subscribed(x)' <=> Subscribed(x)
    BY <1>1 DEF Subscribed, Happens
  <1>4. Live' <=> Live
    BY DEF Live, Happens
  <1>5. /\ \A x : Coming(x) => Coming(x)'
        /\ \A x : Coming(x)' => Coming(x) \/ (what = "added" /\ x = o /\ Heard(what, o))
    BY DEF Coming, Happens
  <1>6. \A h : Due(h) => Due(h)'
    BY <1>1, <1>2, <1>5 DEF Due, Happens
  <1> QED
    BY <1>1, <1>2, <1>3, <1>4, <1>5, <1>6

\* What happens now and is to be reported has a signal or a refresh to come.
LEMMA HappeningDue ==
    ASSUME Inv, NEW what \in {"added", "removed", "changed", "set"}, NEW o \in Objects,
           Happens(what, o), Live, phase = "running",
           what = "added" => life[o] = "new", what # "added" => life[o] = "here",
           what \in {"added", "removed"} => o # Root, what = "changed" => o \notin Points,
           what = "set" => o \in Points \cup {Root}, o \in Points => life[Home[o]] = "here",
           gap \subseteq gap', Promised(<<what, o>>)'
    PROVE  Due(<<what, o>>)'
  <1> DEFINE h == <<what, o>>
  <1>1. h[1] = what /\ h[2] = o
    OBVIOUS
  <1>2. /\ Heard(what, o) => h \in inbox'
        /\ inbox \subseteq inbox' /\ \A g : Due(g) => Due(g)'
    BY Happening
  <1>3. Typed /\ Known /\ Ended /\ Ordered /\ Rings /\ OwnCovered /\ PartsCovered /\ PointsCovered
        /\ StartCovered /\ Fresh
    BY DEF Inv, Covered
  <1>4. kind' = kind /\ start' = start /\ parts' = parts
    BY DEF Happens
  <1>5. Root \in parts /\ ~Planned("eachOwn", Root) /\ ~Planned("eachParts", Root)
    BY <1>3 DEF Ended, Ordered
  <1>8. ASSUME what = "set", ~Heard(what, o)
        PROVE  ~Valued(o)
    <2>1. h \notin skipped'
      BY DEF Promised
    <2>2. o \notin settled
      BY <1>8 DEF Heard
    <2> QED
      BY <1>8, <2>1, <2>2 DEF Happens
  <1>6. CASE kind = "network"
    <2>1. o \in Points /\ Home[o] \notin gap
      BY <1>1, <1>4, <1>6 DEF Promised
    <2> DEFINE d == Home[o]
    <2>2. d \in Devices /\ d \in Here(Wifi) /\ o # Root
      BY <2>1, Apart DEF Here
    <2>3. ASSUME h \in inbox' PROVE Due(h)'
      BY <1>1, <1>4, <1>6, <2>3 DEF Due
    <2>4. CASE Heard(what, o)
      BY <1>2, <2>3, <2>4
    <2>5. CASE what \in {"added", "removed"} /\ ~Heard(what, o)
      <3>1. d \notin parts
        BY <2>1, <2>2, <2>5 DEF Heard
      <3>2. Planned("parts", d) \/ Coming(d)
        BY <1>3, <1>5, <1>6, <2>1, <2>2, <3>1 DEF PartsCovered
      <3>3. CASE Coming(d)
        BY <1>1, <1>2, <1>6, <3>3 DEF Due
      <3>4. CASE Planned("parts", d)
        <4>1. Ringing /\ \A e \in Devices : Planned("parts", e) => d = e
          BY <1>3, <1>6, <3>4, RingFollows
        <4>2. Due(h)
          BY <1>1, <1>6, <4>1 DEF Due
        <4> QED
          BY <1>2, <4>2
      <3> QED
        BY <3>2, <3>3, <3>4
    <2>6. CASE what = "set" /\ ~Heard(what, o)
      <3>1. ~(streams[o] > 0)
        BY <1>8, <2>1, <2>6 DEF Valued
      <3>2. Planned("own", o) \/ Planned("list", d) \/ Coming(o) \/ Coming(d)
        <4>1. o \in Here(Points)
          BY <2>1, <2>6 DEF Here
        <4> QED
          BY <1>3, <1>5, <1>6, <2>1, <3>1, <4>1 DEF PointsCovered, Subscribed
      <3>3. Due(h)
        <4>1. CASE Planned("own", o)
          <5>1. Ringing /\ \A e \in Devices : ~Planned("parts", e)
            BY <1>3, <1>6, <4>1, RingFollows
          <5> QED
            BY <1>6, <5>1 DEF Due
        <4>2. CASE Planned("list", d)
          <5>1. Ringing /\ \A e \in Devices : Planned("parts", e) => d = e
            BY <1>3, <1>6, <4>2, RingFollows
          <5> QED
            BY <1>1, <1>6, <5>1 DEF Due
        <4>3. CASE Coming(o)
          <5>1. <<"added", o>> \in inbox /\ <<"added", o>>[2] = o
            BY <4>3 DEF Coming
          <5> QED
            BY <1>1, <1>6, <5>1 DEF Due
        <4>4. CASE Coming(d)
          BY <1>1, <1>6, <4>4 DEF Due
        <4> QED
          BY <3>2, <4>1, <4>2, <4>3, <4>4
      <3> QED
        BY <1>2, <3>3
    <2> QED
      BY <2>1, <2>4, <2>5, <2>6
  <1>7. CASE kind # "network"
    <2>1. ASSUME inbox' # {} PROVE Due(h)'
      BY <1>4, <1>7, <2>1 DEF Due
    <2>2. CASE Heard(what, o)
      BY <1>2, <2>1, <2>2
    <2>3. ASSUME NEW x, Coming(x) PROVE Due(h)'
      BY <1>2, <2>1, <2>3 DEF Coming
    <2>4. ASSUME NEW op, NEW x, Planned(op, x), kind # "events" PROVE Due(h)'
      <3>1. Ringing
        BY <1>3, <2>4, RingFollows
      <3>2. Due(h)
        BY <1>7, <3>1 DEF Due
      <3> QED
        BY <1>2, <3>2
    <2>5. CASE o = Root
      <3>1. CASE what = "changed"
        <4>1. kind \in {"device", "events"}
          BY <1>1, <1>3, <1>4, <1>7, <2>5, <3>1, Apart DEF Promised, Typed
        <4>2. Heard(what, o)
          BY <1>5, <2>5, <3>1, <4>1 DEF Heard
        <4> QED
          BY <2>2, <4>2
      <3>2. CASE what = "set"
        <4>1. kind \in {"settings", "events"}
          BY <1>1, <1>3, <1>4, <1>7, <2>5, <3>2 DEF Promised, Typed
        <4>2. Valued(o)
          BY <1>5, <2>5, <4>1 DEF Valued
        <4>3. Heard(what, o)
          BY <1>8, <3>2, <4>2
        <4> QED
          BY <2>2, <4>3
      <3> QED
        BY <2>5, <3>1, <3>2
    <2>6. CASE o \in Devices
      <3>1. o \notin Points /\ o # Root
        BY <2>6, Apart
      <3>2. CASE what \in {"added", "removed"}
        <4>1. Heard(what, o)
          BY <1>5, <1>7, <3>1, <3>2 DEF Heard
        <4> QED
          BY <2>2, <4>1
      <3>3. CASE what = "changed"
        <4>1. o \in Here(Devices)
          BY <2>6, <3>3 DEF Here
        <4>2. kind = "device" => o \in start
          BY <1>1, <1>4, <3>1, <3>3 DEF Promised
        <4>3. Subscribed(o) \/ Coming(o)
          BY <1>3, <1>5, <1>7, <4>1, <4>2 DEF OwnCovered
        <4>4. CASE streams[o] > 0
          <5>1. Heard(what, o)
            BY <3>1, <3>3, <4>4 DEF Heard
          <5> QED
            BY <2>2, <5>1
        <4>5. CASE Planned("own", o) /\ kind = "events"
          <5>1. plan # << >>
            BY <4>5 DEF Planned
          <5>2. h \in late'
            BY <4>5, <5>1 DEF Happens
          <5>3. o \in start
            BY <1>1, <1>4, <3>1, <4>5, <5>2 DEF Promised
          <5>4. streams[o] > 0
            BY <1>3, <4>1, <4>5, <5>3 DEF StartCovered
          <5> QED
            BY <4>4, <5>4
        <4> QED
          BY <2>3, <2>4, <4>3, <4>4, <4>5 DEF Subscribed
      <3> QED
        BY <2>6, <3>1, <3>2, <3>3
    <2>7. CASE o \in Points
      <3>1. o # Root /\ Home[o] \in Devices /\ Home[o] \in Here(Wifi)
        BY <2>7, Apart DEF Here
      <3>2. kind = "events"
        BY <1>1, <1>3, <1>4, <1>6, <1>7, <2>7, <3>1 DEF Promised, Typed
      <3>3. CASE what \in {"added", "removed"} /\ ~Heard(what, o)
        <4>1. Home[o] \notin parts
          BY <2>7, <3>1, <3>3 DEF Heard
        <4>2. Planned("parts", Home[o]) \/ Coming(Home[o])
          BY <1>3, <1>5, <3>1, <3>2, <4>1 DEF PartsCovered
        <4>3. CASE Planned("parts", Home[o])
          <5>1. plan # << >>
            BY <4>3 DEF Planned
          <5>2. h \in late'
            BY <3>2, <5>1 DEF Happens
          <5>3. o \in start
            BY <1>1, <1>4, <3>1, <3>2, <5>2 DEF Promised
          <5>4. o \in Here(Points)
            BY <1>3, <2>7, <3>3, <5>3 DEF Known, Here
          <5> QED
            BY <1>3, <3>2, <4>1, <5>3, <5>4 DEF StartCovered
        <4> QED
          BY <2>3, <4>2, <4>3
      <3>4. CASE what = "set" /\ ~Heard(what, o)
        <4>1. ~(streams[o] > 0)
          BY <1>8, <2>7, <3>4 DEF Valued
        <4>2. o \in Here(Points)
          BY <2>7, <3>4 DEF Here
        <4>3. Subscribed(o) \/ Planned("list", Home[o]) \/ Coming(o) \/ Coming(Home[o])
          BY <1>3, <1>5, <3>2, <4>2 DEF PointsCovered
        <4>4. CASE Planned("own", o) \/ Planned("list", Home[o])
          <5>1. plan # << >>
            BY <4>4 DEF Planned
          <5>2. h \in late'
            BY <3>2, <5>1 DEF Happens
          <5>3. o \in start
            BY <1>1, <1>4, <3>1, <3>2, <5>2 DEF Promised
          <5> QED
            BY <1>3, <3>2, <4>1, <4>2, <5>3 DEF StartCovered
        <4> QED
          BY <2>3, <4>1, <4>3, <4>4 DEF Subscribed
      <3> QED
        BY <2>2, <2>7, <3>3, <3>4
    <2> QED
      BY <2>5, <2>6, <2>7 DEF Objects
  <1> QED
    BY <1>6, <1>7

-----------------------------------------------------------------------------
\* What does not depend on the happening.
LEMMA HappensTyped ==
    ASSUME Typed, NEW what \in {"added", "removed", "changed", "set"}, NEW o \in Objects,
           Happens(what, o), life' \in [Objects -> {"new", "here", "gone"}],
           gap' \subseteq Devices, dirty' \subseteq Happenings
    PROVE  Typed'
  <1>1. <<what, o>> \in Happenings
    BY DEF Happenings
  <1>2. inbox' \subseteq Happenings /\ late' \subseteq Happenings /\ skipped' \subseteq Happenings
    BY <1>1 DEF Typed, Happens
  <1> QED
    BY <1>2 DEF Typed, Happens

LEMMA HappensOrder ==
    ASSUME Ended, Ordered, Rings, NEW what, NEW o, Happens(what, o)
    PROVE  Ended' /\ Ordered' /\ Rings'
  <1>1. (\A op, x : Planned(op, x)' <=> Planned(op, x)) /\ (Live' <=> Live)
    BY Happening
  <1>2. /\ kind' = kind /\ parts' = parts /\ monitored' = monitored /\ plan' = plan
        /\ phase' = phase /\ handle' = handle
    BY DEF Happens
  <1>3. Setup' = Setup
    BY <1>2 DEF Setup
  <1>4. Ended'
    BY <1>1, <1>2 DEF Ended
  <1>5. Ordered'
    BY <1>1, <1>2, <1>3 DEF Ordered
  <1>6. Rings'
    BY <1>1, <1>2 DEF Rings
  <1> QED
    BY <1>4, <1>5, <1>6

\* Removals and changes leave fewer objects to cover.
LEMMA FewerCovered ==
    ASSUME Covered, NEW what \in {"removed", "changed", "set"}, NEW o, Happens(what, o),
           Here(Devices)' \subseteq Here(Devices), Here(Wifi)' \subseteq Here(Wifi),
           Here(Points)' \subseteq Here(Points), gap' = gap
    PROVE  OwnCovered' /\ PartsCovered' /\ PointsCovered' /\ StartCovered' /\ Fresh'
  <1>1. /\ \A op, x : Planned(op, x)' <=> Planned(op, x)
        /\ \A x : Subscribed(x)' <=> Subscribed(x)
        /\ Live' <=> Live
        /\ \A x : Coming(x)' <=> Coming(x)
    BY Happening
  <1>2. /\ kind' = kind /\ start' = start /\ parts' = parts /\ streams' = streams
        /\ monitored' = monitored /\ phase' = phase
    BY DEF Happens
  <1>3. OwnCovered'
    BY <1>1, <1>2 DEF Covered, OwnCovered
  <1>4. PartsCovered'
    BY <1>1, <1>2 DEF Covered, PartsCovered
  <1>5. PointsCovered'
    BY <1>1, <1>2 DEF Covered, PointsCovered
  <1>6. StartCovered'
    BY <1>1, <1>2 DEF Covered, StartCovered
  <1>7. Fresh'
    BY <1>1, <1>2 DEF Covered, Fresh
  <1> QED
    BY <1>3, <1>4, <1>5, <1>6, <1>7

\* A signal or a value says that something has changed.
LEMMA ChangeKeeps ==
    ASSUME Inv, NEW o \in Objects, NEW what \in {"changed", "set"}, Happens(what, o),
           life[o] = "here", life' = life, gap' = gap, dirty' = dirty \cup {<<what, o>>},
           what = "changed" => o \notin Points, what = "set" => o \in Points \cup {Root}
    PROVE  Inv'
  <1>1. /\ kind' = kind /\ start' = start /\ up' = up /\ parts' = parts
        /\ monitored' = monitored /\ phase' = phase /\ bell' = bell
    BY DEF Happens
  <1>2. Typed'
    <2>1. life' \in [Objects -> {"new", "here", "gone"}] /\ gap' \subseteq Devices
      BY DEF Inv, Typed
    <2>2. dirty' \subseteq Happenings
      BY DEF Inv, Typed, Happenings
    <2>3. Typed
      BY DEF Inv
    <2> QED
      BY <2>1, <2>2, <2>3, HappensTyped
  <1>3. /\ \A op, x : Planned(op, x)' <=> Planned(op, x)
        /\ Live' <=> Live
        /\ inbox' \subseteq inbox \cup {<<what, o>>}
        /\ \A h : Due(h) => Due(h)'
    BY Happening
  <1>4. Known'
    <2>1. ~Coming(Root)'
      BY <1>3 DEF Inv, Known, Coming
    <2> QED
      BY <1>1, <1>3, <2>1 DEF Inv, Known
  <1>5. Ended' /\ Ordered' /\ Rings'
    BY HappensOrder DEF Inv, Covered
  <1>6. OwnCovered' /\ PartsCovered' /\ PointsCovered' /\ StartCovered' /\ Fresh'
    BY FewerCovered DEF Inv, Here
  <1>7. Announces'
    <2> SUFFICES ASSUME Live, phase = "running", ~bell, NEW h \in dirty', Promised(h)'
                 PROVE  Due(h)'
      BY <1>1, <1>3 DEF Announces
    <2>1. CASE h = <<what, o>>
      <3>1. o \in Points => life[Home[o]] = "here"
        BY DEF Inv, Known
      <3> QED
        BY <2>1, <3>1, HappeningDue
    <2>2. CASE h \in dirty /\ h # <<what, o>>
      <3>1. late \subseteq late'
        BY DEF Happens
      <3>2. kind \in {"network", "device", "settings", "events"}
        BY DEF Inv, Typed
      <3>3. Promised(h)
        <4>1. h \notin skipped
          BY <2>2 DEF Promised, Happens
        <4> QED
          BY <1>1, <3>1, <3>2, <4>1 DEF Promised, Here
      <3> QED
        BY <1>3, <2>2, <3>3 DEF Inv, Announces
    <2> QED
      BY <2>1, <2>2
  <1> QED
    BY <1>2, <1>4, <1>5, <1>6, <1>7 DEF Inv, Covered

LEMMA VanishKeeps ==
    ASSUME Inv, NEW o \in Objects, Vanish(o) PROVE Inv'
  <1>1. /\ Happens("removed", o) /\ life[o] = "here" /\ o # Root
        /\ \A p \in Points : Home[p] = o => life[p] # "here"
        /\ life' = [life EXCEPT ![o] = "gone"] /\ gap' = gap
    BY DEF Vanish
  <1>2. /\ kind' = kind /\ start' = start /\ up' = up /\ parts' = parts
        /\ monitored' = monitored /\ phase' = phase /\ bell' = bell
    BY <1>1 DEF Happens
  <1>3. dirty' \subseteq dirty \cup {<<"removed", o>>}
    BY DEF Vanish
  <1>4. /\ life' \in [Objects -> {"new", "here", "gone"}]
        /\ life'[o] = "gone" /\ \A x \in Objects : x # o => life'[x] = life[x]
    BY <1>1 DEF Inv, Typed
  <1>5. Typed'
    <2>1. dirty' \subseteq Happenings
      BY <1>3 DEF Inv, Typed, Happenings
    <2> QED
      BY <1>1, <1>4, <2>1, HappensTyped DEF Inv, Typed
  <1>6. /\ \A op, x : Planned(op, x)' <=> Planned(op, x)
        /\ Live' <=> Live
        /\ inbox' \subseteq inbox \cup {<<"removed", o>>}
        /\ \A h : Due(h) => Due(h)'
    BY <1>1, Happening
  <1>7. Known'
    <2>1. /\ life[Root] = "here"
          /\ \A p \in Points : life[p] = "here" => life[Home[p]] = "here"
          /\ \A p \in Points : life[p] # "new" => life[Home[p]] # "new"
          /\ \A x \in start \cup parts \cup monitored : life[x] # "new"
          /\ \A h \in inbox \cup dirty : life[h[2]] # "new"
          /\ \A d \in Devices : Planned("parts", d) => life[d] # "new"
      BY DEF Inv, Known
    <2>2. \A x \in Objects : life[x] # "new" => life'[x] # "new"
      BY <1>4
    <2>3. \A h \in inbox' \cup dirty' : h[2] \in Objects
      BY <1>5 DEF Typed, Happenings
    <2>4. \A h \in inbox' \cup dirty' : life'[h[2]] # "new"
      <3>1. \A h \in inbox' \cup dirty' : h = <<"removed", o>> \/ h \in inbox \cup dirty
        BY <1>3, <1>6
      <3> QED
        BY <1>1, <2>1, <2>2, <2>3, <3>1
    <2>5. \A x \in start \cup parts \cup monitored : x \in Objects
      BY DEF Inv, Typed, Things, Objects
    <2>6. \A x \in start' \cup parts' \cup monitored' : life'[x] # "new"
      BY <1>2, <2>1, <2>2, <2>5
    <2>7. \A p \in Points : life'[p] = "here" => life'[Home[p]] = "here"
      BY <1>1, <1>4, <2>1, Apart
    <2>8. \A p \in Points : life'[p] # "new" => life'[Home[p]] # "new"
      BY <1>1, <1>4, <2>1, Apart
    <2>9. life'[Root] = "here"
      BY <1>1, <1>4, <2>1, Apart
    <2>10. \A d \in Devices : Planned("parts", d)' => life'[d] # "new"
      BY <1>6, <2>1, <2>2, Apart
    <2>11. ~Coming(Root)'
      BY <1>6 DEF Inv, Known, Coming
    <2> QED
      BY <2>4, <2>6, <2>7, <2>8, <2>9, <2>10, <2>11 DEF Known
  <1>8. Ended' /\ Ordered' /\ Rings'
    BY <1>1, HappensOrder DEF Inv, Covered
  <1>9. /\ Here(Devices)' \subseteq Here(Devices) /\ Here(Wifi)' \subseteq Here(Wifi)
        /\ Here(Points)' \subseteq Here(Points)
    BY <1>4, Apart DEF Here
  <1>10. OwnCovered' /\ PartsCovered' /\ PointsCovered' /\ StartCovered' /\ Fresh'
    BY <1>1, <1>9, FewerCovered DEF Inv
  <1>11. Announces'
    <2> SUFFICES ASSUME Live, phase = "running", ~bell, NEW h \in dirty', Promised(h)'
                 PROVE  Due(h)'
      BY <1>2, <1>6 DEF Announces
    <2>1. CASE h = <<"removed", o>>
      <3>1. o \in Points => life[Home[o]] = "here"
        BY <1>1 DEF Inv, Known
      <3> QED
        BY <1>1, <2>1, <3>1, HappeningDue
    <2>2. CASE h \in dirty
      <3>1. late \subseteq late' /\ skipped' = skipped
        BY <1>1 DEF Happens
      <3>2. kind \in {"network", "device", "settings", "events"}
        BY DEF Inv, Typed
      <3>3. Promised(h)
        BY <1>1, <1>2, <1>9, <3>1, <3>2 DEF Promised
      <3> QED
        BY <1>6, <2>2, <3>3 DEF Inv, Announces
    <2> QED
      BY <1>3, <2>1, <2>2
  <1> QED
    BY <1>5, <1>7, <1>8, <1>10, <1>11 DEF Inv, Covered

LEMMA AppearCovered ==
    ASSUME Inv, NEW o \in Objects, Appear(o)
    PROVE  OwnCovered' /\ PartsCovered' /\ PointsCovered' /\ StartCovered' /\ Fresh'
  <1>1. /\ Happens("added", o) /\ life[o] = "new" /\ life[Parent(o)] = "here"
        /\ life' = [life EXCEPT ![o] = "here"]
        /\ gap' = IF o \in Devices /\ Root \notin parts THEN gap \cup {o} ELSE gap
    BY DEF Appear
  <1>2. /\ kind' = kind /\ start' = start /\ up' = up /\ parts' = parts /\ streams' = streams
        /\ monitored' = monitored /\ phase' = phase /\ bell' = bell
    BY <1>1 DEF Happens
  <1>3. /\ life'[o] = "here" /\ \A x \in Objects : x # o => life'[x] = life[x]
    BY <1>1 DEF Inv, Typed
  <1>4. /\ \A op, x : Planned(op, x)' <=> Planned(op, x)
        /\ \A x : Subscribed(x)' <=> Subscribed(x)
        /\ Live' <=> Live
        /\ Heard("added", o) => <<"added", o>> \in inbox'
        /\ \A x : Coming(x) => Coming(x)'
        /\ \A x : Coming(x)' => Coming(x) \/ (x = o /\ Heard("added", o))
    BY <1>1, Happening
  <1>5. Typed /\ Known /\ Ordered /\ OwnCovered /\ PartsCovered /\ PointsCovered
        /\ StartCovered /\ Fresh
    BY DEF Inv, Covered
  <1>6. o \notin start \cup parts \cup monitored /\ o # Root
    BY <1>1, <1>5 DEF Known
  <1>7. gap \subseteq gap' /\ (o \notin Devices => gap' = gap)
    BY <1>1
  <1>8. \A S : S \in {Devices, Wifi, Points} => \A x \in S : x # o /\ life'[x] = "here" => x \in Here(S)
    BY <1>3, Apart DEF Here
  <1>9. ASSUME o \in Devices, Heard("added", o) PROVE Root \in parts /\ Coming(o)'
    BY <1>4, <1>6, <1>9, Apart DEF Heard, Coming
  <1>10. ASSUME o \in Devices, ~Heard("added", o)
         PROVE  /\ Root \notin parts
                /\ kind # "network" /\ Live =>
                     /\ Planned("eachOwn", Root)
                     /\ kind = "events" => Planned("eachParts", Root)
    <2>1. Root \notin parts
      BY <1>6, <1>10, Apart DEF Heard
    <2>2. ASSUME kind # "network", Live
          PROVE  plan = [i \in DOMAIN Setup |-> <<Setup[i], Root>>]
      BY <1>5, <2>1, <2>2 DEF Ordered
    <2> QED
      BY <1>5, <2>1, <2>2, SetupPlans DEF Typed
  <1>11. OwnCovered'
    <2> SUFFICES ASSUME Live, kind # "network", NEW d \in Devices, life'[d] = "here",
                        kind = "device" => d \in start
                 PROVE  \/ Subscribed(d)' \/ Planned("eachOwn", Root)'
                        \/ kind # "device" /\ Coming(d)'
      BY <1>2, <1>4 DEF OwnCovered, Here
    <2>1. CASE d = o
      <3>1. kind # "device"
        BY <1>6, <2>1
      <3> QED
        BY <1>4, <1>9, <1>10, <2>1, <3>1
    <2>2. CASE d # o
      BY <1>4, <1>5, <1>8, <2>2 DEF OwnCovered
    <2> QED
      BY <2>1, <2>2
  <1>12. PartsCovered'
    <2> SUFFICES ASSUME Live, kind \in {"network", "events"}, NEW d \in Wifi, life'[d] = "here",
                        kind = "network" => d \notin gap'
                 PROVE  d \in parts \/ Planned("parts", d)' \/ Coming(d)'
                        \/ Planned("eachParts", Root)'
      BY <1>2, <1>4 DEF PartsCovered, Here
    <2>1. CASE d = o
      <3>1. o \in Devices
        BY <2>1, Apart
      <3>2. kind = "network" => Root \in parts
        BY <1>1, <2>1, <3>1
      <3> QED
        BY <1>4, <1>9, <1>10, <2>1, <3>1, <3>2
    <2>2. CASE d # o
      BY <1>4, <1>5, <1>7, <1>8, <2>2 DEF PartsCovered
    <2> QED
      BY <2>1, <2>2
  <1>13. PointsCovered'
    <2> SUFFICES ASSUME Live, kind \in {"network", "events"}, NEW p \in Points, life'[p] = "here"
                 PROVE  /\ (kind = "network" => Home[p] \notin gap') =>
                              \/ Subscribed(p)' \/ Planned("list", Home[p])'
                              \/ Coming(p)' \/ Coming(Home[p])' \/ Planned("eachParts", Root)'
                        /\ p \in monitored => Subscribed(p)'
      BY <1>2, <1>4 DEF PointsCovered, Here
    <2>1. CASE p = o
      <3>1. p \notin monitored /\ p \notin Devices /\ Home[p] \in Here(Wifi)
        BY <1>1, <1>6, <2>1, Apart DEF Parent, Here
      <3>2. CASE Heard("added", o)
        BY <1>4, <2>1, <3>1, <3>2 DEF Coming
      <3>3. CASE ~Heard("added", o)
        <4>1. Home[p] \notin parts
          BY <2>1, <1>6, <3>3 DEF Heard
        <4>2. (kind = "network" => Home[p] \notin gap') =>
                Planned("parts", Home[p]) \/ Coming(Home[p]) \/ Planned("eachParts", Root)
          BY <1>5, <1>7, <3>1, <4>1 DEF PartsCovered
        <4>3. Planned("parts", Home[p]) => Planned("list", Home[p])
          BY <1>5, Apart DEF Ordered, Planned
        <4> QED
          BY <1>4, <3>1, <4>2, <4>3
      <3> QED
        BY <3>2, <3>3
    <2>2. CASE p # o
      BY <1>4, <1>5, <1>7, <1>8, <2>2 DEF PointsCovered
    <2> QED
      BY <2>1, <2>2
  <1>14. StartCovered'
    <2>1. /\ \A d \in start \cap Here(Devices)' : d \in Here(Devices)
          /\ \A p \in start \cap Here(Points)' : p \in Here(Points)
      BY <1>6, <1>8 DEF Here
    <2> QED
      BY <1>2, <1>4, <1>5, <2>1 DEF StartCovered
  <1>15. Fresh'
    <2> SUFFICES ASSUME Live, kind = "network", NEW d \in Devices
                 PROVE  /\ Coming(d)' => Root \in parts /\ d \notin parts /\ ~Planned("parts", d)
                        /\ phase = "running" /\ Planned("parts", d) => d \notin parts
      BY <1>2, <1>4 DEF Fresh
    <2>1. ASSUME Coming(d)', ~Coming(d)
          PROVE  Root \in parts /\ d \notin parts /\ ~Planned("parts", d)
      <3>1. d = o /\ Heard("added", o)
        BY <1>4, <2>1
      <3>2. ~Planned("parts", o)
        BY <1>1, <1>5, <3>1 DEF Known
      <3> QED
        BY <1>6, <1>9, <3>1, <3>2
    <2> QED
      BY <1>5, <2>1 DEF Fresh
  <1> QED
    BY <1>11, <1>12, <1>13, <1>14, <1>15

LEMMA AppearKeeps ==
    ASSUME Inv, NEW o \in Objects, Appear(o) PROVE Inv'
  <1>1. /\ Happens("added", o) /\ life[o] = "new" /\ life[Parent(o)] = "here"
        /\ life' = [life EXCEPT ![o] = "here"]
        /\ gap' = IF o \in Devices /\ Root \notin parts THEN gap \cup {o} ELSE gap
        /\ dirty' = dirty \cup {<<"added", o>>}
    BY DEF Appear
  <1>2. /\ kind' = kind /\ start' = start /\ up' = up /\ parts' = parts
        /\ monitored' = monitored /\ phase' = phase /\ bell' = bell
    BY <1>1 DEF Happens
  <1>3. /\ life' \in [Objects -> {"new", "here", "gone"}]
        /\ life'[o] = "here" /\ \A x \in Objects : x # o => life'[x] = life[x]
    BY <1>1 DEF Inv, Typed
  <1>4. Typed'
    <2>1. gap' \subseteq Devices /\ dirty' \subseteq Happenings
      BY <1>1 DEF Inv, Typed, Happenings
    <2> QED
      BY <1>1, <1>3, <2>1, HappensTyped DEF Inv
  <1>5. /\ \A op, x : Planned(op, x)' <=> Planned(op, x)
        /\ Live' <=> Live
        /\ inbox' \subseteq inbox \cup {<<"added", o>>}
        /\ \A h : Due(h) => Due(h)'
    BY <1>1, Happening
  <1>6. /\ life[Root] = "here"
        /\ \A p \in Points : life[p] = "here" => life[Home[p]] = "here"
        /\ \A p \in Points : life[p] # "new" => life[Home[p]] # "new"
        /\ \A x \in start \cup parts \cup monitored : life[x] # "new"
        /\ \A h \in inbox \cup dirty : life[h[2]] # "new"
        /\ \A d \in Devices : Planned("parts", d) => life[d] # "new"
    BY DEF Inv, Known
  <1>7. o \in Points => life[Home[o]] = "here"
    BY <1>1 DEF Parent
  <1>8. o # Root
    BY <1>1, <1>6
  <1>9. Known'
    <2>1. \A x \in Objects : life[x] # "new" => life'[x] # "new"
      BY <1>3
    <2>2. \A h \in inbox' \cup dirty' : h[2] \in Objects
      BY <1>4 DEF Typed, Happenings
    <2>3. \A h \in inbox' \cup dirty' : life'[h[2]] # "new"
      <3>1. \A h \in inbox' \cup dirty' : h = <<"added", o>> \/ h \in inbox \cup dirty
        BY <1>1, <1>5
      <3> QED
        BY <1>3, <1>6, <2>1, <2>2, <3>1
    <2>4. \A x \in start \cup parts \cup monitored : x \in Objects
      BY DEF Inv, Typed, Things, Objects
    <2>5. \A x \in start' \cup parts' \cup monitored' : life'[x] # "new"
      BY <1>2, <1>6, <2>1, <2>4
    <2>6. \A p \in Points : life'[p] = "here" => life'[Home[p]] = "here"
      BY <1>3, <1>6, <1>7, Apart
    <2>7. \A p \in Points : life'[p] # "new" => life'[Home[p]] # "new"
      BY <1>3, <1>6, <1>7, Apart
    <2>8. life'[Root] = "here"
      BY <1>3, <1>6, Apart
    <2>9. \A d \in Devices : Planned("parts", d)' => life'[d] # "new"
      BY <1>5, <1>6, <2>1, Apart
    <2>10. ~Coming(Root)'
      BY <1>5, <1>8 DEF Inv, Known, Coming
    <2> QED
      BY <2>3, <2>5, <2>6, <2>7, <2>8, <2>9, <2>10 DEF Known
  <1>10. Ended' /\ Ordered' /\ Rings'
    BY <1>1, HappensOrder DEF Inv, Covered
  <1>11. Announces'
    <2> SUFFICES ASSUME Live, phase = "running", ~bell, NEW h \in dirty', Promised(h)'
                 PROVE  Due(h)'
      BY <1>2, <1>5 DEF Announces
    <2>1. gap \subseteq gap'
      BY <1>1
    <2>2. CASE h = <<"added", o>>
      BY <1>1, <1>7, <1>8, <2>1, <2>2, HappeningDue
    <2>3. CASE h \in dirty
      <3>1. late \subseteq late' /\ skipped' = skipped
        BY <1>1 DEF Happens
      <3>2. ASSUME kind = "network", h[2] \in Points, Home[h[2]] \in Here(Wifi)'
            PROVE  Home[h[2]] \in Here(Wifi)
        <4>1. life[h[2]] # "new"
          BY <1>6, <2>3
        <4>2. life[Home[h[2]]] # "new"
          BY <1>6, <3>2, <4>1
        <4>3. life'[Home[h[2]]] = life[Home[h[2]]]
          BY <1>1, <1>3, <3>2, <4>2, Apart
        <4> QED
          BY <3>2, <4>3 DEF Here
      <3>3. Promised(h)
        <4>1. kind \in {"network", "device", "settings", "events"}
          BY DEF Inv, Typed
        <4> QED
          BY <1>2, <2>1, <3>1, <3>2, <4>1 DEF Promised
      <3> QED
        BY <1>5, <2>3, <3>3 DEF Inv, Announces
    <2> QED
      BY <1>1, <2>2, <2>3
  <1> QED
    BY <1>4, <1>9, <1>10, <1>11, AppearCovered DEF Inv, Covered

-----------------------------------------------------------------------------
(* The initial states.                                                     *)

LEMMA InitInv == Init => Inv
  <1> SUFFICES ASSUME Init PROVE Inv
    OBVIOUS
  <1>1. /\ kind \in {"network", "device", "settings", "events"}
        /\ start \subseteq Things /\ \A p \in start \cap Points : Home[p] \in start
        /\ life = [o \in Objects |-> IF o \in start \cup {Root} THEN "here" ELSE "new"]
        /\ gap = Here(Devices) /\ parts = {} /\ streams = [o \in Objects |-> 0]
        /\ monitored = {} /\ inbox = {} /\ dirty = {} /\ late = {} /\ settled = {} /\ skipped = {}
        /\ plan = [i \in DOMAIN Setup |-> <<Setup[i], Root>>]
        /\ phase = "setup" /\ up = TRUE /\ handle = "calling" /\ bell = FALSE
    BY MonitorAssumption DEF Init, MonitorAssumption, Things
  <1>2. /\ plan \in Seq(Steps) /\ plan # << >> /\ DOMAIN plan = 1 .. Len(plan)
        /\ kind = "network" =>
             /\ Len(plan) = 3 /\ plan[1] = <<"eachParts", Root>>
             /\ plan[2] = <<"root", Root>> /\ plan[3] = <<"ready", Root>>
        /\ kind = "events" =>
             /\ Len(plan) = 4 /\ plan[1] = <<"root", Root>> /\ plan[2] = <<"eachOwn", Root>>
             /\ plan[3] = <<"eachParts", Root>> /\ plan[4] = <<"ready", Root>>
        /\ kind \in {"device", "settings"} =>
             /\ Len(plan) = 3 /\ plan[1] = <<"root", Root>>
             /\ plan[2] = <<"eachOwn", Root>> /\ plan[3] = <<"ready", Root>>
    BY <1>1, SetupShape
  <1>3. /\ \A op, o : Planned(op, o) =>
              o = Root /\ op \in {"root", "eachOwn", "eachParts", "ready"}
        /\ kind = "network" => ~Planned("eachOwn", Root)
        /\ kind \in {"network", "events"} => Planned("eachParts", Root)
        /\ kind # "network" => Planned("eachOwn", Root)
        /\ Planned("root", Root)
    BY <1>1, SetupPlans
  <1>4. Typed
    <2>1. life \in [Objects -> {"new", "here", "gone"}] /\ streams \in [Objects -> Nat]
      BY <1>1
    <2>2. gap \subseteq Devices
      BY <1>1 DEF Here
    <2> QED
      BY <1>1, <1>2, <2>1, <2>2 DEF Typed
  <1>5. Known
    <2>1. \A o \in Objects : life[o] # "new" <=> o \in start \cup {Root}
      BY <1>1
    <2>2. \A o \in Objects : life[o] = "here" <=> o \in start \cup {Root}
      BY <1>1
    <2>3. \A o \in start : o \in Objects
      BY <1>1 DEF Things, Objects
    <2> QED
      BY <1>1, <1>3, <2>1, <2>2, <2>3, Apart DEF Known, Coming
  <1>6. Ended
    <2>1. plan[Len(plan)] = <<"ready", Root>>
      BY <1>1, <1>2
    <2>2. ASSUME NEW i \in DOMAIN plan, i < Len(plan)
          PROVE  plan[i][1] \notin {"ready", "ring"}
      <3>1. CASE kind = "network"
        <4>1. Len(plan) = 3 /\ i \in 1 .. 3
          BY <1>2, <3>1
        <4>2. i = 1 \/ i = 2
          BY <2>2, <4>1
        <4> QED
          BY <1>2, <3>1, <4>2
      <3>2. CASE kind = "events"
        <4>1. Len(plan) = 4 /\ i \in 1 .. 4
          BY <1>2, <3>2
        <4>2. i = 1 \/ i = 2 \/ i = 3
          BY <2>2, <4>1
        <4> QED
          BY <1>2, <3>2, <4>2
      <3>3. CASE kind \in {"device", "settings"}
        <4>1. Len(plan) = 3 /\ i \in 1 .. 3
          BY <1>2, <3>3
        <4>2. i = 1 \/ i = 2
          BY <2>2, <4>1
        <4> QED
          BY <1>2, <3>3, <4>2
      <3> QED
        BY <1>1, <3>1, <3>2, <3>3
    <2> QED
      BY <1>1, <1>2, <2>1, <2>2 DEF Ended
  <1>7. Ordered
    <2>1. ASSUME NEW i \in DOMAIN plan, NEW d \in Devices, plan[i] = <<"parts", d>>
          PROVE  FALSE
      BY <1>3, <2>1 DEF Planned
    <2> QED
      BY <1>1, <1>3, <2>1 DEF Ordered
  <1>8. Rings
    BY <1>1 DEF Rings
  <1>9. OwnCovered
    BY <1>1, <1>3 DEF OwnCovered
  <1>10. PartsCovered
    BY <1>1, <1>3 DEF PartsCovered
  <1>11. PointsCovered
    BY <1>1, <1>3 DEF PointsCovered
  <1>12. StartCovered
    BY <1>1, <1>3 DEF StartCovered
  <1>13. Fresh
    BY <1>1 DEF Fresh, Coming
  <1>14. Announces
    BY <1>1 DEF Announces
  <1> QED
    BY <1>4, <1>5, <1>6, <1>7, <1>8, <1>9, <1>10, <1>11, <1>12, <1>13, <1>14 DEF Inv, Covered

-----------------------------------------------------------------------------
(* The steps of the plan.                                                  *)

\* A step other than the end of the setup: what it subscribes to, unless it fails
\* without the connection, and puts in its place in the plan.
Advance(op, o, steps) ==
    /\ Doing(op, o) /\ op # "ready"
    /\ steps \in Seq(Steps) /\ Then(steps)
    /\ op = "ring" => steps = << >>
    /\ \A i \in DOMAIN steps : steps[i][1] \in {"own", "parts", "list"}
    /\ \A i \in DOMAIN steps : \A d \in Devices : steps[i] = <<"parts", d>> =>
          /\ op = "eachParts" /\ d \in Here(Devices)
          /\ \E j \in DOMAIN steps : j > i /\ steps[j] = <<"list", d>>
    /\ up =>
         /\ op = "eachOwn" => \A d \in Here(Devices) : Among(steps, "own", d)
         /\ op = "eachParts" =>
               \A d \in Here(Devices) : Among(steps, "parts", d) /\ Among(steps, "list", d)
         /\ op = "list" =>
               \A p \in Here(Points) : Home[p] = o /\ p \notin monitored => Among(steps, "own", p)
         /\ op = "root" => Root \in parts'
         /\ op = "parts" /\ o \in Here(Wifi) => o \in parts'
         /\ op = "own" => streams'[o] > 0
    /\ parts \subseteq parts'
    /\ \A x \in parts' \ parts : (x = Root /\ op = "root") \/ (x = o /\ op = "parts" /\ o \in Here(Wifi))
    /\ streams' \in [Objects -> Nat] /\ \A x \in Objects : streams[x] > 0 => streams'[x] > 0
    /\ kind # "network" => monitored' = monitored
    /\ monitored \subseteq monitored'
    /\ \A p \in monitored' \ monitored : p \in Here(Points) /\ Among(steps, "own", p)
    /\ gap' = gap \/ (op \in {"eachOwn", "eachParts"} /\ gap' \subseteq gap)
    /\ bell' = IF op = "ring" THEN TRUE ELSE bell
    /\ UNCHANGED <<kind, start, life, up, settled, inbox, phase, handle, dirty, late, skipped>>

\* The plan before and after.
Moved(op, o, steps) ==
    /\ plan \in Seq(Steps) /\ plan # << >> /\ plan[1] = <<op, o>> /\ <<op, o>> \in Steps
    /\ steps \in Seq(Steps) /\ plan' \in Seq(Steps)
    /\ Len(plan) \in Nat \ {0} /\ Len(steps) \in Nat
    /\ Len(plan') = Len(steps) + Len(plan) - 1
    /\ \A i \in 1 .. Len(steps) : plan'[i] = steps[i]
    /\ \A i \in 2 .. Len(plan) : plan'[Len(steps) + i - 1] = plan[i]
    /\ \A op1, x : Planned(op1, x) <=> ((op1 = op /\ x = o) \/ Later(op1, x))
    /\ \A op1, x : Planned(op1, x)' <=> (Among(steps, op1, x) \/ Later(op1, x))
    /\ phase \in {"setup", "running"}

LEMMA AdvancePlan ==
    ASSUME Inv, NEW op, NEW o, NEW steps, Advance(op, o, steps)
    PROVE  Moved(op, o, steps)
  <1>1. /\ plan \in Seq(Steps) /\ plan # << >> /\ Head(plan) = <<op, o>>
        /\ steps \in Seq(Steps) /\ Then(steps)
    BY DEF Inv, Typed, Advance, Doing
  <1>2. plan[1] = <<op, o>> /\ <<op, o>> \in Steps
    BY <1>1
  <1>3. \A op1, x : Planned(op1, x) <=> ((op1 = op /\ x = o) \/ Later(op1, x))
    BY <1>1, PlannedNow
  <1>4. phase \in {"setup", "running"}
    BY <1>1 DEF Inv, Ended, Typed
  <1> QED
    BY <1>1, <1>2, <1>3, <1>4, StepPlan, PlannedNext DEF Moved

LEMMA AdvanceTyped ==
    ASSUME Inv, NEW op, NEW o, NEW steps, Advance(op, o, steps)
    PROVE  Typed' /\ Known'
  <1>1. /\ plan' \in Seq(Steps)
        /\ \A op1, x : Planned(op1, x) <=> ((op1 = op /\ x = o) \/ Later(op1, x))
        /\ \A op1, x : Planned(op1, x)' <=> (Among(steps, op1, x) \/ Later(op1, x))
    BY AdvancePlan DEF Moved
  <1>2. Typed'
    <2>1. parts' \subseteq Devices \cup {Root}
      <3>1. Wifi \subseteq Devices
        BY Apart
      <3> QED
        BY <3>1 DEF Inv, Typed, Advance, Here
    <2>2. monitored' \subseteq Points /\ gap' \subseteq Devices
      BY DEF Inv, Typed, Advance, Here
    <2> QED
      BY <1>1, <2>1, <2>2 DEF Inv, Typed, Advance
  <1>3. Known'
    <2>1. \A x \in parts' \cup monitored' : life[x] # "new"
      BY DEF Inv, Known, Advance, Here
    <2>2. \A d \in Devices : Planned("parts", d)' => life[d] # "new"
      <3>1. \A d \in Devices : Among(steps, "parts", d) => d \in Here(Devices)
        BY DEF Advance, Among
      <3> QED
        BY <1>1, <3>1 DEF Inv, Known, Here
    <2> QED
      BY <2>1, <2>2 DEF Inv, Known, Coming, Advance
  <1> QED
    BY <1>2, <1>3

LEMMA AdvanceEnded ==
    ASSUME Inv, NEW op, NEW o, NEW steps, Advance(op, o, steps)
    PROVE  Ended'
  <1>0. Moved(op, o, steps)
    BY AdvancePlan
  <1>1. /\ plan \in Seq(Steps) /\ plan # << >> /\ plan[1] = <<op, o>> /\ <<op, o>> \in Steps
        /\ steps \in Seq(Steps) /\ plan' \in Seq(Steps)
        /\ Len(plan) \in Nat \ {0} /\ Len(steps) \in Nat
        /\ Len(plan') = Len(steps) + Len(plan) - 1
        /\ \A i \in 1 .. Len(steps) : plan'[i] = steps[i]
        /\ \A i \in 2 .. Len(plan) : plan'[Len(steps) + i - 1] = plan[i]
        /\ \A op1, x : Planned(op1, x) <=> ((op1 = op /\ x = o) \/ Later(op1, x))
        /\ \A op1, x : Planned(op1, x)' <=> (Among(steps, op1, x) \/ Later(op1, x))
        /\ phase \in {"setup", "running"}
    BY <1>0 DEF Moved
  <1>2. /\ op # "ready" /\ phase' = phase /\ handle' = handle
        /\ \A i \in DOMAIN steps : steps[i][1] \in {"own", "parts", "list"}
        /\ DOMAIN steps = 1 .. Len(steps) /\ DOMAIN plan = 1 .. Len(plan)
        /\ DOMAIN plan' = 1 .. Len(plan')
    BY <1>1 DEF Advance
  <1>3. ASSUME phase = "setup"
        PROVE  /\ plan' # << >>
               /\ plan'[Len(plan')] = <<"ready", Root>>
               /\ \A i \in DOMAIN plan' : i < Len(plan') => plan'[i][1] \notin {"ready", "ring"}
    <2>1. /\ plan[Len(plan)] = <<"ready", Root>>
          /\ \A i \in DOMAIN plan : i < Len(plan) => plan[i][1] \notin {"ready", "ring"}
      BY <1>3 DEF Inv, Ended
    <2>2. Len(plan) > 1
      BY <1>1, <1>2, <2>1
    <2>3. Len(plan) \in 2 .. Len(plan) /\ Len(plan') > 0
      BY <1>1, <2>2
    <2>4. plan'[Len(plan')] = <<"ready", Root>>
      BY <1>1, <2>1, <2>3
    <2>5. ASSUME NEW i \in 1 .. Len(plan'), i < Len(plan')
          PROVE  plan'[i][1] \notin {"ready", "ring"}
      <3>1. CASE i <= Len(steps)
        BY <1>1, <1>2, <3>1
      <3>2. CASE i > Len(steps)
        <4> DEFINE j == i - Len(steps) + 1
        <4>1. j \in 2 .. Len(plan) /\ j < Len(plan) /\ i = Len(steps) + j - 1 /\ j \in DOMAIN plan
          BY <1>1, <1>2, <2>5, <3>2
        <4> HIDE DEF j
        <4>2. plan'[i] = plan[j]
          BY <1>1, <4>1
        <4> QED
          BY <2>1, <4>1, <4>2
      <3> QED
        BY <1>1, <2>5, <3>1, <3>2
    <2> QED
      BY <1>2, <2>3, <2>4, <2>5
  <1>4. ASSUME phase = "running", NEW op1 \in {"ready", "root", "eachOwn", "eachParts"}
        PROVE  ~Planned(op1, Root)'
    <2>1. ~Among(steps, op1, Root)
      BY <1>2, <1>4 DEF Among
    <2> QED
      BY <1>1, <1>4, <2>1 DEF Inv, Ended
  <1> QED
    BY <1>1, <1>2, <1>3, <1>4 DEF Inv, Ended

\* The first step of the setup is the one the others wait for.
LEMMA SetupHead ==
    ASSUME Typed, plan = [i \in DOMAIN Setup |-> <<Setup[i], Root>>]
    PROVE  /\ plan[1] = <<IF kind = "network" THEN "eachParts" ELSE "root", Root>>
           /\ ~Later("eachParts", Root) \/ kind # "network"
  <1>1. /\ kind = "network" =>
             /\ Len(plan) = 3 /\ plan[1] = <<"eachParts", Root>>
             /\ plan[2] = <<"root", Root>> /\ plan[3] = <<"ready", Root>>
        /\ kind # "network" => plan[1] = <<"root", Root>>
    BY SetupShape DEF Typed
  <1>2. ASSUME kind = "network" PROVE ~Later("eachParts", Root)
    <2> SUFFICES ASSUME NEW i \in 2 .. Len(plan), plan[i] = <<"eachParts", Root>>
                 PROVE  FALSE
      BY DEF Later
    <2>1. Len(plan) = 3
      BY <1>1, <1>2
    <2>2. i = 2 \/ i = 3
      BY <2>1
    <2> QED
      BY <1>1, <1>2, <2>2
  <1> QED
    BY <1>1, <1>2

LEMMA AdvanceOrdered ==
    ASSUME Inv, Live, NEW op, NEW o, NEW steps, Advance(op, o, steps)
    PROVE  Ordered'
  <1>0. Moved(op, o, steps)
    BY AdvancePlan
  <1>1. /\ plan \in Seq(Steps) /\ plan # << >> /\ plan[1] = <<op, o>> /\ <<op, o>> \in Steps
        /\ steps \in Seq(Steps) /\ plan' \in Seq(Steps)
        /\ Len(plan) \in Nat \ {0} /\ Len(steps) \in Nat
        /\ Len(plan') = Len(steps) + Len(plan) - 1
        /\ \A i \in 1 .. Len(steps) : plan'[i] = steps[i]
        /\ \A i \in 2 .. Len(plan) : plan'[Len(steps) + i - 1] = plan[i]
        /\ \A op1, x : Planned(op1, x) <=> ((op1 = op /\ x = o) \/ Later(op1, x))
        /\ \A op1, x : Planned(op1, x)' <=> (Among(steps, op1, x) \/ Later(op1, x))
        /\ phase \in {"setup", "running"}
    BY <1>0 DEF Moved
  <1>2. /\ parts \subseteq parts' /\ (op = "root" => Root \in parts')
        /\ kind' = kind /\ (kind # "network" => monitored' = monitored)
        /\ \A i \in DOMAIN steps : steps[i][1] \in {"own", "parts", "list"}
        /\ DOMAIN steps = 1 .. Len(steps) /\ DOMAIN plan = 1 .. Len(plan)
        /\ DOMAIN plan' = 1 .. Len(plan')
    BY <1>1 DEF Advance, Live
  <1>3. /\ Root \in parts \/ Planned("root", Root)
        /\ (IF kind = "network" THEN Planned("eachParts", Root) ELSE Root \notin parts) =>
              Root \notin parts /\ plan = [i \in DOMAIN Setup |-> <<Setup[i], Root>>]
        /\ kind = "network" => ~Planned("eachOwn", Root)
        /\ kind # "network" => monitored = {}
        /\ \A i \in DOMAIN plan : \A d \in Devices :
              plan[i] = <<"parts", d>> => \E j \in DOMAIN plan : j > i /\ plan[j] = <<"list", d>>
    BY DEF Inv, Covered, Ordered
  <1>4. \A x : ~Among(steps, "eachParts", x) /\ ~Among(steps, "eachOwn", x)
    BY <1>2 DEF Among
  <1>5. Root \in parts' \/ Planned("root", Root)'
    BY <1>1, <1>2, <1>3
  <1>6. IF kind = "network" THEN ~Planned("eachParts", Root)' ELSE Root \in parts'
    <2>1. CASE kind = "network"
      <3>1. Later("eachParts", Root) => FALSE
        <4>1. Later("eachParts", Root) => Planned("eachParts", Root)
          BY <1>1
        <4> QED
          BY <1>3, <2>1, <4>1, SetupHead DEF Inv
      <3> QED
        BY <1>1, <1>4, <2>1, <3>1
    <2>2. CASE kind # "network"
      <3>1. Root \notin parts => op = "root"
        BY <1>1, <1>3, <2>2, SetupHead DEF Inv
      <3> QED
        BY <1>2, <2>2, <3>1
    <2> QED
      BY <2>1, <2>2
  <1>7. kind = "network" => ~Planned("eachOwn", Root)'
    BY <1>1, <1>3, <1>4
  <1>8. ASSUME NEW i \in 1 .. Len(plan'), NEW d \in Devices, plan'[i] = <<"parts", d>>
        PROVE  \E j \in 1 .. Len(plan') : j > i /\ plan'[j] = <<"list", d>>
    <2>1. CASE i <= Len(steps)
      <3>1. i \in DOMAIN steps /\ steps[i] = <<"parts", d>>
        BY <1>1, <1>2, <1>8, <2>1
      <3>2. PICK j \in 1 .. Len(steps) : j > i /\ steps[j] = <<"list", d>>
        BY <1>2, <3>1 DEF Advance
      <3>3. j \in 1 .. Len(plan') /\ plan'[j] = <<"list", d>>
        BY <1>1, <3>2
      <3> QED
        BY <3>2, <3>3
    <2>2. CASE i > Len(steps)
      <3> DEFINE k == i - Len(steps) + 1
      <3>1. k \in 2 .. Len(plan) /\ i = Len(steps) + k - 1 /\ k \in DOMAIN plan
        BY <1>1, <1>2, <1>8, <2>2
      <3> HIDE DEF k
      <3>2. plan[k] = <<"parts", d>>
        BY <1>1, <1>8, <3>1
      <3>3. PICK j \in 1 .. Len(plan) : j > k /\ plan[j] = <<"list", d>>
        BY <1>2, <1>3, <3>1, <3>2
      <3> DEFINE m == Len(steps) + j - 1
      <3>4. j \in 2 .. Len(plan) /\ m \in 1 .. Len(plan') /\ m > i
        BY <1>1, <3>1, <3>3
      <3>5. plan'[m] = <<"list", d>>
        BY <1>1, <3>3, <3>4
      <3> QED
        BY <3>4, <3>5
    <2> QED
      BY <1>1, <1>8, <2>1, <2>2
  <1> QED
    BY <1>2, <1>3, <1>5, <1>6, <1>7, <1>8 DEF Ordered

LEMMA AdvanceRings ==
    ASSUME Inv, Live, NEW op, NEW o, NEW steps, Advance(op, o, steps)
    PROVE  /\ Rings'
           /\ phase = "running" /\ kind = "network" =>
                \A d \in Devices : ~Planned("parts", d)'
           /\ phase = "running" /\ op # "ring" => \A h : Due(h) => Due(h)'
  <1>0. Moved(op, o, steps)
    BY AdvancePlan
  <1>1. /\ plan \in Seq(Steps) /\ plan # << >> /\ plan[1] = <<op, o>> /\ <<op, o>> \in Steps
        /\ steps \in Seq(Steps) /\ plan' \in Seq(Steps)
        /\ Len(plan) \in Nat \ {0} /\ Len(steps) \in Nat
        /\ Len(plan') = Len(steps) + Len(plan) - 1
        /\ \A i \in 1 .. Len(steps) : plan'[i] = steps[i]
        /\ \A i \in 2 .. Len(plan) : plan'[Len(steps) + i - 1] = plan[i]
        /\ \A op1, x : Planned(op1, x) <=> ((op1 = op /\ x = o) \/ Later(op1, x))
        /\ \A op1, x : Planned(op1, x)' <=> (Among(steps, op1, x) \/ Later(op1, x))
        /\ phase \in {"setup", "running"}
    BY <1>0 DEF Moved
  <1>2. /\ op # "ready" /\ kind' = kind /\ phase' = phase /\ up' = up
        /\ op = "ring" => steps = << >>
        /\ inbox' = inbox
        /\ \A d \in Devices : Among(steps, "parts", d) => op = "eachParts"
    BY DEF Advance, Among
  <1>3. ASSUME phase = "running" PROVE op # "eachParts"
    <2>1. <<op, o>> \in Steps
      BY <1>1
    <2>2. op = "eachParts" => o = Root
      BY <2>1 DEF Steps
    <2> QED
      BY <1>1, <1>3, <2>2 DEF Inv, Ended
  <1>4. ASSUME phase = "running", kind = "network", NEW d \in Devices, Planned("parts", d)'
        PROVE  FALSE
    <2>1. Later("parts", d)
      BY <1>1, <1>2, <1>3, <1>4
    <2>2. Planned("parts", d)
      BY <1>1, <2>1
    <2>3. plan = << <<"parts", d>>, <<"list", d>>, <<"ring", d>> >>
      BY <1>1, <1>4, <2>2 DEF Inv, Covered, Rings
    <2>4. Len(plan) = 3 /\ plan[2] = <<"list", d>> /\ plan[3] = <<"ring", d>>
      BY <2>3
    <2>5. PICK i \in 2 .. Len(plan) : plan[i] = <<"parts", d>>
      BY <2>1 DEF Later
    <2>6. i = 2 \/ i = 3
      BY <2>4
    <2> QED
      BY <2>4, <2>5, <2>6
  <1>5. Rings'
    <2> SUFFICES ASSUME phase = "running", kind # "events", plan' # << >>
                 PROVE  \E x \in Objects : plan'[Len(plan')] = <<"ring", x>>
      BY <1>2, <1>4 DEF Rings
    <2>1. PICK x \in Objects : plan[Len(plan)] = <<"ring", x>>
      BY <1>1 DEF Inv, Covered, Rings
    <2>2. Len(plan) \in 2 .. Len(plan)
      <3>1. CASE op = "ring"
        <4>1. Len(steps) = 0 /\ Len(plan') # 0
          BY <1>1, <1>2, <3>1
        <4> QED
          BY <1>1, <4>1
      <3>2. CASE op # "ring"
        BY <1>1, <2>1, <3>2
      <3> QED
        BY <3>1, <3>2
    <2> QED
      BY <1>1, <2>1, <2>2
  <1>6. ASSUME phase = "running", op # "ring", NEW h, Due(h)
        PROVE  Due(h)'
    <2>1. Ringing => Ringing'
      BY <1>1, <1>6 DEF Ringing
    <2>2. \A x : Coming(x)' <=> Coming(x)
      BY <1>2 DEF Coming
    <2> QED
      BY <1>2, <1>4, <1>6, <2>1, <2>2 DEF Due
  <1> QED
    BY <1>4, <1>5, <1>6

-----------------------------------------------------------------------------
\* What is covered before the step is covered after it.
LEMMA AdvanceCovers ==
    ASSUME Inv, Live, NEW op, NEW o, NEW steps, Advance(op, o, steps)
    PROVE  OwnCovered' /\ PartsCovered' /\ PointsCovered' /\ StartCovered' /\ Fresh'
  <1>0. Moved(op, o, steps)
    BY AdvancePlan
  <1>1. /\ \A op1, x : Planned(op1, x) <=> ((op1 = op /\ x = o) \/ Later(op1, x))
        /\ \A op1, x : Planned(op1, x)' <=> (Among(steps, op1, x) \/ Later(op1, x))
        /\ <<op, o>> \in Steps
    BY <1>0 DEF Moved
  <1>2. /\ kind' = kind /\ start' = start /\ phase' = phase /\ up' = up
        /\ Here(Devices)' = Here(Devices) /\ Here(Wifi)' = Here(Wifi)
        /\ Here(Points)' = Here(Points)
        /\ \A x : Coming(x)' <=> Coming(x)
    BY DEF Advance, Here, Coming
  <1>3. Typed /\ Known /\ OwnCovered /\ PartsCovered /\ PointsCovered /\ StartCovered /\ Fresh
        /\ Ordered
    BY DEF Inv, Covered
  <1>4. /\ op = "eachOwn" => \A d \in Here(Devices) : Among(steps, "own", d)
        /\ op = "eachParts" =>
              \A d \in Here(Devices) : Among(steps, "parts", d) /\ Among(steps, "list", d)
        /\ op = "list" =>
              \A p \in Here(Points) : Home[p] = o /\ p \notin monitored => Among(steps, "own", p)
        /\ op = "parts" /\ o \in Here(Wifi) => o \in parts'
        /\ op = "own" => streams'[o] > 0
        /\ \A x \in Objects : streams[x] > 0 => streams'[x] > 0
        /\ parts \subseteq parts'
        /\ \A x \in parts' \ parts : x = Root \/ (x = o /\ op = "parts")
        /\ kind # "network" => monitored' = monitored
        /\ \A p \in monitored' : p \in monitored \/ Among(steps, "own", p)
        /\ gap' = gap \/ op \in {"eachOwn", "eachParts"}
        /\ \A d \in Devices : Among(steps, "parts", d) => op = "eachParts"
    BY DEF Advance, Among, Live
  <1>5. op \in {"eachOwn", "eachParts", "root"} => o = Root
    BY <1>1 DEF Steps
  <1>6. \A x \in Objects : Subscribed(x) => Subscribed(x)'
    BY <1>1, <1>4 DEF Subscribed
  <1>7. \A x : Among(steps, "own", x) => Subscribed(x)'
    BY <1>1 DEF Subscribed
  <1>8. \A d \in Here(Wifi) : d \in parts \/ Planned("parts", d) => d \in parts' \/ Planned("parts", d)'
    BY <1>1, <1>4
  <1>9. \A d \in Here(Devices) : d \in Devices /\ d \in Objects
    BY Apart DEF Here
  <1>10. \A d \in Here(Wifi) : d \in Here(Devices)
    BY Apart DEF Here
  <1>11. \A p \in Here(Points) : /\ Home[p] \in Here(Wifi) /\ Home[p] \in Here(Devices)
                                 /\ p \in Points /\ p \in Objects
    BY <1>3, Apart DEF Here, Known
  <1>12. OwnCovered'
    <2> SUFFICES ASSUME kind # "network", NEW d \in Here(Devices), kind = "device" => d \in start
                 PROVE  \/ Subscribed(d)' \/ Planned("eachOwn", Root)'
                        \/ kind # "device" /\ Coming(d)
      BY <1>2 DEF OwnCovered
    <2>1. Subscribed(d) \/ (kind # "device" /\ Coming(d)) \/ Planned("eachOwn", Root)
      BY <1>3 DEF OwnCovered
    <2>2. CASE Planned("eachOwn", Root)
      BY <1>1, <1>4, <1>7, <2>2
    <2> QED
      BY <1>6, <1>9, <2>1, <2>2
  <1>13. PartsCovered'
    <2> SUFFICES ASSUME kind \in {"network", "events"}, NEW d \in Here(Wifi),
                        kind = "network" => d \notin gap'
                 PROVE  \/ d \in parts' \/ Planned("parts", d)' \/ Coming(d)
                        \/ Planned("eachParts", Root)'
      BY <1>2 DEF PartsCovered
    <2>1. CASE op = "eachParts"
      BY <1>1, <1>4, <1>10, <2>1
    <2>2. CASE op # "eachParts"
      <3>1. kind = "network" => op # "eachOwn"
        BY <1>1, <1>3, <1>5 DEF Ordered
      <3>2. kind = "network" => d \notin gap
        BY <1>4, <2>2, <3>1
      <3>3. d \in parts \/ Planned("parts", d) \/ Coming(d) \/ Planned("eachParts", Root)
        BY <1>3, <3>2 DEF PartsCovered
      <3> QED
        BY <1>1, <1>8, <2>2, <3>3
    <2> QED
      BY <2>1, <2>2
  <1>14. PointsCovered'
    <2> SUFFICES ASSUME kind \in {"network", "events"}, NEW p \in Here(Points)
                 PROVE  /\ (kind = "network" => Home[p] \notin gap') =>
                              \/ Subscribed(p)' \/ Planned("list", Home[p])'
                              \/ Coming(p) \/ Coming(Home[p]) \/ Planned("eachParts", Root)'
                        /\ p \in monitored' => Subscribed(p)'
      BY <1>2 DEF PointsCovered
    <2>1. p \in monitored => Subscribed(p)
      BY <1>3 DEF PointsCovered
    <2>2. p \in monitored' => Subscribed(p)'
      BY <1>4, <1>6, <1>7, <1>11, <2>1
    <2>3. CASE op = "eachParts"
      BY <1>1, <1>4, <1>11, <2>2, <2>3
    <2>4. CASE op # "eachParts"
      <3> SUFFICES ASSUME kind = "network" => Home[p] \notin gap'
                   PROVE  \/ Subscribed(p)' \/ Planned("list", Home[p])'
                          \/ Coming(p) \/ Coming(Home[p]) \/ Planned("eachParts", Root)'
        BY <2>2
      <3>1. kind = "network" => op # "eachOwn"
        BY <1>1, <1>3, <1>5 DEF Ordered
      <3>2. kind = "network" => Home[p] \notin gap
        BY <1>4, <2>4, <3>1
      <3>3. \/ Subscribed(p) \/ Planned("list", Home[p])
            \/ Coming(p) \/ Coming(Home[p]) \/ Planned("eachParts", Root)
        BY <1>3, <3>2 DEF PointsCovered
      <3>4. CASE Planned("list", Home[p])
        <4>1. CASE op = "list" /\ o = Home[p]
          BY <1>4, <1>6, <1>7, <1>11, <2>1, <4>1
        <4> QED
          BY <1>1, <3>4, <4>1
      <3>5. Planned("eachParts", Root) => Planned("eachParts", Root)'
        BY <1>1, <2>4
      <3>6. Subscribed(p) => Subscribed(p)'
        BY <1>6, <1>11
      <3> QED
        BY <3>3, <3>4, <3>5, <3>6
    <2> QED
      BY <2>3, <2>4
  <1>15. StartCovered'
    <2> SUFFICES ASSUME kind = "events"
                 PROVE  /\ \A d \in start \cap Here(Devices) :
                             \/ streams'[d] > 0
                             \/ phase = "setup" /\ (Planned("own", d)' \/ Planned("eachOwn", Root)')
                        /\ \A p \in start \cap Here(Points) :
                             /\ \/ streams'[p] > 0
                                \/ /\ phase = "setup"
                                   /\ \/ Planned("own", p)' \/ Planned("list", Home[p])'
                                      \/ Planned("eachParts", Root)'
                             /\ \/ Home[p] \in parts'
                                \/ /\ phase = "setup"
                                   /\ Planned("parts", Home[p])' \/ Planned("eachParts", Root)'
      BY <1>2 DEF StartCovered
    <2>1. ASSUME NEW d \in start \cap Here(Devices)
          PROVE  \/ streams'[d] > 0
                 \/ phase = "setup" /\ (Planned("own", d)' \/ Planned("eachOwn", Root)')
      <3>1. \/ streams[d] > 0
            \/ phase = "setup" /\ (Planned("own", d) \/ Planned("eachOwn", Root))
        BY <1>3 DEF StartCovered
      <3>2. Planned("own", d) => streams'[d] > 0 \/ Planned("own", d)'
        BY <1>1, <1>4
      <3>3. Planned("eachOwn", Root) => Planned("own", d)' \/ Planned("eachOwn", Root)'
        BY <1>1, <1>4
      <3> QED
        BY <1>4, <1>9, <3>1, <3>2, <3>3
    <2>2. ASSUME NEW p \in start \cap Here(Points)
          PROVE  \/ streams'[p] > 0
                 \/ /\ phase = "setup"
                    /\ \/ Planned("own", p)' \/ Planned("list", Home[p])'
                       \/ Planned("eachParts", Root)'
      <3>1. \/ streams[p] > 0
            \/ /\ phase = "setup"
               /\ Planned("own", p) \/ Planned("list", Home[p]) \/ Planned("eachParts", Root)
        BY <1>3 DEF StartCovered
      <3>2. Planned("own", p) => streams'[p] > 0 \/ Planned("own", p)'
        BY <1>1, <1>4
      <3>3. Planned("list", Home[p]) => Planned("own", p)' \/ Planned("list", Home[p])'
        <4>1. p \notin monitored
          BY <1>3 DEF Ordered
        <4> QED
          BY <1>1, <1>4, <4>1
      <3>4. Planned("eachParts", Root) => Planned("list", Home[p])' \/ Planned("eachParts", Root)'
        BY <1>1, <1>4, <1>11
      <3> QED
        BY <1>4, <1>11, <3>1, <3>2, <3>3, <3>4
    <2>3. ASSUME NEW p \in start \cap Here(Points)
          PROVE  \/ Home[p] \in parts'
                 \/ phase = "setup" /\ (Planned("parts", Home[p])' \/ Planned("eachParts", Root)')
      <3>1. \/ Home[p] \in parts
            \/ phase = "setup" /\ (Planned("parts", Home[p]) \/ Planned("eachParts", Root))
        BY <1>3 DEF StartCovered
      <3>2. Planned("eachParts", Root) => Planned("parts", Home[p])' \/ Planned("eachParts", Root)'
        BY <1>1, <1>4, <1>11
      <3> QED
        BY <1>4, <1>8, <1>11, <3>1, <3>2
    <2> QED
      BY <2>1, <2>2, <2>3
  <1>16. Fresh'
    <2> SUFFICES ASSUME kind = "network", NEW d \in Devices
                 PROVE  /\ Coming(d) =>
                             Root \in parts' /\ d \notin parts' /\ ~Planned("parts", d)'
                        /\ phase = "running" /\ Planned("parts", d)' => d \notin parts'
      BY <1>2 DEF Fresh
    <2>1. ASSUME Coming(d) PROVE Root \in parts' /\ d \notin parts' /\ ~Planned("parts", d)'
      <3>1. Root \in parts /\ d \notin parts /\ ~Planned("parts", d)
        BY <1>3, <2>1 DEF Fresh
      <3>2. op # "eachParts"
        BY <1>1, <1>3, <1>5, <3>1 DEF Ordered
      <3>3. d \notin parts'
        BY <1>1, <1>4, <3>1, Apart
      <3> QED
        BY <1>1, <1>4, <3>1, <3>2, <3>3
    <2>2. ASSUME phase = "running" PROVE ~Planned("parts", d)'
      BY <2>2, AdvanceRings
    <2> QED
      BY <2>1, <2>2
  <1> QED
    BY <1>12, <1>13, <1>14, <1>15, <1>16

LEMMA AdvanceKeeps ==
    ASSUME Inv, NEW op, NEW o, NEW steps, Advance(op, o, steps)
    PROVE  Inv'
  <1>1. Typed' /\ Known' /\ Ended'
    BY AdvanceTyped, AdvanceEnded
  <1>2. CASE ~Live
    <2>1. ~Live'
      BY <1>2 DEF Live, Advance
    <2> QED
      BY <1>1, <2>1, NotLive DEF Inv
  <1>3. CASE Live
    <2>1. Ordered' /\ Rings'
          /\ (phase = "running" /\ op # "ring" => \A h : Due(h) => Due(h)')
      BY <1>3, AdvanceOrdered, AdvanceRings
    <2>2. OwnCovered' /\ PartsCovered' /\ PointsCovered' /\ StartCovered' /\ Fresh'
      BY <1>3, AdvanceCovers
    <2>3. Announces'
      <3> SUFFICES ASSUME phase = "running", ~bell, op # "ring", NEW h \in dirty, Promised(h)'
                   PROVE  Due(h)'
        BY DEF Announces, Advance
      <3>1. gap' = gap
        <4>1. Moved(op, o, steps)
          BY AdvancePlan
        <4>2. Planned(op, o) /\ <<op, o>> \in Steps
          BY <4>1 DEF Moved
        <4>3. op \in {"eachOwn", "eachParts"} => o = Root
          BY <4>2 DEF Steps
        <4> QED
          BY <4>2, <4>3 DEF Inv, Ended, Advance
      <3>2. \A p \in Points : Home[p] \in parts' \cup Here(Wifi) => Home[p] \in parts \cup Here(Wifi)
        BY Apart DEF Advance
      <3>3. kind' = kind /\ start' = start /\ late' = late /\ skipped' = skipped
            /\ Here(Wifi)' = Here(Wifi)
        BY DEF Advance, Here
      <3>4. kind \in {"network", "device", "settings", "events"}
        BY DEF Inv, Typed
      <3>5. Promised(h)
        BY <3>1, <3>2, <3>3, <3>4 DEF Promised
      <3> QED
        BY <1>3, <2>1, <3>5 DEF Inv, Announces
    <2> QED
      BY <1>1, <2>1, <2>2, <2>3 DEF Inv, Covered
  <1> QED
    BY <1>2, <1>3

-----------------------------------------------------------------------------
LEMMA StepsOf ==
    /\ \A d \in Devices : <<"parts", d>> \in Steps /\ <<"list", d>> \in Steps
    /\ \A o \in Objects : <<"own", o>> \in Steps
  BY DEF Steps

\* What is done in any order is done for each.
LEMMA InAnyOrder ==
    ASSUME NEW S, IsFiniteSet(S), NEW s \in SetToSeqs(S)
    PROVE  /\ s \in Seq(S) /\ DOMAIN s = 1 .. Len(s) /\ Len(s) \in Nat
           /\ \A x \in S : \E i \in DOMAIN s : s[i] = x
  <1> DEFINE n == Cardinality(S)
  <1>1. n \in Nat
    BY FS_CardinalityType
  <1>2. s \in [1 .. n -> S] /\ \A i, j \in 1 .. n : i # j => s[i] # s[j]
    BY DEF SetToSeqs
  <1>3. s \in Injection(1 .. n, S)
    BY <1>2 DEF Injection, IsInjective
  <1>4. Cardinality(1 .. n) = n
    BY <1>1, FS_Interval
  <1>5. s \in Surjection(1 .. n, S)
    BY <1>3, <1>4, FS_Injection
  <1>6. \A x \in S : \E i \in 1 .. n : s[i] = x
    BY <1>5 DEF Surjection
  <1> HIDE DEF n
  <1>7. s \in Seq(S) /\ Len(s) = n /\ DOMAIN s = 1 .. n
    BY <1>1, <1>2
  <1> QED
    BY <1>1, <1>6, <1>7

LEMMA PartsOfEachShape ==
    ASSUME NEW ds \in Seq(Devices)
    PROVE  /\ PartsOfEach(ds) \in Seq(Steps)
           /\ DOMAIN PartsOfEach(ds) = 1 .. 2 * Len(ds)
           /\ \A k \in 1 .. Len(ds) :
                /\ 2 * k - 1 \in DOMAIN PartsOfEach(ds) /\ 2 * k \in DOMAIN PartsOfEach(ds)
                /\ PartsOfEach(ds)[2 * k - 1] = <<"parts", ds[k]>>
                /\ PartsOfEach(ds)[2 * k] = <<"list", ds[k]>>
           /\ \A i \in DOMAIN PartsOfEach(ds) : \E k \in 1 .. Len(ds) : i = 2 * k - 1 \/ i = 2 * k
  <1> DEFINE n == Len(ds)
             e == PartsOfEach(ds)
  <1>1. n \in Nat /\ \A k \in 1 .. n : ds[k] \in Devices
    OBVIOUS
  <1>2. /\ DOMAIN e = 1 .. 2 * n
        /\ \A i \in 1 .. 2 * n : e[i] = <<IF i % 2 = 1 THEN "parts" ELSE "list", ds[(i + 1) \div 2]>>
    BY DEF PartsOfEach
  <1>3. ASSUME NEW i \in 1 .. 2 * n
        PROVE  \E k \in 1 .. n : i = 2 * k - 1 \/ i = 2 * k
    <2>1. (i + 1) \div 2 \in 1 .. n /\ (i = 2 * ((i + 1) \div 2) - 1 \/ i = 2 * ((i + 1) \div 2))
      <3> HIDE DEF n, e
      <3> QED
        BY <1>1
    <2> QED
      BY <2>1
  <1>4. ASSUME NEW k \in 1 .. n
        PROVE  /\ 2 * k - 1 \in 1 .. 2 * n /\ 2 * k \in 1 .. 2 * n
               /\ e[2 * k - 1] = <<"parts", ds[k]>> /\ e[2 * k] = <<"list", ds[k]>>
    <2> HIDE DEF n, e
    <2>1. 2 * k - 1 \in 1 .. 2 * n /\ 2 * k \in 1 .. 2 * n
      BY <1>1
    <2>2. /\ (2 * k - 1) % 2 = 1 /\ ((2 * k - 1) + 1) \div 2 = k
          /\ (2 * k) % 2 = 0 /\ (2 * k + 1) \div 2 = k
      BY <1>1
    <2> QED
      BY <1>2, <2>1, <2>2
  <1>5. ASSUME NEW i \in 1 .. 2 * n PROVE e[i] \in Steps
    <2>1. PICK k \in 1 .. n : i = 2 * k - 1 \/ i = 2 * k
      BY <1>3
    <2>2. e[i] = <<"parts", ds[k]>> \/ e[i] = <<"list", ds[k]>>
      BY <1>4, <2>1
    <2>3. ds[k] \in Devices
      BY <1>1
    <2> HIDE DEF n, e
    <2> QED
      BY <2>2, <2>3, StepsOf
  <1>6. e \in Seq(Steps)
    <2>1. e = [i \in 1 .. 2 * n |-> e[i]]
      BY DEF PartsOfEach
    <2> HIDE DEF n, e
    <2> QED
      BY <1>1, <1>5, <2>1
  <1> QED
    BY <1>2, <1>3, <1>4, <1>6

-----------------------------------------------------------------------------
\* A connected monitor with a plan is live.
LEMMA DoingIsLive ==
    ASSUME Inv, NEW op, NEW o, Doing(op, o), up
    PROVE  Live /\ plan # << >> /\ plan \in Seq(Steps)
  BY DEF Inv, Typed, Ended, Doing, Live

\* Steps that put nothing into the plan.
LEMMA Nothing ==
    << >> \in Seq(Steps) /\ DOMAIN << >> = {}
  OBVIOUS

LEMMA SubscribePartsKeeps ==
    ASSUME Inv, NEW o \in Objects, SubscribeParts(o) PROVE Inv'
  <1>1. PICK op \in {"root", "parts"} : Doing(op, o) /\ (op = "parts" => o \in Here(Wifi))
    BY DEF SubscribeParts
  <1>2. Live /\ plan # << >> /\ plan \in Seq(Steps)
    BY <1>1, DoingIsLive DEF SubscribeParts
  <1>3. op = "root" => o = Root
    <2>1. <<op, o>> \in Steps
      <3>1. Head(plan) \in Steps
        BY <1>2
      <3> QED
        BY <1>1, <3>1 DEF Doing
    <2> QED
      BY <2>1 DEF Steps
  <1>4. PICK steps : steps = << >>
    OBVIOUS
  <1>5. steps \in Seq(Steps) /\ DOMAIN steps = {}
    BY <1>4, Nothing
  <1>6. Advance(op, o, steps)
    <2>1. Then(steps)
      BY <1>4 DEF SubscribeParts
    <2>2. streams \in [Objects -> Nat]
      BY DEF Inv, Typed
    <2> QED
      BY <1>1, <1>3, <1>5, <2>1, <2>2 DEF Advance, SubscribeParts, worldVars
  <1> QED
    BY <1>6, AdvanceKeeps

LEMMA SubscribeOwnKeeps ==
    ASSUME Inv, NEW o \in Objects, SubscribeOwn(o) PROVE Inv'
  <1>1. Doing("own", o) /\ Live
    BY DoingIsLive DEF SubscribeOwn
  <1>2. PICK steps : steps = << >>
    OBVIOUS
  <1>3. steps \in Seq(Steps) /\ DOMAIN steps = {}
    BY <1>2, Nothing
  <1>4. PICK op : op = "own"
    OBVIOUS
  <1>5. Advance(op, o, steps)
    <2>1. Then(steps)
      BY <1>2 DEF SubscribeOwn
    <2>2. /\ streams' \in [Objects -> Nat] /\ streams'[o] > 0
          /\ \A x \in Objects : streams[x] > 0 => streams'[x] > 0
      BY DEF Inv, Typed, SubscribeOwn
    <2> QED
      BY <1>1, <1>3, <1>4, <2>1, <2>2 DEF Advance, SubscribeOwn, worldVars
  <1> QED
    BY <1>5, AdvanceKeeps

LEMMA EnumerateKeeps ==
    ASSUME Inv, NEW op \in {"eachOwn", "eachParts"}, Enumerate(op) PROVE Inv'
  <1>1. Doing(op, Root) /\ Live
    BY DoingIsLive DEF Enumerate
  <1>2. PICK ds \in SetToSeqs(Here(Devices)) :
          Then(IF op = "eachOwn" THEN [i \in DOMAIN ds |-> <<"own", ds[i]>>] ELSE PartsOfEach(ds))
    BY DEF Enumerate
  <1>3. /\ ds \in Seq(Here(Devices)) /\ DOMAIN ds = 1 .. Len(ds) /\ Len(ds) \in Nat
        /\ \A d \in Here(Devices) : \E i \in DOMAIN ds : ds[i] = d
    <2>1. IsFiniteSet(Here(Devices))
      <3>1. Here(Devices) \in SUBSET Devices
        BY DEF Here
      <3> QED
        BY <3>1, Apart, FS_Subset
    <2> QED
      BY <2>1, InAnyOrder
  <1>4. ds \in Seq(Devices) /\ \A i \in DOMAIN ds : ds[i] \in Here(Devices)
    <2>1. \A i \in 1 .. Len(ds) : ds[i] \in Here(Devices)
      BY <1>3
    <2>2. \A i \in 1 .. Len(ds) : ds[i] \in Devices
      BY <2>1 DEF Here
    <2> QED
      BY <1>3, <2>1, <2>2
  <1>5. PICK steps : steps = IF op = "eachOwn" THEN [i \in DOMAIN ds |-> <<"own", ds[i]>>]
                             ELSE PartsOfEach(ds)
    OBVIOUS
  <1>6. /\ steps \in Seq(Steps)
        /\ \A i \in DOMAIN steps : steps[i][1] \in {"own", "parts", "list"}
        /\ \A i \in DOMAIN steps : \A d \in Devices : steps[i] = <<"parts", d>> =>
              /\ op = "eachParts" /\ d \in Here(Devices)
              /\ \E j \in DOMAIN steps : j > i /\ steps[j] = <<"list", d>>
        /\ op = "eachOwn" => \A d \in Here(Devices) : Among(steps, "own", d)
        /\ op = "eachParts" =>
              \A d \in Here(Devices) : Among(steps, "parts", d) /\ Among(steps, "list", d)
    <2>1. CASE op = "eachOwn"
      <3>1. /\ steps = [i \in DOMAIN ds |-> <<"own", ds[i]>>]
            /\ DOMAIN steps = DOMAIN ds /\ \A i \in DOMAIN ds : steps[i] = <<"own", ds[i]>>
        BY <1>5, <2>1
      <3>2. \A i \in DOMAIN ds : ds[i] \in Objects
        BY <1>4, Apart DEF Here
      <3>3. \A i \in DOMAIN steps : steps[i] \in Steps
        BY <3>1, <3>2 DEF Steps
      <3>4. steps \in Seq(Steps)
        BY <1>3, <3>1, <3>3
      <3>5. \A d \in Here(Devices) : Among(steps, "own", d)
        BY <1>3, <3>1 DEF Among
      <3> QED
        BY <2>1, <3>1, <3>4, <3>5
    <2>2. CASE op = "eachParts"
      <3>1. steps = PartsOfEach(ds)
        BY <1>5, <2>2
      <3>2. /\ steps \in Seq(Steps)
            /\ \A k \in 1 .. Len(ds) :
                 /\ 2 * k - 1 \in DOMAIN steps /\ 2 * k \in DOMAIN steps
                 /\ steps[2 * k - 1] = <<"parts", ds[k]>> /\ steps[2 * k] = <<"list", ds[k]>>
            /\ \A i \in DOMAIN steps : \E k \in 1 .. Len(ds) : i = 2 * k - 1 \/ i = 2 * k
        BY <1>4, <3>1, PartsOfEachShape
      <3>3. ASSUME NEW i \in DOMAIN steps
            PROVE  /\ steps[i][1] \in {"own", "parts", "list"}
                   /\ \A d \in Devices : steps[i] = <<"parts", d>> =>
                        /\ d \in Here(Devices)
                        /\ \E j \in DOMAIN steps : j > i /\ steps[j] = <<"list", d>>
        <4>1. PICK k \in 1 .. Len(ds) : i = 2 * k - 1 \/ i = 2 * k
          BY <3>2
        <4>2. ds[k] \in Here(Devices)
          BY <1>3, <1>4
        <4>3. CASE i = 2 * k - 1
          <5> DEFINE j == 2 * k
          <5>1. /\ 2 * k - 1 \in DOMAIN steps /\ j \in DOMAIN steps
                /\ steps[2 * k - 1] = <<"parts", ds[k]>> /\ steps[j] = <<"list", ds[k]>>
            BY <3>2
          <5>2. steps[i] = <<"parts", ds[k]>>
            BY <4>3, <5>1
          <5>3. j > i
            BY <1>3, <4>3
          <5> HIDE DEF j
          <5> QED
            BY <4>2, <5>1, <5>2, <5>3
        <4>4. CASE i = 2 * k
          <5>1. steps[i] = <<"list", ds[k]>>
            BY <3>2, <4>1, <4>4
          <5> QED
            BY <5>1
        <4> QED
          BY <4>1, <4>3, <4>4
      <3>4. \A d \in Here(Devices) : Among(steps, "parts", d) /\ Among(steps, "list", d)
        BY <1>3, <3>2 DEF Among
      <3> QED
        BY <2>2, <3>2, <3>3, <3>4
    <2> QED
      BY <2>1, <2>2
  <1>7. PICK o : o = Root
    OBVIOUS
  <1>8. Advance(op, o, steps)
    <2>1. Then(steps) /\ Doing(op, o)
      BY <1>1, <1>2, <1>5, <1>7
    <2>2. streams \in [Objects -> Nat] /\ gap' \subseteq gap
      BY DEF Inv, Typed, Enumerate
    <2>3. /\ UNCHANGED <<kind, start, life, up, parts, streams, settled, monitored, inbox,
                         phase, handle, bell, dirty, late, skipped>>
      BY DEF Enumerate
    <2> QED
      BY <1>6, <2>1, <2>2, <2>3 DEF Advance
  <1> QED
    BY <1>8, AdvanceKeeps

LEMMA ListKeeps ==
    ASSUME Inv, NEW d \in Devices, List(d) PROVE Inv'
  <1>1. Doing("list", d) /\ Live
    BY DoingIsLive DEF List
  <1> DEFINE new == {p \in Here(Points) : Home[p] = d /\ p \notin monitored}
  <1>2. PICK ps \in SetToSeqs(new) : Then([i \in DOMAIN ps |-> <<"own", ps[i]>>])
    BY DEF List
  <1>3. monitored' = IF kind = "network" THEN monitored \cup new ELSE monitored
    BY DEF List
  <1>4. /\ ps \in Seq(new) /\ DOMAIN ps = 1 .. Len(ps) /\ Len(ps) \in Nat
        /\ \A p \in new : \E i \in DOMAIN ps : ps[i] = p
    <2>1. IsFiniteSet(new)
      <3>1. new \in SUBSET Points
        BY DEF Here
      <3> QED
        BY <3>1, Apart, FS_Subset
    <2> HIDE DEF new
    <2> QED
      BY <2>1, InAnyOrder
  <1>5. PICK steps : steps = [i \in DOMAIN ps |-> <<"own", ps[i]>>]
    OBVIOUS
  <1>6. /\ steps \in Seq(Steps)
        /\ \A i \in DOMAIN steps : steps[i][1] = "own"
        /\ \A p \in new : Among(steps, "own", p)
    <2>1. DOMAIN steps = 1 .. Len(ps) /\ \A i \in 1 .. Len(ps) : steps[i] = <<"own", ps[i]>>
      BY <1>4, <1>5
    <2>2. \A p \in new : p \in Objects
      BY Apart DEF Here
    <2> HIDE DEF new
    <2>3. \A i \in 1 .. Len(ps) : ps[i] \in Objects
      BY <1>4, <2>2
    <2>4. \A i \in DOMAIN steps : steps[i] \in Steps
      BY <2>1, <2>3, StepsOf
    <2>5. steps \in Seq(Steps)
      BY <1>4, <1>5, <2>1, <2>4
    <2>6. \A p \in new : Among(steps, "own", p)
      BY <1>4, <2>1 DEF Among
    <2> QED
      BY <2>1, <2>5, <2>6
  <1>7. PICK op : op = "list"
    OBVIOUS
  <1>8. Advance(op, d, steps)
    <2>1. Then(steps) /\ Doing(op, d)
      BY <1>1, <1>2, <1>5, <1>7
    <2>2. streams \in [Objects -> Nat]
      BY DEF Inv, Typed
    <2>3. /\ UNCHANGED <<kind, start, life, up, gap, parts, streams, settled, inbox, phase, handle,
                         bell, dirty, late, skipped>>
      BY DEF List, worldVars
    <2>4. \A i \in DOMAIN steps : \A e \in Devices : steps[i] # <<"parts", e>>
      BY <1>6
    <2> QED
      BY <1>3, <1>6, <1>7, <2>1, <2>2, <2>3, <2>4 DEF Advance
  <1> QED
    BY <1>8, AdvanceKeeps

-----------------------------------------------------------------------------
\* A refresh that nobody takes ends the task.
LEMMA RingKeeps ==
    ASSUME Inv, NEW o \in Objects, Ring(o) PROVE Inv'
  <1>1. Doing("ring", o) /\ plan # << >> /\ plan \in Seq(Steps)
    BY DEF Ring, Doing, Inv, Typed
  <1>2. CASE Callback \/ handle = "held"
    <2>1. PICK steps : steps = << >>
      OBVIOUS
    <2>2. steps \in Seq(Steps) /\ DOMAIN steps = {}
      BY <2>1, Nothing
    <2>3. PICK op : op = "ring"
      OBVIOUS
    <2>4. Advance(op, o, steps)
      <3>1. Then(steps)
        BY <1>2, <2>1 DEF Ring
      <3>2. streams \in [Objects -> Nat]
        BY DEF Inv, Typed
      <3>3. /\ bell' = TRUE
            /\ UNCHANGED <<kind, start, life, up, gap, parts, streams, settled, monitored,
                           inbox, phase, handle, dirty, late, skipped>>
        BY <1>2 DEF Ring, worldVars
      <3> QED
        BY <1>1, <2>1, <2>2, <2>3, <3>1, <3>2, <3>3 DEF Advance
    <2> QED
      BY <2>4, AdvanceKeeps
  <1>3. CASE ~(Callback \/ handle = "held")
    <2>1. plan' = << >> /\ phase' = "ended" /\ bell' = bell
          /\ UNCHANGED <<kind, start, life, up, gap, parts, streams, settled, monitored, inbox,
                         handle, dirty, late, skipped>>
      BY <1>3 DEF Ring, worldVars
    <2>2. ~Live'
      BY <2>1 DEF Live
    <2>3. plan' \in Seq(Steps) /\ \A op, x : ~Planned(op, x)'
      BY <2>1 DEF Planned
    <2>4. Typed'
      BY <2>1, <2>3 DEF Inv, Typed
    <2>5. Known'
      BY <2>1, <2>3 DEF Inv, Known, Coming
    <2>6. Ended'
      BY <2>1 DEF Inv, Ended
    <2> QED
      BY <2>2, <2>4, <2>5, <2>6, NotLive DEF Inv
  <1> QED
    BY <1>2, <1>3

\* Nothing is planned after the last step of the setup.
LEMMA ReadyKeeps ==
    ASSUME Inv, Ready PROVE Inv'
  <1>1. Doing("ready", Root) /\ plan # << >> /\ plan \in Seq(Steps) /\ Then(<< >>)
        /\ Typed /\ Known /\ Ended
    BY DEF Ready, Doing, Inv, Typed
  <1>2. Len(plan) \in Nat \ {0} /\ plan[1] = <<"ready", Root>> /\ 1 \in DOMAIN plan
        /\ DOMAIN plan = 1 .. Len(plan)
    BY <1>1 DEF Doing
  <1>3. phase = "setup"
    <2>1. Planned("ready", Root)
      BY <1>2 DEF Planned
    <2> QED
      BY <1>1, <2>1 DEF Ended, Typed
  <1>4. Len(plan) = 1
    <2>1. \A i \in DOMAIN plan : i < Len(plan) => plan[i][1] \notin {"ready", "ring"}
      BY <1>1, <1>3 DEF Ended
    <2>2. ~(1 < Len(plan))
      BY <1>2, <2>1
    <2> QED
      BY <1>2, <2>2
  <1>5. plan' = << >>
    <2>1. Len(Tail(plan)) = 0 /\ Tail(plan) \in Seq(Steps)
      BY <1>1, <1>4
    <2>2. ASSUME NEW t \in Seq(Steps), Len(t) = 0 PROVE t = << >>
      BY <2>2
    <2>3. Tail(plan) = << >>
      BY <2>1, <2>2
    <2>4. plan' = << >> \o Tail(plan)
      BY <1>1 DEF Then
    <2>5. plan' = << >> \o << >>
      BY <2>3, <2>4, Zenon
    <2> QED
      BY <2>5
  <1>6. \A op, x : Planned(op, x) <=> (op = "ready" /\ x = Root)
    <2>1. \A i \in DOMAIN plan : i = 1
      BY <1>2, <1>4
    <2> QED
      BY <1>2, <2>1 DEF Planned
  <1>7. \A op, x : ~Planned(op, x)'
    BY <1>5 DEF Planned
  <1>8. /\ UNCHANGED <<kind, start, life, up, gap, parts, streams, settled, monitored, inbox,
                       dirty, late, skipped>>
        /\ \/ phase' = "running" /\ handle' = "held" /\ bell' = TRUE
           \/ handle # "calling" /\ phase' = "ended" /\ handle' = handle /\ bell' = bell
    BY DEF Ready, worldVars
  <1>9. Typed'
    <2>1. plan' \in Seq(Steps)
      BY <1>5
    <2> QED
      BY <1>1, <1>8, <2>1 DEF Typed
  <1>10. Known'
    BY <1>1, <1>7, <1>8 DEF Known, Coming
  <1>11. Ended'
    BY <1>1, <1>5, <1>7, <1>8 DEF Ended
  <1>12. CASE ~Live'
    BY <1>9, <1>10, <1>11, <1>12, NotLive DEF Inv
  <1>13. CASE Live'
    <2>1. Live /\ phase' = "running" /\ bell' = TRUE
      BY <1>3, <1>8, <1>13 DEF Live
    <2>2. /\ Ordered /\ OwnCovered /\ PartsCovered /\ PointsCovered /\ StartCovered /\ Fresh
      BY DEF Inv, Covered
    <2>3. /\ Here(Devices)' = Here(Devices) /\ Here(Wifi)' = Here(Wifi)
          /\ Here(Points)' = Here(Points) /\ \A x : Coming(x)' <=> Coming(x)
      BY <1>8 DEF Here, Coming
    <2>4. \A x : Subscribed(x) => Subscribed(x)'
      BY <1>6, <1>8 DEF Subscribed
    <2>5. Ordered'
      <3>1. Root \in parts
        BY <1>6, <2>1, <2>2 DEF Ordered
      <3>2. DOMAIN plan' = {}
        BY <1>5
      <3>3. kind # "network" => monitored = {}
        BY <2>1, <2>2 DEF Ordered
      <3> QED
        BY <1>7, <1>8, <3>1, <3>2, <3>3 DEF Ordered
    <2>6. Rings'
      BY <1>5 DEF Rings
    <2>7. OwnCovered'
      BY <1>6, <1>8, <2>1, <2>2, <2>3, <2>4 DEF OwnCovered
    <2>8. PartsCovered'
      BY <1>6, <1>8, <2>1, <2>2, <2>3 DEF PartsCovered
    <2>9. PointsCovered'
      BY <1>6, <1>8, <2>1, <2>2, <2>3, <2>4 DEF PointsCovered
    <2>10. StartCovered'
      BY <1>6, <1>8, <2>1, <2>2, <2>3 DEF StartCovered
    <2>11. Fresh'
      BY <1>7, <1>8, <2>1, <2>2, <2>3 DEF Fresh
    <2>12. Announces'
      BY <2>1 DEF Announces
    <2> QED
      BY <1>9, <1>10, <1>11, <2>5, <2>6, <2>7, <2>8, <2>9, <2>10, <2>11, <2>12 DEF Inv, Covered
  <1> QED
    BY <1>12, <1>13

\* A step that fails is skipped, or ends what is done for a signal; what is given
\* up then is about a device that is no longer of interest.
LEMMA GivesUpKeeps ==
    ASSUME Inv, Live, phase = "running", kind = "network",
           NEW o \in Objects, Doing("parts", o), o \notin Here(Wifi), plan' = << >>,
           UNCHANGED <<kind, start, life, up, gap, parts, streams, settled, monitored, inbox,
                       phase, handle, bell, dirty, late, skipped>>
    PROVE  Inv'
  <1>1. /\ Typed /\ Known /\ Ended /\ Ordered /\ Rings /\ PartsCovered /\ PointsCovered /\ Fresh
        /\ Announces
    BY DEF Inv, Covered
  <1>2. plan \in Seq(Steps) /\ plan # << >>
    BY <1>1 DEF Typed, Doing
  <1>3. Planned("parts", o) /\ o \in Devices
    <2>1. 1 \in DOMAIN plan /\ plan[1] = <<"parts", o>> /\ plan[1] \in Steps
      BY <1>2 DEF Doing
    <2> QED
      BY <2>1 DEF Planned, Steps
  <1>4. \A op, x : Planned(op, x) => op \in {"parts", "list", "ring"} /\ x = o
    BY <1>1, <1>3, RingFollows
  <1>5. \A op, x : ~Planned(op, x)'
    BY DEF Planned
  <1>6. /\ Here(Devices)' = Here(Devices) /\ Here(Wifi)' = Here(Wifi)
        /\ Here(Points)' = Here(Points) /\ \A x : Coming(x)' <=> Coming(x)
    BY DEF Here, Coming
  <1>7. \A x : Subscribed(x) => Subscribed(x)'
    BY <1>4 DEF Subscribed
  <1>8. Live'
    BY DEF Live
  <1>9. Typed'
    BY <1>1 DEF Typed
  <1>10. Known'
    BY <1>1, <1>5 DEF Known, Coming
  <1>11. Ended'
    BY <1>1, <1>5 DEF Ended
  <1>12. Ordered'
    <2>1. Root \in parts
      BY <1>1 DEF Ordered, Ended
    <2>2. DOMAIN plan' = {}
      OBVIOUS
    <2> QED
      BY <1>5, <2>1, <2>2 DEF Ordered
  <1>13. Rings' /\ OwnCovered' /\ StartCovered'
    BY DEF Rings, OwnCovered, StartCovered
  <1>14. PartsCovered'
    BY <1>1, <1>4, <1>6 DEF PartsCovered
  <1>15. PointsCovered'
    <2>1. \A p \in Here(Points) : Home[p] \in Here(Wifi)
      BY <1>1, Apart DEF Known, Here
    <2> QED
      BY <1>1, <1>4, <1>6, <1>7, <2>1 DEF PointsCovered
  <1>16. Fresh'
    BY <1>1, <1>5, <1>6 DEF Fresh
  <1>17. Announces'
    <2> SUFFICES ASSUME ~bell, NEW h \in dirty, Promised(h)'
                 PROVE  Due(h)'
      BY DEF Announces
    <2>1. h[2] \in Points /\ Home[h[2]] \notin gap /\ Home[h[2]] \in parts \cup Here(Wifi)
      BY <1>6 DEF Promised
    <2>2. Promised(h)
      BY <2>1 DEF Promised
    <2>3. Due(h)
      BY <1>1, <2>2 DEF Announces
    <2>4. o \notin parts
      BY <1>1, <1>3 DEF Fresh
    <2>5. ~(Ringing /\ \A e \in Devices : Planned("parts", e) => e = Home[h[2]])
      BY <1>3, <2>1, <2>4
    <2> QED
      BY <1>6, <2>3, <2>5 DEF Due
  <1> QED
    BY <1>9, <1>10, <1>11, <1>12, <1>13, <1>14, <1>15, <1>16, <1>17 DEF Inv, Covered

LEMMA StepFailsKeeps ==
    ASSUME Inv, NEW op \in Ops, NEW o \in Objects, StepFails(op, o) PROVE Inv'
  <1>1. /\ Doing(op, o) /\ op \notin {"ring", "ready"}
        /\ up => op = "parts" /\ o \notin Here(Wifi)
        /\ UNCHANGED <<kind, start, life, up, gap, parts, streams, settled, monitored, inbox,
                       handle, bell, dirty, late, skipped>>
        /\ \/ Then(<< >>) /\ phase' = phase
           \/ /\ plan' = << >> /\ phase' = IF phase = "setup" THEN "failed" ELSE phase
              /\ up => kind = "network"
    BY DEF StepFails, worldVars
  <1>2. CASE Then(<< >>) /\ phase' = phase
    <2>1. PICK steps : steps = << >>
      OBVIOUS
    <2>2. steps \in Seq(Steps) /\ DOMAIN steps = {}
      BY <2>1, Nothing
    <2>3. Advance(op, o, steps)
      <3>1. Then(steps)
        BY <1>2, <2>1
      <3>2. streams \in [Objects -> Nat]
        BY DEF Inv, Typed
      <3> QED
        BY <1>1, <1>2, <2>1, <2>2, <3>1, <3>2 DEF Advance
    <2> QED
      BY <2>3, AdvanceKeeps
  <1>3. CASE /\ plan' = << >> /\ phase' = IF phase = "setup" THEN "failed" ELSE phase
             /\ up => kind = "network"
    <2>1. CASE Live /\ phase = "running"
      <3>1. phase' = phase
        BY <1>3, <2>1
      <3>2. op = "parts" /\ kind = "network"
        BY <1>1, <1>3, <2>1 DEF Live
      <3>3. Doing("parts", o) /\ o \notin Here(Wifi)
        BY <1>1, <2>1, <3>2 DEF Live
      <3>4. plan' = << >> /\ Live /\ phase = "running"
            /\ UNCHANGED <<kind, start, life, up, gap, parts, streams, settled, monitored,
                           inbox, phase, handle, bell, dirty, late, skipped>>
        BY <1>1, <1>3, <2>1, <3>1
      <3> QED
        BY <3>2, <3>3, <3>4, GivesUpKeeps
    <2>2. CASE ~(Live /\ phase = "running")
      <3>1. ~Live'
        BY <1>1, <1>3, <2>2 DEF Live
      <3>2. plan' \in Seq(Steps) /\ \A op1, x : ~Planned(op1, x)'
        BY <1>3 DEF Planned
      <3>3. Typed'
        BY <1>1, <1>3, <3>2 DEF Inv, Typed
      <3>4. Known'
        BY <1>1, <3>2 DEF Inv, Known, Coming
      <3>5. Ended'
        BY <1>1, <1>3, <3>2 DEF Inv, Ended, Typed
      <3> QED
        BY <3>1, <3>3, <3>4, <3>5, NotLive DEF Inv
    <2> QED
      BY <2>1, <2>2
  <1> QED
    BY <1>1, <1>2, <1>3

-----------------------------------------------------------------------------
LEMMA Concatenation ==
    ASSUME NEW S, NEW s \in Seq(S), NEW t \in Seq(S)
    PROVE  /\ s \o t \in Seq(S) /\ Len(s \o t) = Len(s) + Len(t)
           /\ \A i \in 1 .. Len(s) : (s \o t)[i] = s[i]
           /\ \A i \in 1 .. Len(t) : (s \o t)[Len(s) + i] = t[i]
  OBVIOUS

LEMMA Appending ==
    ASSUME NEW S, NEW s \in Seq(S), NEW x \in S
    PROVE  /\ Append(s, x) \in Seq(S) /\ Len(Append(s, x)) = Len(s) + 1
           /\ \A i \in 1 .. Len(s) : Append(s, x)[i] = s[i]
           /\ Append(s, x)[Len(s) + 1] = x
  OBVIOUS

LEMMA PutSecond ==
    ASSUME NEW a, NEW b
    PROVE  Append(<<a>>, b) = <<a, b>>
  <1> DEFINE S == {a, b}
  <1>1. ASSUME NEW s \in Seq(S), Len(s) = 1, s[1] = a
        PROVE  Append(s, b) = <<a, b>>
    <2>1. PICK q : q = Append(s, b)
      OBVIOUS
    <2>2. b \in S
      OBVIOUS
    <2> HIDE DEF S
    <2>3. /\ q \in Seq(S) /\ Len(q) = Len(s) + 1
          /\ \A i \in 1 .. Len(s) : q[i] = s[i]
          /\ q[Len(s) + 1] = b
      BY <2>1, <2>2, Appending
    <2>4. q \in Seq(S) /\ Len(q) = 2 /\ q[1] = a /\ q[2] = b
      BY <1>1, <2>3
    <2>5. q = <<a, b>>
      BY <2>4
    <2> QED
      BY <2>1, <2>5
  <1>2. <<a>> \in Seq(S) /\ Len(<<a>>) = 1 /\ <<a>>[1] = a
    OBVIOUS
  <1> HIDE DEF S
  <1> QED
    BY <1>1, <1>2, Zenon

LEMMA PutThird ==
    ASSUME NEW a, NEW b, NEW c
    PROVE  Append(<<a, b>>, c) = <<a, b, c>>
  <1> DEFINE S == {a, b, c}
  <1>1. ASSUME NEW s \in Seq(S), Len(s) = 2, s[1] = a, s[2] = b
        PROVE  Append(s, c) = <<a, b, c>>
    <2>1. PICK q : q = Append(s, c)
      OBVIOUS
    <2>2. c \in S
      OBVIOUS
    <2> HIDE DEF S
    <2>3. /\ q \in Seq(S) /\ Len(q) = Len(s) + 1
          /\ \A i \in 1 .. Len(s) : q[i] = s[i]
          /\ q[Len(s) + 1] = c
      BY <2>1, <2>2, Appending
    <2>4. q \in Seq(S) /\ Len(q) = 3 /\ q[1] = a /\ q[2] = b /\ q[3] = c
      BY <1>1, <2>3
    <2>5. q = <<a, b, c>>
      BY <2>4
    <2> QED
      BY <2>1, <2>5
  <1>2. <<a, b>> \in Seq(S) /\ Len(<<a, b>>) = 2 /\ <<a, b>>[1] = a /\ <<a, b>>[2] = b
    OBVIOUS
  <1> HIDE DEF S
  <1> QED
    BY <1>1, <1>2, Zenon

LEMMA PutBefore ==
    ASSUME NEW a, NEW b
    PROVE  <<a>> \o <<b>> = <<a, b>>
  <1> DEFINE S == {a, b}
  <1>1. ASSUME NEW s \in Seq(S), Len(s) = 1, s[1] = a,
               NEW t \in Seq(S), Len(t) = 1, t[1] = b
        PROVE  s \o t = <<a, b>>
    <2>1. PICK q : q = s \o t
      OBVIOUS
    <2> HIDE DEF S
    <2>2. /\ q \in Seq(S) /\ Len(q) = Len(s) + Len(t)
          /\ \A i \in 1 .. Len(s) : q[i] = s[i]
          /\ \A i \in 1 .. Len(t) : q[Len(s) + i] = t[i]
      BY <2>1, Concatenation
    <2>3. Len(q) = 2 /\ q[1] = s[1] /\ q[1 + 1] = t[1]
      BY <1>1, <2>2
    <2>4. q \in Seq(S) /\ Len(q) = 2 /\ q[1] = a /\ q[2] = b
      BY <1>1, <2>2, <2>3
    <2>5. q = <<a, b>>
      BY <2>4
    <2> QED
      BY <2>1, <2>5
  <1>2. /\ <<a>> \in Seq(S) /\ Len(<<a>>) = 1 /\ <<a>>[1] = a
        /\ <<b>> \in Seq(S) /\ Len(<<b>>) = 1 /\ <<b>>[1] = b
    OBVIOUS
  <1> HIDE DEF S
  <1> QED
    BY <1>1, <1>2, Zenon

LEMMA PutBeforeThree ==
    ASSUME NEW a, NEW b, NEW c, NEW d
    PROVE  <<a>> \o <<b, c, d>> = <<a, b, c, d>>
  <1> DEFINE S == {a, b, c, d}
  <1>1. ASSUME NEW s \in Seq(S), Len(s) = 1, s[1] = a,
               NEW t \in Seq(S), Len(t) = 3, t[1] = b, t[2] = c, t[3] = d
        PROVE  s \o t = <<a, b, c, d>>
    <2>1. PICK q : q = s \o t
      OBVIOUS
    <2> HIDE DEF S
    <2>2. /\ q \in Seq(S) /\ Len(q) = Len(s) + Len(t)
          /\ \A i \in 1 .. Len(s) : q[i] = s[i]
          /\ \A i \in 1 .. Len(t) : q[Len(s) + i] = t[i]
      BY <2>1, Concatenation
    <2>3. Len(q) = 4 /\ q[1] = s[1] /\ q[1 + 1] = t[1] /\ q[1 + 2] = t[2] /\ q[1 + 3] = t[3]
      BY <1>1, <2>2
    <2>4. q \in Seq(S) /\ Len(q) = 4 /\ q[1] = a /\ q[2] = b /\ q[3] = c /\ q[4] = d
      BY <1>1, <2>2, <2>3
    <2>5. q = <<a, b, c, d>>
      BY <2>4
    <2> QED
      BY <2>1, <2>5
  <1>2. /\ <<a>> \in Seq(S) /\ Len(<<a>>) = 1 /\ <<a>>[1] = a
        /\ <<b, c, d>> \in Seq(S) /\ Len(<<b, c, d>>) = 3
        /\ <<b, c, d>>[1] = b /\ <<b, c, d>>[2] = c /\ <<b, c, d>>[3] = d
    OBVIOUS
  <1> HIDE DEF S
  <1> QED
    BY <1>1, <1>2, Zenon

\* What is planned for a signal concerns its object and ends, or for
\* network_events begins, with a refresh.
LEMMA ReactionShape ==
    ASSUME Typed, NEW what \in {"added", "removed", "changed", "set"}, NEW o \in Objects,
           what = "added" => o # Root, NEW r, r = Reaction(what, o)
    PROVE  /\ r \in Seq(Steps) /\ r # << >>
           /\ Among(r, "ring", o)
           /\ \A op, x : Among(r, op, x) => x = o /\ op \in {"own", "parts", "list", "ring"}
           /\ kind # "events" => r[Len(r)] = <<"ring", o>>
           /\ Among(r, "parts", o) =>
                /\ what = "added" /\ o \in Devices /\ kind \in {"network", "events"}
                /\ \A i \in DOMAIN r : r[i] = <<"parts", o>> =>
                      \E j \in DOMAIN r : j > i /\ r[j] = <<"list", o>>
                /\ kind = "network" => r = << <<"parts", o>>, <<"list", o>>, <<"ring", o>> >>
           /\ what = "added" /\ o \in Devices =>
                /\ kind \in {"network", "events"} => Among(r, "parts", o) /\ Among(r, "list", o)
                /\ kind \in {"settings", "events"} => Among(r, "own", o)
           /\ what = "added" /\ o \in Points =>
                /\ kind = "events" => Among(r, "own", o)
                /\ kind = "network" /\ o \notin monitored => Among(r, "own", o)
  <1>1. <<"ring", o>> \in Steps /\ <<"own", o>> \in Steps
        /\ (o \in Devices => <<"parts", o>> \in Steps /\ <<"list", o>> \in Steps)
    BY DEF Steps
  <1>2. kind \in {"network", "device", "settings", "events"} /\ (o \in Devices => o \notin Points)
        /\ (what = "added" => o \in Devices \/ o \in Points)
    BY Apart DEF Typed, Objects
  <1>3. CASE r = << <<"ring", o>> >> /\ (what = "added" => kind = "device" \/
               (o \in Points /\ (kind = "settings" \/ (kind = "network" /\ o \in monitored))))
    <2>1. Len(r) = 1 /\ DOMAIN r = {1} /\ r[1] = <<"ring", o>> /\ r \in Seq(Steps)
      BY <1>1, <1>3
    <2> QED
      BY <1>2, <1>3, <2>1 DEF Among
  <1>4. CASE r = << <<"own", o>>, <<"ring", o>> >> /\ what = "added"
             /\ ((kind = "network" /\ o \in Points) \/ (kind = "settings" /\ o \in Devices))
    <2>1. Len(r) = 2 /\ DOMAIN r = {1, 2} /\ r[1] = <<"own", o>> /\ r[2] = <<"ring", o>>
          /\ r \in Seq(Steps)
      BY <1>1, <1>4
    <2> QED
      BY <1>2, <1>4, <2>1 DEF Among
  <1>5. CASE r = << <<"parts", o>>, <<"list", o>>, <<"ring", o>> >> /\ what = "added"
             /\ kind = "network" /\ o \in Devices
    <2>1. Len(r) = 3 /\ DOMAIN r = {1, 2, 3} /\ r[1] = <<"parts", o>> /\ r[2] = <<"list", o>>
          /\ r[3] = <<"ring", o>> /\ r \in Seq(Steps)
      BY <1>1, <1>5
    <2>2. \A op, x : Among(r, op, x) =>
            x = o /\ op \in {"own", "parts", "list", "ring"}
      BY <2>1 DEF Among
    <2>3. Among(r, "ring", o) /\ Among(r, "parts", o) /\ Among(r, "list", o)
      BY <2>1 DEF Among
    <2>4. ASSUME NEW i \in DOMAIN r, r[i] = <<"parts", o>>
          PROVE  \E j \in DOMAIN r : j > i /\ r[j] = <<"list", o>>
      <3>1. i = 1
        BY <2>1, <2>4
      <3> QED
        BY <2>1, <3>1
    <2>5. r # << >> /\ (kind # "events" => r[Len(r)] = <<"ring", o>>)
      BY <1>5, <2>1
    <2> QED
      BY <1>2, <1>5, <2>1, <2>2, <2>3, <2>4, <2>5
  <1>6. CASE r = << <<"ring", o>>, <<"own", o>> >> /\ what = "added" /\ kind = "events"
             /\ o \in Points
    <2>1. Len(r) = 2 /\ DOMAIN r = {1, 2} /\ r[1] = <<"ring", o>> /\ r[2] = <<"own", o>>
          /\ r \in Seq(Steps)
      BY <1>1, <1>6
    <2> QED
      BY <1>2, <1>6, <2>1 DEF Among
  <1>7. CASE r = << <<"ring", o>>, <<"own", o>>, <<"parts", o>>, <<"list", o>> >>
             /\ what = "added" /\ kind = "events" /\ o \in Devices
    <2>1. Len(r) = 4 /\ DOMAIN r = {1, 2, 3, 4} /\ r[1] = <<"ring", o>> /\ r[2] = <<"own", o>>
          /\ r[3] = <<"parts", o>> /\ r[4] = <<"list", o>> /\ r \in Seq(Steps)
      BY <1>1, <1>7
    <2>2. \A op, x : Among(r, op, x) =>
            x = o /\ op \in {"own", "parts", "list", "ring"}
      BY <2>1 DEF Among
    <2>3. Among(r, "ring", o) /\ Among(r, "parts", o) /\ Among(r, "list", o) /\ Among(r, "own", o)
      BY <2>1 DEF Among
    <2>4. ASSUME NEW i \in DOMAIN r, r[i] = <<"parts", o>>
          PROVE  \E j \in DOMAIN r : j > i /\ r[j] = <<"list", o>>
      <3>1. i = 3
        BY <2>1, <2>4
      <3> QED
        BY <2>1, <3>1
    <2>5. r # << >> /\ (kind # "events" => r[Len(r)] = <<"ring", o>>)
      BY <1>7, <2>1
    <2> QED
      BY <1>2, <1>7, <2>1, <2>2, <2>3, <2>4, <2>5
  <1>8. CASE what # "added"
    <2>1. r = << <<"ring", o>> >>
      BY <1>8 DEF Reaction
    <2> QED
      BY <1>3, <1>8, <2>1
  <1>9. CASE what = "added" /\ kind = "network" /\ o \in Points
    <2>1. r = IF o \in monitored THEN << <<"ring", o>> >> ELSE << <<"own", o>>, <<"ring", o>> >>
      BY <1>2, <1>9 DEF Reaction
    <2> QED
      BY <1>3, <1>4, <1>9, <2>1
  <1>10. CASE what = "added" /\ kind = "network" /\ o \in Devices
    <2>1. r = Append(Watch(o), <<"ring", o>>) /\ Watch(o) = << <<"parts", o>>, <<"list", o>> >>
      BY <1>2, <1>10 DEF Reaction, Watch
    <2>2. Append(<< <<"parts", o>>, <<"list", o>> >>, <<"ring", o>>)
            = << <<"parts", o>>, <<"list", o>>, <<"ring", o>> >>
      BY PutThird, ZenonT(60)
    <2> QED
      BY <1>5, <1>10, <2>1, <2>2, Zenon
  <1>11. CASE what = "added" /\ kind = "settings" /\ o \in Devices
    <2>1. r = Append(Watch(o), <<"ring", o>>) /\ Watch(o) = << <<"own", o>> >>
      BY <1>2, <1>11 DEF Reaction, Watch
    <2>2. Append(<< <<"own", o>> >>, <<"ring", o>>) = << <<"own", o>>, <<"ring", o>> >>
      BY PutSecond, ZenonT(60)
    <2> QED
      BY <1>4, <1>11, <2>1, <2>2, Zenon
  <1>12. CASE what = "added" /\ (kind = "device" \/ (kind = "settings" /\ o \in Points))
    <2>1. r = << <<"ring", o>> >>
      BY <1>2, <1>12 DEF Reaction
    <2> QED
      BY <1>3, <1>12, <2>1
  <1>13. CASE what = "added" /\ kind = "events" /\ o \in Points
    <2>1. r = << <<"ring", o>> >> \o << <<"own", o>> >>
      BY <1>2, <1>13 DEF Reaction
    <2>2. << <<"ring", o>> >> \o << <<"own", o>> >> = << <<"ring", o>>, <<"own", o>> >>
      BY PutBefore, ZenonT(60)
    <2> QED
      BY <1>6, <1>13, <2>1, <2>2, Zenon
  <1>14. CASE what = "added" /\ kind = "events" /\ o \in Devices
    <2>1. r = << <<"ring", o>> >> \o Watch(o)
          /\ Watch(o) = << <<"own", o>>, <<"parts", o>>, <<"list", o>> >>
      BY <1>2, <1>14 DEF Reaction, Watch
    <2>2. << <<"ring", o>> >> \o << <<"own", o>>, <<"parts", o>>, <<"list", o>> >>
            = << <<"ring", o>>, <<"own", o>>, <<"parts", o>>, <<"list", o>> >>
      BY PutBeforeThree, ZenonT(60)
    <2> QED
      BY <1>7, <1>14, <2>1, <2>2, Zenon
  <1> QED
    BY <1>2, <1>8, <1>9, <1>10, <1>11, <1>12, <1>13, <1>14

LEMMA HandleKeeps ==
    ASSUME Inv, NEW h \in inbox, Handle(h[1], h[2]) PROVE Inv'
  <1>1. PICK what \in {"added", "removed", "changed", "set"}, o \in Objects :
          h = <<what, o>> /\ Handle(what, o)
    BY DEF Inv, Typed, Happenings
  <1>2. /\ phase = "running" /\ plan = << >> /\ <<what, o>> \in inbox
        /\ inbox' = inbox \ {<<what, o>>} /\ plan' = Reaction(what, o)
        /\ monitored' = CASE kind = "network" /\ what = "added" /\ o \in Points -> monitored \cup {o}
                          [] what = "removed" -> monitored \ {o}
                          [] OTHER -> monitored
        /\ UNCHANGED <<kind, start, life, up, gap, parts, streams, settled, phase, handle, bell,
                       dirty, late, skipped>>
    BY <1>1 DEF Handle, Idle, worldVars
  <1>3. Typed /\ Known /\ Ended /\ Ordered /\ OwnCovered /\ PartsCovered /\ PointsCovered
        /\ StartCovered /\ Fresh /\ Announces
    BY DEF Inv, Covered
  <1>4. \A op, x : ~Planned(op, x)
    BY <1>2 DEF Planned
  <1>5. what = "added" => o # Root /\ Coming(o)
    BY <1>2, <1>3 DEF Known, Coming
  <1>6. life[o] # "new"
    <2>1. <<what, o>>[2] = o
      OBVIOUS
    <2> QED
      BY <1>2, <1>3, <2>1 DEF Known
  <1>7. PICK r : r = Reaction(what, o)
    OBVIOUS
  <1>8. plan' = r
    BY <1>2, <1>7
  <1>9. /\ r \in Seq(Steps) /\ r # << >>
        /\ Among(r, "ring", o)
        /\ \A op, x : Among(r, op, x) => x = o /\ op \in {"own", "parts", "list", "ring"}
        /\ kind # "events" => r[Len(r)] = <<"ring", o>>
        /\ Among(r, "parts", o) =>
             /\ what = "added" /\ o \in Devices /\ kind \in {"network", "events"}
             /\ \A i \in DOMAIN r : r[i] = <<"parts", o>> =>
                   \E j \in DOMAIN r : j > i /\ r[j] = <<"list", o>>
             /\ kind = "network" => r = << <<"parts", o>>, <<"list", o>>, <<"ring", o>> >>
        /\ what = "added" /\ o \in Devices =>
             /\ kind \in {"network", "events"} => Among(r, "parts", o) /\ Among(r, "list", o)
             /\ kind \in {"settings", "events"} => Among(r, "own", o)
        /\ what = "added" /\ o \in Points =>
             /\ kind = "events" => Among(r, "own", o)
             /\ kind = "network" /\ o \notin monitored => Among(r, "own", o)
    BY <1>3, <1>5, <1>7, ReactionShape
  <1>10. \A op, x : Planned(op, x)' <=> Among(r, op, x)
    BY <1>8 DEF Planned, Among
  <1>11. /\ \A x : x # o => (Coming(x)' <=> Coming(x))
         /\ what # "added" => \A x : Coming(x)' <=> Coming(x)
         /\ \A x : Coming(x)' => Coming(x)
         /\ what = "added" => ~Coming(o)'
    BY <1>2 DEF Coming
  <1>12. /\ Here(Devices)' = Here(Devices) /\ Here(Wifi)' = Here(Wifi)
         /\ Here(Points)' = Here(Points) /\ (Live' <=> Live)
    BY <1>2 DEF Here, Live
  <1>13. /\ \A x : Subscribed(x) <=> streams[x] > 0
         /\ \A x : Subscribed(x)' <=> streams[x] > 0 \/ Among(r, "own", x)
    BY <1>2, <1>4, <1>10 DEF Subscribed
  <1>14. /\ \A x \in monitored' : x \in monitored \/
               (x = o /\ kind = "network" /\ what = "added" /\ o \in Points)
         /\ monitored' \subseteq Points
         /\ kind # "network" /\ monitored = {} => monitored' = {}
    BY <1>2, <1>3 DEF Typed
  <1>15. Typed'
    BY <1>2, <1>3, <1>8, <1>9, <1>14 DEF Typed
  <1>16. Known'
    <2>1. \A d \in Devices : Planned("parts", d)' => life[d] # "new"
      BY <1>6, <1>9, <1>10
    <2>2. \A x \in monitored' : life[x] # "new"
      BY <1>3, <1>6, <1>14 DEF Known
    <2> QED
      BY <1>2, <1>3, <1>11, <2>1, <2>2 DEF Known
  <1>17. Ended'
    BY <1>2, <1>3, <1>9, <1>10 DEF Ended
  <1>18. Ordered'
    <2> SUFFICES ASSUME Live PROVE Ordered'
      BY <1>12 DEF Ordered
    <2>1. Root \in parts
      BY <1>3, <1>4 DEF Ordered
    <2>2. \A op \in {"eachParts", "eachOwn"} : ~Planned(op, Root)'
      BY <1>9, <1>10
    <2>3. kind # "network" => monitored' = {}
      BY <1>3, <1>14 DEF Ordered
    <2>4. ASSUME NEW i \in DOMAIN r, NEW d \in Devices, r[i] = <<"parts", d>>
          PROVE  \E j \in DOMAIN r : j > i /\ r[j] = <<"list", d>>
      <3>1. Among(r, "parts", d)
        BY <2>4 DEF Among
      <3>2. d = o
        BY <1>9, <3>1
      <3> QED
        BY <1>9, <2>4, <3>1, <3>2
    <2> QED
      BY <1>2, <1>8, <2>1, <2>2, <2>3, <2>4 DEF Ordered
  <1>19. Rings'
    <2>1. ASSUME kind # "events" PROVE \E x \in Objects : plan'[Len(plan')] = <<"ring", x>>
      BY <1>8, <1>9, <2>1
    <2>2. ASSUME kind = "network", NEW d \in Devices, Planned("parts", d)'
          PROVE  plan' = << <<"parts", d>>, <<"list", d>>, <<"ring", d>> >>
      <3>1. d = o /\ Among(r, "parts", o)
        BY <1>9, <1>10, <2>2
      <3>2. r = << <<"parts", o>>, <<"list", o>>, <<"ring", o>> >>
        BY <1>9, <2>2, <3>1
      <3> QED
        BY <1>8, <3>1, <3>2, Zenon
    <2> QED
      BY <1>2, <2>1, <2>2 DEF Rings
  <1>20. OwnCovered'
    <2> SUFFICES ASSUME Live, kind # "network", NEW d \in Here(Devices),
                        kind = "device" => d \in start
                 PROVE  Subscribed(d)' \/ (kind # "device" /\ Coming(d)')
      BY <1>2, <1>12 DEF OwnCovered
    <2>1. streams[d] > 0 \/ (kind # "device" /\ Coming(d))
      BY <1>3, <1>4, <1>13 DEF OwnCovered
    <2>2. ASSUME kind # "device", what = "added", d = o PROVE Subscribed(d)'
      BY <1>3, <1>9, <1>13, <2>2 DEF Here, Typed
    <2> QED
      BY <1>11, <1>13, <2>1, <2>2
  <1>21. PartsCovered'
    <2> SUFFICES ASSUME Live, kind \in {"network", "events"}, NEW d \in Here(Wifi),
                        kind = "network" => d \notin gap
                 PROVE  d \in parts \/ Planned("parts", d)' \/ Coming(d)'
      BY <1>2, <1>12 DEF PartsCovered
    <2>1. d \in parts \/ Coming(d)
      BY <1>3, <1>4 DEF PartsCovered
    <2>2. ASSUME what = "added", d = o PROVE Planned("parts", d)'
      BY <1>9, <1>10, <2>2, Apart DEF Here
    <2> QED
      BY <1>11, <2>1, <2>2
  <1>22. PointsCovered'
    <2> SUFFICES ASSUME Live, kind \in {"network", "events"}, NEW p \in Here(Points)
                 PROVE  /\ (kind = "network" => Home[p] \notin gap) =>
                              \/ Subscribed(p)' \/ Planned("list", Home[p])'
                              \/ Coming(p)' \/ Coming(Home[p])'
                        /\ p \in monitored' => Subscribed(p)'
      BY <1>2, <1>12 DEF PointsCovered
    <2>1. p \in monitored => streams[p] > 0
      BY <1>3, <1>13 DEF PointsCovered
    <2>2. ASSUME kind = "network" => Home[p] \notin gap
          PROVE  streams[p] > 0 \/ Coming(p) \/ Coming(Home[p])
      BY <1>3, <1>4, <1>13, <2>2 DEF PointsCovered
    <2>3. ASSUME what = "added", p = o PROVE Subscribed(p)'
      BY <1>9, <1>13, <2>1, <2>3 DEF Here
    <2>4. ASSUME what = "added", Home[p] = o PROVE Planned("list", Home[p])'
      <3>1. Home[p] \in Devices
        BY Apart DEF Here
      <3> QED
        BY <1>9, <1>10, <2>4, <3>1
    <2> QED
      BY <1>11, <1>13, <1>14, <2>1, <2>2, <2>3, <2>4
  <1>23. StartCovered'
    BY <1>2, <1>3, <1>12 DEF StartCovered
  <1>24. Fresh'
    <2> SUFFICES ASSUME Live, kind = "network", NEW d \in Devices
                 PROVE  /\ Coming(d)' =>
                             Root \in parts /\ d \notin parts /\ ~Planned("parts", d)'
                        /\ Planned("parts", d)' => d \notin parts
      BY <1>2, <1>12 DEF Fresh
    <2>1. Coming(d) => Root \in parts /\ d \notin parts
      BY <1>3 DEF Fresh
    <2>2. Planned("parts", d)' => d = o /\ what = "added"
      BY <1>9, <1>10
    <2> QED
      BY <1>5, <1>11, <2>1, <2>2
  <1>25. Announces'
    <2> SUFFICES ASSUME Live, ~bell, NEW g \in dirty, Promised(g)'
                 PROVE  Due(g)'
      BY <1>2, <1>12 DEF Announces
    <2>1. Ringing'
      BY <1>9, <1>10 DEF Ringing
    <2>2. CASE kind # "network"
      BY <1>2, <2>1, <2>2 DEF Due
    <2>3. CASE kind = "network"
      <3>1. Promised(g) /\ g[2] \in Points
        BY <1>2, <1>12, <2>3 DEF Promised
      <3>2. (\E e \in inbox : e[2] = g[2]) \/ Coming(Home[g[2]])
        <4>1. ~Ringing
          BY <1>4 DEF Ringing
        <4>2. Due(g)
          BY <1>2, <1>3, <3>1 DEF Announces
        <4> QED
          BY <2>3, <4>1, <4>2 DEF Due
      <3>3. \A e \in Devices : Planned("parts", e)' => e = o /\ o \in Devices /\ what = "added"
        BY <1>9, <1>10
      <3>4. CASE \E e \in inbox : e[2] = g[2]
        <4>1. PICK e \in inbox : e[2] = g[2]
          BY <3>4
        <4>2. CASE e = <<what, o>>
          <5>1. o = g[2]
            BY <4>1, <4>2
          <5>2. \A d \in Devices : ~Planned("parts", d)'
            BY <3>1, <3>3, <5>1, Apart
          <5> QED
            BY <1>2, <2>1, <2>3, <5>2 DEF Due
        <4>3. CASE e # <<what, o>>
          BY <1>2, <2>3, <4>1, <4>3 DEF Due
        <4> QED
          BY <4>2, <4>3
      <3>5. CASE Coming(Home[g[2]])
        <4>1. CASE what = "added" /\ o = Home[g[2]]
          BY <1>2, <2>1, <2>3, <3>3, <4>1 DEF Due
        <4>2. CASE ~(what = "added" /\ o = Home[g[2]])
          BY <1>2, <1>11, <2>3, <3>5, <4>2 DEF Due
        <4> QED
          BY <4>1, <4>2
      <3> QED
        BY <3>2, <3>4, <3>5
    <2> QED
      BY <2>2, <2>3
  <1> QED
    BY <1>15, <1>16, <1>17, <1>18, <1>19, <1>20, <1>21, <1>22, <1>23, <1>24, <1>25 DEF Inv, Covered

-----------------------------------------------------------------------------
LEMMA StutterKeeps ==
    ASSUME Inv, UNCHANGED vars PROVE Inv'
  <1>1. /\ kind' = kind /\ start' = start /\ life' = life /\ gap' = gap /\ up' = up
        /\ parts' = parts /\ streams' = streams /\ monitored' = monitored /\ inbox' = inbox
        /\ plan' = plan /\ phase' = phase /\ handle' = handle /\ bell' = bell
        /\ dirty' = dirty /\ late' = late /\ settled' = settled /\ skipped' = skipped
    BY DEF vars, worldVars, taskVars
  <1>2. Covered' /\ (\A h : Due(h)' <=> Due(h)) /\ (Live' <=> Live)
    BY <1>1, Aside DEF Inv
  <1>3. \A op, o : Planned(op, o)' <=> Planned(op, o)
    BY <1>1, SamePlan
  <1>4. Typed'
    BY <1>1 DEF Inv, Typed
  <1>5. Known'
    BY <1>1, <1>3 DEF Inv, Known, Coming
  <1>6. Ended'
    BY <1>1, <1>3 DEF Inv, Ended
  <1>7. Announces'
    <2>1. \A h : Promised(h)' <=> Promised(h)
      BY <1>1 DEF Promised, Here
    <2> QED
      BY <1>1, <1>2, <2>1 DEF Inv, Announces
  <1> QED
    BY <1>2, <1>4, <1>5, <1>6, <1>7 DEF Inv

\* The invariant is kept by every step of the monitor, of the application and of
\* NetworkManager.
LEMMA InvNext == Inv /\ [Next]_vars => Inv'
  <1> SUFFICES ASSUME Inv, [Next]_vars PROVE Inv'
    OBVIOUS
  <1>1. CASE Task
    <2>1. ASSUME NEW o \in Objects, SubscribeParts(o) \/ SubscribeOwn(o) \/ Ring(o)
          PROVE  Inv'
      BY <2>1, SubscribePartsKeeps, SubscribeOwnKeeps, RingKeeps
    <2>2. ASSUME NEW d \in Devices, List(d) PROVE Inv'
      BY <2>2, ListKeeps
    <2>3. ASSUME NEW op \in {"eachOwn", "eachParts"}, Enumerate(op) PROVE Inv'
      BY <2>3, EnumerateKeeps
    <2>4. ASSUME NEW op \in Ops, NEW o \in Objects, StepFails(op, o) PROVE Inv'
      BY <2>4, StepFailsKeeps
    <2>5. CASE Ready
      BY <2>5, ReadyKeeps
    <2>6. ASSUME NEW h \in inbox, Handle(h[1], h[2]) PROVE Inv'
      BY <2>6, HandleKeeps
    <2>7. CASE StreamsEnd \/ Shutdown
      <3>1. /\ Idle /\ phase' \in {"ended", "failed"}
            /\ UNCHANGED <<kind, start, worldVars, parts, streams, settled, monitored, inbox,
                           plan, handle, bell, dirty, late, skipped>>
        BY <2>7 DEF StreamsEnd, Shutdown
      <3> QED
        BY <3>1, IdleEnds
    <2> QED
      BY <1>1, <2>1, <2>2, <2>3, <2>4, <2>5, <2>6, <2>7 DEF Task
  <1>2. ASSUME NEW o \in Objects, Appear(o) \/ Vanish(o) \/ Change(o) \/ SetValue(o)
        PROVE  Inv'
    <2>1. CASE Change(o)
      BY <2>1, ChangeKeeps DEF Change
    <2>2. CASE SetValue(o)
      BY <2>2, ChangeKeeps DEF SetValue
    <2> QED
      BY <1>2, <2>1, <2>2, AppearKeeps, VanishKeeps
  <1>7. ASSUME NEW o \in Objects, Settle(o) PROVE Inv'
    BY <1>7, SettleKeeps
  <1>3. CASE LoseConnection
    BY <1>3, LoseConnectionKeeps
  <1>4. CASE Refresh
    BY <1>4, RefreshKeeps
  <1>5. CASE GiveUp \/ Release \/ Stop \/ StopReturns
    <2>1. CASE GiveUp
      BY <2>1, HoldKeeps DEF GiveUp
    <2>2. CASE Release
      BY <2>2, HoldKeeps DEF Release
    <2>3. CASE Stop
      BY <2>3, HoldKeeps DEF Stop
    <2>4. CASE StopReturns
      BY <2>4, HoldKeeps DEF StopReturns
    <2> QED
      BY <1>5, <2>1, <2>2, <2>3, <2>4
  <1>6. CASE UNCHANGED vars
    BY <1>6, StutterKeeps
  <1> QED
    BY <1>1, <1>2, <1>3, <1>4, <1>5, <1>6, <1>7 DEF Next

LEMMA Invariance == Spec => []Inv
  BY InitInv, InvNext, PTL DEF Spec

-----------------------------------------------------------------------------

\* While a connected monitor runs and its application's view is out of date in
\* what the monitor undertakes to report, a refresh is on its way, whatever the
\* order of subscriptions, enumerations, signals, values and reads: network_events,
\* settings_events, monitor_device_changes, monitor_network_changes.
THEOREM NothingIsMissed == Spec => []NothingMissed
  <1>1. Inv => NothingMissed
    <2> SUFFICES ASSUME Inv, phase = "running", up, NEW h \in dirty, Promised(h), ~bell
                 PROVE  Announced
      BY DEF NothingMissed, Announced
    <2>1. Due(h) /\ Live
      BY DEF Inv, Announces, Live
    <2>2. ASSUME Ringing PROVE Announced
      <3>1. PICK o \in Objects, i \in DOMAIN plan : plan[i] = <<"ring", o>>
        BY <2>2 DEF Ringing, Planned
      <3>2. plan[i][1] = "ring"
        BY <3>1
      <3> QED
        BY <3>2 DEF Announced
    <2>3. CASE kind # "network"
      BY <2>1, <2>2, <2>3 DEF Due, Announced
    <2>4. CASE kind = "network"
      <3>1. h[2] \in Points /\ Home[h[2]] \in parts \cup Here(Wifi)
        BY <2>4 DEF Promised
      <3>2. ASSUME NEW g \in inbox, g[2] = h[2] PROVE Announced
        BY <3>1, <3>2 DEF Announced
      <3>3. ASSUME Coming(Home[h[2]]) PROVE Announced
        <4>1. Home[h[2]] \notin parts
          BY <2>1, <2>4, <3>1, <3>3, Apart DEF Inv, Covered, Fresh
        <4>2. <<"added", Home[h[2]]>>[2] \in Here(Wifi)
          BY <3>1, <4>1
        <4> QED
          BY <3>3, <4>2 DEF Announced, Coming
      <3> QED
        BY <2>1, <2>2, <2>4, <3>2, <3>3 DEF Due
    <2> QED
      BY <2>3, <2>4
  <1> QED
    BY <1>1, Invariance, PTL

\* No callback runs after MonitorHandle::stop has returned.
THEOREM SilentOnceStopped == Spec => SilentAfterStop
  <1>1. Inv /\ [Next]_vars => [handle = "stopped" => (bell' => bell)]_vars
    <2> SUFFICES ASSUME Inv, Next, handle = "stopped"
                 PROVE  bell' => bell
      BY DEF vars
    <2>1. plan = << >> /\ phase \in {"ended", "failed"}
      BY DEF Inv, Ended
    <2>2. CASE Task
      BY <2>1, <2>2 DEF Task, Doing, Idle, SubscribeParts, SubscribeOwn, Ring, List, Enumerate,
                        StepFails, Ready, Handle, StreamsEnd, Shutdown
    <2>3. ASSUME NEW o \in Objects,
                 Settle(o) \/ Appear(o) \/ Vanish(o) \/ Change(o) \/ SetValue(o)
          PROVE  bell' = bell
      BY <2>3 DEF Settle, Appear, Vanish, Change, SetValue, Happens
    <2>4. CASE LoseConnection \/ Refresh
      BY <2>4 DEF LoseConnection, Refresh
    <2>5. CASE GiveUp \/ Release \/ Stop \/ StopReturns
      BY <2>5 DEF GiveUp, Release, Stop, StopReturns, Hold
    <2> QED
      BY <2>2, <2>3, <2>4, <2>5 DEF Next
  <1>2. Inv /\ [Next]_vars => [handle = "stopped" => (bell' => bell)]_vars
    BY <1>1
  <1> QED
    BY <1>2, Invariance, PTL DEF Spec, SilentAfterStop

=============================================================================
