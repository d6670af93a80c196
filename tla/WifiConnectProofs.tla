------------------------- MODULE WifiConnectProofs -------------------------
(***************************************************************************)
(* What the calls of WifiConnect promise, for every number of tasks,       *)
(* radios, networks and profiles, also when calls are abandoned and        *)
(* NetworkManager moves on its own: connect_guard serialises them, a       *)
(* connect returns Ok only when connected and undoes what failed, a call   *)
(* deletes only what is its to delete, a try_ variant yields, and a forget *)
(* is complete.                                                            *)
(*                                                                         *)
(* The argument is one inductive invariant, Inv, made of what is known of  *)
(* a call (CallInv, TodoInv), of the profiles it counts on (StoreInv), of  *)
(* the radios (LinkInv), of what it has heard (NewsInv) and of what the    *)
(* guard keeps out (GuardInv, YieldInv, ForgetInv).                        *)
(***************************************************************************)
EXTENDS WifiConnect, TLAPS

\* Who is past the guard holds it.
GuardInv ==
    /\ pc \in [Clients -> Phases]
    /\ \A c \in Clients : pc[c] \notin Idle => guard = c

\* Where a call can be, by what it is, and what it has found and made by then.
Connecting == {"check", "lookup", "current", "scan", "activate", "savedWait", "dropLink",
               "dropProfile", "add", "freshWait", "undoLink", "undoProfile"}
Forgetting == {"visit", "recheck", "list", "delete"}

CallInv(c) ==
    /\ pc[c] # "done" => result[c] = "none"
    /\ pc[c] \in Connecting => Connects(c)
    /\ pc[c] \in Forgetting => request[c].op = "forget"
    /\ pc[c] = "deactivate" => request[c].op = "disconnect"
    /\ saved[c] # "none" => Connects(c) /\ request[c].creds # "psk"
    /\ pc[c] \in {"activate", "savedWait", "dropLink", "dropProfile"} => saved[c] # "none"
    /\ pc[c] \in {"dropLink", "dropProfile"} => request[c].creds = "open"
    /\ made[c] # "none" =>
          Connects(c) /\ pc[c] \in {"freshWait", "undoLink", "undoProfile", "done"}
    /\ pc[c] \in {"freshWait", "undoLink", "undoProfile"} => made[c] # "none"
    /\ result[c] = "ok" /\ Connects(c) /\ request[c].creds = "psk" => made[c] # "none"

\* A forget visits radios, then deletes profiles.
TodoInv(c) ==
    /\ request[c].op = "forget" /\ pc[c] \in {"visit", "down", "downWait", "recheck"} =>
          todo[c] \subseteq Radios
    /\ pc[c] = "delete" => todo[c] \subseteq Profiles

\* A profile once found for a network stays its profile until it is deleted,
\* and a failed connect's own is deleted.
StoreInv(c) ==
    /\ saved[c] # "none" => store[saved[c]] \in {request[c].ssid, "deleted"}
    /\ pc[c] = "delete" => \A p \in todo[c] : store[p] \in {request[c].ssid, "deleted"}
    /\ result[c] = "error" /\ made[c] # "none" /\ c \notin failed =>
          store[made[c]] = "deleted"

\* An active radio runs a saved profile of the network it is on; what a call
\* activated is on the radio and the network the call is for.
LinkInv(r) ==
    /\ Active(r) => link[r].profile \in Matching(link[r].ssid) /\ link[r].ssid \in Ssids
    /\ \A c \in Clients :
          link[r].owner = c => r = Target(c) /\ link[r].ssid = request[c].ssid

\* What a connect has heard is that its radio is up.
NewsInv(c) ==
    /\ pc[c] \in {"savedWait", "freshWait"} /\ c \in news => Target(c) \in served[c]
    /\ result[c] = "ok" /\ Connects(c) => Target(c) \in served[c]

\* The radios a try_ variant looks at.
Watched(c) ==
    {r \in Radios : request[c].try = "every" \/ (request[c].try = "own" /\ r = Target(c))}

\* Past its check a try_ variant shares no radio it looked at with a call that
\* left an activation behind.
YieldInv(c) ==
    \A r \in Watched(c) :
        pc[c] \notin Idle \cup {"check"} =>
            ~(link[r].state = "coming" /\ link[r].owner \in Clients \ {c})

\* A forget has every profile of its network on its list, but for those that
\* came after the listing.
ForgetInv(c) ==
    pc[c] = "delete" /\ c \notin failed =>
        Matching(request[c].ssid) \subseteq todo[c] \cup late[c]

\* The shape of the variables, todo included.
Typed == TypeOK /\ todo \in [Clients -> SUBSET (Radios \cup Profiles)]

\* A step of a call that stays past the guard keeps the guard.
LEMMA GoKeepsGuard ==
    ASSUME GuardInv, NEW c \in Clients, NEW n \in Phases, Go(c, n),
           pc[c] \notin Idle \/ n \in Idle
    PROVE  GuardInv'
BY DEF GuardInv, Go

\* Returning frees the guard only of the call that returns.
LEMMA ReturnKeepsGuard ==
    ASSUME GuardInv, NEW c \in Clients, NEW o, Return(c, o)
    PROVE  GuardInv'
BY DEF GuardInv, Return, Phases, Idle

\* Who takes a step: a call, a radio, or the two calls without the guard.
LEMMA NextIs ==
    Next => \/ \E c \in Clients : Begin(c) \/ Step(c) \/ Abandon(c)
            \/ \E r \in Radios : LinkUp(r) \/ LinkDown(r)
            \/ \E r \in Radios, p \in Profiles : Autoconnect(r, p)
            \/ \E p \in Profiles : DeleteSaved(p)
            \/ \E p \in Profiles, s \in Ssids : AddConnection(p, s)
<1>1. \A x \in Additions : x[1] \in Profiles /\ x[2] \in Ssids
  BY WifiAssumption
<1> QED
  BY <1>1, Zenon DEF Next

\* What follows the guard or a disconnection is a phase.
LEMMA NextPhases ==
    ASSUME NEW c \in Clients
    PROVE  /\ First(c) \in Phases
           /\ AfterDown(c) = "return" \/ AfterDown(c) \in Phases
BY DEF First, AfterDown, Phases, Steps

\* Every step keeps the guard with the call that is past it.
LEMMA NextGuard == GuardInv /\ [Next]_vars => GuardInv'
<1> SUFFICES ASSUME GuardInv, [Next]_vars PROVE GuardInv'
  OBVIOUS
<1> USE DEF Phases, Idle, Waits, Steps
<1>1. ASSUME NEW c \in Clients, Begin(c) PROVE GuardInv'
  BY <1>1, GoKeepsGuard DEF Begin
<1>2. ASSUME NEW c \in Clients, Lock(c) PROVE GuardInv'
  <2>1. CASE guard = "free" /\ guard' = c /\ pc' = [pc EXCEPT ![c] = First(c)]
    BY <2>1, WifiAssumption, NextPhases DEF GuardInv
  <2>2. CASE Return(c, "inProgress")
    BY <2>2, ReturnKeepsGuard
  <2> QED
    BY <1>2, <2>1, <2>2 DEF Lock
<1>3. ASSUME NEW c \in Clients, Abandon(c) PROVE GuardInv'
  BY <1>3, ReturnKeepsGuard DEF Abandon
<1>4. ASSUME NEW c \in Clients, Fail(c) PROVE GuardInv'
  BY <1>4, ReturnKeepsGuard DEF Fail
<1>5. ASSUME NEW c \in Clients, Check(c) \/ Lookup(c) \/ CheckCurrent(c) \/ Scan(c)
      PROVE  GuardInv'
  <2>1. CASE Check(c)
    BY <2>1, GoKeepsGuard, ReturnKeepsGuard DEF Check
  <2>2. CASE Lookup(c)
    <3> DEFINE next == IF request[c].op = "bssid" THEN "scan" ELSE "current"
    <3>1. pc[c] = "lookup" /\ next \in Phases
      BY <2>2 DEF Lookup
    <3>2. Go(c, next) \/ Return(c, "missingPassword")
      BY <2>2 DEF Lookup
    <3> QED
      BY <3>1, <3>2, GoKeepsGuard, ReturnKeepsGuard
  <2>3. CASE CheckCurrent(c)
    BY <2>3, GoKeepsGuard, ReturnKeepsGuard DEF CheckCurrent
  <2>4. CASE Scan(c)
    BY <2>4, GoKeepsGuard DEF Scan
  <2> QED
    BY <1>5, <2>1, <2>2, <2>3, <2>4
<1>6. ASSUME NEW c \in Clients, pc[c] \notin Idle, Proceed(c) PROVE GuardInv'
  BY <1>6, NextPhases, GoKeepsGuard, ReturnKeepsGuard DEF Proceed
<1>7. ASSUME NEW c \in Clients, Disconnect(c) \/ DownWait(c) \/ DownFails(c)
      PROVE  GuardInv'
  BY <1>6, <1>7, GoKeepsGuard, ReturnKeepsGuard DEF Disconnect, DownWait, DownFails
<1>8. ASSUME NEW c \in Clients, ActivateSaved(c) \/ SavedWait(c) PROVE GuardInv'
  BY <1>8, GoKeepsGuard, ReturnKeepsGuard DEF ActivateSaved, SavedWait
<1>9. ASSUME NEW c \in Clients, AddAndActivate(c) \/ FreshWait(c) PROVE GuardInv'
  BY <1>9, GoKeepsGuard, ReturnKeepsGuard DEF AddAndActivate, FreshWait
<1>10. ASSUME NEW c \in Clients, Deactivate(c) \/ DeleteProfile(c) PROVE GuardInv'
  BY <1>10, GoKeepsGuard, ReturnKeepsGuard DEF Deactivate, DeleteProfile
<1>11. ASSUME NEW c \in Clients, DeactivateAll(c) PROVE GuardInv'
  BY <1>11, GoKeepsGuard, ReturnKeepsGuard DEF DeactivateAll
<1>12. ASSUME NEW c \in Clients, Visit(c) \/ Recheck(c) \/ List(c) \/ ForgetOne(c)
       PROVE  GuardInv'
  BY <1>12, GoKeepsGuard, ReturnKeepsGuard DEF Visit, Recheck, List, ForgetOne
<1>13. ASSUME NEW r \in Radios, LinkUp(r) \/ LinkDown(r) PROVE GuardInv'
  BY <1>13 DEF LinkUp, LinkDown, GuardInv
<1>14. ASSUME NEW r \in Radios, NEW p \in Profiles, Autoconnect(r, p) PROVE GuardInv'
  BY <1>14 DEF Autoconnect, GuardInv
<1>15. ASSUME NEW p \in Profiles, DeleteSaved(p) PROVE GuardInv'
  BY <1>15 DEF DeleteSaved, GuardInv
<1>16. ASSUME NEW p \in Profiles, NEW s \in Ssids, AddConnection(p, s) PROVE GuardInv'
  BY <1>16 DEF AddConnection, GuardInv
<1>17. CASE UNCHANGED vars
  BY <1>17 DEF vars, GuardInv
<1> QED
  BY <1>1, <1>2, <1>3, <1>4, <1>5, <1>7, <1>8, <1>9, <1>10, <1>11, <1>12, <1>13,
     <1>14, <1>15, <1>16, <1>17, NextIs DEF Step

-----------------------------------------------------------------------------
(* The shape of the variables.                                             *)

\* The radio of a call is one NetworkManager lists.
LEMMA TargetIsRadio ==
    ASSUME TypeOK, NEW c \in Clients
    PROVE  Target(c) \in Radios
BY WifiAssumption DEF TypeOK, Target, Radios, Request

\* A link stays a link when its state changes.
LEMMA LinkTyped ==
    ASSUME NEW l \in Links, NEW state \in {"coming", "up", "going"}
    PROVE  [l EXCEPT !.state = state] \in Links
BY DEF Links

\* Turning radios keeps the links well formed.
LEMMA TurnTyped ==
    ASSUME TypeOK, NEW S, NEW state \in {"coming", "up", "going"}, Turn(S, state)
    PROVE  link' \in [Radios -> Links]
BY LinkTyped DEF TypeOK, Turn

\* So does an activation.
LEMMA BringTyped ==
    ASSUME TypeOK, NEW r \in Radios, NEW p \in Profiles, NEW s \in Ssids,
           NEW who \in Clients \cup {"nm"}, Bring(r, p, s, who)
    PROVE  link' \in [Radios -> Links]
<1>1. \A q \in Radios : link[q] \in Links /\ [link[q] EXCEPT !.state = "going"] \in Links
  BY LinkTyped DEF TypeOK
<1>2. [state |-> "coming", ssid |-> s, profile |-> p, owner |-> who] \in Links
  BY DEF Links
<1> QED
  BY <1>1, <1>2 DEF Bring

\* So does a deletion, which keeps the saved profiles well formed too.
LEMMA DeleteTyped ==
    ASSUME TypeOK, NEW p \in Profiles, Delete(p)
    PROVE  /\ link' \in [Radios -> Links]
           /\ store' \in [Profiles -> Ssids \cup {"unused", "deleted"}]
BY TurnTyped DEF TypeOK, Delete

\* The shape of what moving a call on changes.
SteppingTyped ==
    /\ request \in [Clients -> Requests]
    /\ pc \in [Clients -> Phases]
    /\ result \in [Clients -> {"none", "ok", "already", "error", "inProgress",
                               "missingPassword", "stuck", "abandoned"}]
    /\ guard \in Clients \cup {"free"}

\* Going on keeps the shape of what it changes.
LEMMA GoTyped ==
    ASSUME TypeOK, NEW c \in Clients, NEW n \in Phases, Go(c, n)
    PROVE  SteppingTyped'
BY DEF TypeOK, Go, SteppingTyped

\* So does returning.
LEMMA ReturnTyped ==
    ASSUME TypeOK, NEW c \in Clients,
           NEW o \in {"none", "ok", "already", "error", "inProgress",
                      "missingPassword", "stuck", "abandoned"}, Return(c, o)
    PROVE  SteppingTyped'
BY DEF TypeOK, Return, SteppingTyped, Phases, Idle

\* So does going on after a disconnection.
LEMMA ProceedTyped ==
    ASSUME TypeOK, NEW c \in Clients, Proceed(c)
    PROVE  SteppingTyped'
BY NextPhases, GoTyped, ReturnTyped DEF Proceed

\* What a step of one call leaves of another.
Same(d) ==
    /\ request'[d] = request[d] /\ pc'[d] = pc[d] /\ result'[d] = result[d]
    /\ saved'[d] = saved[d] /\ made'[d] = made[d] /\ at'[d] = at[d]
    /\ todo'[d] = todo[d]

\* A step of one call leaves the place and the findings of every other.
LEMMA OthersSame ==
    ASSUME Typed, NEW c \in Clients, NEW d \in Clients \ {c},
           Begin(c) \/ Step(c) \/ Abandon(c)
    PROVE  Same(d)
<1> USE DEF Typed, TypeOK, Same, Go, Return, clientVars
<1>1. CASE Begin(c) \/ Lock(c) \/ Fail(c) \/ Check(c) \/ Abandon(c)
  BY <1>1 DEF Begin, Lock, Fail, Check, Abandon
<1>2. CASE Lookup(c) \/ CheckCurrent(c) \/ Scan(c) \/ Visit(c) \/ Recheck(c) \/
           List(c) \/ ForgetOne(c)
  BY <1>2 DEF Lookup, CheckCurrent, Scan, Visit, Recheck, List, ForgetOne
<1>3. CASE Disconnect(c) \/ DownWait(c) \/ DownFails(c) \/ DeactivateAll(c)
  BY <1>3 DEF Disconnect, DownWait, DownFails, DeactivateAll, Proceed
<1>4. CASE ActivateSaved(c) \/ SavedWait(c) \/ AddAndActivate(c) \/ FreshWait(c) \/
           Deactivate(c) \/ DeleteProfile(c)
  BY <1>4 DEF ActivateSaved, SavedWait, AddAndActivate, FreshWait, Deactivate,
  DeleteProfile
<1> QED
  BY <1>1, <1>2, <1>3, <1>4 DEF Step

\* A step of a call keeps CallInv and TodoInv of it.
LEMMA OwnCall ==
    ASSUME Typed, NEW c \in Clients, CallInv(c), TodoInv(c),
           Begin(c) \/ Step(c) \/ Abandon(c)
    PROVE  CallInv(c)' /\ TodoInv(c)'
<1>0. request[c].op \in {"connect", "bssid", "disconnect", "forget"}
      /\ request[c].creds \in {"stored", "open", "psk"}
      /\ (request[c].try # "no" => request[c].op \in {"connect", "bssid"})
  BY WifiAssumption DEF Typed, TypeOK, Request
<1> USE <1>0 DEF Typed, TypeOK, CallInv, TodoInv, Connects, Go, Return, clientVars,
            Connecting, Forgetting, Matching
<1>1. CASE Begin(c) \/ Fail(c) \/ Check(c) \/ Abandon(c)
  BY <1>1 DEF Begin, Fail, Check, Abandon
<1>2. CASE Lock(c)
  BY <1>2 DEF Lock, First
<1>3. CASE Lookup(c)
  BY <1>3 DEF Lookup, UseSaved
<1>4. CASE CheckCurrent(c) \/ Scan(c)
  BY <1>4 DEF CheckCurrent, Scan
<1>5. CASE Disconnect(c) \/ DownWait(c) \/ DownFails(c)
  BY <1>5 DEF Disconnect, DownWait, DownFails, Proceed, AfterDown
<1>6. CASE DeactivateAll(c)
  BY <1>6 DEF DeactivateAll
<1>7. CASE ActivateSaved(c) \/ SavedWait(c)
  BY <1>7 DEF ActivateSaved, SavedWait, CanRebuild
<1>8. CASE AddAndActivate(c) \/ FreshWait(c)
  BY <1>8, WifiAssumption DEF AddAndActivate, FreshWait
<1>9. CASE Deactivate(c)
  BY <1>9 DEF Deactivate
<1>10. CASE DeleteProfile(c)
  BY <1>10 DEF DeleteProfile
<1>11. CASE Visit(c) \/ Recheck(c)
  BY <1>11 DEF Visit, Recheck
<1>12. CASE List(c)
  BY <1>12 DEF List
<1>13. CASE ForgetOne(c)
  BY <1>13 DEF ForgetOne
<1> QED
  BY <1>1, <1>2, <1>3, <1>4, <1>5, <1>6, <1>7, <1>8, <1>9, <1>10, <1>11, <1>12, <1>13
     DEF Step

\* The shape of the variables includes that of a call's place.
LEMMA SteppingTypedNow == TypeOK => SteppingTyped
BY DEF TypeOK, SteppingTyped

\* A step of a call moves it to a phase and gives it one of the results.
LEMMA OwnStepping ==
    ASSUME TypeOK, NEW c \in Clients, Begin(c) \/ Step(c) \/ Abandon(c)
    PROVE  SteppingTyped'
<1> USE SteppingTypedNow, GoTyped, ReturnTyped, ProceedTyped, NextPhases
    DEF Phases, Idle, Waits, Steps
<1>1. CASE Begin(c) \/ Fail(c) \/ Check(c) \/ Abandon(c)
  BY <1>1 DEF Begin, Fail, Check, Abandon
<1>2. CASE Lock(c)
  BY <1>2 DEF Lock, SteppingTyped
<1>3. CASE Lookup(c) \/ CheckCurrent(c) \/ Scan(c)
  BY <1>3 DEF Lookup, CheckCurrent, Scan
<1>4. CASE Disconnect(c) \/ DownWait(c) \/ DownFails(c) \/ DeactivateAll(c)
  BY <1>4 DEF Disconnect, DownWait, DownFails, DeactivateAll
<1>5. CASE ActivateSaved(c) \/ SavedWait(c) \/ AddAndActivate(c) \/ FreshWait(c)
  BY <1>5 DEF ActivateSaved, SavedWait, AddAndActivate, FreshWait
<1>6. CASE Deactivate(c) \/ DeleteProfile(c)
  BY <1>6 DEF Deactivate, DeleteProfile
<1>7. CASE Visit(c) \/ Recheck(c) \/ List(c) \/ ForgetOne(c)
  BY <1>7 DEF Visit, Recheck, List, ForgetOne
<1> QED
  BY <1>1, <1>2, <1>3, <1>4, <1>5, <1>6, <1>7 DEF Step

\* What it activates, takes down or deletes are radios and profiles.
LEMMA OwnLinks ==
    ASSUME TypeOK, NEW c \in Clients, CallInv(c), TodoInv(c),
           Begin(c) \/ Step(c) \/ Abandon(c)
    PROVE  /\ link' \in [Radios -> Links]
           /\ store' \in [Profiles -> Ssids \cup {"unused", "deleted"}]
<1>0. request[c].ssid \in Ssids /\ Target(c) \in Radios
  <2>1. request[c] \in Request
    BY WifiAssumption DEF TypeOK
  <2> QED
    BY <2>1, TargetIsRadio DEF Request
<1>1. CASE UNCHANGED <<link, store>>
  BY <1>1 DEF TypeOK
<1>2. CASE Disconnect(c) \/ Deactivate(c) \/ DeactivateAll(c)
  BY <1>1, <1>2, TurnTyped DEF Disconnect, Deactivate, DeactivateAll, TypeOK
<1>3. CASE ActivateSaved(c)
  BY <1>0, <1>1, <1>3, BringTyped DEF ActivateSaved, Saved, CallInv, TypeOK
<1>4. CASE AddAndActivate(c)
  BY <1>0, <1>4, BringTyped DEF AddAndActivate, TypeOK
<1>5. CASE DeleteProfile(c)
  BY <1>1, <1>5, DeleteTyped DEF DeleteProfile, CallInv, TypeOK
<1>6. CASE ForgetOne(c)
  BY <1>1, <1>6, DeleteTyped DEF ForgetOne, TodoInv
<1> QED
  BY <1>1, <1>2, <1>3, <1>4, <1>5, <1>6 DEF Step, Begin, Lock, Fail, Check, Lookup,
     CheckCurrent, Scan, DownWait, DownFails, SavedWait, FreshWait, Visit, Recheck, List,
     Abandon, clientVars

\* Every step of a call keeps the shape of the variables.
LEMMA OwnTyped ==
    ASSUME Typed, NEW c \in Clients, CallInv(c), TodoInv(c),
           Begin(c) \/ Step(c) \/ Abandon(c)
    PROVE  Typed'
<1>1. SteppingTyped' /\ link' \in [Radios -> Links]
      /\ store' \in [Profiles -> Ssids \cup {"unused", "deleted"}]
  BY OwnStepping, OwnLinks DEF Typed
<1>2. /\ saved' \in [Clients -> Profiles \cup {"none"}]
      /\ made' \in [Clients -> Profiles \cup {"none"}]
      /\ at' \in [Clients -> Radios]
      /\ news' \subseteq Clients
      /\ failed' \subseteq Clients
      /\ served' \in [Clients -> SUBSET Radios]
      /\ late' \in [Clients -> SUBSET Profiles]
      /\ todo' \in [Clients -> SUBSET (Radios \cup Profiles)]
      /\ todo'[c] \subseteq Radios \/ todo'[c] \subseteq Profiles
  <2> USE DEF Typed, TypeOK, clientVars
  <2>1. CASE Begin(c) \/ Lock(c) \/ Fail(c) \/ Check(c) \/ Abandon(c)
    BY <2>1 DEF Begin, Lock, Fail, Check, Abandon
  <2>2. CASE Lookup(c) \/ CheckCurrent(c) \/ Scan(c)
    BY <2>2 DEF Lookup, CheckCurrent, Scan, Matching
  <2>3. CASE Disconnect(c) \/ DownWait(c) \/ DownFails(c) \/ DeactivateAll(c)
    BY <2>3 DEF Disconnect, DownWait, DownFails, DeactivateAll
  <2>4. CASE ActivateSaved(c) \/ SavedWait(c) \/ AddAndActivate(c) \/ FreshWait(c)
    BY <2>4 DEF ActivateSaved, SavedWait, AddAndActivate, FreshWait
  <2>5. CASE Deactivate(c) \/ DeleteProfile(c) \/ Recheck(c)
    BY <2>5 DEF Deactivate, DeleteProfile, Recheck
  <2>6. CASE Visit(c) \/ List(c)
    BY <2>6 DEF Visit, List, Matching, CallInv, TodoInv, Forgetting
  <2>7. CASE ForgetOne(c)
    BY <2>7 DEF ForgetOne
  <2> QED
    BY <2>1, <2>2, <2>3, <2>4, <2>5, <2>6, <2>7 DEF Step
<1> QED
  <2>1. \A d \in Clients \ {c} : todo'[d] = todo[d]
    BY OthersSame DEF Same
  <2> QED
    BY <1>1, <1>2, <2>1 DEF Typed, TypeOK, SteppingTyped

\* Every step keeps the shape of the variables.
LEMMA NextTyped ==
    ASSUME Typed, [Next]_vars, \A c \in Clients : CallInv(c) /\ TodoInv(c)
    PROVE  Typed'
<1> USE DEF Typed, TypeOK
<1>1. CASE \E c \in Clients : Begin(c) \/ Step(c) \/ Abandon(c)
  BY <1>1, OwnTyped
<1>2. ASSUME NEW r \in Radios, LinkUp(r) PROVE Typed'
  BY <1>2, TurnTyped DEF LinkUp, clientVars
<1>3. ASSUME NEW r \in Radios, LinkDown(r) PROVE Typed'
  BY <1>3 DEF LinkDown, clientVars, Links, Down
<1>4. ASSUME NEW r \in Radios, NEW p \in Profiles, Autoconnect(r, p) PROVE Typed'
  BY <1>4, BringTyped DEF Autoconnect, clientVars, Saved
<1>5. ASSUME NEW p \in Profiles, DeleteSaved(p) PROVE Typed'
  BY <1>5, DeleteTyped DEF DeleteSaved, clientVars
<1>6. ASSUME NEW p \in Profiles, NEW s \in Ssids, AddConnection(p, s) PROVE Typed'
  BY <1>6 DEF AddConnection, clientVars
<1>7. CASE UNCHANGED vars
  BY <1>7 DEF vars, clientVars
<1> QED
  BY <1>1, <1>2, <1>3, <1>4, <1>5, <1>6, <1>7, NextIs

\* No step but a call's own changes where it is.
LEMMA NextCall ==
    ASSUME Typed, [Next]_vars, \A c \in Clients : CallInv(c) /\ TodoInv(c)
    PROVE  \A c \in Clients : CallInv(c)' /\ TodoInv(c)'
<1>1. ASSUME NEW d \in Clients, Same(d) PROVE CallInv(d)' /\ TodoInv(d)'
  BY <1>1 DEF Same, CallInv, TodoInv, Connects
<1>2. ASSUME NEW c \in Clients, Begin(c) \/ Step(c) \/ Abandon(c)
      PROVE  \A d \in Clients : CallInv(d)' /\ TodoInv(d)'
  BY <1>1, <1>2, OthersSame, OwnCall
<1>3. CASE \/ \E r \in Radios : LinkUp(r) \/ LinkDown(r)
           \/ \E r \in Radios, p \in Profiles : Autoconnect(r, p)
           \/ \E p \in Profiles : DeleteSaved(p)
           \/ \E p \in Profiles, s \in Ssids : AddConnection(p, s)
           \/ UNCHANGED vars
  BY <1>1, <1>3 DEF LinkUp, LinkDown, Autoconnect, DeleteSaved, AddConnection, vars, clientVars,
  Same
<1> QED
  BY <1>2, <1>3, NextIs

-----------------------------------------------------------------------------
(* The saved profiles.                                                     *)

\* A step leaves a profile, deletes it, or makes it: for the network of a call
\* that adds one, or for any by the call without the guard.
Moved(p) ==
    \/ store'[p] = store[p]
    \/ store[p] \in Ssids /\ store'[p] = "deleted"
    \/ /\ store[p] = "unused"
       /\ \/ \E c \in Clients : pc[c] = "add" /\ store'[p] = request[c].ssid
          \/ store'[p] \in Ssids /\ \A c \in Clients : pc[c] = "delete" => p \in late'[c]

\* Every step does one of these to a profile.
LEMMA StoreMoves ==
    ASSUME Typed, [Next]_vars, NEW p \in Profiles
    PROVE  Moved(p)
<1> USE DEF Typed, TypeOK, Moved, Saved
<1>1. ASSUME NEW c \in Clients, Begin(c) \/ Step(c) \/ Abandon(c) PROVE Moved(p)
  <2>1. CASE AddAndActivate(c)
    BY <2>1 DEF AddAndActivate
  <2>2. CASE DeleteProfile(c) \/ ForgetOne(c)
    BY <2>2 DEF DeleteProfile, ForgetOne, Delete
  <2>3. CASE UNCHANGED store
    BY <2>3
  <2> QED
    BY <1>1, <2>1, <2>2, <2>3 DEF Step, Begin, Lock, Fail, Check, Lookup,
    CheckCurrent,
       Scan, Disconnect, DownWait, DownFails, ActivateSaved, SavedWait, FreshWait,
       Deactivate, DeactivateAll, Visit, Recheck, List, Abandon
<1>2. CASE \/ \E r \in Radios : LinkUp(r) \/ LinkDown(r)
           \/ \E r \in Radios, q \in Profiles : Autoconnect(r, q)
           \/ \E q \in Profiles : DeleteSaved(q)
           \/ UNCHANGED vars
  BY <1>2 DEF LinkUp, LinkDown, Autoconnect, DeleteSaved, Delete, vars
<1>3. ASSUME NEW q \in Profiles, NEW s \in Ssids, AddConnection(q, s) PROVE Moved(p)
  <2>1. CASE q = p
    BY <1>3, <2>1 DEF AddConnection
  <2>2. CASE q # p
    BY <1>3, <2>2 DEF AddConnection
  <2> QED
    BY <2>1, <2>2
<1> QED
  BY <1>1, <1>2, <1>3, NextIs

\* The calls keep what they are, and what failed or came late stays so.
LEMMA Lasting ==
    ASSUME Typed, [Next]_vars
    PROVE  /\ request' = request /\ failed \subseteq failed'
           /\ \A d \in Clients : late[d] \subseteq late'[d]
<1>1. ASSUME NEW c \in Clients, Begin(c) \/ Step(c) \/ Abandon(c)
      PROVE  /\ request' = request /\ failed \subseteq failed'
             /\ \A d \in Clients : late[d] \subseteq late'[d]
  <2> USE DEF Go, Return, Proceed
  <2>1. CASE Begin(c) \/ Lock(c) \/ Fail(c) \/ Check(c) \/ Abandon(c)
    BY <2>1 DEF Begin, Lock, Fail, Check, Abandon
  <2>2. CASE Lookup(c) \/ CheckCurrent(c) \/ Scan(c) \/ Visit(c) \/ Recheck(c) \/
             List(c) \/ ForgetOne(c)
    BY <2>2 DEF Lookup, CheckCurrent, Scan, Visit, Recheck, List, ForgetOne
  <2>3. CASE Disconnect(c) \/ DownWait(c) \/ DownFails(c) \/ DeactivateAll(c)
    BY <2>3 DEF Disconnect, DownWait, DownFails, DeactivateAll, Proceed
  <2>4. CASE ActivateSaved(c) \/ SavedWait(c) \/ AddAndActivate(c) \/ FreshWait(c)
             \/ Deactivate(c) \/ DeleteProfile(c)
    BY <2>4 DEF ActivateSaved, SavedWait, AddAndActivate, FreshWait, Deactivate,
    DeleteProfile
  <2> QED
    BY <1>1, <2>1, <2>2, <2>3, <2>4 DEF Step
<1>2. CASE \/ \E r \in Radios : LinkUp(r) \/ LinkDown(r)
           \/ \E r \in Radios, q \in Profiles : Autoconnect(r, q)
           \/ \E q \in Profiles : DeleteSaved(q)
           \/ \E q \in Profiles, s \in Ssids : AddConnection(q, s)
           \/ UNCHANGED vars
  BY <1>2 DEF LinkUp, LinkDown, Autoconnect, DeleteSaved, AddConnection, vars
<1> QED
  BY <1>1, <1>2, NextIs

\* A step of a call keeps StoreInv of it.
LEMMA OwnStore ==
    ASSUME Typed, NEW c \in Clients, CallInv(c), TodoInv(c), StoreInv(c),
           Begin(c) \/ Step(c) \/ Abandon(c), \A p \in Profiles : Moved(p)
    PROVE  StoreInv(c)'
<1>0. /\ request[c] \in Request
      /\ {"unused", "deleted", "none"} \cap Ssids = {}
      /\ "none" \notin Profiles
  BY WifiAssumption DEF Typed, TypeOK
<1> USE <1>0 DEF Typed, TypeOK, Request, CallInv, TodoInv, StoreInv, Go,
            Return, Proceed, AfterDown,
            Matching, Saved, Delete, Moved, clientVars, Connects
<1>1. CASE Begin(c) \/ Fail(c) \/ Check(c) \/ Abandon(c)
  BY <1>1 DEF Begin, Fail, Check, Abandon
<1>2. CASE Lock(c)
  BY <1>2 DEF Lock, First
<1>3. CASE Lookup(c)
  BY <1>3 DEF Lookup, UseSaved
<1>4. CASE CheckCurrent(c) \/ Scan(c)
  BY <1>4 DEF CheckCurrent, Scan
<1>5. CASE Disconnect(c) \/ DownWait(c) \/ DownFails(c)
  BY <1>5 DEF Disconnect, DownWait, DownFails, Proceed, AfterDown
<1>6. CASE DeactivateAll(c)
  BY <1>6 DEF DeactivateAll
<1>7. CASE ActivateSaved(c) \/ SavedWait(c)
  BY <1>7 DEF ActivateSaved, SavedWait, CanRebuild
<1>8. CASE AddAndActivate(c) \/ FreshWait(c)
  BY <1>8, WifiAssumption DEF AddAndActivate, FreshWait
<1>9. CASE Deactivate(c)
  BY <1>9 DEF Deactivate
<1>10. CASE DeleteProfile(c)
  BY <1>10 DEF DeleteProfile
<1>11. CASE Visit(c) \/ Recheck(c)
  BY <1>11 DEF Visit, Recheck
<1>12. CASE List(c)
  BY <1>12 DEF List
<1>13. CASE ForgetOne(c)
  <2>1. request' = request /\ saved' = saved /\ made' = made /\ pc' \in [Clients -> Phases]
    BY <1>13, ZenonT(60) DEF ForgetOne, Phases, Idle, Steps
  <2>2. made[c] = "none" /\ saved[c] = "none" /\ todo[c] \subseteq Profiles
    BY <1>13 DEF ForgetOne, Forgetting
  <2>3. todo'[c] = todo[c] \/ \E p \in todo[c] : todo'[c] = todo[c] \ {p}
    BY <1>13, ZenonT(60) DEF ForgetOne
  <2>4. \A p \in todo[c] : pc[c] = "delete" => store'[p] \in {request[c].ssid, "deleted"}
    BY <2>2
  <2> QED
    BY <1>13, <2>1, <2>2, <2>3, <2>4 DEF ForgetOne
<1> QED
  BY <1>1, <1>2, <1>3, <1>4, <1>5, <1>6, <1>7, <1>8, <1>9, <1>10, <1>11, <1>12, <1>13
     DEF Step

\* Other steps may delete what the call counts on, but give it to no other
\* network, and bring nothing deleted back.
LEMMA NextStore ==
    ASSUME Typed, [Next]_vars,
           \A c \in Clients : CallInv(c) /\ TodoInv(c) /\ StoreInv(c)
    PROVE  \A c \in Clients : StoreInv(c)'
<1>1. ASSUME NEW d \in Clients, Same(d) PROVE StoreInv(d)'
  <2>0. request[d].ssid \in Ssids
    BY WifiAssumption DEF Typed, TypeOK, Request
  <2>1. \A p \in Profiles :
           /\ store[p] \in {request[d].ssid, "deleted"} =>
                 store'[p] \in {request[d].ssid, "deleted"}
           /\ store[p] = "deleted" => store'[p] = "deleted"
    BY <2>0, StoreMoves, WifiAssumption DEF Moved
  <2>2. saved[d] \in Profiles \cup {"none"} /\ made[d] \in Profiles \cup {"none"}
    BY DEF Typed, TypeOK
  <2>3. request' = request /\ failed \subseteq failed'
    BY Lasting
  <2> QED
    BY <1>1, <2>1, <2>2, <2>3 DEF Same, StoreInv, TodoInv
<1>2. ASSUME NEW c \in Clients, Begin(c) \/ Step(c) \/ Abandon(c)
      PROVE  \A d \in Clients : StoreInv(d)'
  BY <1>1, <1>2, OthersSame, OwnStore, StoreMoves
<1>3. CASE \/ \E r \in Radios : LinkUp(r) \/ LinkDown(r)
           \/ \E r \in Radios, p \in Profiles : Autoconnect(r, p)
           \/ \E p \in Profiles : DeleteSaved(p)
           \/ \E p \in Profiles, s \in Ssids : AddConnection(p, s)
           \/ UNCHANGED vars
  BY <1>1, <1>3 DEF LinkUp, LinkDown, Autoconnect, DeleteSaved, AddConnection, vars, clientVars,
  Same
<1> QED
  BY <1>2, <1>3, NextIs

-----------------------------------------------------------------------------
(* The radios.                                                             *)

LinksInv == \A r \in Radios : LinkInv(r)

\* Radios that are taken down, or come up, stay what they are for.
LEMMA TurnKeeps ==
    ASSUME Typed, LinksInv, NEW S, NEW state \in {"going", "up"}, Turn(S, state),
           state = "up" => \A r \in S : r \in Radios /\ Active(r),
           UNCHANGED <<store, request>>
    PROVE  LinksInv'
BY DEF Typed, TypeOK, LinksInv, LinkInv, Turn, Active, Matching, Links, Target

\* A deletion takes the profile's connections down.
LEMMA DeleteKeeps ==
    ASSUME Typed, LinksInv, NEW p \in Profiles, Delete(p), UNCHANGED request
    PROVE  LinksInv'
<1> SUFFICES ASSUME NEW r \in Radios PROVE LinkInv(r)'
  BY DEF LinksInv
<1>1. link[r] \in Links /\ LinkInv(r)
  BY DEF Typed, TypeOK, LinksInv
<1>2. \/ link'[r] = link[r] /\ ~(Active(r) /\ link[r].profile = p)
      \/ link'[r] = [link[r] EXCEPT !.state = "going"]
  BY DEF Delete, Turn
<1>3. \A q \in Profiles \ {p} : store'[q] = store[q]
  BY DEF Delete, Typed, TypeOK
<1>4. CASE link'[r] = link[r] /\ ~(Active(r) /\ link[r].profile = p)
  BY <1>1, <1>3, <1>4 DEF LinkInv, Active, Matching, Target
<1>5. CASE link'[r] = [link[r] EXCEPT !.state = "going"]
  BY <1>1, <1>5 DEF LinkInv, Active, Links, Target
<1> QED
  BY <1>2, <1>4, <1>5

\* An activation brings a saved profile up, for its caller's radio and network.
LEMMA BringKeeps ==
    ASSUME Typed, LinksInv, NEW r \in Radios, NEW p \in Profiles, NEW s \in Ssids,
           NEW who \in Clients \cup {"nm"}, Bring(r, p, s, who), UNCHANGED request,
           \A c \in Clients : who = c => r = Target(c) /\ s = request[c].ssid,
           store'[p] = s, store[p] = s \/ store[p] \notin Ssids,
           \A q \in Profiles \ {p} : store'[q] = store[q]
    PROVE  LinksInv'
<1> SUFFICES ASSUME NEW q \in Radios PROVE LinkInv(q)'
  BY DEF LinksInv
<1>1. link[q] \in Links /\ LinkInv(q)
  BY DEF Typed, TypeOK, LinksInv
<1>2. \/ q = r /\ link'[q] = [state |-> "coming", ssid |-> s, profile |-> p, owner |-> who]
      \/ q # r /\ link'[q] = link[q]
      \/ q # r /\ link'[q] = [link[q] EXCEPT !.state = "going"]
  BY DEF Bring
<1>3. CASE q = r /\ link'[q] = [state |-> "coming", ssid |-> s, profile |-> p, owner |-> who]
  BY <1>3 DEF LinkInv, Active, Matching, Target
<1>4. CASE q # r /\ link'[q] = link[q]
  BY <1>1, <1>4 DEF LinkInv, Active, Matching, Target
<1>5. CASE q # r /\ link'[q] = [link[q] EXCEPT !.state = "going"]
  BY <1>1, <1>5 DEF LinkInv, Active, Links, Target
<1> QED
  BY <1>2, <1>3, <1>4, <1>5

\* Every step keeps the radios on saved profiles.
LEMMA NextLink ==
    ASSUME Typed, [Next]_vars, LinksInv,
           \A c \in Clients : CallInv(c) /\ TodoInv(c) /\ StoreInv(c)
    PROVE  LinksInv'
<1>s. CASE UNCHANGED <<link, store, request>>
  BY <1>s DEF LinksInv, LinkInv, Active, Matching, Target
<1>t. \A c \in Clients : Target(c) \in Radios /\ request[c].ssid \in Ssids
  BY TargetIsRadio, WifiAssumption DEF Typed, TypeOK, Request
<1>r. request' = request
  BY Lasting
<1>1. ASSUME NEW c \in Clients, Begin(c) \/ Step(c) \/ Abandon(c) PROVE LinksInv'
  <2>1. CASE Disconnect(c) \/ Deactivate(c) \/ DeactivateAll(c)
    BY <2>1, <1>r, <1>s, TurnKeeps DEF Disconnect, Deactivate, DeactivateAll
  <2>2. CASE ActivateSaved(c)
    <3>1. CASE Saved(saved[c]) /\ Bring(Target(c), saved[c], store[saved[c]], c)
      <4>1. saved[c] \in Profiles /\ store[saved[c]] = request[c].ssid
        BY <2>2, <3>1, WifiAssumption
           DEF Typed, TypeOK, ActivateSaved, CallInv, StoreInv, Saved
      <4>2. store' = store
        BY <2>2 DEF ActivateSaved
      <4> QED
        BY <3>1, <4>1, <4>2, <1>r, <1>t, BringKeeps, WifiAssumption
    <3> QED
      BY <2>2, <3>1, <1>s, <1>r DEF ActivateSaved
  <2>3. CASE AddAndActivate(c)
    <3>1. PICK p \in Profiles :
             /\ store[p] = "unused"
             /\ store' = [store EXCEPT ![p] = request[c].ssid]
             /\ Bring(Target(c), p, request[c].ssid, c)
      BY <2>3 DEF AddAndActivate
    <3>2. store'[p] = request[c].ssid /\ \A q \in Profiles \ {p} : store'[q] = store[q]
      BY <3>1 DEF Typed, TypeOK
    <3> QED
      BY <3>1, <3>2, <1>t, <1>r, BringKeeps, WifiAssumption
  <2>4. CASE DeleteProfile(c) \/ ForgetOne(c)
    <3>1. CASE UNCHANGED <<store, link>>
      BY <3>1, <1>s, <1>r
    <3>2. CASE \E p \in Profiles : Delete(p)
      BY <3>2, <1>r, DeleteKeeps
    <3>3. CASE DeleteProfile(c)
      BY <3>1, <3>2, <3>3 DEF DeleteProfile, CallInv, Typed, TypeOK
    <3>4. CASE ForgetOne(c)
      BY <3>1, <3>2, <3>4 DEF ForgetOne, TodoInv
    <3> QED
      BY <2>4, <3>3, <3>4
  <2> QED
    BY <1>1, <1>s, <1>r, <2>1, <2>2, <2>3, <2>4 DEF Step, Begin, Lock, Fail, Check,
    Lookup,
       CheckCurrent, Scan, DownWait, DownFails, SavedWait, FreshWait, Visit, Recheck,
       List, Abandon, clientVars
<1>2. ASSUME NEW r \in Radios, LinkUp(r) PROVE LinksInv'
  BY <1>2, TurnKeeps DEF LinkUp, Active
<1>3. ASSUME NEW r \in Radios, LinkDown(r) PROVE LinksInv'
  <2>1. \A q \in Radios : link'[q] = IF q = r THEN Down ELSE link[q]
    BY <1>3 DEF LinkDown, Typed, TypeOK
  <2>2. UNCHANGED <<store, request>>
    BY <1>3 DEF LinkDown
  <2> QED
    BY <2>1, <2>2, WifiAssumption DEF LinksInv, LinkInv, Active, Matching, Down,
    Target
<1>4. ASSUME NEW r \in Radios, NEW p \in Profiles, Autoconnect(r, p) PROVE LinksInv'
  BY <1>4, BringKeeps, WifiAssumption DEF Autoconnect, Saved
<1>5. ASSUME NEW p \in Profiles, DeleteSaved(p) PROVE LinksInv'
  BY <1>5, DeleteKeeps DEF DeleteSaved
<1>6. ASSUME NEW p \in Profiles, NEW s \in Ssids, AddConnection(p, s) PROVE LinksInv'
  <2>1. \A q \in Profiles : store[q] \in Ssids => store'[q] = store[q]
    BY <1>6, WifiAssumption DEF AddConnection, Typed, TypeOK
  <2>2. UNCHANGED <<link, request>>
    BY <1>6 DEF AddConnection
  <2> QED
    BY <2>1, <2>2 DEF LinksInv, LinkInv, Active, Matching, Target
<1> QED
  BY <1>s, <1>1, <1>2, <1>3, <1>4, <1>5, <1>6, NextIs DEF vars

-----------------------------------------------------------------------------
(* What the calls hear.                                                    *)

\* What a radio has served a call is forgotten by no step of another, and no
\* step of a call gives another news it waits for to come up.
LEMMA OthersNews ==
    ASSUME Typed, NEW c \in Clients, NEW d \in Clients \ {c},
           Begin(c) \/ Step(c) \/ Abandon(c)
    PROVE  served'[d] = served[d] /\ (d \in news' => d \in news)
<1> USE DEF Typed, TypeOK
<1>1. CASE Begin(c) \/ Lock(c) \/ Fail(c) \/ Check(c) \/ Abandon(c)
  BY <1>1 DEF Begin, Lock, Fail, Check, Abandon
<1>2. CASE Lookup(c) \/ CheckCurrent(c) \/ Scan(c) \/ Visit(c) \/ Recheck(c) \/
           List(c) \/ ForgetOne(c)
  BY <1>2 DEF Lookup, CheckCurrent, Scan, Visit, Recheck, List, ForgetOne
<1>3. CASE Disconnect(c) \/ DownWait(c) \/ DownFails(c) \/ DeactivateAll(c)
  BY <1>3 DEF Disconnect, DownWait, DownFails, DeactivateAll
<1>4. CASE ActivateSaved(c) \/ SavedWait(c) \/ AddAndActivate(c) \/ FreshWait(c) \/
           Deactivate(c) \/ DeleteProfile(c)
  BY <1>4 DEF ActivateSaved, SavedWait, AddAndActivate, FreshWait, Deactivate,
  DeleteProfile
<1> QED
  BY <1>1, <1>2, <1>3, <1>4 DEF Step

\* A step of a call keeps NewsInv of it: it ends well only on news of its own.
LEMMA OwnNews ==
    ASSUME Typed, NEW c \in Clients, CallInv(c), CallInv(c)', NewsInv(c),
           Begin(c) \/ Step(c) \/ Abandon(c)
    PROVE  NewsInv(c)'
<1> USE DEF Typed, TypeOK, CallInv, NewsInv, Connects, Target, Go, Return, Proceed,
            AfterDown, Connecting, Forgetting, clientVars
<1>1. CASE Begin(c) \/ Fail(c) \/ Check(c) \/ Abandon(c)
  BY <1>1 DEF Begin, Fail, Check, Abandon
<1>2. CASE Lock(c)
  BY <1>2 DEF Lock, First
<1>3. CASE Lookup(c)
  BY <1>3 DEF Lookup, UseSaved
<1>4. CASE CheckCurrent(c) \/ Scan(c)
  BY <1>4 DEF CheckCurrent, Scan
<1>5. CASE Disconnect(c) \/ DownWait(c) \/ DownFails(c)
  BY <1>5 DEF Disconnect, DownWait, DownFails, Proceed, AfterDown
<1>6. CASE DeactivateAll(c)
  BY <1>6 DEF DeactivateAll
<1>7. CASE ActivateSaved(c) \/ SavedWait(c)
  BY <1>7 DEF ActivateSaved, SavedWait, CanRebuild
<1>8. CASE AddAndActivate(c) \/ FreshWait(c)
  BY <1>8, WifiAssumption DEF AddAndActivate, FreshWait
<1>9. CASE Deactivate(c)
  BY <1>9 DEF Deactivate
<1>10. CASE DeleteProfile(c)
  BY <1>10 DEF DeleteProfile
<1>11. CASE Visit(c) \/ Recheck(c)
  BY <1>11 DEF Visit, Recheck
<1>12. CASE List(c)
  BY <1>12 DEF List
<1>13. CASE ForgetOne(c)
  BY <1>13 DEF ForgetOne
<1> QED
  BY <1>1, <1>2, <1>3, <1>4, <1>5, <1>6, <1>7, <1>8, <1>9, <1>10, <1>11, <1>12, <1>13
     DEF Step

\* News of an activation comes from the radio the call activated.
LEMMA NextNews ==
    ASSUME Typed, [Next]_vars, LinksInv,
           \A c \in Clients : CallInv(c) /\ CallInv(c)' /\ NewsInv(c)
    PROVE  \A c \in Clients : NewsInv(c)'
<1>r. request' = request
  BY Lasting
<1>1. ASSUME NEW c \in Clients, Begin(c) \/ Step(c) \/ Abandon(c)
      PROVE  \A d \in Clients : NewsInv(d)'
  <2>1. ASSUME NEW d \in Clients \ {c} PROVE NewsInv(d)'
    BY <1>1, <1>r, OthersSame, OthersNews DEF Same, NewsInv, Connects, Target
  <2> QED
    BY <1>1, <2>1, OwnNews
<1>2. ASSUME NEW r \in Radios, LinkUp(r), NEW c \in Clients PROVE NewsInv(c)'
  <2>1. pc' = pc /\ result' = result
    BY <1>2 DEF LinkUp
  <2>2. served[c] \subseteq served'[c]
    BY <1>2 DEF LinkUp
  <2>3. ASSUME pc[c] \in {"savedWait", "freshWait"}, c \in news', c \notin news
        PROVE  Target(c) \in served'[c]
    <3>1. link[r].owner = c
      BY <1>2, <2>3 DEF LinkUp
    <3>2. r = Target(c) /\ link[r].ssid = request[c].ssid
      BY <3>1 DEF LinksInv, LinkInv
    <3> QED
      BY <1>2, <2>3, <3>2 DEF LinkUp
  <2> QED
    BY <1>r, <2>1, <2>2, <2>3 DEF NewsInv, Connects, Target
<1>3. CASE \/ \E r \in Radios : LinkDown(r)
           \/ \E r \in Radios, p \in Profiles : Autoconnect(r, p)
           \/ \E p \in Profiles : DeleteSaved(p)
           \/ \E p \in Profiles, s \in Ssids : AddConnection(p, s)
           \/ UNCHANGED vars
  BY <1>3, <1>r DEF LinkDown, Autoconnect, DeleteSaved, AddConnection, vars, NewsInv, Connects,
  Target
<1> QED
  BY <1>1, <1>2, <1>3, NextIs

-----------------------------------------------------------------------------
(* What the guard keeps out.                                               *)

\* Only a call that activates starts an activation that is a call's.
LEMMA ComingMoves ==
    ASSUME Typed, [Next]_vars, NEW r \in Radios, link'[r].state = "coming",
           link'[r].owner \in Clients
    PROVE  \/ link'[r] = link[r]
           \/ \E c \in Clients : pc[c] \in {"activate", "add"} /\ link'[r].owner = c
<1> DEFINE Own == \E c \in Clients : pc[c] \in {"activate", "add"} /\ link'[r].owner = c
<1>0. link[r] \in Links
  BY DEF Typed, TypeOK
<1>1. ASSUME NEW S, NEW state \in {"going", "up"}, Turn(S, state) PROVE link'[r] = link[r]
  BY <1>0, <1>1 DEF Turn, Links
<1>2. ASSUME NEW q, NEW p, NEW s, NEW who, Bring(q, p, s, who)
      PROVE  link'[r] = link[r] \/ link'[r].owner = who
  BY <1>0, <1>2 DEF Bring, Links
<1>3. CASE link' = link
  BY <1>3
<1>4. ASSUME NEW c \in Clients, Begin(c) \/ Step(c) \/ Abandon(c)
      PROVE  link'[r] = link[r] \/ Own
  <2>1. CASE Disconnect(c) \/ Deactivate(c) \/ DeactivateAll(c) \/ DeleteProfile(c)
             \/ ForgetOne(c)
    BY <1>1, <1>3, <2>1
       DEF Disconnect, Deactivate, DeactivateAll, DeleteProfile, ForgetOne, Delete
  <2>2. CASE ActivateSaved(c)
    BY <1>2, <1>3, <2>2 DEF ActivateSaved
  <2>3. CASE AddAndActivate(c)
    BY <1>2, <2>3 DEF AddAndActivate
  <2> QED
    BY <1>3, <1>4, <2>1, <2>2, <2>3 DEF Step, Begin, Lock, Fail, Check, Lookup,
       CheckCurrent, Scan, DownWait, DownFails, SavedWait, FreshWait, Visit, Recheck,
       List, Abandon, clientVars
<1>5. ASSUME NEW q \in Radios, LinkUp(q) \/ LinkDown(q) PROVE link'[r] = link[r] \/ Own
  <2>1. CASE LinkUp(q)
    BY <1>1, <2>1 DEF LinkUp
  <2>2. CASE LinkDown(q)
    BY <1>0, <2>2 DEF LinkDown, Typed, TypeOK, Down
  <2> QED
    BY <1>5, <2>1, <2>2
<1>6. ASSUME NEW q \in Radios, NEW p \in Profiles, Autoconnect(q, p)
      PROVE  link'[r] = link[r] \/ Own
  BY <1>2, <1>6, WifiAssumption DEF Autoconnect
<1>7. ASSUME NEW p \in Profiles, DeleteSaved(p) PROVE link'[r] = link[r] \/ Own
  BY <1>1, <1>7 DEF DeleteSaved, Delete
<1>8. ASSUME NEW p \in Profiles, NEW s \in Ssids, AddConnection(p, s)
      PROVE  link'[r] = link[r] \/ Own
  BY <1>8 DEF AddConnection
<1> QED
  BY <1>3, <1>4, <1>5, <1>6, <1>7, <1>8, NextIs DEF vars

\* How a try_ variant gets past the guard and its check.
LEMMA PastCheck ==
    ASSUME Typed, NEW c \in Clients, CallInv(c), Begin(c) \/ Step(c) \/ Abandon(c),
           request[c].try # "no", pc[c] \in Idle \cup {"check"},
           pc'[c] \notin Idle \cup {"check"}
    PROVE  Check(c) /\ Go(c, "lookup")
<1>0. request[c].op \in {"connect", "bssid"}
  BY WifiAssumption DEF Typed, TypeOK
<1>1. CASE Begin(c) \/ Lock(c) \/ Abandon(c) \/ Fail(c) \/ Check(c)
  BY <1>0, <1>1 DEF Typed, TypeOK, Begin, Lock, Abandon, Fail, Check, Go, Return,
  First, Idle
<1> QED
  BY <1>1 DEF Idle, Step, Lookup, CheckCurrent, Scan, Disconnect, DownWait,
  DownFails,
     ActivateSaved, SavedWait, AddAndActivate, FreshWait, Deactivate, DeleteProfile,
     DeactivateAll, Visit, Recheck, List, ForgetOne

\* Past its check a try_ variant is alone with the activations it has seen.
LEMMA NextYield ==
    ASSUME Typed, GuardInv, [Next]_vars,
           \A c \in Clients : CallInv(c) /\ TodoInv(c) /\ YieldInv(c)
    PROVE  \A c \in Clients : YieldInv(c)'
<1> SUFFICES ASSUME NEW c \in Clients, NEW r \in Watched(c),
                    pc'[c] \notin Idle \cup {"check"}, link'[r].state = "coming",
                    link'[r].owner \in Clients \ {c}
             PROVE  FALSE
  BY Lasting DEF YieldInv, Watched, Target
<1>1. CASE pc[c] \notin Idle \cup {"check"}
  <2>1. link'[r] # link[r]
    BY <1>1 DEF YieldInv
  <2>2. PICK d \in Clients : pc[d] \in {"activate", "add"} /\ link'[r].owner = d
    BY <2>1, ComingMoves DEF Watched
  <2> QED
    BY <1>1, <2>2 DEF GuardInv, Idle
<1>2. CASE pc[c] \in Idle \cup {"check"}
  <2>1. \/ Begin(c) \/ Step(c) \/ Abandon(c)
    <3>1. pc'[c] # pc[c]
      BY <1>2
    <3> QED
      BY <3>1, OthersSame, NextIs DEF Same, LinkUp, LinkDown, Autoconnect,
      DeleteSaved, AddConnection, vars
  <2>2. request[c].try # "no"
    BY DEF Watched
  <2>3. Check(c) /\ Go(c, "lookup")
    BY <1>2, <2>1, <2>2, PastCheck
  <2>4. link' = link /\ pc[c] = "check" /\ ~Transitional(r)
    BY <2>3, <2>2, WifiAssumption DEF Check, Go, Return, Watched, Typed, TypeOK
  <2> QED
    BY <2>4 DEF Transitional
<1> QED
  BY <1>1, <1>2

\* Only add_connection adds a profile while a forget deletes: its list stays
\* complete but for what came so.
LEMMA NextForget ==
    ASSUME Typed, GuardInv, [Next]_vars,
           \A c \in Clients : CallInv(c) /\ TodoInv(c) /\ ForgetInv(c)
    PROVE  \A c \in Clients : ForgetInv(c)'
<1> SUFFICES ASSUME NEW c \in Clients, pc'[c] = "delete", c \notin failed',
                    NEW p \in Profiles, store'[p] = request[c].ssid
             PROVE  p \in todo'[c] \cup late'[c]
  BY Lasting DEF ForgetInv, Matching
<1>0. /\ request[c].ssid \in Ssids /\ c \notin failed
      /\ {"unused", "deleted", "none"} \cap Ssids = {}
  <2>1. c \notin failed
    BY Lasting
  <2> QED
    BY <2>1, WifiAssumption DEF Typed, TypeOK, Request
<1>1. CASE pc[c] = "delete"
  <2>1. store[p] = request[c].ssid \/ p \in late'[c]
    <3>1. ASSUME NEW d \in Clients, pc[d] = "add" PROVE FALSE
      BY <1>1, <3>1 DEF GuardInv, Idle
    <3> QED
      BY <1>0, <1>1, <3>1, StoreMoves DEF Moved
  <2>2. late[c] \subseteq late'[c]
    BY Lasting
  <2>3. CASE p \in late'[c]
    BY <2>3
  <2>4. CASE p \notin late'[c]
    <3>1. p \in todo[c] /\ store[p] = request[c].ssid
      BY <1>0, <1>1, <2>1, <2>2, <2>4 DEF ForgetInv, Matching
    <3>2. CASE todo'[c] = todo[c]
      BY <3>1, <3>2
    <3>3. CASE ForgetOne(c)
      BY <1>0, <1>1, <3>1, <3>3, ZenonT(60)
         DEF ForgetOne, Delete, Saved, Return, Typed, TypeOK
    <3>4. Begin(c) \/ Step(c) \/ Abandon(c) => ForgetOne(c)
      BY <1>1 DEF Step, Begin, Lock, Fail, Check, Lookup, CheckCurrent,
         Scan, Disconnect, DownWait, DownFails, ActivateSaved, SavedWait, FreshWait,
         AddAndActivate, DeleteProfile,
         Deactivate, DeactivateAll, Visit, Recheck, List, Abandon, Return, Typed, TypeOK
    <3> QED
      BY <3>2, <3>3, <3>4, OthersSame, NextIs
         DEF Same, LinkUp, LinkDown, Autoconnect, DeleteSaved, AddConnection, vars,
             clientVars
  <2> QED
    BY <2>3, <2>4
<1>2. CASE pc[c] # "delete"
  <2>1. Begin(c) \/ Step(c) \/ Abandon(c)
    BY <1>2, OthersSame, NextIs
       DEF Same, LinkUp, LinkDown, Autoconnect, DeleteSaved, AddConnection, vars
  <2>2. List(c)
    BY <1>2, <2>1 DEF Step, Begin, Lock, Fail, Check, Lookup, CheckCurrent,
         Scan, Disconnect, DownWait, DownFails, ActivateSaved, SavedWait, FreshWait,
         AddAndActivate, DeleteProfile, ForgetOne, Proceed, AfterDown, First,
         Deactivate, DeactivateAll, Visit, Recheck, List, Abandon, Return, Go, Typed, TypeOK
  <2> QED
    BY <2>2 DEF List, Matching, Typed, TypeOK
<1> QED
  BY <1>1, <1>2

-----------------------------------------------------------------------------
(* The properties.                                                         *)

\* The inductive invariant.
Inv ==
    /\ Typed
    /\ GuardInv
    /\ LinksInv
    /\ \A c \in Clients : /\ CallInv(c) /\ TodoInv(c) /\ StoreInv(c)
                          /\ NewsInv(c) /\ YieldInv(c) /\ ForgetInv(c)

\* The invariant holds at the start.
LEMMA InitInv == Init => Inv
<1> SUFFICES ASSUME Init PROVE Inv
  OBVIOUS
<1>1. Typed
  BY TargetIsRadio, WifiAssumption
     DEF Init, Typed, TypeOK, Phases, Idle, Links, Down, Target, Request, Radios
<1>2. GuardInv
  BY DEF Init, GuardInv, Phases, Idle
<1>3. LinksInv
  BY WifiAssumption DEF Init, LinksInv, LinkInv, Down, Active
<1>4. ASSUME NEW c \in Clients
      PROVE  /\ CallInv(c) /\ TodoInv(c) /\ StoreInv(c)
             /\ NewsInv(c) /\ YieldInv(c) /\ ForgetInv(c)
  BY <1>4 DEF Init, CallInv, TodoInv, StoreInv, NewsInv, YieldInv, ForgetInv, Idle,
              Connecting, Forgetting
<1> QED
  BY <1>1, <1>2, <1>3, <1>4 DEF Inv

\* Every step keeps the invariant.
LEMMA NextInv == Inv /\ [Next]_vars => Inv'
<1> SUFFICES ASSUME Inv, [Next]_vars PROVE Inv'
  OBVIOUS
<1>1. Typed' /\ GuardInv' /\ LinksInv'
  BY NextTyped, NextGuard, NextLink DEF Inv
<1>2. \A c \in Clients : CallInv(c)' /\ TodoInv(c)' /\ StoreInv(c)'
  BY NextCall, NextStore DEF Inv
<1>3. \A c \in Clients : NewsInv(c)' /\ YieldInv(c)' /\ ForgetInv(c)'
  BY <1>2, NextNews, NextYield, NextForget DEF Inv
<1> QED
  BY <1>1, <1>2, <1>3 DEF Inv

\* The invariant holds of every behaviour.
LEMMA Invariant == Spec => []Inv
BY InitInv, NextInv, PTL DEF Spec

\* At most one call on a NetworkManager and its scopes is past connect_guard,
\* for every number of tasks.
THEOREM CallsSerialised == Spec => []Serialised
<1>1. Init => GuardInv
  BY DEF Init, GuardInv, Phases, Idle
<1>2. GuardInv => Serialised
  BY DEF GuardInv, Serialised
<1> QED
  BY <1>1, <1>2, NextGuard, PTL DEF Spec

\* The variables keep their shape, for every number of tasks, radios, networks
\* and profiles: in particular a forget never takes a profile for a radio.
THEOREM TypesKept == Spec => []TypeOK
<1>1. Inv => TypeOK
  BY DEF Inv, Typed
<1> QED
  BY <1>1, Invariant, PTL

\* connect returns Ok after an activation only if its radio was up with the
\* network during the call, and fresh credentials went into a profile.
THEOREM OkIsConnected == Spec => []OkMeansConnected
<1>1. Inv => OkMeansConnected
  BY DEF Inv, CallInv, NewsInv, OkMeansConnected
<1> QED
  BY <1>1, Invariant, PTL

\* A connect that fails leaves neither the profile it made nor a connection
\* with it, unless a clean-up call failed, whatever the other calls and
\* NetworkManager do.
THEOREM FailedIsUndone == Spec => []FailedConnectUndone
<1>1. Inv => FailedConnectUndone
  <2> SUFFICES ASSUME Inv, NEW c \in Clients, result[c] = "error", made[c] # "none",
                      c \notin failed
               PROVE  /\ store[made[c]] = "deleted"
                      /\ \A r \in Radios : Active(r) => link[r].profile # made[c]
    BY DEF FailedConnectUndone
  <2>1. store[made[c]] = "deleted"
    BY DEF Inv, StoreInv
  <2> QED
    BY <2>1, WifiAssumption DEF Inv, LinksInv, LinkInv, Matching
<1> QED
  BY <1>1, Invariant, PTL

\* Which call does a step: the one whose place or list it changes.
LEMMA StepIsOwn ==
    ASSUME Typed, [Next]_vars, NEW c \in Clients, <<pc'[c], todo'[c]>> # <<pc[c], todo[c]>>
    PROVE  Begin(c) \/ Step(c) \/ Abandon(c)
BY OthersSame, NextIs DEF Same, LinkUp, LinkDown, Autoconnect, DeleteSaved,
   AddConnection, vars, clientVars

\* A saved profile is deleted by a call only to forget it, to take back its own,
\* or to replace it with open settings.
THEOREM ProfilesAreKept == Spec => ProfilesKept
<1> DEFINE Kept ==
      \A c \in Clients, p \in Profiles :
          Saved(p) /\ store'[p] = "deleted" /\ <<pc'[c], todo'[c]>> # <<pc[c], todo[c]>> =>
            \/ request[c].op = "forget" /\ store[p] = request[c].ssid
            \/ Connects(c) /\ p = made[c]
            \/ Connects(c) /\ p = saved[c] /\ request[c].creds = "open"
<1>1. Inv /\ [Next]_vars => [Kept]_vars
  <2> SUFFICES ASSUME Inv, [Next]_vars, NEW c \in Clients, NEW p \in Profiles,
                      Saved(p), store'[p] = "deleted",
                      <<pc'[c], todo'[c]>> # <<pc[c], todo[c]>>
               PROVE  \/ request[c].op = "forget" /\ store[p] = request[c].ssid
                      \/ Connects(c) /\ p = made[c]
                      \/ Connects(c) /\ p = saved[c] /\ request[c].creds = "open"
    OBVIOUS
  <2>1. Begin(c) \/ Step(c) \/ Abandon(c)
    BY StepIsOwn DEF Inv
  <2>2. "deleted" \notin Ssids
    BY WifiAssumption
  <2>3. CallInv(c) /\ TodoInv(c) /\ StoreInv(c) /\ Typed
    BY DEF Inv
  <2>4. CASE AddAndActivate(c)
    BY <2>2, <2>3, <2>4, WifiAssumption
       DEF AddAndActivate, Typed, TypeOK, Saved, Request
  <2>5. CASE DeleteProfile(c)
    BY <2>2, <2>3, <2>5
       DEF DeleteProfile, Delete, Typed, TypeOK, Saved, CallInv, Connecting
  <2>6. CASE ForgetOne(c)
    BY <2>2, <2>3, <2>6
       DEF ForgetOne, Delete, Typed, TypeOK, Saved, CallInv, StoreInv, Forgetting
  <2> QED
    BY <2>1, <2>2, <2>4, <2>5, <2>6 DEF Saved, Step, Begin, Lock, Fail, Check, Lookup,
       CheckCurrent, Scan, Disconnect, DownWait, DownFails, ActivateSaved, SavedWait,
       FreshWait, Deactivate, DeactivateAll, Visit, Recheck, List, Abandon
<1> QED
  BY <1>1, Invariant, PTL DEF Spec, ProfilesKept

\* A try_ variant never breaks into an activation another call has left running
\* on a radio it looks at.
THEOREM TryYields == Spec => TryConnectYields
<1> DEFINE Yields ==
      \A c \in Clients, r \in Radios :
          /\ pc'[c] # pc[c]
          /\ request[c].try = "every" \/ (request[c].try = "own" /\ r = Target(c))
          /\ link[r].state = "coming" /\ link[r].owner \in Clients \ {c}
          => link'[r] = link[r]
<1>1. Inv /\ [Next]_vars => [Yields]_vars
  <2> SUFFICES ASSUME Inv, [Next]_vars, NEW c \in Clients, NEW r \in Watched(c),
                      pc'[c] # pc[c], link[r].state = "coming",
                      link[r].owner \in Clients \ {c}
               PROVE  link'[r] = link[r]
    BY DEF Watched
  <2>1. Begin(c) \/ Step(c) \/ Abandon(c)
    BY StepIsOwn DEF Inv
  <2>2. pc[c] \in Idle \cup {"check"}
    BY DEF Inv, YieldInv
  <2> QED
    BY <2>1, <2>2 DEF Idle, Begin, Step, Lock, Fail, Check, Abandon, Lookup,
       CheckCurrent, Scan, Disconnect, DownWait, DownFails, ActivateSaved, SavedWait,
       FreshWait, AddAndActivate, Deactivate, DeleteProfile, DeactivateAll, Visit,
       Recheck, List, ForgetOne
<1> QED
  BY <1>1, Invariant, PTL DEF Spec, TryConnectYields

\* When a forget whose GetSettings and Delete calls succeeded returns, the only
\* profiles left of the network are those add_connection, which takes no guard,
\* saved after the listing, and a radio on the network runs one of them.
THEOREM ForgetIsComplete == Spec => ForgetComplete
<1> DEFINE Complete ==
      \A c \in Clients :
          request[c].op = "forget" /\ result[c] = "none" /\ result'[c] = "ok"
          /\ c \notin failed =>
            /\ Matching(request[c].ssid)' \subseteq late[c]
            /\ \A r \in Radios : Active(r)' /\ link'[r].ssid = request[c].ssid =>
                  link'[r].profile \in late[c]
<1>1. Inv /\ [Next]_vars => [Complete]_vars
  <2> SUFFICES ASSUME Inv, Inv', [Next]_vars, NEW c \in Clients,
                      request[c].op = "forget", result[c] = "none", result'[c] = "ok",
                      c \notin failed
               PROVE  /\ Matching(request[c].ssid)' \subseteq late[c]
                      /\ \A r \in Radios : Active(r)' /\ link'[r].ssid = request[c].ssid =>
                            link'[r].profile \in late[c]
    BY NextInv
  <2>1. Begin(c) \/ Step(c) \/ Abandon(c)
    BY OthersSame, NextIs DEF Inv, Same, LinkUp, LinkDown, Autoconnect, DeleteSaved,
       AddConnection, vars
  <2>2. ForgetOne(c) /\ todo[c] = {} /\ store' = store
    <3> USE DEF Go, Return
    <3>1. CallInv(c)
      BY DEF Inv
    <3> QED
      BY <2>1, <3>1 DEF Inv, Typed, TypeOK, Step, Begin, Lock, Fail, Check, Lookup,
         CheckCurrent, Scan, Disconnect, DownWait, DownFails, ActivateSaved, SavedWait,
         FreshWait, AddAndActivate, Deactivate, DeleteProfile, DeactivateAll, Visit,
         Recheck, List, ForgetOne, Abandon, Proceed, AfterDown, CallInv, Connecting,
         Connects, clientVars
  <2>3. Matching(request[c].ssid) \subseteq late[c]
    BY <2>2 DEF Inv, ForgetInv, ForgetOne
  <2>4. Matching(request[c].ssid)' \subseteq late[c]
    BY <2>2, <2>3, Lasting DEF Matching, Inv
  <2> QED
    BY <2>4, Lasting DEF Inv, LinksInv, LinkInv, Matching
<1> QED
  BY <1>1, Invariant, PTL DEF Spec, ForgetComplete

=============================================================================
