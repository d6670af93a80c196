---------------------------- MODULE WifiConnect ----------------------------
(***************************************************************************)
(* The operations that change which Wi-Fi network a radio is on: connect,  *)
(* connect_to_bssid, their try_ variants, disconnect and forget            *)
(* (core/connection.rs), called by tasks that share one NetworkManager and *)
(* its connect_guard (api/network_manager.rs, api/wifi_scope.rs).          *)
(*                                                                         *)
(* NetworkManager keeps the saved profiles and the radios, runs the        *)
(* activations, reconnects radios by itself, and may fail any D-Bus call.  *)
(* A wait for a state change is the module StateWait; here it ends well    *)
(* only if the change came, and fails at any moment.  A profile's name is  *)
(* the SSID it is for.                                                     *)
(***************************************************************************)
EXTENDS Integers, Sequences, FiniteSets

CONSTANTS Clients,    \* tasks, each making one call
          Profiles,   \* paths NetworkManager can give to profiles
          Ssids,
          RadioOrder, \* the Wi-Fi devices in the order NetworkManager lists them
          Requests,   \* calls a task may make, see Request
          Stores,     \* saved profiles there may be at the start, see store
          Additions   \* <<path, SSID>> that add_connection may be asked for

Radios == {RadioOrder[i] : i \in DOMAIN RadioOrder}

\* creds is "stored" for an empty PSK, "open", or "psk" for any that carries
\* its own secret; radio is "any" when no interface is named; try is the check
\* of a try_ variant: every radio (NetworkManager) or its own (WifiScope).
Request == [op : {"connect", "bssid", "disconnect", "forget"},
            ssid : Ssids,
            creds : {"stored", "open", "psk"},
            radio : Radios \cup {"any"},
            try : {"no", "every", "own"}]

\* Only connect and connect_to_bssid have try_ variants; the other names are
\* this model's markers, which are no task, path or SSID.
ASSUME WifiAssumption ==
    /\ Requests \subseteq Request
    /\ \A q \in Requests : q.try # "no" => q.op \in {"connect", "bssid"}
    /\ Stores \subseteq [Profiles -> Ssids \cup {"unused"}]
    /\ Additions \subseteq Profiles \X Ssids
    /\ RadioOrder \in Seq(Radios) \ {<< >>}
    /\ {"free", "nm"} \cap Clients = {}
    /\ "none" \notin Profiles
    /\ {"unused", "deleted", "none"} \cap Ssids = {}

VARIABLES
    request,  \* the call each client makes
    pc,       \* where it is
    result,   \* what it returned
    guard,    \* who holds connect_guard, or "free"
    store,    \* profile path -> SSID, "unused" before and "deleted" after
    link,     \* what each radio is doing
    saved,    \* the saved profile a connect found and decided to use, or "none"
    made,     \* the profile a connect created, or "none"
    at,       \* the radio being disconnected
    news,     \* clients whose stream has seen the change they wait for
    todo,     \* radios, then profiles, a forget has left
    failed,   \* clients one of whose clean-up calls or deletions failed
    served,   \* radios that were up with its SSID since a call began (history)
    late      \* profiles add_connection saved after a forget listed them (history)

clientVars == <<saved, made, at, todo>>
vars == <<request, pc, result, guard, store, link, saved, made, at, news, todo,
          failed, served, late>>

Down == [state |-> "down", ssid |-> "none", profile |-> "none", owner |-> "nm"]
Links == [state : {"down", "coming", "up", "going"}, ssid : Ssids \cup {"none"},
          profile : Profiles \cup {"none"}, owner : Clients \cup {"nm"}]

Idle == {"idle", "wants", "done"}
Waits == {"downWait", "savedWait", "freshWait"}
Steps == {"check", "lookup", "current", "scan", "down", "recheck", "deactivate",
          "activate", "dropLink", "dropProfile", "add", "undoLink", "undoProfile",
          "visit", "list", "delete"}
Phases == Idle \cup Waits \cup Steps

\* The shape of the variables.
TypeOK ==
    /\ request \in [Clients -> Requests]
    /\ pc \in [Clients -> Phases]
    /\ result \in [Clients -> {"none", "ok", "already", "error", "inProgress",
                               "missingPassword", "stuck", "abandoned"}]
    /\ guard \in Clients \cup {"free"}
    /\ store \in [Profiles -> Ssids \cup {"unused", "deleted"}]
    /\ link \in [Radios -> Links]
    /\ saved \in [Clients -> Profiles \cup {"none"}]
    /\ made \in [Clients -> Profiles \cup {"none"}]
    /\ at \in [Clients -> Radios]
    /\ news \subseteq Clients
    /\ \A c \in Clients : todo[c] \subseteq Radios \/ todo[c] \subseteq Profiles
    /\ failed \subseteq Clients
    /\ served \in [Clients -> SUBSET Radios]
    /\ late \in [Clients -> SUBSET Profiles]

\* The radio the call is for: find_wifi_device takes the first.
Target(c) == IF request[c].radio = "any" THEN RadioOrder[1] ELSE request[c].radio

Init ==
    /\ request \in [Clients -> Requests]
    /\ pc = [c \in Clients |-> "idle"]
    /\ result = [c \in Clients |-> "none"]
    /\ guard = "free"
    /\ store \in Stores
    /\ link = [r \in Radios |-> Down]
    /\ saved = [c \in Clients |-> "none"]
    /\ made = [c \in Clients |-> "none"]
    /\ at = [c \in Clients |-> Target(c)]
    /\ news = {}
    /\ todo = [c \in Clients |-> {}]
    /\ failed = {}
    /\ served = [c \in Clients |-> {}]
    /\ late = [c \in Clients |-> {}]

-----------------------------------------------------------------------------
(* NetworkManager.                                                         *)

Active(r) == link[r].state \in {"coming", "up"}
Saved(p) == store[p] \in Ssids
Matching(s) == {p \in Profiles : store[p] = s}

Turn(S, state) ==
    link' = [r \in Radios |-> IF r \in S THEN [link[r] EXCEPT !.state = state] ELSE link[r]]

\* An activation of profile p: a profile is active on one device at a time.
Bring(r, p, s, who) ==
    link' = [q \in Radios |->
        CASE q = r -> [state |-> "coming", ssid |-> s, profile |-> p, owner |-> who]
          [] q # r /\ Active(q) /\ link[q].profile = p -> [link[q] EXCEPT !.state = "going"]
          [] OTHER -> link[q]]

\* A profile that is deleted takes its connections down with it.
Delete(p) ==
    /\ store' = [store EXCEPT ![p] = "deleted"]
    /\ Turn({r \in Radios : Active(r) /\ link[r].profile = p}, "going")

LinkUp(r) ==
    /\ link[r].state = "coming"
    /\ Turn({r}, "up")
    /\ news' = news \cup {c \in Clients : link[r].owner = c
                                          /\ pc[c] \in {"savedWait", "freshWait"}}
    /\ served' = [c \in Clients |->
          IF pc[c] \notin {"idle", "done"} /\ request[c].ssid = link[r].ssid
          THEN served[c] \cup {r} ELSE served[c]]
    /\ UNCHANGED <<request, pc, result, guard, store, clientVars, failed, late>>

\* A disconnection is over, an activation fails or a connection is lost.
LinkDown(r) ==
    /\ link[r].state # "down"
    /\ link' = [link EXCEPT ![r] = Down]
    /\ news' = news \cup {c \in Clients : pc[c] \in {"downWait", "recheck"} /\ at[c] = r}
    /\ UNCHANGED <<request, pc, result, guard, store, clientVars, failed, served, late>>

Autoconnect(r, p) ==
    /\ link[r].state = "down"
    /\ Saved(p)
    /\ Bring(r, p, store[p], "nm")
    /\ UNCHANGED <<request, pc, result, guard, store, clientVars, news, failed, served,
                   late>>

\* delete_saved_connection, which does not take the guard.
DeleteSaved(p) ==
    /\ Saved(p)
    /\ Delete(p)
    /\ UNCHANGED <<request, pc, result, guard, clientVars, news, failed, served, late>>

\* add_connection, which does not take the guard either.
AddConnection(p, s) ==
    /\ store[p] = "unused"
    /\ store' = [store EXCEPT ![p] = s]
    /\ late' = [c \in Clients |-> IF pc[c] = "delete" THEN late[c] \cup {p} ELSE late[c]]
    /\ UNCHANGED <<request, pc, result, guard, link, clientVars, news, failed, served>>

-----------------------------------------------------------------------------
(* Control flow of a call.                                                 *)

Go(c, next) ==
    /\ pc' = [pc EXCEPT ![c] = next]
    /\ UNCHANGED <<request, result, guard>>

\* Returning drops the guard.
Return(c, o) ==
    /\ pc' = [pc EXCEPT ![c] = "done"]
    /\ result' = [result EXCEPT ![c] = o]
    /\ guard' = IF guard = c THEN "free" ELSE guard
    /\ UNCHANGED request

Begin(c) ==
    /\ pc[c] = "idle"
    /\ Go(c, "wants")
    /\ served' = [served EXCEPT ![c] =
          {r \in Radios : link[r].state = "up" /\ link[r].ssid = request[c].ssid}]
    /\ UNCHANGED <<store, link, clientVars, news, failed, late>>

First(c) ==
    CASE request[c].op = "disconnect" -> "deactivate"
      [] request[c].op = "forget" -> "visit"
      [] request[c].try # "no" -> "check"
      [] OTHER -> "lookup"

\* Fault: `let _ = guard.lock().await`, which drops the guard at once.
LockUnheld(c) ==
    /\ pc[c] = "wants"
    /\ guard = "free"
    /\ pc' = [pc EXCEPT ![c] = First(c)]
    /\ todo' = [todo EXCEPT ![c] = Radios]
    /\ UNCHANGED <<request, result, guard, store, link, saved, made, at, news, failed,
                   served, late>>

\* lock().await, or try_lock, which gives up when the guard is taken.
Lock(c) ==
    /\ pc[c] = "wants"
    /\ \/ /\ guard = "free"
          /\ guard' = c
          /\ pc' = [pc EXCEPT ![c] = First(c)]
          /\ UNCHANGED <<request, result>>
       \/ /\ guard # "free"
          /\ request[c].try # "no"
          /\ Return(c, "inProgress")
    /\ todo' = [todo EXCEPT ![c] = IF request[c].op = "forget" THEN Radios ELSE {}]
    /\ UNCHANGED <<store, link, saved, made, at, news, failed, served, late>>

\* The caller drops the future of the call where it stands, as a timeout of its
\* own does: the guard is released and nothing is cleaned up.
Abandon(c) ==
    /\ pc[c] \notin {"idle", "done"}
    /\ Return(c, "abandoned")
    /\ UNCHANGED <<store, link, clientVars, news, failed, served, late>>

\* These steps may instead end the call because a D-Bus call failed.
Fail(c) ==
    /\ pc[c] \in {"check", "lookup", "current", "scan", "deactivate", "add", "recheck",
                  "visit", "list", "delete"}
    /\ Return(c, "error")
    /\ UNCHANGED <<store, link, clientVars, news, failed, served, late>>

-----------------------------------------------------------------------------
(* connect and connect_to_bssid.                                           *)

Transitional(r) == link[r].state \in {"coming", "going"}

\* Fault: try_connect relies on the guard alone.
CheckNothing(c) ==
    /\ pc[c] = "check"
    /\ Go(c, "lookup")
    /\ UNCHANGED <<store, link, clientVars, news, failed, served, late>>

\* is_connecting, is_connecting_on_interface
Check(c) ==
    /\ pc[c] = "check"
    /\ IF \E r \in Radios : Transitional(r) /\ (request[c].try = "every" \/ r = Target(c))
       THEN Return(c, "inProgress")
       ELSE Go(c, "lookup")
    /\ UNCHANGED <<store, link, clientVars, news, failed, served, late>>

\* Fault: fresh credentials do not keep connect from using the saved profile.
UseSavedAlways(c) == TRUE

\* decide_saved_connection: credentials that carry a secret are not ignored.
UseSaved(c) == request[c].creds \in {"stored", "open"}

\* The first profile listed with the name of the network is taken.
Lookup(c) ==
    /\ pc[c] = "lookup"
    /\ LET found == Matching(request[c].ssid)
           next == IF request[c].op = "bssid" THEN "scan" ELSE "current"
       IN  \/ /\ found # {}
              /\ UseSaved(c)
              /\ \E p \in found : saved' = [saved EXCEPT ![c] = p]
              /\ Go(c, next)
           \/ /\ found # {} => ~UseSaved(c)
              /\ request[c].creds # "stored"
              /\ Go(c, next)
              /\ UNCHANGED saved
           \/ /\ found = {}
              /\ request[c].creds = "stored"
              /\ Return(c, "missingPassword")
              /\ UNCHANGED saved
    /\ UNCHANGED <<store, link, made, at, news, todo, failed, served, late>>

\* current_ssid: the SSID of the first radio with an access point, which a
\* radio has while it is up and during part of its activation.
Current(s) ==
    \E i \in DOMAIN RadioOrder :
        /\ Active(RadioOrder[i])
        /\ link[RadioOrder[i]].ssid = s
        /\ \A j \in 1 .. i - 1 : link[RadioOrder[j]].state # "up"

\* A failing look at the radios counts as not connected.
CheckCurrent(c) ==
    /\ pc[c] = "current"
    /\ \/ Current(request[c].ssid) /\ Return(c, "already")
       \/ Go(c, "scan")
    /\ UNCHANGED <<store, link, clientVars, news, failed, served, late>>

\* The access point is found; that it is not is one of the failures.
Scan(c) ==
    /\ pc[c] = "scan"
    /\ Go(c, "down")
    /\ UNCHANGED <<store, link, clientVars, news, failed, served, late>>

\* What follows the disconnection of a radio.
AfterDown(c) ==
    CASE request[c].op = "forget" -> "visit"
      [] request[c].op = "disconnect" -> "return"
      [] saved[c] # "none" -> "activate"
      [] OTHER -> "add"

Proceed(c) == IF AfterDown(c) = "return" THEN Return(c, "ok") ELSE Go(c, AfterDown(c))

\* disconnect_wifi_and_wait: nothing to do, or Disconnect.
Disconnect(c) ==
    /\ pc[c] = "down"
    /\ IF link[at[c]].state = "down"
       THEN Proceed(c) /\ UNCHANGED link
       ELSE Go(c, "downWait") /\ Turn({at[c]}, "going")
    /\ news' = news \ {c}
    /\ UNCHANGED <<store, clientVars, failed, served, late>>

DownWait(c) ==
    /\ pc[c] = "downWait"
    /\ c \in news
    /\ Proceed(c)
    /\ UNCHANGED <<store, link, clientVars, news, failed, served, late>>

\* Fault: the wait for the disconnection has no timeout.
DownFailsUntimed(c) ==
    /\ pc[c] = "down"
    /\ Return(c, "error")
    /\ UNCHANGED <<store, link, clientVars, news, failed, served, late>>

\* Disconnect fails or its wait runs out: a forget looks at the device again.
DownFails(c) ==
    /\ pc[c] \in {"down", "downWait"}
    /\ IF request[c].op = "forget" THEN Go(c, "recheck") ELSE Return(c, "error")
    /\ UNCHANGED <<store, link, clientVars, news, failed, served, late>>

\* connect_via_saved: the call may fail, also because the profile is gone.
ActivateSaved(c) ==
    /\ pc[c] = "activate"
    /\ \/ /\ Saved(saved[c])
          /\ Go(c, "savedWait")
          /\ Bring(Target(c), saved[c], store[saved[c]], c)
       \/ /\ IF request[c].creds = "stored" THEN Return(c, "error") ELSE Go(c, "dropProfile")
          /\ UNCHANGED link
    /\ news' = news \ {c}
    /\ UNCHANGED <<store, clientVars, failed, served, late>>

\* Fault: a saved profile that fails is always replaced.
CanRebuildAlways(c) == TRUE

\* can_rebuild_after_saved_failure
CanRebuild(c) == request[c].creds # "stored"

SavedWait(c) ==
    /\ pc[c] = "savedWait"
    /\ \/ c \in news /\ Return(c, "ok")
       \/ IF CanRebuild(c) THEN Go(c, "dropLink") ELSE Return(c, "error")
    /\ UNCHANGED <<store, link, clientVars, news, failed, served, late>>

\* add_and_activate_connection, with a profile path not used before.
AddAndActivate(c) ==
    /\ pc[c] = "add"
    /\ \E p \in Profiles :
          /\ store[p] = "unused"
          /\ store' = [store EXCEPT ![p] = request[c].ssid]
          /\ made' = [made EXCEPT ![c] = p]
          /\ Bring(Target(c), p, request[c].ssid, c)
    /\ news' = news \ {c}
    /\ Go(c, "freshWait")
    /\ UNCHANGED <<saved, at, todo, failed, served, late>>

\* Fault: a fresh profile that fails is left where it is.
FreshWaitNoUndo(c) ==
    /\ pc[c] = "freshWait"
    /\ IF c \in news THEN Return(c, "ok") ELSE Return(c, "error")
    /\ UNCHANGED <<store, link, clientVars, news, failed, served, late>>

\* wait_for_fresh_activation
FreshWait(c) ==
    /\ pc[c] = "freshWait"
    /\ \/ c \in news /\ Return(c, "ok")
       \/ Go(c, "undoLink")
    /\ UNCHANGED <<store, link, clientVars, news, failed, served, late>>

\* The clean-up calls of connect_via_saved and wait_for_fresh_activation: a
\* failure is logged and the call goes on.
Deactivate(c) ==
    /\ pc[c] \in {"dropLink", "undoLink"}
    /\ Go(c, IF pc[c] = "dropLink" THEN "dropProfile" ELSE "undoProfile")
    /\ \/ /\ Turn({r \in Radios : Active(r) /\ link[r].owner = c}, "going")
          /\ UNCHANGED failed
       \/ failed' = failed \cup {c} /\ UNCHANGED link
    /\ UNCHANGED <<store, clientVars, news, served, late>>

DeleteProfile(c) ==
    /\ pc[c] \in {"dropProfile", "undoProfile"}
    /\ IF pc[c] = "dropProfile" THEN Go(c, "add") ELSE Return(c, "error")
    /\ LET p == IF pc[c] = "dropProfile" THEN saved[c] ELSE made[c]
       IN  \/ Saved(p) /\ Delete(p) /\ UNCHANGED failed
           \/ failed' = failed \cup {c} /\ UNCHANGED <<store, link>>
    /\ UNCHANGED <<clientVars, news, served, late>>

-----------------------------------------------------------------------------
(* disconnect.                                                             *)

\* Nothing to do, or the connections of the device are deactivated first.
DeactivateAll(c) ==
    /\ pc[c] = "deactivate"
    /\ IF link[at[c]].state = "down"
       THEN Return(c, "ok") /\ UNCHANGED link
       ELSE /\ Go(c, "down")
            /\ Turn({at[c]}, "going") \/ UNCHANGED link
    /\ UNCHANGED <<store, clientVars, news, failed, served, late>>

-----------------------------------------------------------------------------
(* forget_by_name_and_type, for Wi-Fi.                                     *)

\* A radio whose access point or its SSID cannot be read is passed over.
Visit(c) ==
    /\ pc[c] = "visit"
    /\ \/ /\ todo[c] = {}
          /\ Go(c, "list")
          /\ UNCHANGED <<at, todo>>
       \/ \E r \in todo[c] :
             /\ todo' = [todo EXCEPT ![c] = @ \ {r}]
             /\ at' = [at EXCEPT ![c] = r]
             /\ \/ Active(r) /\ link[r].ssid = request[c].ssid /\ Go(c, "down")
                \/ Go(c, "visit")
    /\ UNCHANGED <<store, link, saved, made, news, failed, served, late>>

\* The device's cached state: it shows the disconnection or is still older.
Recheck(c) ==
    /\ pc[c] = "recheck"
    /\ \/ /\ c \in news \/ link[at[c]].state = "down"
          /\ Go(c, "visit")
       \/ Return(c, "stuck")
    /\ UNCHANGED <<store, link, clientVars, news, failed, served, late>>

List(c) ==
    /\ pc[c] = "list"
    /\ Go(c, "delete")
    /\ todo' = [todo EXCEPT ![c] = Matching(request[c].ssid)]
    /\ UNCHANGED <<store, link, saved, made, at, news, failed, served, late>>

\* Fault: the first profile that matches is the only one deleted.
ForgetOneFirst(c) ==
    /\ pc[c] = "delete"
    /\ \/ todo[c] = {} /\ UNCHANGED <<store, link>>
       \/ \E p \in todo[c] : Delete(p)
    /\ Return(c, "ok")
    /\ UNCHANGED <<clientVars, news, failed, served, late>>

\* A profile that is gone by now is passed over; one whose GetSettings or Delete
\* fails stays, and the call goes on.
ForgetOne(c) ==
    /\ pc[c] = "delete"
    /\ \/ /\ todo[c] = {}
          /\ Return(c, "ok")
          /\ UNCHANGED <<store, link, todo, failed>>
       \/ \E p \in todo[c] :
             /\ todo' = [todo EXCEPT ![c] = @ \ {p}]
             /\ Go(c, "delete")
             /\ \/ Saved(p) /\ Delete(p) /\ UNCHANGED failed
                \/ ~Saved(p) /\ UNCHANGED <<store, link, failed>>
                \/ Saved(p) /\ failed' = failed \cup {c} /\ UNCHANGED <<store, link>>
    /\ UNCHANGED <<saved, made, at, news, served, late>>

-----------------------------------------------------------------------------

Step(c) ==
    \/ Lock(c) \/ Fail(c) \/ Check(c) \/ Lookup(c) \/ CheckCurrent(c) \/ Scan(c)
    \/ Disconnect(c) \/ DownWait(c) \/ DownFails(c) \/ ActivateSaved(c) \/ SavedWait(c)
    \/ AddAndActivate(c) \/ FreshWait(c) \/ Deactivate(c) \/ DeleteProfile(c)
    \/ DeactivateAll(c) \/ Visit(c) \/ Recheck(c) \/ List(c) \/ ForgetOne(c)

Next ==
    \/ \E c \in Clients : Begin(c) \/ Step(c) \/ Abandon(c)
    \/ \E r \in Radios : LinkUp(r) \/ LinkDown(r)
    \/ \E r \in Radios, p \in Profiles : Autoconnect(r, p)
    \/ \E p \in Profiles : DeleteSaved(p)
    \/ \E x \in Additions : AddConnection(x[1], x[2])

Spec == Init /\ [][Next]_vars

\* Every call that can go on is polled: waits end by their timeouts and D-Bus
\* calls are answered or fail.  Nothing is assumed of the radios.
FairSpec == Spec /\ \A c \in Clients : WF_vars(Step(c))

-----------------------------------------------------------------------------
(* Properties.                                                             *)

Connects(c) == request[c].op \in {"connect", "bssid"}

\* "All connection-mutating operations are serialized by an internal mutex":
\* no two calls are past the guard at once.
Serialised ==
    \A c, d \in Clients : pc[c] \notin Idle /\ pc[d] \notin Idle => c = d

\* connect returns Ok after an activation only if the radio it is for was up
\* with the network during the call, and fresh credentials went into a profile.
OkMeansConnected ==
    \A c \in Clients :
      Connects(c) /\ result[c] = "ok" =>
        /\ Target(c) \in served[c]
        /\ request[c].creds = "psk" => made[c] # "none"

\* A connect that fails leaves nothing of its own behind, neither profile nor
\* connection, unless a clean-up call failed.
FailedConnectUndone ==
    \A c \in Clients :
      result[c] = "error" /\ made[c] # "none" /\ c \notin failed =>
        /\ store[made[c]] = "deleted"
        /\ \A r \in Radios : Active(r) => link[r].profile # made[c]

\* A call deletes a saved profile only to forget it, to take back its own, or
\* to replace the one it tried with settings that can stand alone: a request
\* for the stored secret never costs the profile.
ProfilesKept ==
    [][\A c \in Clients, p \in Profiles :
          Saved(p) /\ store'[p] = "deleted" /\ <<pc'[c], todo'[c]>> # <<pc[c], todo[c]>> =>
            \/ request[c].op = "forget" /\ store[p] = request[c].ssid
            \/ Connects(c) /\ p = made[c]
            \/ Connects(c) /\ p = saved[c] /\ request[c].creds = "open"]_vars

\* try_connect never breaks into an activation another call has left running
\* (one that timed out or was abandoned), on the radios it looks at.
TryConnectYields ==
    [][\A c \in Clients, r \in Radios :
          /\ pc'[c] # pc[c]
          /\ request[c].try = "every" \/ (request[c].try = "own" /\ r = Target(c))
          /\ link[r].state = "coming" /\ link[r].owner \in Clients \ {c}
          => link'[r] = link[r]]_vars

\* When a forget whose GetSettings and Delete calls succeeded returns, the only
\* profiles left of the network are those the unguarded add_connection saved
\* after the forget had listed them, and a radio on the network runs one of
\* these: whatever the other calls do, and also where a radio was passed over.
ForgetComplete ==
    [][\A c \in Clients :
          request[c].op = "forget" /\ result[c] = "none" /\ result'[c] = "ok"
          /\ c \notin failed =>
            /\ Matching(request[c].ssid)' \subseteq late[c]
            /\ \A r \in Radios : Active(r)' /\ link'[r].ssid = request[c].ssid =>
                  link'[r].profile \in late[c]]_vars

\* Every call returns, whatever the radios and the other callers do.
CallReturns == \A c \in Clients : pc[c] = "wants" ~> pc[c] = "done"

=============================================================================
