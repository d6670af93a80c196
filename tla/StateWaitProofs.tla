--------------------------- MODULE StateWaitProofs ---------------------------
(***************************************************************************)
(* What a wait's answer is worth, for every graph of states, every set of  *)
(* reasons and however signals, cache and timer race: it succeeds only     *)
(* after the object was in a state waited for, and fails only for a reason *)
(* that NetworkManager gave.                                               *)
(*                                                                         *)
(* The inductive invariant says that all the waiter can learn, from its    *)
(* signals, the cache or the changes on their way to it, did happen since  *)
(* the wait was called (Learnt), and that a deactivation that was heard of *)
(* with a reason has that cause (Explained): a connection that is down     *)
(* stays so, and neither cause nor device change any more.                 *)
(***************************************************************************)
EXTENDS StateWait, TLAPS

\* What a signal tells the waiter.
Announcement == [state : States \cup {"malformed"}, reason : Reasons \cup {DeviceDisconnected}]

\* The shape of the variables.
Typed ==
    /\ wait \in Waits
    /\ state \in States
    /\ cause \in Reasons \cup {DeviceDisconnected}
    /\ device \in DeviceReasons \cup {NoReason}
    /\ signals \in Seq(Announcement)
    /\ props \in Seq(States)
    /\ cache \in States \cup {"unread"}
    /\ reached \subseteq States
    /\ timer \in {"off", "armed", "fired"}
    /\ pc \in {"called", "subscribed", "loop", "select", "refine", "done"}
    /\ pc \in {"called", "subscribed"} => timer = "off"

\* All there is to learn about the object happened since the wait was called.
Learnt ==
    /\ state \in reached
    /\ cache \in reached \cup {"unread"}
    /\ \A i \in DOMAIN props : props[i] \in reached
    /\ \A i \in DOMAIN signals : signals[i].state \in reached \cup {"malformed"}

\* An active connection that was once deactivated still is, for the reason that
\* its signal gave.
Explained ==
    wait.kind = "activation" =>
        /\ "deactivated" \in reached => state = "deactivated"
        /\ \A i \in DOMAIN signals :
              signals[i].state = "deactivated" => signals[i].reason = cause

\* A wait that asks the device for a reason, or has ended, has seen it come to that.
Answered ==
    /\ pc = "refine" => wait.kind = "activation" /\ "deactivated" \in reached
    /\ outcome # "none" => pc = "done"
    /\ outcome \in Failures \/ (outcome = "timeout" /\ timer # "fired")
          => wait.kind = "activation" /\ "deactivated" \in reached

Inv == Typed /\ Learnt /\ Explained /\ Answered /\ OkWasReached /\ FailureIsReal

-----------------------------------------------------------------------------
\* The variables that an object, and what it announces, is made of.
world == <<wait, state, cause, device, reached>>

\* What follows from a decision on a state that was reached.
LEMMA DecisionOfReached ==
    ASSUME Typed, NEW s \in reached \cup {"unread", "malformed"},
           NEW r \in Reasons \cup {DeviceDisconnected}, NEW d, d = Decision(s, r)
    PROVE  /\ d = "ok" => reached \cap wait.good # {}
           /\ d \in Failures \cup {"refine", "timeout"}
                => wait.kind = "activation" /\ s = "deactivated"
           /\ d = "authFailed" => r \in {9, 10}
           /\ d = "timeout" => r \in {6, 7}
           /\ d \in Failures \cup {"ok", "pending", "refine", "timeout"}
<1>1. /\ wait.good \subseteq States /\ {"unread", "malformed"} \cap States = {}
      /\ wait.kind = "activation" => "activated" \in wait.good
      /\ wait.kind \in {"activation", "device"}
  BY WaitAssumption DEF Typed
<1>2. CASE wait.kind = "device"
  BY <1>1, <1>2 DEF Decision, DeviceDecision, Failures, Typed
<1>3. CASE wait.kind = "activation"
  BY <1>1, <1>3 DEF Decision, ActivationDecision, ConnectionError, ConnectionStateReason,
     DeviceDisconnected, Failures, Typed
<1> QED
  BY <1>1, <1>2, <1>3

\* Acting on a decision ends the wait, or sends it on, as the invariant allows.
LEMMA ActMoves ==
    ASSUME Inv, UNCHANGED world, NEW s \in reached \cup {"unread", "malformed"},
           NEW r \in Reasons \cup {DeviceDisconnected},
           wait.kind = "activation" /\ s = "deactivated"
              => r \in {cause, DeviceDisconnected},
           NEW next \in {"loop", "select"}, Act(Decision(s, r), next),
           pc # "done", timer = "fired" => timer' = "fired"
    PROVE  /\ pc' \in {"loop", "select", "refine", "done"}
           /\ Answered' /\ OkWasReached' /\ FailureIsReal'
<1> DEFINE d == Decision(s, r)
<1>1. /\ d = "ok" => reached \cap wait.good # {}
      /\ d \in Failures \cup {"refine", "timeout"}
            => wait.kind = "activation" /\ s = "deactivated"
      /\ d = "authFailed" => r \in {9, 10}
      /\ d = "timeout" => r \in {6, 7}
      /\ d \in Failures \cup {"ok", "pending", "refine", "timeout"}
  BY DecisionOfReached DEF Inv
<1>2. s = "deactivated" => s \in reached
  OBVIOUS
<1>3. wait' = wait /\ cause' = cause /\ device' = device /\ reached' = reached
  BY DEF world
<1>4. outcome = "none"
  BY DEF Inv, Answered
<1> HIDE DEF d
<1>5. \/ /\ pc' \in {"loop", "select", "refine"} /\ outcome' = "none"
         /\ pc' = "refine" => d = "refine"
      \/ pc' = "done" /\ outcome' = d /\ d \notin {"pending", "refine"}
  BY <1>4 DEF Act, Finish, d
<1>6. CASE /\ pc' \in {"loop", "select", "refine"} /\ outcome' = "none"
           /\ pc' = "refine" => d = "refine"
  BY <1>1, <1>2, <1>3, <1>6 DEF Answered, OkWasReached, FailureIsReal, Failures
<1>7. CASE pc' = "done" /\ outcome' = d /\ d \notin {"pending", "refine"}
  BY <1>1, <1>2, <1>3, <1>7
     DEF Answered, OkWasReached, FailureIsReal, Failures, DeviceDisconnected,
         ConnectionStateReason
<1> QED
  BY <1>5, <1>6, <1>7

\* So does a decision on what the waiter has read, which carries no reason.
LEMMA ReadMoves ==
    ASSUME Inv, UNCHANGED world, NEW s \in reached \cup {"unread"},
           NEW next \in {"loop", "select"}, Act(ReadDecision(s), next),
           pc # "done", timer = "fired" => timer' = "fired"
    PROVE  /\ pc' \in {"loop", "select", "refine", "done"}
           /\ Answered' /\ OkWasReached' /\ FailureIsReal'
BY ActMoves DEF ReadDecision

\* A change of the object leaves what was learnt, explained and answered true.
LEMMA ChangeInv ==
    ASSUME Inv, NEW s \in States, NEW r \in Reasons \cup {DeviceDisconnected},
           NEW garbled \in BOOLEAN, Change(s, r, garbled)
    PROVE  Inv'
<1> DEFINE sig == [state |-> IF garbled THEN "malformed" ELSE s, reason |-> r]
<1>1. /\ state' = s /\ reached' = reached \cup {s} /\ <<state, s>> \in wait.moves
      /\ UNCHANGED <<wait, cache, timer, pc, outcome>>
      /\ IF s = "deactivated" THEN cause' = r ELSE cause' = cause
      /\ IF s = "deactivated" THEN device' \in DeviceReasons ELSE device' = device
      /\ signals' = signals \/ signals' = Append(signals, sig)
      /\ props' = props \/ props' = Append(props, s)
  BY DEF Change, waiterVars
<1>2. sig \in Announcement /\ sig.state \in {s, "malformed"} /\ sig.reason = r
  BY DEF Announcement
<1> HIDE DEF sig
<1>3. signals \in Seq(Announcement) /\ props \in Seq(States) /\ reached \subseteq States
  BY DEF Inv, Typed
<1>4. /\ signals' \in Seq(Announcement)
      /\ \A i \in DOMAIN signals' :
            signals'[i] = sig \/ (i \in DOMAIN signals /\ signals'[i] = signals[i])
  <2>1. CASE signals' = signals
    BY <1>3, <2>1
  <2>2. CASE signals' = Append(signals, sig)
    BY <1>2, <1>3, <2>2
  <2> QED
    BY <1>1, <2>1, <2>2
<1>5. /\ props' \in Seq(States)
      /\ \A i \in DOMAIN props' :
            props'[i] = s \/ (i \in DOMAIN props /\ props'[i] = props[i])
  <2>1. CASE props' = props
    BY <1>3, <2>1
  <2>2. CASE props' = Append(props, s)
    BY <1>3, <2>2
  <2> QED
    BY <1>1, <2>1, <2>2
<1>6. wait.kind = "activation" => state # "deactivated"
  BY <1>1, WaitAssumption DEF Inv, Typed
<1>7. Typed'
  BY <1>1, <1>4, <1>5 DEF Inv, Typed
<1>8. Learnt'
  BY <1>1, <1>2, <1>4, <1>5 DEF Inv, Learnt
<1>9. Explained'
  <2> SUFFICES ASSUME wait.kind = "activation"
               PROVE  /\ "deactivated" \in reached' => state' = "deactivated"
                      /\ \A i \in DOMAIN signals' :
                            signals'[i].state = "deactivated" => signals'[i].reason = cause'
    BY <1>1 DEF Explained
  <2>1. "deactivated" \notin reached
    BY <1>6 DEF Inv, Explained
  <2>2. \A i \in DOMAIN signals : signals[i].state # "deactivated"
    BY <2>1 DEF Inv, Learnt
  <2> QED
    BY <1>1, <1>2, <1>4, <2>1, <2>2
<1>10. Answered' /\ OkWasReached' /\ FailureIsReal'
  <2>1. ~(outcome \in Failures \/ (outcome = "timeout" /\ timer # "fired"))
    BY <1>6 DEF Inv, Answered, Explained
  <2> QED
    BY <1>1, <2>1 DEF Inv, Answered, OkWasReached, FailureIsReal, Failures
<1> QED
  BY <1>7, <1>8, <1>9, <1>10 DEF Inv

\* Every step keeps the invariant.
LEMMA NextInv ==
    ASSUME Inv, [Next]_vars
    PROVE  Inv'
<1>1. /\ Typed /\ Learnt /\ Explained /\ Answered /\ OkWasReached /\ FailureIsReal
  BY DEF Inv
<1>2. ASSUME NEW s \in States, NEW r \in Reasons \cup {DeviceDisconnected},
             NEW g \in BOOLEAN, Change(s, r, g)
      PROVE  Inv'
  BY <1>2, ChangeInv
<1>3. CASE CacheUpdate
  <2>1. /\ Head(props) \in reached /\ Tail(props) \in Seq(States)
        /\ \A i \in DOMAIN Tail(props) : Tail(props)[i] \in reached
    BY <1>1, <1>3 DEF CacheUpdate, Typed, Learnt
  <2> QED
    BY <1>1, <1>3, <2>1 DEF CacheUpdate, objectVars, waiterVars,
       Inv, Typed, Learnt, Explained,
       Answered, OkWasReached, FailureIsReal
<1>4. CASE CloseStream \/ UNCHANGED vars
  BY <1>1, <1>4 DEF CloseStream, vars, objectVars, waiterVars,
     Inv, Typed, Learnt, Explained,
     Answered, OkWasReached, FailureIsReal
<1>5. CASE TimerFires
  BY <1>1, <1>5 DEF TimerFires, objectVars, Inv, Typed, Learnt, Explained,
     Answered, OkWasReached, FailureIsReal
\* The waiter's steps leave the object, and what is on its way, as they are.
<1>w. ASSUME UNCHANGED world, cache' \in {cache, state}, props' = props,
             signals' = signals \/ (signals # << >> /\ signals' = Tail(signals)),
             timer' \in {"armed", timer},
             pc' \in {"subscribed", "loop", "select", "refine", "done"},
             pc' = "subscribed" => timer' = "off", Answered', OkWasReached', FailureIsReal'
      PROVE  Inv'
  <2>1. /\ signals' \in Seq(Announcement)
        /\ \A i \in DOMAIN signals' : \E j \in DOMAIN signals : signals'[i] = signals[j]
    <3>1. CASE signals' = signals
      BY <1>1, <3>1 DEF Typed
    <3>2. CASE signals # << >> /\ signals' = Tail(signals)
      <4>1. signals \in Seq(Announcement)
        BY <1>1 DEF Typed
      <4>2. /\ Tail(signals) \in Seq(Announcement)
            /\ \A i \in DOMAIN Tail(signals) :
                  i + 1 \in DOMAIN signals /\ Tail(signals)[i] = signals[i + 1]
        BY <3>2, <4>1
      <4> QED
        BY <3>2, <4>2
    <3> QED
      BY <1>w, <3>1, <3>2
  <2>2. Typed'
    BY <1>1, <1>w, <2>1 DEF Typed, world
  <2>3. Learnt' /\ Explained'
    BY <1>1, <1>w, <2>1 DEF Learnt, Explained, world
  <2> QED
    BY <1>w, <2>2, <2>3 DEF Inv
<1>6. CASE Subscribe
  <2>1. UNCHANGED world /\ Answered' /\ OkWasReached' /\ FailureIsReal'
    BY <1>1, <1>6 DEF Subscribe, Finish, objectVars, world, Answered, OkWasReached,
       FailureIsReal, Failures
  <2> QED
    BY <1>1, <1>6, <1>w, <2>1 DEF Subscribe, Finish, Typed, objectVars
<1>7. CASE FirstRead
  <2>1. UNCHANGED world
    BY <1>7 DEF FirstRead, objectVars, world
  <2>2. CASE cache = "unread" /\ Finish("dbusError") /\ UNCHANGED <<cache, timer>>
    <3>1. Answered' /\ OkWasReached' /\ FailureIsReal'
      BY <1>1, <2>1, <2>2
         DEF Finish, world, Answered, OkWasReached, FailureIsReal, Failures
    <3> QED
      BY <1>7, <1>w, <2>1, <2>2, <3>1 DEF FirstRead, Finish
  <2>3. CASE /\ cache' = IF cache = "unread" THEN state ELSE cache
             /\ Act(ReadDecision(cache'), "loop") /\ timer' = "armed"
    <3>1. cache' \in reached /\ pc = "subscribed"
      BY <1>1, <1>7, <2>3 DEF Learnt, FirstRead
    <3>2. timer # "fired"
      BY <1>1, <1>7 DEF FirstRead, Typed
    <3>3. /\ pc' \in {"loop", "select", "refine", "done"}
          /\ Answered' /\ OkWasReached' /\ FailureIsReal'
      BY <2>1, <2>3, <3>1, <3>2, ReadMoves
    <3> QED
      BY <1>7, <1>w, <2>1, <2>3, <3>1, <3>3 DEF FirstRead
  <2> QED
    BY <1>7, <2>2, <2>3 DEF FirstRead
<1>8. CASE Reread
  <2>1. UNCHANGED world /\ cache \in reached \cup {"unread"}
    BY <1>1, <1>8 DEF Reread, objectVars, world, Learnt
  <2>2. /\ pc' \in {"loop", "select", "refine", "done"}
        /\ Answered' /\ OkWasReached' /\ FailureIsReal'
    BY <1>8, <2>1, ReadMoves DEF Reread
  <2> QED
    BY <1>8, <1>w, <2>1, <2>2 DEF Reread
<1>9. CASE Timeout
  <2>1. UNCHANGED world /\ cache \in reached \cup {"unread"}
    BY <1>1, <1>9 DEF Timeout, objectVars, world, Learnt
  <2>2. CASE Finish("timeout")
    <3>1. Answered' /\ OkWasReached' /\ FailureIsReal'
      BY <1>1, <1>9, <2>1, <2>2
         DEF Timeout, Finish, world, Answered, OkWasReached, FailureIsReal, Failures
    <3> QED
      BY <1>9, <1>w, <2>1, <2>2, <3>1 DEF Timeout, Finish
  <2>3. CASE Act(ReadDecision(cache), "select")
    <3>1. /\ pc' \in {"loop", "select", "refine", "done"}
          /\ Answered' /\ OkWasReached' /\ FailureIsReal'
      BY <1>9, <2>1, <2>3, ReadMoves DEF Timeout
    <3> QED
      BY <1>9, <1>w, <2>1, <3>1 DEF Timeout
  <2> QED
    BY <1>9, <2>2, <2>3 DEF Timeout
<1>10. CASE TakeSignal
  <2> DEFINE s == Head(signals).state
             r == Head(signals).reason
  <2>1. UNCHANGED world /\ pc = "select"
    BY <1>10 DEF TakeSignal, objectVars, world
  <2>2. Head(signals) = signals[1] /\ 1 \in DOMAIN signals
    BY <1>1, <1>10 DEF TakeSignal, Typed
  <2>3. /\ s \in reached \cup {"malformed"} /\ r \in Reasons \cup {DeviceDisconnected}
        /\ wait.kind = "activation" /\ s = "deactivated" => r = cause
    <3>1. signals[1] \in Announcement
      BY <1>1, <2>2 DEF Typed
    <3>2. signals[1].state \in reached \cup {"malformed"}
      BY <1>1, <2>2 DEF Learnt
    <3>3. wait.kind = "activation" /\ signals[1].state = "deactivated"
            => signals[1].reason = cause
      BY <1>1, <2>2 DEF Explained
    <3> QED
      BY <2>2, <3>1, <3>2, <3>3 DEF Announcement
  <2>4. Act(Decision(s, r), "loop") /\ timer' = timer
    BY <1>10 DEF TakeSignal
  <2> HIDE DEF s, r
  <2>5. /\ pc' \in {"loop", "select", "refine", "done"}
        /\ Answered' /\ OkWasReached' /\ FailureIsReal'
    BY <2>1, <2>3, <2>4, ActMoves
  <2> QED
    BY <1>10, <1>w, <2>1, <2>5 DEF TakeSignal
<1>11. CASE StreamEnd
  <2>1. UNCHANGED world /\ Answered' /\ OkWasReached' /\ FailureIsReal'
    BY <1>1, <1>11 DEF StreamEnd, Finish, objectVars, world, Answered, OkWasReached,
       FailureIsReal, Failures
  <2> QED
    BY <1>11, <1>w, <2>1 DEF StreamEnd, Finish
<1>12. CASE Refine
  <2>1. UNCHANGED world /\ pc = "refine"
    BY <1>12 DEF Refine, objectVars, world
  <2>2. ConnectionError(DeviceDisconnected) = "activationFailed"
    BY DEF ConnectionError, DeviceDisconnected, ConnectionStateReason
  <2>3. /\ DeviceError(device) \in Failures
        /\ DeviceError(device) = "authFailed" => device \in {7, 9, 51, 76}
    BY DEF DeviceError, StateReason, Failures
  <2>4. pc' = "done" /\ outcome' \in {DeviceError(device), "activationFailed"}
    BY <1>12, <2>2 DEF Refine, Finish
  <2>5. Answered' /\ OkWasReached' /\ FailureIsReal'
    BY <1>1, <2>1, <2>3, <2>4 DEF world, Answered, OkWasReached, FailureIsReal, Failures
  <2> QED
    BY <1>12, <1>w, <2>1, <2>4, <2>5 DEF Refine
<1> QED
  BY <1>2, <1>3, <1>4, <1>5, <1>6, <1>7, <1>8, <1>9, <1>10, <1>11, <1>12 DEF Next, Waiter

\* The invariant holds always.
LEMMA Invariant == Spec => []Inv
<1>1. Init => Inv
  BY WaitAssumption DEF Init, Inv, Typed, Learnt, Explained, Answered, OkWasReached,
     FailureIsReal, Failures
<1> QED
  BY <1>1, NextInv, PTL DEF Spec

\* A wait succeeds only if the object was in a state waited for since it was called.
THEOREM OkIsReached == Spec => []OkWasReached
BY Invariant, PTL DEF Inv

\* It fails, for authentication or by a timeout, only for what NetworkManager or
\* the timer said.
THEOREM FailuresAreReal == Spec => []FailureIsReal
BY Invariant, PTL DEF Inv

=============================================================================
