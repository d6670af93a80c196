-------------------------- MODULE SecretAgentProofs --------------------------
(***************************************************************************)
(* Theorems about SecretAgent for every set of calls and cancellations and *)
(* every queue depth.                                                      *)
(***************************************************************************)
EXTENDS SecretAgent, TLAPS

-----------------------------------------------------------------------------
(* Types.                                                                  *)

\* The agent starts in a state of the declared shape.
LEMMA InitType == Init => TypeOK
BY DEF Init, TypeOK, Phases, Outcomes

\* No handler, consumer or timer step leaves the declared shape.
LEMMA NextType == TypeOK /\ [Next]_vars => TypeOK'
<1> SUFFICES ASSUME TypeOK, [Next]_vars
             PROVE  TypeOK'
  OBVIOUS
<1> USE ConstantsAssumption DEF ConstantsAssumption, consumerVars, cancelVars, handlerVars
<1>1. ASSUME NEW c \in Calls, Call(c) PROVE TypeOK'
  BY <1>1 DEF Call, TypeOK, Phases
<1>2. ASSUME NEW c \in Calls, Register(c) PROVE TypeOK'
  <2>1. pending' \in [Keys -> SUBSET Calls]
    BY <1>2 DEF Register, Track, TypeOK
  <2> QED
    BY <1>2, <2>1 DEF Register, TypeOK, Phases
<1>3. ASSUME NEW c \in Calls, Send(c) PROVE TypeOK'
  <2>1. queue' \in Seq(Calls)
    <3>1. queue' = queue \/ queue' = Append(queue, c)
      BY <1>3 DEF Send
    <3>2. queue \in Seq(Calls) /\ Append(queue, c) \in Seq(Calls)
      BY DEF TypeOK
    <3> QED
      BY <3>1, <3>2
  <2>2. /\ pc' \in [Calls -> Phases]
        /\ outcome' \in [Calls -> Outcomes \cup {"none"}]
        /\ timer' \in [Calls -> {"off", "armed", "fired"}]
    <3>1. ASSUME NEW o \in Outcomes, Resolve(c, o)
          PROVE  /\ pc' \in [Calls -> Phases]
                 /\ outcome' \in [Calls -> Outcomes \cup {"none"}]
                 /\ timer' \in [Calls -> {"off", "armed", "fired"}]
      BY <3>1 DEF Resolve, TypeOK, Phases
    <3>2. CASE StartWaiting(c)
      BY <3>2 DEF StartWaiting, TypeOK, Phases
    <3>3. CASE pc' = [pc EXCEPT ![c] = "sending"] /\ UNCHANGED <<outcome, timer>>
      BY <3>3 DEF TypeOK, Phases
    <3> QED
      BY <1>3, <3>1, <3>2, <3>3 DEF Send, Outcomes
  <2> QED
    BY <1>3, <2>1, <2>2 DEF Send, TypeOK
<1>4. ASSUME NEW c \in Calls, PollSend(c) PROVE TypeOK'
  BY <1>4, SMTT(30) DEF PollSend, Resolve, StartWaiting, TypeOK, Phases, Outcomes
<1>5. ASSUME NEW c \in Calls, PollWait(c) PROVE TypeOK'
  BY <1>5 DEF PollWait, Resolve, TypeOK, Phases, Outcomes, Replies
<1>6. ASSUME NEW c \in Calls, TimerFires(c) PROVE TypeOK'
  BY <1>6 DEF TimerFires, TypeOK
<1>7. ASSUME NEW c \in Calls, Return(c) PROVE TypeOK'
  BY <1>7 DEF Return, RemovePending, TypeOK, Phases
<1>8. ASSUME NEW i \in Cancels, NEW k \in Keys, CancelSignal(i, k) PROVE TypeOK'
  BY <1>8 DEF CancelSignal, Forget, TypeOK
<1>9. ASSUME NEW i \in Cancels, CancelNotify(i) PROVE TypeOK'
  BY <1>9 DEF CancelNotify, TypeOK
<1>10. ASSUME TakeRequest PROVE TypeOK'
  BY <1>10 DEF TakeRequest, TypeOK
<1>11. ASSUME NEW c \in Calls, NEW r \in Replies, Respond(c, r) PROVE TypeOK'
  BY <1>11 DEF Respond, Deliver, TypeOK
<1>12. ASSUME DropReceiver PROVE TypeOK'
  <2>1. reply' \in [Calls -> Replies \cup {"none"}]
    BY <1>12 DEF DropReceiver, Deliver, TypeOK, Replies
  <2>2. queue' \in Seq(Calls)
    BY <1>12 DEF DropReceiver
  <2> QED
    BY <1>12, <2>1, <2>2 DEF DropReceiver, TypeOK
<1>13. ASSUME RecvNotice PROVE TypeOK'
  BY <1>13 DEF RecvNotice, TypeOK
<1>14. CASE UNCHANGED vars
  BY <1>14 DEF vars, TypeOK
<1> QED
  BY <1>1, <1>2, <1>3, <1>4, <1>5, <1>6, <1>7, <1>8, <1>9, <1>10, <1>11, <1>12, <1>13, <1>14
     DEF Next, GetSecretsStep

\* Every state of the agent is of the declared shape.
THEOREM TypeCorrect == Spec => []TypeOK
<1>1. Init => TypeOK
  BY InitType
<1>2. TypeOK /\ [Next]_vars => TypeOK'
  BY NextType
<1> QED
  BY <1>1, <1>2, PTL DEF Spec

-----------------------------------------------------------------------------
(* The invariant.                                                          *)

\* The invariant holds before the first call.
LEMMA InitInv == Init => Inv
<1> SUFFICES ASSUME Init PROVE Inv
  OBVIOUS
<1>1. TypeOK
  BY InitType
<1>2. DOMAIN queue = {}
  BY DEF Init
<1>3. Bookkeeping
  BY <1>2 DEF Init, Bookkeeping, Queued
<1>4. PendingExact
  BY ConstantsAssumption DEF Init, PendingExact, Unresolved, ConstantsAssumption
<1>5. ResponderUnique
  BY <1>2 DEF Init, ResponderUnique
<1>6. BackPressure
  BY <1>2 DEF Init, BackPressure
<1>7. OutcomeJustified
  BY DEF Init, OutcomeJustified, Replies
<1> QED
  BY <1>1, <1>3, <1>4, <1>5, <1>6, <1>7 DEF Inv

\* What is in the queue after a request is sent.
LEMMA AppendQueue ==
    ASSUME TypeOK, NEW c \in Calls, queue' = Append(queue, c)
    PROVE  /\ queue' \in Seq(Calls)
           /\ DOMAIN queue' = 1 .. Len(queue) + 1
           /\ DOMAIN queue = 1 .. Len(queue)
           /\ Len(queue) \in Nat
           /\ queue'[Len(queue) + 1] = c
           /\ \A i \in DOMAIN queue : queue'[i] = queue[i]
BY DEF TypeOK

\* What is in the queue after the consumer takes the oldest request.
LEMMA TailQueue ==
    ASSUME TypeOK, queue # << >>, queue' = Tail(queue)
    PROVE  /\ queue' \in Seq(Calls)
           /\ Head(queue) = queue[1]
           /\ Head(queue) \in Calls
           /\ Len(queue) \in Nat \ {0}
           /\ DOMAIN queue = 1 .. Len(queue)
           /\ DOMAIN queue' = 1 .. Len(queue) - 1
           /\ \A i \in DOMAIN queue' : queue'[i] = queue[i + 1]
BY DEF TypeOK

\* Every step keeps phases, outcomes and what was cancelled in agreement.
LEMMA NextBookkeeping == Inv /\ [Next]_vars => Bookkeeping'
<1> SUFFICES ASSUME Inv, [Next]_vars
             PROVE  Bookkeeping'
  OBVIOUS
<1> TypeOK /\ Bookkeeping
  BY DEF Inv
<1> USE ConstantsAssumption DEF ConstantsAssumption, consumerVars, cancelVars, handlerVars, Bookkeeping
<1>1. ASSUME NEW c \in Calls, Call(c) PROVE Bookkeeping'
  BY <1>1 DEF Call, TypeOK, Queued
<1>2. ASSUME NEW c \in Calls, Register(c) PROVE Bookkeeping'
  BY <1>2 DEF Register, TypeOK, Queued
<1>3. ASSUME NEW c \in Calls, Send(c) PROVE Bookkeeping'
  <2>1. CASE queue' = queue
    BY <1>3, <2>1 DEF Send, Resolve, StartWaiting, TypeOK, Queued
  <2>2. CASE queue' = Append(queue, c)
    <3>1. \A d \in Calls : d # c /\ Queued(d)' => Queued(d)
      BY <2>2, AppendQueue DEF Queued
    <3> QED
      BY <1>3, <2>2, <3>1 DEF Send, Resolve, StartWaiting, TypeOK
  <2> QED
    BY <1>3, <2>1, <2>2 DEF Send
<1>4. ASSUME NEW c \in Calls, PollSend(c) PROVE Bookkeeping'
  BY <1>4 DEF PollSend, Resolve, StartWaiting, TypeOK, Queued
<1>5. ASSUME NEW c \in Calls, PollWait(c) PROVE Bookkeeping'
  BY <1>5 DEF PollWait, Resolve, TypeOK, Queued
<1>6. ASSUME NEW c \in Calls, TimerFires(c) PROVE Bookkeeping'
  BY <1>6 DEF TimerFires, TypeOK, Queued
<1>7. ASSUME NEW c \in Calls, Return(c) PROVE Bookkeeping'
  BY <1>7 DEF Return, TypeOK, Queued
<1>8. ASSUME NEW i \in Cancels, NEW k \in Keys, CancelSignal(i, k) PROVE Bookkeeping'
  <2>1. \A c \in pending[k] : c \in Calls /\ pc[c] \notin {"idle", "called"}
    BY DEF Inv, PendingExact, Unresolved, TypeOK
  <2>2. /\ hit' = [hit EXCEPT ![i] = pending[k]]
        /\ cancelled' = cancelled \cup pending[k]
        /\ cpc[i] = "idle" /\ cpc' = [cpc EXCEPT ![i] = "signalled"]
        /\ UNCHANGED <<pc, outcome, reply, queue, held>>
    BY <1>8 DEF CancelSignal
  <2>3. \A c \in Calls : c \in cancelled' <=> \E j \in Cancels : c \in hit'[j]
    BY <2>1, <2>2 DEF TypeOK
  <2> QED
    BY <2>1, <2>2, <2>3 DEF TypeOK, Queued
<1>9. ASSUME NEW i \in Cancels, CancelNotify(i) PROVE Bookkeeping'
  BY <1>9 DEF CancelNotify, TypeOK, Queued
<1>10. ASSUME TakeRequest PROVE Bookkeeping'
  <2>1. Queued(Head(queue)) /\ Head(queue) \in Calls
    BY <1>10, TailQueue DEF TakeRequest, Queued
  <2>2. \A d \in Calls : Queued(d)' => Queued(d)
    BY <1>10, TailQueue DEF TakeRequest, Queued
  <2> QED
    BY <1>10, <2>1, <2>2 DEF TakeRequest, TypeOK
<1>11. ASSUME NEW c \in Calls, NEW r \in Replies, Respond(c, r) PROVE Bookkeeping'
  BY <1>11 DEF Respond, Deliver, TypeOK, Queued
<1>12. ASSUME DropReceiver PROVE Bookkeeping'
  BY <1>12 DEF DropReceiver, Deliver, TypeOK, Queued
<1>13. ASSUME RecvNotice PROVE Bookkeeping'
  BY <1>13 DEF RecvNotice, TypeOK, Queued
<1>14. CASE UNCHANGED vars
  BY <1>14 DEF vars, Queued
<1> QED
  BY <1>1, <1>2, <1>3, <1>4, <1>5, <1>6, <1>7, <1>8, <1>9, <1>10, <1>11, <1>12, <1>13, <1>14
     DEF Next, GetSecretsStep

\* Every step keeps the pending map exact: Register adds, Return and a
\* cancellation remove, nothing else touches it.
LEMMA NextPendingExact == Inv /\ [Next]_vars => PendingExact'
<1> SUFFICES ASSUME Inv, [Next]_vars
             PROVE  PendingExact'
  OBVIOUS
<1> TypeOK /\ Bookkeeping /\ PendingExact
  BY DEF Inv
<1> USE ConstantsAssumption DEF ConstantsAssumption, consumerVars, cancelVars, handlerVars, PendingExact, Unresolved
<1>1. ASSUME NEW c \in Calls, Call(c) PROVE PendingExact'
  BY <1>1 DEF Call, TypeOK
<1>2. ASSUME NEW c \in Calls, Register(c) PROVE PendingExact'
  BY <1>2 DEF Register, Track, TypeOK, Bookkeeping
<1>3. ASSUME NEW c \in Calls, Send(c) PROVE PendingExact'
  BY <1>3 DEF Send, Resolve, StartWaiting, TypeOK
<1>4. ASSUME NEW c \in Calls, PollSend(c) PROVE PendingExact'
  BY <1>4 DEF PollSend, Resolve, StartWaiting, TypeOK
<1>5. ASSUME NEW c \in Calls, PollWait(c) PROVE PendingExact'
  BY <1>5 DEF PollWait, Resolve, TypeOK
<1>6. ASSUME NEW c \in Calls, TimerFires(c) PROVE PendingExact'
  BY <1>6 DEF TimerFires, TypeOK
<1>7. ASSUME NEW c \in Calls, Return(c) PROVE PendingExact'
  BY <1>7 DEF Return, RemovePending, TypeOK
<1>8. ASSUME NEW i \in Cancels, NEW k \in Keys, CancelSignal(i, k) PROVE PendingExact'
  BY <1>8 DEF CancelSignal, Forget, TypeOK
<1>9. ASSUME NEW i \in Cancels, CancelNotify(i) PROVE PendingExact'
  BY <1>9 DEF CancelNotify
<1>10. ASSUME TakeRequest PROVE PendingExact'
  BY <1>10 DEF TakeRequest
<1>11. ASSUME NEW c \in Calls, NEW r \in Replies, Respond(c, r) PROVE PendingExact'
  BY <1>11 DEF Respond
<1>12. ASSUME DropReceiver PROVE PendingExact'
  BY <1>12 DEF DropReceiver
<1>13. ASSUME RecvNotice PROVE PendingExact'
  BY <1>13 DEF RecvNotice
<1>14. CASE UNCHANGED vars
  BY <1>14 DEF vars
<1> QED
  BY <1>1, <1>2, <1>3, <1>4, <1>5, <1>6, <1>7, <1>8, <1>9, <1>10, <1>11, <1>12, <1>13, <1>14
     DEF Next, GetSecretsStep

\* Every step keeps each request in at most one place, its responder unused
\* until the consumer answers.
LEMMA NextResponderUnique == Inv /\ [Next]_vars => ResponderUnique'
<1> SUFFICES ASSUME Inv, [Next]_vars
             PROVE  ResponderUnique'
  OBVIOUS
<1> TypeOK /\ Bookkeeping /\ ResponderUnique
  BY DEF Inv
<1> USE ConstantsAssumption DEF ConstantsAssumption, consumerVars, cancelVars, handlerVars,
        ResponderUnique
<1>1. ASSUME NEW c \in Calls, Call(c) PROVE ResponderUnique'
  BY <1>1 DEF Call, Queued
<1>2. ASSUME NEW c \in Calls, Register(c) PROVE ResponderUnique'
  BY <1>2 DEF Register, Queued
<1>3. ASSUME NEW c \in Calls, Send(c) PROVE ResponderUnique'
  <2>1. CASE queue' = queue
    BY <1>3, <2>1 DEF Send, Queued
  <2>2. CASE queue' = Append(queue, c)
    <3>1. ~Queued(c) /\ c \notin held /\ reply[c] = "none" /\ held' = held /\ reply' = reply
      BY <1>3 DEF Send, Bookkeeping
    <3>2. \A d \in held : d # c /\ ~Queued(d)
      BY <3>1
    <3>3. \A d : Queued(d)' => d = c \/ Queued(d)
      BY <2>2, AppendQueue DEF Queued
    <3>4. \A i, j \in DOMAIN queue' : queue'[i] = queue'[j] => i = j
      BY <2>2, <3>1, AppendQueue DEF Queued
    <3>5. \A i \in DOMAIN queue' : reply'[queue'[i]] = "none"
      BY <2>2, <3>1, AppendQueue
    <3> QED
      BY <3>1, <3>2, <3>3, <3>4, <3>5
  <2> QED
    BY <1>3, <2>1, <2>2 DEF Send
<1>4. ASSUME NEW c \in Calls, PollSend(c) PROVE ResponderUnique'
  BY <1>4 DEF PollSend, Queued
<1>5. ASSUME NEW c \in Calls, PollWait(c) PROVE ResponderUnique'
  BY <1>5 DEF PollWait, Queued
<1>6. ASSUME NEW c \in Calls, TimerFires(c) PROVE ResponderUnique'
  BY <1>6 DEF TimerFires, Queued
<1>7. ASSUME NEW c \in Calls, Return(c) PROVE ResponderUnique'
  BY <1>7 DEF Return, Queued
<1>8. ASSUME NEW i \in Cancels, NEW k \in Keys, CancelSignal(i, k) PROVE ResponderUnique'
  BY <1>8 DEF CancelSignal, Queued
<1>9. ASSUME NEW i \in Cancels, CancelNotify(i) PROVE ResponderUnique'
  BY <1>9 DEF CancelNotify, Queued
<1>10. ASSUME TakeRequest PROVE ResponderUnique'
  <2>1. /\ queue' = Tail(queue) /\ queue # << >>
        /\ held' = held \cup {queue[1]} /\ reply' = reply
    BY <1>10, TailQueue DEF TakeRequest
  <2>2. \A i, j \in DOMAIN queue' : queue'[i] = queue'[j] => i = j
    BY <2>1, TailQueue
  <2>3. /\ \A i \in DOMAIN queue' : reply'[queue'[i]] = "none" /\ queue'[i] # queue[1]
        /\ reply[queue[1]] = "none"
    BY <2>1, TailQueue
  <2>4. \A d : Queued(d)' => Queued(d) /\ d # queue[1]
    BY <2>1, <2>3, TailQueue DEF Queued
  <2> QED
    BY <2>1, <2>2, <2>3, <2>4
<1>11. ASSUME NEW c \in Calls, NEW r \in Replies, Respond(c, r) PROVE ResponderUnique'
  BY <1>11 DEF Respond, Deliver, TypeOK, Queued
<1>12. ASSUME DropReceiver PROVE ResponderUnique'
  BY <1>12 DEF DropReceiver, Deliver, TypeOK, Queued
<1>13. ASSUME RecvNotice PROVE ResponderUnique'
  BY <1>13 DEF RecvNotice, Queued
<1>14. CASE UNCHANGED vars
  BY <1>14 DEF vars, Queued
<1> QED
  BY <1>1, <1>2, <1>3, <1>4, <1>5, <1>6, <1>7, <1>8, <1>9, <1>10, <1>11, <1>12, <1>13, <1>14
     DEF Next, GetSecretsStep

\* Every step keeps the requests beyond the depth of the queue held back.
LEMMA NextBackPressure == Inv /\ [Next]_vars => BackPressure'
<1> SUFFICES ASSUME Inv, [Next]_vars
             PROVE  BackPressure'
  OBVIOUS
<1> TypeOK /\ Bookkeeping /\ ResponderUnique /\ BackPressure
  BY DEF Inv
<1> USE ConstantsAssumption DEF ConstantsAssumption, consumerVars, cancelVars, handlerVars,
        BackPressure
<1>1. ASSUME NEW c \in Calls, Call(c) PROVE BackPressure'
  BY <1>1 DEF Call, TypeOK, Parked
<1>2. ASSUME NEW c \in Calls, Register(c) PROVE BackPressure'
  BY <1>2 DEF Register, TypeOK, Parked
<1>3. ASSUME NEW c \in Calls, Send(c) PROVE BackPressure'
  <2>1. CASE queue' = queue
    BY <1>3, <2>1 DEF Send, Resolve, TypeOK, Parked
  <2>2. CASE queue' = Append(queue, c)
    BY <1>3, <2>2, AppendQueue DEF Send, StartWaiting, TypeOK, Parked, Bookkeeping, Queued
  <2> QED
    BY <1>3, <2>1, <2>2 DEF Send
<1>4. ASSUME NEW c \in Calls, PollSend(c) PROVE BackPressure'
  BY <1>4 DEF PollSend, Resolve, StartWaiting, TypeOK, Parked
<1>5. ASSUME NEW c \in Calls, PollWait(c) PROVE BackPressure'
  BY <1>5 DEF PollWait, Resolve, TypeOK, Parked
<1>6. ASSUME NEW c \in Calls, TimerFires(c) PROVE BackPressure'
  BY <1>6 DEF TimerFires, TypeOK, Parked
<1>7. ASSUME NEW c \in Calls, Return(c) PROVE BackPressure'
  BY <1>7 DEF Return, TypeOK, Parked
<1>8. ASSUME NEW i \in Cancels, NEW k \in Keys, CancelSignal(i, k) PROVE BackPressure'
  BY <1>8 DEF CancelSignal, Parked
<1>9. ASSUME NEW i \in Cancels, CancelNotify(i) PROVE BackPressure'
  BY <1>9 DEF CancelNotify, Parked
<1>10. ASSUME TakeRequest PROVE BackPressure'
  <2>1. /\ queue' = Tail(queue) /\ queue # << >>
        /\ UNCHANGED <<pc, timer, cancelled>>
    BY <1>10 DEF TakeRequest
  <2>2. \A i \in DOMAIN queue' : i > QueueDepth => i + 1 \in DOMAIN queue /\ i + 1 > QueueDepth
    BY <2>1, TailQueue
  <2>3. \A d : Parked(d)' => Parked(d)
    BY <2>1, <2>2, TailQueue DEF Parked
  <2> QED
    BY <2>1, <2>2, <2>3, TailQueue
<1>11. ASSUME NEW c \in Calls, NEW r \in Replies, Respond(c, r) PROVE BackPressure'
  BY <1>11 DEF Respond, Parked
<1>12. ASSUME DropReceiver PROVE BackPressure'
  BY <1>12 DEF DropReceiver, Parked
<1>13. ASSUME RecvNotice PROVE BackPressure'
  BY <1>13 DEF RecvNotice, Parked
<1>14. CASE UNCHANGED vars
  BY <1>14 DEF vars, Parked
<1> QED
  BY <1>1, <1>2, <1>3, <1>4, <1>5, <1>6, <1>7, <1>8, <1>9, <1>10, <1>11, <1>12, <1>13, <1>14
     DEF Next, GetSecretsStep

\* Every step that gives a call its outcome has the cause the outcome names,
\* and the cause is not taken back later.
LEMMA NextOutcomeJustified == Inv /\ [Next]_vars => OutcomeJustified'
<1> SUFFICES ASSUME Inv, [Next]_vars
             PROVE  OutcomeJustified'
  OBVIOUS
<1> TypeOK /\ Bookkeeping /\ ResponderUnique /\ OutcomeJustified
  BY DEF Inv
<1> USE ConstantsAssumption DEF ConstantsAssumption, consumerVars, cancelVars, handlerVars,
        OutcomeJustified
<1>1. ASSUME NEW c \in Calls, Call(c) PROVE OutcomeJustified'
  BY <1>1 DEF Call
<1>2. ASSUME NEW c \in Calls, Register(c) PROVE OutcomeJustified'
  BY <1>2 DEF Register
<1>3. ASSUME NEW c \in Calls, Send(c) PROVE OutcomeJustified'
  <2>1. UNCHANGED <<reply, open, hit>>
    BY <1>3 DEF Send
  <2>2. CASE Resolve(c, "canceledByNM") /\ c \in cancelled
    BY <2>1, <2>2 DEF Resolve, TypeOK, Bookkeeping, Replies
  <2>3. CASE Resolve(c, "channelClosed") /\ ~open
    BY <2>1, <2>3 DEF Resolve, TypeOK, Replies
  <2>4. CASE StartWaiting(c)
    BY <1>3, <2>1, <2>4 DEF Send, StartWaiting, TypeOK, Bookkeeping
  <2>5. CASE UNCHANGED <<outcome, timer>>
    BY <2>1, <2>5
  <2> QED
    BY <1>3, <2>2, <2>3, <2>4, <2>5 DEF Send
<1>4. ASSUME NEW c \in Calls, PollSend(c) PROVE OutcomeJustified'
  <2>1. UNCHANGED <<reply, open, hit>> /\ pc[c] = "sending"
    BY <1>4 DEF PollSend
  <2>2. CASE Resolve(c, "canceledByNM") /\ c \in cancelled
    BY <2>1, <2>2 DEF Resolve, TypeOK, Bookkeeping, Replies
  <2>3. CASE StartWaiting(c)
    BY <2>1, <2>3 DEF StartWaiting, TypeOK, Bookkeeping
  <2> QED
    BY <1>4, <2>2, <2>3 DEF PollSend
<1>5. ASSUME NEW c \in Calls, PollWait(c) PROVE OutcomeJustified'
  BY <1>5 DEF PollWait, Resolve, TypeOK, Replies, Bookkeeping
<1>6. ASSUME NEW c \in Calls, TimerFires(c) PROVE OutcomeJustified'
  BY <1>6 DEF TimerFires, TypeOK
<1>7. ASSUME NEW c \in Calls, Return(c) PROVE OutcomeJustified'
  BY <1>7 DEF Return
<1>8. ASSUME NEW i \in Cancels, NEW k \in Keys, CancelSignal(i, k) PROVE OutcomeJustified'
  BY <1>8 DEF CancelSignal, TypeOK, Bookkeeping
<1>9. ASSUME NEW i \in Cancels, CancelNotify(i) PROVE OutcomeJustified'
  BY <1>9 DEF CancelNotify
<1>10. ASSUME TakeRequest PROVE OutcomeJustified'
  BY <1>10 DEF TakeRequest
<1>11. ASSUME NEW c \in Calls, NEW r \in Replies, Respond(c, r) PROVE OutcomeJustified'
  BY <1>11 DEF Respond, Deliver, TypeOK, Replies, ResponderUnique
<1>12. ASSUME DropReceiver PROVE OutcomeJustified'
  <2>1. \A d \in Calls : Queued(d) => reply[d] = "none"
    BY DEF ResponderUnique, Queued
  <2> QED
    BY <1>12, <2>1 DEF DropReceiver, Deliver, TypeOK, Replies
<1>13. ASSUME RecvNotice PROVE OutcomeJustified'
  BY <1>13 DEF RecvNotice
<1>14. CASE UNCHANGED vars
  BY <1>14 DEF vars, Replies
<1> QED
  BY <1>1, <1>2, <1>3, <1>4, <1>5, <1>6, <1>7, <1>8, <1>9, <1>10, <1>11, <1>12, <1>13, <1>14
     DEF Next, GetSecretsStep

\* The invariant is inductive.
LEMMA NextInv == Inv /\ [Next]_vars => Inv'
<1> SUFFICES ASSUME Inv, [Next]_vars PROVE Inv'
  OBVIOUS
<1> QED
  BY NextType, NextBookkeeping, NextPendingExact, NextResponderUnique, NextBackPressure,
     NextOutcomeJustified
     DEF Inv

\* The invariant holds in every state of every behavior.
LEMMA Invariance == Spec => []Inv
<1> QED
  BY InitInv, NextInv, PTL DEF Spec

\* The pending map holds exactly the calls that a cancellation can reach, so
\* that none is missed and none is leaked, whatever the interleaving of calls,
\* cancellations and consumer.
THEOREM PendingMapExact == Spec => []PendingExact
<1>1. Inv => PendingExact
  BY DEF Inv
<1> QED
  BY <1>1, Invariance, PTL

\* No responder is used twice, for every queue depth.
THEOREM OneResponderPerCall == Spec => []ResponderUnique
<1>1. Inv => ResponderUnique
  BY DEF Inv
<1> QED
  BY <1>1, Invariance, PTL

\* The queue grows beyond its depth only by calls held back in send and by
\* requests cancelled there.
THEOREM QueueBackPressure == Spec => []BackPressure
<1>1. Inv => BackPressure
  BY DEF Inv
<1> QED
  BY <1>1, Invariance, PTL

\* What a call reports to NetworkManager happened to that call.
THEOREM OutcomesJustified == Spec => []OutcomeJustified
<1>1. Inv => OutcomeJustified
  BY DEF Inv
<1> QED
  BY <1>1, Invariance, PTL

-----------------------------------------------------------------------------
(* Cancellation.                                                           *)

\* A step that gives a cancelled call its outcome reports the cancellation.
LEMMA CancelledOutcome ==
    ASSUME Inv, [Next]_vars, NEW c \in Calls, c \in cancelled,
           outcome[c] = "none", outcome'[c] # "none"
    PROVE  outcome'[c] = "canceledByNM"
<1> TypeOK
  BY DEF Inv
<1> USE DEF consumerVars, cancelVars, handlerVars, Resolve, StartWaiting, TypeOK
<1>1. ASSUME NEW d \in Calls, Send(d) PROVE outcome'[c] = "canceledByNM"
  BY <1>1 DEF Send
<1>2. ASSUME NEW d \in Calls, PollSend(d) PROVE outcome'[c] = "canceledByNM"
  BY <1>2 DEF PollSend
<1>3. ASSUME NEW d \in Calls, PollWait(d) PROVE outcome'[c] = "canceledByNM"
  BY <1>3 DEF PollWait
<1>4. CASE outcome' = outcome
  BY <1>4
<1> QED
  BY <1>1, <1>2, <1>3, <1>4
     DEF Next, GetSecretsStep, vars, Call, Register, TimerFires, Return, CancelSignal,
         CancelNotify, TakeRequest, Respond, DropReceiver, RecvNotice

\* Once CancelGetSecrets has taken an unresolved call, that call reports the
\* cancellation and nothing else.
THEOREM CancellationWins == Spec => CancelWins
<1>1. Inv /\ [Next]_vars =>
        [\A i \in Cancels : \A c \in hit[i] :
           outcome[c] = "none" /\ outcome'[c] # "none" => outcome'[c] = "canceledByNM"]_vars
  <2> SUFFICES ASSUME Inv, [Next]_vars, NEW i \in Cancels, NEW c \in hit[i],
                      outcome[c] = "none", outcome'[c] # "none"
               PROVE  outcome'[c] = "canceledByNM"
    OBVIOUS
  <2>1. c \in Calls /\ c \in cancelled
    BY DEF Inv, TypeOK, Bookkeeping
  <2> QED
    BY <2>1, CancelledOutcome
<1> QED
  BY <1>1, Invariance, PTL DEF Spec, CancelWins

-----------------------------------------------------------------------------
(* Accepted answers.                                                       *)

\* A call that found the channel closed never gave its request away: nothing
\* of it is queued, held or answered, and nothing will be.
ClosedUnsent ==
    \A c \in Calls : outcome[c] = "channelClosed" =>
        ~Queued(c) /\ c \notin held /\ reply[c] = "none"

\* Every step keeps the request of a call that found the channel closed out of
\* the consumer's reach.
LEMMA NextClosedUnsent == Inv /\ ClosedUnsent /\ [Next]_vars => ClosedUnsent'
<1> SUFFICES ASSUME Inv, ClosedUnsent, [Next]_vars
             PROVE  ClosedUnsent'
  OBVIOUS
<1> TypeOK /\ Bookkeeping
  BY DEF Inv
<1> USE DEF consumerVars, cancelVars, handlerVars, ClosedUnsent
<1>1. ASSUME NEW c \in Calls, Send(c) PROVE ClosedUnsent'
  <2>1. /\ pc[c] = "registered" /\ UNCHANGED <<reply, held>>
        /\ ~Queued(c) /\ c \notin held /\ reply[c] = "none"
        /\ outcome[c] = "none"
    BY <1>1 DEF Send, Bookkeeping
  <2>2. CASE queue' = queue
    BY <1>1, <2>1, <2>2 DEF Send, Resolve, StartWaiting, TypeOK, Queued
  <2>3. CASE queue' = Append(queue, c) /\ outcome' = outcome
    <3>1. \A d \in Calls : d # c /\ Queued(d)' => Queued(d)
      BY <2>3, AppendQueue DEF Queued
    <3> QED
      BY <2>1, <2>3, <3>1
  <2> QED
    BY <1>1, <2>2, <2>3 DEF Send, StartWaiting
<1>2. ASSUME NEW c \in Calls, PollSend(c) PROVE ClosedUnsent'
  BY <1>2 DEF PollSend, Resolve, StartWaiting, TypeOK, Queued
<1>3. ASSUME NEW c \in Calls, PollWait(c) PROVE ClosedUnsent'
  BY <1>3 DEF PollWait, Resolve, TypeOK, Replies, Queued
<1>4. ASSUME TakeRequest PROVE ClosedUnsent'
  <2>1. Queued(Head(queue)) /\ \A d : Queued(d)' => Queued(d)
    BY <1>4, TailQueue DEF TakeRequest, Queued
  <2> QED
    BY <1>4, <2>1 DEF TakeRequest
<1>5. ASSUME NEW c \in Calls, NEW r \in Replies, Respond(c, r) PROVE ClosedUnsent'
  BY <1>5 DEF Respond, Deliver, TypeOK, Queued
<1>6. ASSUME DropReceiver PROVE ClosedUnsent'
  BY <1>6 DEF DropReceiver, Deliver, TypeOK, Queued
<1>7. CASE UNCHANGED <<outcome, reply, queue, held>>
  BY <1>7 DEF Queued
<1> QED
  BY <1>1, <1>2, <1>3, <1>4, <1>5, <1>6, <1>7
     DEF Next, GetSecretsStep, vars, Call, Register, TimerFires, Return, CancelSignal,
         CancelNotify, RecvNotice

\* A step that gives an answered call its outcome gives it the answer, unless
\* the call was cancelled.
LEMMA AnsweredOutcome ==
    ASSUME Inv, [Next]_vars, NEW c \in Calls, reply[c] # "none",
           outcome[c] = "none", outcome'[c] # "none"
    PROVE  outcome'[c] = reply[c] \/ c \in cancelled
<1> TypeOK /\ Bookkeeping
  BY DEF Inv
<1> USE DEF consumerVars, cancelVars, handlerVars, Resolve, StartWaiting, TypeOK
<1>1. ASSUME NEW d \in Calls, Send(d) PROVE outcome'[c] = reply[c] \/ c \in cancelled
  BY <1>1 DEF Send, Bookkeeping
<1>2. ASSUME NEW d \in Calls, PollSend(d) PROVE outcome'[c] = reply[c] \/ c \in cancelled
  BY <1>2 DEF PollSend
<1>3. ASSUME NEW d \in Calls, PollWait(d) PROVE outcome'[c] = reply[c] \/ c \in cancelled
  BY <1>3 DEF PollWait
<1>4. CASE outcome' = outcome
  BY <1>4
<1> QED
  BY <1>1, <1>2, <1>3, <1>4
     DEF Next, GetSecretsStep, vars, Call, Register, TimerFires, Return, CancelSignal,
         CancelNotify, TakeRequest, Respond, DropReceiver, RecvNotice

\* An answer given before its call is resolved reaches NetworkManager unless the
\* call was cancelled, also when the timer has fired or the consumer drops its
\* Receiver with requests in the queue, for every queue depth; a call that found
\* the channel closed is never answered.
THEOREM AcceptedRepliesArrive == Spec => AcceptedReplyDelivered
<1>1. Init => ClosedUnsent
  BY DEF Init, ClosedUnsent
<1>2. Spec => []ClosedUnsent
  BY <1>1, NextClosedUnsent, Invariance, PTL DEF Spec
<1>3. ClosedUnsent => \A c \in Calls : outcome[c] = "channelClosed" => reply[c] = "none"
  BY DEF ClosedUnsent
<1>4. Inv /\ [Next]_vars =>
        [\A c \in Calls :
           reply[c] # "none" /\ outcome[c] = "none" /\ outcome'[c] # "none" =>
               outcome'[c] = reply[c] \/ c \in cancelled]_vars
  BY AnsweredOutcome
<1> QED
  BY <1>2, <1>3, <1>4, Invariance, PTL DEF Spec, AcceptedReplyDelivered

-----------------------------------------------------------------------------
(* SecretAgent implements SecretExchange, for every set of calls and       *)
(* cancellations and every queue depth.                                    *)

OpenCalls == {c \in Calls : Unresolved(c)}
Withdrawn == {c \in cancelled : outcome[c] \in {"none", "canceledByNM"}}

\* An agent without calls is an exchange without requests.
LEMMA InitRefines == Init => Exchange!Init
BY DEF Init, Exchange!Init, Unresolved

\* A call that resolves gives the answer the exchange allows it.
LEMMA ResolveAnswers ==
    ASSUME Inv, NEW c \in Calls, Unresolved(c), NEW o \in Outcomes, Resolve(c, o),
           UNCHANGED <<cancelled, reply>>,
           IF c \in cancelled THEN o = "canceledByNM"
           ELSE o \in {"channelClosed", "timedOut"} \/ (o \in Replies /\ reply[c] = o)
    PROVE  Exchange!Answer(c, o)
<1> TypeOK /\ Bookkeeping
  BY DEF Inv
<1>1. outcome[c] = "none"
  BY DEF Unresolved, Bookkeeping
<1>2. c \in Withdrawn <=> c \in cancelled
  BY <1>1 DEF Withdrawn
<1>3. OpenCalls' = OpenCalls \ {c}
  BY DEF OpenCalls, Unresolved, Resolve, TypeOK
<1>4. outcome' = [outcome EXCEPT ![c] = o]
  BY DEF Resolve
<1>5. Withdrawn' = Withdrawn
  BY <1>1, <1>4 DEF Withdrawn, TypeOK
<1> QED
  BY <1>2, <1>3, <1>4, <1>5 DEF Exchange!Answer, OpenCalls, Withdrawn

\* A step that leaves the open calls, the cancellations and the replies alone
\* is not seen by the exchange.
LEMMA InternalStep ==
    ASSUME UNCHANGED <<cancelled, reply, outcome>>, OpenCalls' = OpenCalls
    PROVE  UNCHANGED Exchange!vars
BY DEF Exchange!vars, OpenCalls

\* What a responder, or a dropped receiver, delivers.
LEMMA DeliverGives ==
    ASSUME Inv, NEW S \in SUBSET Calls, \A c \in S : reply[c] = "none",
           NEW r \in Replies, Deliver(S, r), UNCHANGED <<pc, cancelled, outcome>>
    PROVE  Exchange!Next
<1> DEFINE T == {c \in S : pc[c] # "done"}
<1>1. T \in SUBSET Calls
  OBVIOUS
<1>2. reply' = [c \in Calls |-> IF c \in T THEN r ELSE reply[c]]
  BY DEF Deliver
<1>3. Exchange!Give(T, r)
  BY <1>2 DEF Exchange!Give, Unresolved
<1> QED
  BY <1>1, <1>3 DEF Exchange!Next

\* Every step of the agent is a step of the exchange or invisible to it.
LEMMA StepRefines == Inv /\ [Next]_vars => [Exchange!Next]_(Exchange!vars)
<1> SUFFICES ASSUME Inv, [Next]_vars
             PROVE  [Exchange!Next]_(Exchange!vars)
  OBVIOUS
<1> TypeOK /\ Bookkeeping /\ PendingExact /\ ResponderUnique
  BY DEF Inv
<1> USE DEF consumerVars, cancelVars, handlerVars
<1>1. ASSUME NEW c \in Calls, Call(c) PROVE UNCHANGED Exchange!vars
  <2>1. OpenCalls' = OpenCalls
    BY <1>1 DEF Call, OpenCalls, Unresolved, TypeOK
  <2> QED
    BY <1>1, <2>1, InternalStep DEF Call
<1>2. ASSUME NEW c \in Calls, Register(c) PROVE Exchange!Next
  <2>1. c \notin OpenCalls /\ OpenCalls' = OpenCalls \cup {c} /\ outcome[c] = "none"
    BY <1>2 DEF Register, OpenCalls, Unresolved, TypeOK, Bookkeeping
  <2>2. Exchange!Open(c)
    BY <1>2, <2>1 DEF Register, Exchange!Open, OpenCalls
  <2> QED
    BY <2>2 DEF Exchange!Next
<1>3. ASSUME NEW c \in Calls, Send(c) PROVE [Exchange!Next]_(Exchange!vars)
  <2>1. CASE \E o \in {"canceledByNM", "channelClosed"} : Resolve(c, o)
    <3>1. PICK o \in {"canceledByNM", "channelClosed"} : 
            Resolve(c, o) /\ (IF c \in cancelled THEN o = "canceledByNM" ELSE o = "channelClosed")
      BY <1>3, <2>1 DEF Send, Resolve, StartWaiting, TypeOK
    <3>2. Exchange!Answer(c, o)
      BY <1>3, <3>1, ResolveAnswers DEF Send, Unresolved, Outcomes
    <3> QED
      BY <3>1, <3>2 DEF Exchange!Next
  <2>2. CASE StartWaiting(c) \/ (pc' = [pc EXCEPT ![c] = "sending"] /\ outcome' = outcome)
    <3>1. OpenCalls' = OpenCalls
      BY <1>3, <2>2 DEF Send, StartWaiting, OpenCalls, Unresolved, TypeOK
    <3> QED
      BY <1>3, <2>2, <3>1, InternalStep DEF Send, StartWaiting
  <2> QED
    BY <1>3, <2>1, <2>2 DEF Send
<1>4. ASSUME NEW c \in Calls, PollSend(c) PROVE [Exchange!Next]_(Exchange!vars)
  <2>1. CASE c \in cancelled /\ Resolve(c, "canceledByNM")
    <3>1. Exchange!Answer(c, "canceledByNM")
      BY <1>4, <2>1, ResolveAnswers DEF PollSend, Unresolved, Outcomes
    <3> QED
      BY <3>1 DEF Exchange!Next
  <2>2. CASE StartWaiting(c)
    <3>1. OpenCalls' = OpenCalls
      BY <1>4, <2>2 DEF PollSend, StartWaiting, OpenCalls, Unresolved, TypeOK
    <3> QED
      BY <1>4, <2>2, <3>1, InternalStep DEF PollSend, StartWaiting
  <2> QED
    BY <1>4, <2>1, <2>2 DEF PollSend
<1>5. ASSUME NEW c \in Calls, PollWait(c) PROVE Exchange!Next
  <2>1. PICK o \in Outcomes :
          /\ Resolve(c, o)
          /\ IF c \in cancelled THEN o = "canceledByNM"
             ELSE o = "timedOut" \/ (o \in Replies /\ reply[c] = o)
    BY <1>5 DEF PollWait, Outcomes, Replies, TypeOK
  <2>2. Exchange!Answer(c, o)
    BY <1>5, <2>1, ResolveAnswers DEF PollWait, Unresolved
  <2> QED
    BY <2>1, <2>2 DEF Exchange!Next, Outcomes, Replies
<1>6. ASSUME NEW c \in Calls, TimerFires(c) PROVE UNCHANGED Exchange!vars
  BY <1>6, InternalStep DEF TimerFires, OpenCalls, Unresolved
<1>7. ASSUME NEW c \in Calls, Return(c) PROVE UNCHANGED Exchange!vars
  <2>1. OpenCalls' = OpenCalls
    BY <1>7 DEF Return, OpenCalls, Unresolved, TypeOK
  <2> QED
    BY <1>7, <2>1, InternalStep DEF Return
<1>8. ASSUME NEW i \in Cancels, NEW k \in Keys, CancelSignal(i, k) PROVE Exchange!Next
  <2>1. cancelled' = cancelled \cup pending[k] /\ UNCHANGED <<pc, outcome, reply>>
    BY <1>8 DEF CancelSignal
  <2>2. \A c \in pending[k] : c \in Calls /\ KeyOf[c] = k
    BY DEF PendingExact, TypeOK
  <2>3. \A c \in Calls : KeyOf[c] = k /\ Unresolved(c) => c \in pending[k] \/ c \in cancelled
    BY DEF PendingExact
  <2>4. \A c \in pending[k] : outcome[c] = "none" => Unresolved(c)
    BY <2>2 DEF PendingExact, Bookkeeping
  <2>5. \A c \in pending[k] : outcome[c] # "canceledByNM"
    BY <2>2 DEF Inv, OutcomeJustified, PendingExact, Bookkeeping
  <2>6. \A c \in OpenCalls : outcome[c] = "none"
    BY DEF OpenCalls, Unresolved, Bookkeeping
  <2>7. Withdrawn' = Withdrawn \cup {c \in OpenCalls : KeyOf[c] = k}
    BY <2>1, <2>2, <2>3, <2>4, <2>5, <2>6 DEF Withdrawn, OpenCalls
  <2>8. Exchange!Withdraw(k)
    BY <2>1, <2>7 DEF Exchange!Withdraw, Withdrawn, OpenCalls, Unresolved
  <2> QED
    BY <2>8 DEF Exchange!Next
<1>9. ASSUME NEW i \in Cancels, CancelNotify(i) PROVE UNCHANGED Exchange!vars
  BY <1>9, InternalStep DEF CancelNotify, OpenCalls, Unresolved
<1>10. ASSUME TakeRequest PROVE UNCHANGED Exchange!vars
  BY <1>10, InternalStep DEF TakeRequest, OpenCalls, Unresolved
<1>11. ASSUME NEW c \in Calls, NEW r \in Replies, Respond(c, r) PROVE Exchange!Next
  BY <1>11, DeliverGives DEF Respond, ResponderUnique
<1>12. ASSUME DropReceiver PROVE Exchange!Next
  <2>1. \A c \in {d \in Calls : Queued(d)} : reply[c] = "none"
    BY DEF ResponderUnique, Queued
  <2> QED
    BY <1>12, <2>1, DeliverGives DEF DropReceiver, Replies
<1>13. ASSUME RecvNotice PROVE UNCHANGED Exchange!vars
  BY <1>13, InternalStep DEF RecvNotice, OpenCalls, Unresolved
<1>14. CASE UNCHANGED vars
  BY <1>14, InternalStep DEF vars, OpenCalls, Unresolved
<1> QED
  BY <1>1, <1>2, <1>3, <1>4, <1>5, <1>6, <1>7, <1>8, <1>9, <1>10, <1>11, <1>12, <1>13, <1>14
     DEF Next, GetSecretsStep

\* The agent implements the exchange: every request is answered at most once,
\* with its own consumer's reply, a refusal, or, once withdrawn, as cancelled;
\* and a withdrawal takes exactly the open requests of its key.
THEOREM AgentImplementsExchange == Spec => ImplementsExchange
<1>1. Init => Exchange!Init
  BY InitRefines
<1>2. Inv /\ [Next]_vars => [Exchange!Next]_(Exchange!vars)
  BY StepRefines
<1> QED
  BY <1>1, <1>2, Invariance, PTL DEF Spec, ImplementsExchange, Exchange!Spec

=============================================================================
