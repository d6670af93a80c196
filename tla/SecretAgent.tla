---------------------------- MODULE SecretAgent ----------------------------
(***************************************************************************)
(* The secret agent that nmrs serves to NetworkManager (agent/iface.rs,    *)
(* agent/request.rs).  NetworkManager calls GetSecrets and                 *)
(* CancelGetSecrets on it; each call runs in a task of its own.  The       *)
(* application that uses the library (the consumer) takes SecretRequests   *)
(* from a bounded channel and answers each through its SecretResponder.    *)
(*                                                                         *)
(* A call to get_secrets goes through the phases                           *)
(*                                                                         *)
(*   idle -> called -> registered -> [sending ->] waiting -> leaving -> done *)
(*                                                                         *)
(* and may jump to "leaving" from any phase after "registered".  Each      *)
(* action of a call is the code between two points where another thread or *)
(* task can get in.                                                        *)
(***************************************************************************)
EXTENDS Integers, Sequences, FiniteSets

CONSTANTS Calls,       \* GetSecrets calls NetworkManager may make
          Cancels,     \* CancelGetSecrets calls NetworkManager may make
          Keys,        \* (connection path, setting name) pairs
          KeyOf,       \* KeyOf[c]: the key call c asks secrets for
          QueueDepth   \* buffer of the request channel (with_queue_depth)

ASSUME ConstantsAssumption ==
    /\ KeyOf \in [Calls -> Keys]
    /\ QueueDepth \in Nat

Phases   == {"idle", "called", "registered", "sending", "waiting", "leaving", "done"}
Replies  == {"secrets", "userCanceled", "noSecrets"}
Outcomes == {"secrets", "userCanceled", "noSecrets",
             "canceledByNM", "channelClosed", "timedOut"}

VARIABLES
    pc,         \* phase of each GetSecrets call
    outcome,    \* what each call returns to NetworkManager, "none" until resolved
    pending,    \* PendingMap: key -> ids of the calls a cancel can still find
    cancelled,  \* calls whose cancel_tx has been used
    reply,      \* value in each call's reply channel, "none" when empty
    timer,      \* each call's response timer
    queue,      \* the request channel, oldest request first
    held,       \* requests the consumer took and has not answered
    open,       \* whether the consumer still has its Receiver
    cpc,        \* phase of each CancelGetSecrets call
    hit,        \* the requests each CancelGetSecrets call took from pending
    notices,    \* the channel of CancelReasons
    seen        \* CancelReasons the consumer has received

handlerVars == <<pc, outcome, timer>>
consumerVars == <<held, open>>
cancelVars == <<cpc, hit, notices>>
vars == <<pc, outcome, pending, cancelled, reply, timer, queue, held, open,
          cpc, hit, notices, seen>>

TypeOK ==
    /\ pc \in [Calls -> Phases]
    /\ outcome \in [Calls -> Outcomes \cup {"none"}]
    /\ pending \in [Keys -> SUBSET Calls]
    /\ cancelled \subseteq Calls
    /\ reply \in [Calls -> Replies \cup {"none"}]
    /\ timer \in [Calls -> {"off", "armed", "fired"}]
    /\ queue \in Seq(Calls)
    /\ held \subseteq Calls
    /\ open \in BOOLEAN
    /\ cpc \in [Cancels -> {"idle", "signalled", "done"}]
    /\ hit \in [Cancels -> SUBSET Calls]
    /\ notices \in Seq(Cancels)
    /\ seen \subseteq Cancels

Init ==
    /\ pc = [c \in Calls |-> "idle"]
    /\ outcome = [c \in Calls |-> "none"]
    /\ pending = [k \in Keys |-> {}]
    /\ cancelled = {}
    /\ reply = [c \in Calls |-> "none"]
    /\ timer = [c \in Calls |-> "off"]
    /\ queue = << >>
    /\ held = {}
    /\ open = TRUE
    /\ cpc = [i \in Cancels |-> "idle"]
    /\ hit = [i \in Cancels |-> {}]
    /\ notices = << >>
    /\ seen = {}

-----------------------------------------------------------------------------
(* The pending map.  A key without requests is not in the map.             *)

\* entry(key).or_default().push((request_id, cancel_tx))
Track(c) == pending' = [pending EXCEPT ![KeyOf[c]] = @ \cup {c}]

\* pending.remove(&key)
Forget(k) == pending' = [pending EXCEPT ![k] = {}]

\* Fault: a call that returns removes every request of its key.
RemoveKey(c) == Forget(KeyOf[c])

\* remove_pending_request: the entry with this id only
RemovePending(c) == pending' = [pending EXCEPT ![KeyOf[c]] = @ \ {c}]

(* The bounded channel of the futures crate.  Every request is sent by a   *)
(* sender of its own, which always has one free slot: the request is in    *)
(* the queue at once and its sender parks while QueueDepth or more requests *)
(* are ahead of it.                                                        *)

Queued(c) == \E i \in DOMAIN queue : queue[i] = c
Parked(c) == \E i \in DOMAIN queue : queue[i] = c /\ i > QueueDepth

\* A reply channel accepts a value until its call has returned.
Deliver(S, r) ==
    reply' = [c \in Calls |-> IF c \in S /\ pc[c] # "done" THEN r ELSE reply[c]]

-----------------------------------------------------------------------------
(* GetSecrets.                                                             *)

\* NetworkManager makes the call; its task has not run yet.
Call(c) ==
    /\ pc[c] = "idle"
    /\ pc' = [pc EXCEPT ![c] = "called"]
    /\ UNCHANGED <<outcome, pending, cancelled, reply, timer, queue, consumerVars,
                   cancelVars, seen>>

\* The task of the call records the request, under the lock of the map.
Register(c) ==
    /\ pc[c] = "called"
    /\ pc' = [pc EXCEPT ![c] = "registered"]
    /\ Track(c)
    /\ UNCHANGED <<outcome, cancelled, reply, timer, queue, consumerVars,
                   cancelVars, seen>>

Resolve(c, o) ==
    /\ outcome' = [outcome EXCEPT ![c] = o]
    /\ pc' = [pc EXCEPT ![c] = "leaving"]
    /\ UNCHANGED <<timer>>

\* Fault: the timer is never started.
StartWaitingUntimed(c) ==
    /\ pc' = [pc EXCEPT ![c] = "waiting"]
    /\ UNCHANGED <<timer, outcome>>

StartWaiting(c) ==
    /\ pc' = [pc EXCEPT ![c] = "waiting"]
    /\ timer' = [timer EXCEPT ![c] = "armed"]
    /\ UNCHANGED outcome

\* Fault: the request is fed to the channel without waiting for room.
SendUnflushed(c) ==
    /\ pc[c] = "registered"
    /\ c \notin cancelled
    /\ open
    /\ queue' = Append(queue, c)
    /\ StartWaiting(c)
    /\ UNCHANGED <<pending, cancelled, reply, consumerVars, cancelVars, seen>>

\* First poll of select(cancel_rx, send_request): the cancellation is looked
\* at first, and then the request is dropped without having been sent.
Send(c) ==
    /\ pc[c] = "registered"
    /\ \/ /\ c \in cancelled
          /\ Resolve(c, "canceledByNM")
          /\ UNCHANGED queue
       \/ /\ c \notin cancelled
          /\ ~open
          /\ Resolve(c, "channelClosed")
          /\ UNCHANGED queue
       \/ /\ c \notin cancelled
          /\ open
          /\ queue' = Append(queue, c)
          /\ IF Len(queue) < QueueDepth
             THEN StartWaiting(c)
             ELSE /\ pc' = [pc EXCEPT ![c] = "sending"]
                  /\ UNCHANGED <<outcome, timer>>
    /\ UNCHANGED <<pending, cancelled, reply, consumerVars, cancelVars, seen>>

\* Fault: the send is awaited without looking at the cancellation.
PollSendOnly(c) ==
    /\ pc[c] = "sending"
    /\ ~Parked(c)
    /\ StartWaiting(c)
    /\ UNCHANGED <<pending, cancelled, reply, queue, consumerVars, cancelVars, seen>>

\* A later poll of that select.  A cancelled call abandons the send, but the
\* request stays in the queue.  The response timer starts when the send ends.
PollSend(c) ==
    /\ pc[c] = "sending"
    /\ \/ /\ c \in cancelled
          /\ Resolve(c, "canceledByNM")
       \/ /\ c \notin cancelled
          /\ ~Parked(c)
          /\ StartWaiting(c)
    /\ UNCHANGED <<pending, cancelled, reply, queue, consumerVars, cancelVars, seen>>

\* Fault: the reply is looked at before the cancellation.
PollWaitReplyFirst(c) ==
    /\ pc[c] = "waiting"
    /\ \/ reply[c] # "none" /\ Resolve(c, reply[c])
       \/ reply[c] = "none" /\ c \in cancelled /\ Resolve(c, "canceledByNM")
    /\ UNCHANGED <<pending, cancelled, reply, queue, consumerVars, cancelVars, seen>>

\* Fault: the timer is looked at before the reply.
PollWaitTimerFirst(c) ==
    /\ pc[c] = "waiting"
    /\ \/ c \in cancelled /\ Resolve(c, "canceledByNM")
       \/ c \notin cancelled /\ timer[c] = "fired" /\ Resolve(c, "timedOut")
       \/ /\ c \notin cancelled /\ timer[c] # "fired"
          /\ reply[c] # "none" /\ Resolve(c, reply[c])
    /\ UNCHANGED <<pending, cancelled, reply, queue, consumerVars, cancelVars, seen>>

\* A poll of select(cancel_rx, select(reply_rx, timeout)): cancellation
\* before reply, reply before timeout.
PollWait(c) ==
    /\ pc[c] = "waiting"
    /\ \/ /\ c \in cancelled
          /\ Resolve(c, "canceledByNM")
       \/ /\ c \notin cancelled
          /\ reply[c] # "none"
          /\ Resolve(c, reply[c])
       \/ /\ c \notin cancelled
          /\ reply[c] = "none"
          /\ timer[c] = "fired"
          /\ Resolve(c, "timedOut")
    /\ UNCHANGED <<pending, cancelled, reply, queue, consumerVars, cancelVars, seen>>

TimerFires(c) ==
    /\ pc[c] = "waiting"
    /\ timer[c] = "armed"
    /\ timer' = [timer EXCEPT ![c] = "fired"]
    /\ UNCHANGED <<pc, outcome, pending, cancelled, reply, queue, consumerVars,
                   cancelVars, seen>>

\* The call takes itself out of the map and returns: its receivers close.
Return(c) ==
    /\ pc[c] = "leaving"
    /\ pc' = [pc EXCEPT ![c] = "done"]
    /\ RemovePending(c)
    /\ UNCHANGED <<outcome, cancelled, reply, timer, queue, consumerVars,
                   cancelVars, seen>>

-----------------------------------------------------------------------------
(* CancelGetSecrets.  NetworkManager sends it for a call it has made; by   *)
(* the time the handler runs, that call may have been answered.            *)

\* Fault: only one of the requests of the key is cancelled.
CancelSignalOne(i, k) ==
    /\ cpc[i] = "idle"
    /\ \E c \in pending[k] :
          /\ hit' = [hit EXCEPT ![i] = {c}]
          /\ cancelled' = cancelled \cup {c}
    /\ cpc' = [cpc EXCEPT ![i] = "signalled"]
    /\ Forget(k)
    /\ UNCHANGED <<handlerVars, reply, queue, consumerVars, notices, seen>>

CancelSignal(i, k) ==
    /\ cpc[i] = "idle"
    /\ \E c \in Calls : KeyOf[c] = k /\ pc[c] # "idle"
    /\ cpc' = [cpc EXCEPT ![i] = "signalled"]
    /\ hit' = [hit EXCEPT ![i] = pending[k]]
    /\ cancelled' = cancelled \cup pending[k]
    /\ Forget(k)
    /\ UNCHANGED <<handlerVars, reply, queue, consumerVars, notices, seen>>

CancelNotify(i) ==
    /\ cpc[i] = "signalled"
    /\ cpc' = [cpc EXCEPT ![i] = "done"]
    /\ notices' = Append(notices, i)
    /\ UNCHANGED <<handlerVars, pending, cancelled, reply, queue, consumerVars, hit, seen>>

-----------------------------------------------------------------------------
(* The consumer.                                                           *)

TakeRequest ==
    /\ open
    /\ queue # << >>
    /\ held' = held \cup {Head(queue)}
    /\ queue' = Tail(queue)
    /\ UNCHANGED <<handlerVars, pending, cancelled, reply, open, cancelVars, seen>>

\* A response method consumes the responder; dropping it replies noSecrets.
Respond(c, r) ==
    /\ c \in held
    /\ held' = held \ {c}
    /\ Deliver({c}, r)
    /\ UNCHANGED <<handlerVars, pending, cancelled, queue, open, cancelVars, seen>>

\* Dropping the Receiver drops the requests in the queue and their responders.
DropReceiver ==
    /\ open
    /\ open' = FALSE
    /\ queue' = << >>
    /\ Deliver({c \in Calls : Queued(c)}, "noSecrets")
    /\ UNCHANGED <<handlerVars, pending, cancelled, held, cancelVars, seen>>

RecvNotice ==
    /\ notices # << >>
    /\ seen' = seen \cup {Head(notices)}
    /\ notices' = Tail(notices)
    /\ UNCHANGED <<handlerVars, pending, cancelled, reply, queue, consumerVars, cpc, hit>>

-----------------------------------------------------------------------------

GetSecretsStep(c) ==
    Register(c) \/ Send(c) \/ PollSend(c) \/ PollWait(c) \/ Return(c)

Next ==
    \/ \E c \in Calls : Call(c) \/ GetSecretsStep(c) \/ TimerFires(c)
    \/ \E c \in Calls, r \in Replies : Respond(c, r)
    \/ \E i \in Cancels : CancelNotify(i) \/ \E k \in Keys : CancelSignal(i, k)
    \/ TakeRequest
    \/ DropReceiver
    \/ RecvNotice

Spec == Init /\ [][Next]_vars

\* The executor polls every task that can make progress and every armed timer
\* fires.  Nothing is assumed of NetworkManager or of the consumer.
Fairness ==
    /\ \A c \in Calls : WF_vars(GetSecretsStep(c)) /\ WF_vars(TimerFires(c))
    /\ \A i \in Cancels : WF_vars(CancelNotify(i))

FairSpec == Spec /\ Fairness

-----------------------------------------------------------------------------
(* Properties.                                                             *)

Unresolved(c) == pc[c] \in {"registered", "sending", "waiting"}

\* The pending map holds exactly the calls a cancellation can still reach:
\* every call between its registration and its return that no cancellation
\* took, each under its own key.
PendingExact ==
    /\ \A c \in Calls :
         c \in pending[KeyOf[c]] <=> (Unresolved(c) \/ pc[c] = "leaving") /\ c \notin cancelled
    /\ \A k \in Keys : \A c \in pending[k] : KeyOf[c] = k

\* A request is at most once in the queue, and in one of: not yet sent, queued,
\* held by the consumer, answered.  The responder of a call is never used twice.
ResponderUnique ==
    /\ \A i, j \in DOMAIN queue : queue[i] = queue[j] => i = j
    /\ \A c \in held : ~Queued(c) /\ reply[c] = "none"
    /\ \A i \in DOMAIN queue : reply[queue[i]] = "none"

\* Back-pressure: beyond the depth of the queue there are only requests whose
\* call is still held back in send, or was cancelled there; a call waits for
\* its reply, with its timer running, only once its send has gone through.
BackPressure ==
    /\ \A i \in DOMAIN queue : i > QueueDepth =>
          pc[queue[i]] = "sending" \/ queue[i] \in cancelled
    /\ \A c \in Calls : pc[c] = "waiting" => ~Parked(c) /\ timer[c] # "off"

\* What a call tells NetworkManager is what happened to it: secrets and user
\* refusals come from its own responder, a timeout from its timer, and it is
\* cancelled only when a CancelGetSecrets took that very call.
OutcomeJustified ==
    \A c \in Calls :
      /\ outcome[c] \in Replies => reply[c] = outcome[c]
      /\ outcome[c] = "timedOut" => timer[c] = "fired"
      /\ outcome[c] = "canceledByNM" => \E i \in Cancels : c \in hit[i]
      /\ outcome[c] = "channelClosed" => ~open

\* What the proofs of the properties rest on: a call has an outcome from the
\* moment it is leaving; before its send its responder is nowhere; what the
\* cancellations took from the map is what is cancelled.
Bookkeeping ==
    /\ \A c \in Calls :
         /\ outcome[c] # "none" <=> pc[c] \in {"leaving", "done"}
         /\ pc[c] \in {"idle", "called", "registered"} =>
               ~Queued(c) /\ c \notin held /\ reply[c] = "none"
         /\ pc[c] \in {"idle", "called"} => c \notin cancelled
    /\ \A c \in Calls : c \in cancelled <=> \E i \in Cancels : c \in hit[i]
    /\ \A i \in Cancels : cpc[i] = "idle" => hit[i] = {}

Inv ==
    /\ TypeOK
    /\ Bookkeeping
    /\ PendingExact
    /\ ResponderUnique
    /\ BackPressure
    /\ OutcomeJustified

\* Once a cancellation has taken an unresolved call, nothing but the
\* cancellation is reported for it, whatever the consumer or the timer do.
CancelWins ==
    [][\A i \in Cancels : \A c \in hit[i] :
          outcome[c] = "none" /\ outcome'[c] # "none" => outcome'[c] = "canceledByNM"]_vars

\* An answer that the responder gave before its call was resolved is what the
\* call resolves with, unless a cancellation took it: the timer may have fired
\* too, and the consumer may be gone.  A call that reports a closed channel is
\* one whose responder nobody has or will ever have (get_secrets, both selects).
AcceptedReplyDelivered ==
    /\ [](\A c \in Calls : outcome[c] = "channelClosed" => reply[c] = "none")
    /\ [][\A c \in Calls :
            reply[c] # "none" /\ outcome[c] = "none" /\ outcome'[c] # "none" =>
                outcome'[c] = reply[c] \/ c \in cancelled]_vars

\* A cancelled call returns, also while the queue is full and the consumer does
\* nothing ("cancellation must remain responsive", get_secrets).
CancelledReturns ==
    \A c \in Calls : c \in cancelled ~> pc[c] = "done"

\* With a consumer that keeps taking requests every call returns, answered or
\* timed out, even if the consumer answers none.
CallReturns ==
    WF_vars(TakeRequest) => \A c \in Calls : pc[c] = "called" ~> pc[c] = "done"

-----------------------------------------------------------------------------
(* The promise it implements.  A call is open from its registration until  *)
(* it has decided what to return; a cancellation that finds it later only  *)
(* finds its entry in the map.                                             *)

Exchange == INSTANCE SecretExchange WITH
    Given     <- Replies,
    Refusals  <- {"channelClosed", "timedOut"},
    open      <- {c \in Calls : Unresolved(c)},
    withdrawn <- {c \in cancelled : outcome[c] \in {"none", "canceledByNM"}},
    given     <- reply,
    answer    <- outcome

\* Every step of the agent is a step of the exchange or changes nothing of it:
\* one answer per call, its own, and cancellation of exactly the open calls of
\* the key.
ImplementsExchange == Exchange!Spec

=============================================================================
