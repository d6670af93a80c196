-------------------------- MODULE SecretExchange --------------------------
(***************************************************************************)
(* What the secret agent promises NetworkManager, without channels, tasks  *)
(* or locks: a request that was opened is answered at most once; a         *)
(* withdrawal takes every request that is open under its key and no other; *)
(* a withdrawn request is only ever answered as cancelled, and a request   *)
(* is answered with secrets only if they were given for that request.      *)
(***************************************************************************)
CONSTANTS Calls, Keys, KeyOf, Given, Refusals

VARIABLES open, withdrawn, given, answer

vars == <<open, withdrawn, given, answer>>

Init ==
    /\ open = {}
    /\ withdrawn = {}
    /\ given = [c \in Calls |-> "none"]
    /\ answer = [c \in Calls |-> "none"]

Open(c) ==
    /\ c \notin open
    /\ answer[c] = "none"
    /\ open' = open \cup {c}
    /\ UNCHANGED <<withdrawn, given, answer>>

\* All the open requests of the key, those withdrawn before included.
Withdraw(k) ==
    /\ withdrawn' = withdrawn \cup {c \in open : KeyOf[c] = k}
    /\ UNCHANGED <<open, given, answer>>

\* The consumer gives its answers, one per request, several at once when it
\* goes away.
Give(S, g) ==
    /\ \A c \in S : given[c] = "none"
    /\ given' = [c \in Calls |-> IF c \in S THEN g ELSE given[c]]
    /\ UNCHANGED <<open, withdrawn, answer>>

Answer(c, a) ==
    /\ c \in open
    /\ open' = open \ {c}
    /\ answer' = [answer EXCEPT ![c] = a]
    /\ IF c \in withdrawn
       THEN a = "canceledByNM"
       ELSE a \in Refusals \/ (a \in Given /\ given[c] = a)
    /\ UNCHANGED <<withdrawn, given>>

Next ==
    \/ \E c \in Calls : Open(c)
    \/ \E k \in Keys : Withdraw(k)
    \/ \E S \in SUBSET Calls, g \in Given : Give(S, g)
    \/ \E c \in Calls, a \in Given \cup Refusals \cup {"canceledByNM"} : Answer(c, a)

Spec == Init /\ [][Next]_vars

=============================================================================
