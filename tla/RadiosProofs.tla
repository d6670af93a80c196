---------------------------- MODULE RadiosProofs ----------------------------
(***************************************************************************)
(* Theorems about Radios for every set of calls, of adapters and of hosts. *)
(***************************************************************************)
EXTENDS Radios, TLAPS

AllOps == {"none", "wireless", "wwan", "bluetooth", "airplane", "state", "interface"}
AllBranches == {"wifi", "wwan", "bt", "card"}

-----------------------------------------------------------------------------
(* The invariant.                                                          *)

Reading == BOOLEAN \X BOOLEAN \X BOOLEAN \X BOOLEAN

CallRec == [op : AllOps, on : BOOLEAN, known : SUBSET {"wifi", "modem", "unknown"},
         at : [AllBranches -> Stages], listed : SUBSET Adapters, left : SUBSET Adapters,
         seen : [Adapters -> BOOLEAN],
         read : [{"wifi", "wwan", "bt"} -> Reading],
         missed : BOOLEAN, result : Over \cup {"none"}, calm : BOOLEAN]

\* The types, those of a call in full.
Typed ==
    /\ types \subseteq {"wifi", "modem"}
    /\ switch \in [NmRadios -> BOOLEAN]
    /\ killed \subseteq {"wifi", "wwan", "bt"}
    /\ soft \in BOOLEAN /\ bluez \in BOOLEAN
    /\ power \in [Adapters -> BOOLEAN]
    /\ asked \in [Adapters -> SUBSET BOOLEAN]
    /\ card \in [auto : BOOLEAN, active : BOOLEAN]
    /\ changes \in 0 .. MaxChanges
    /\ call \in [Calls -> CallRec]

\* Where the branches of a call can be: those of its operation have started
\* and no other has, and all have ended when the call has answered.
Formed(c) ==
    /\ \A b \in AllBranches : call[c].at[b] # "none" <=> b \in Branches(call[c].op)
    /\ \A r \in NmRadios : call[c].at[r] \in {"none", "types", "todo", "ok", "failed"}
    /\ call[c].at["card"] \in {"none", "todo", "down", "ok", "failed", "not found", "not wifi"}
    /\ call[c].at["bt"] \in
          IF call[c].op = "state" THEN {"types", "todo", "toggle", "ok"}
          ELSE {"none", "types", "todo", "list", "toggle", "wait", "verify", "ok",
                "unavailable", "toggle failed"}
    /\ call[c].result # "none" =>
          call[c].op # "none" /\ \A b \in Branches(call[c].op) : call[c].at[b] \in Over
    /\ call[c].op = "none" => ~call[c].calm

\* What a call knows: the device types once a branch is past asking for them,
\* and the adapters once it has listed them.
Knows(c) ==
    /\ call[c].op \in {"airplane", "state"} /\ call[c].result = "none" =>
          \A b \in Branches(call[c].op) :
              call[c].at[b] # "types" => call[c].known \in {types, Unknown}
    /\ call[c].at["bt"] \in {"toggle", "wait", "verify"} => call[c].listed = Adapters
    /\ call[c].at["bt"] \in {"toggle", "wait", "verify", "ok"} /\ call[c].op # "state" =>
          Adapters # {}

\* A call says it failed only for a radio of NetworkManager or, on a host that
\* has neither Wi-Fi nor a modem, for Bluetooth.
Blames(c) ==
    call[c].op = "airplane" /\ call[c].result \notin {"none", "ok"} =>
        \/ \E r \in NmRadios : call[c].at[r] = "failed"
        \/ types = {} /\ call[c].at["bt"] = "toggle failed"

\* An answer of Ok needs every branch of NetworkManager, and every branch
\* of a call other than airplane mode, to have ended so.
Means(c) ==
    call[c].result = "ok" =>
        \A b \in Branches(call[c].op) :
            call[c].op # "airplane" \/ b \in NmRadios => call[c].at[b] = "ok"

\* Nobody else sets a radio while a call is calm.
Alone(c) == \A d \in Calls \ {c} : Active(d) => call[d].op = "state"

\* A calm call finds the radios as they settled before it, except for the
\* power it asks for itself.
Stable(c) ==
    IF call[c].op # "state" /\ "bt" \in Branches(call[c].op)
    THEN \A a \in Adapters : asked[a] \subseteq {RadioOn(c)}
    ELSE Settled

\* The power of the adapters moves toward the value asked for: it is what the
\* caches show of it at least, and once one adapter has accepted to be switched
\* on rfkill does not block them.
Powers(c) ==
    call[c].op # "state" =>
        /\ call[c].at["bt"] = "toggle" /\ RadioOn(c) /\ ~call[c].missed =>
              ~soft \/ call[c].left = Adapters
        /\ call[c].at["bt"] \in {"wait", "verify", "ok"} /\ RadioOn(c) => ~soft
        /\ call[c].at["bt"] \in {"wait", "verify"} =>
              \A a \in Adapters : call[c].seen[a] = RadioOn(c) => power[a] = RadioOn(c)
        /\ call[c].at["bt"] = "ok" => \A a \in Adapters : power[a] = RadioOn(c)

\* A switch that was set has the value, and an interface that was switched off
\* will not connect by itself.
Sets(c) ==
    /\ call[c].op \notin {"state", "interface"} =>
          \A r \in NmRadios : call[c].at[r] = "ok" => switch[r] = RadioOn(c)
    /\ call[c].op = "interface" /\ ~call[c].on =>
          /\ call[c].at["card"] \in {"down", "ok"} => ~card.auto
          /\ call[c].at["card"] = "ok" => ~card.active

\* What a reading says of a radio of NetworkManager and of Bluetooth: never a
\* block or a power that is not there, and all there is when all could be read.
SwitchSaid(x, r) ==
    /\ x[1] = switch[r]
    /\ r \notin killed => x[2]
    /\ x[4] => x[2] = (r \notin killed)
    /\ DeviceType[r] \in types => x[3]

BluetoothSaid(x) ==
    /\ bluez
    /\ x[1] => \E a \in Adapters : power[a]
    /\ "bt" \notin killed => x[2]
    /\ x[4] => /\ x[1] = (\E a \in Adapters : power[a])
               /\ x[2] = ("bt" \notin killed)

\* What a calm reader has read is so, and the adapters it has passed are off
\* unless one could not be read.
Reads(c) ==
    call[c].op = "state" =>
        /\ \A r \in NmRadios : call[c].at[r] = "ok" => SwitchSaid(call[c].read[r], r)
        /\ call[c].at["bt"] \in {"types", "todo"} => ~call[c].read["bt"][3]
        /\ call[c].at["bt"] = "toggle" =>
              bluez /\ (~call[c].missed => \A a \in Adapters \ call[c].left : ~power[a])
        /\ call[c].at["bt"] = "ok" /\ call[c].read["bt"][3] =>
              BluetoothSaid(call[c].read["bt"])

Calmly(c) ==
    call[c].calm => Alone(c) /\ Stable(c) /\ Powers(c) /\ Sets(c) /\ Reads(c)

CallInv(c) == Formed(c) /\ Knows(c) /\ Blames(c) /\ Means(c) /\ Calmly(c)

Inv == Typed /\ \A c \in Calls : CallInv(c)

-----------------------------------------------------------------------------
(* What each step moves.                                                   *)

\* The calls other than c are as they were; c keeps its operation and whether
\* it is calm.
OnlyCall(c) ==
    /\ call' \in [Calls -> CallRec]
    /\ \A d \in Calls : d # c => call'[d] = call[d]
    /\ call'[c].op = call[c].op /\ call'[c].on = call[c].on /\ call'[c].calm = call[c].calm

\* FetchTypes learns the device types, or that they are not known.
LEMMA FetchTypesMoves ==
    ASSUME Typed, NEW c \in Calls, FetchTypes(c)
    PROVE  /\ OnlyCall(c) /\ UNCHANGED world
           /\ call'[c].known \in {types, Unknown}
           /\ call'[c].at = [b \in AllBranches |->
                               IF call[c].at[b] = "types" THEN "todo" ELSE call[c].at[b]]
           /\ \E b \in AllBranches : call[c].at[b] = "types"
           /\ call'[c].listed = call[c].listed /\ call'[c].left = call[c].left
           /\ call'[c].seen = call[c].seen /\ call'[c].read = call[c].read
           /\ call'[c].missed = call[c].missed /\ call'[c].result = call[c].result
<1> DEFINE at == [b \in AllBranches |->
                     IF call[c].at[b] = "types" THEN "todo" ELSE call[c].at[b]]
           new(k) == [call[c] EXCEPT !.known = k, !.at = at]
<1>1. DOMAIN Idle.at = AllBranches
  BY DEF Idle, AllBranches
<1>2. PICK k \in {types, Unknown} : call' = [call EXCEPT ![c] = new(k)]
  BY <1>1 DEF FetchTypes, Typed
<1>3. call[c] \in CallRec
  BY DEF Typed
<1>4. at \in [AllBranches -> Stages]
  BY <1>3 DEF CallRec, Stages, Over
<1>5. k \in SUBSET {"wifi", "modem", "unknown"}
  BY DEF Typed, Unknown
<1>6. new(k) \in CallRec
  BY <1>3, <1>4, <1>5 DEF CallRec
<1>7. /\ new(k).known = k /\ new(k).at = at
      /\ new(k).op = call[c].op /\ new(k).on = call[c].on /\ new(k).calm = call[c].calm
      /\ new(k).listed = call[c].listed /\ new(k).left = call[c].left
      /\ new(k).seen = call[c].seen /\ new(k).read = call[c].read
      /\ new(k).missed = call[c].missed /\ new(k).result = call[c].result
  BY <1>3 DEF CallRec
<1> HIDE DEF at, new
<1>8. /\ call' \in [Calls -> CallRec] /\ call'[c] = new(k)
      /\ \A d \in Calls : d # c => call'[d] = call[d]
  BY <1>2, <1>6 DEF Typed
<1> QED
  BY <1>1, <1>7, <1>8 DEF FetchTypes, OnlyCall, at

\* A call whose record becomes new.
LEMMA NewCall ==
    ASSUME Typed, NEW c \in Calls, NEW new \in CallRec, call' = [call EXCEPT ![c] = new]
    PROVE  /\ call' \in [Calls -> CallRec]
           /\ call'[c] = new
           /\ \A d \in Calls : d # c => call'[d] = call[d]
BY DEF Typed

\* A branch goes to another stage.
LEMMA StageMoves ==
    ASSUME Typed, NEW c \in Calls, NEW b \in AllBranches, NEW s \in Stages,
           call' = [call EXCEPT ![c].at[b] = s]
    PROVE  /\ OnlyCall(c)
           /\ call'[c].at = [call[c].at EXCEPT ![b] = s]
           /\ call'[c].known = call[c].known /\ call'[c].listed = call[c].listed
           /\ call'[c].left = call[c].left /\ call'[c].seen = call[c].seen
           /\ call'[c].read = call[c].read /\ call'[c].missed = call[c].missed
           /\ call'[c].result = call[c].result
<1> DEFINE atNew == [call[c].at EXCEPT ![b] = s]
           new == [call[c] EXCEPT !.at = atNew]
<1>1. call[c] \in CallRec
  BY DEF Typed
<1>2. atNew \in [AllBranches -> Stages]
  BY <1>1 DEF CallRec
<1>3. call' = [call EXCEPT ![c] = new]
  BY <1>1 DEF CallRec
<1> HIDE DEF atNew
<1>4. new \in CallRec
  BY <1>1, <1>2 DEF CallRec
<1>5. /\ new.at = atNew
      /\ new.known = call[c].known /\ new.listed = call[c].listed /\ new.left = call[c].left
      /\ new.seen = call[c].seen /\ new.read = call[c].read /\ new.missed = call[c].missed
      /\ new.result = call[c].result /\ new.op = call[c].op /\ new.on = call[c].on
      /\ new.calm = call[c].calm
  BY <1>1 DEF CallRec
<1> HIDE DEF new
<1>6. /\ call' \in [Calls -> CallRec] /\ call'[c] = new
      /\ \A d \in Calls : d # c => call'[d] = call[d]
  BY <1>3, <1>4, NewCall
<1> QED
  BY <1>5, <1>6 DEF OnlyCall, atNew

\* A switch is read.
LEMMA ReadMoves ==
    ASSUME Typed, NEW c \in Calls,
           NEW r \in NmRadios, NEW x \in Reading,
           call' = [call EXCEPT ![c].at[r] = "ok", ![c].read[r] = x]
    PROVE  /\ OnlyCall(c)
           /\ call'[c].at = [call[c].at EXCEPT ![r] = "ok"]
           /\ call'[c].read = [call[c].read EXCEPT ![r] = x]
           /\ call'[c].known = call[c].known /\ call'[c].listed = call[c].listed
           /\ call'[c].left = call[c].left /\ call'[c].seen = call[c].seen
           /\ call'[c].missed = call[c].missed /\ call'[c].result = call[c].result
<1> DEFINE atNew == [call[c].at EXCEPT ![r] = "ok"]
           readNew == [call[c].read EXCEPT ![r] = x]
           new == [call[c] EXCEPT !.at = atNew, !.read = readNew]
<1>1. call[c] \in CallRec
  BY DEF Typed
<1>2. /\ atNew \in [AllBranches -> Stages]
      /\ readNew \in [{"wifi", "wwan", "bt"} -> Reading]
  BY <1>1 DEF CallRec, NmRadios, AllBranches, Stages, Over
<1>3. call' = [call EXCEPT ![c] = new]
  BY <1>1 DEF CallRec
<1> HIDE DEF atNew, readNew
<1>4. new \in CallRec
  BY <1>1, <1>2 DEF CallRec
<1>5. /\ new.at = atNew
      /\ new.read = readNew
      /\ new.known = call[c].known /\ new.listed = call[c].listed /\ new.left = call[c].left
      /\ new.seen = call[c].seen /\ new.missed = call[c].missed /\ new.result = call[c].result
      /\ new.op = call[c].op /\ new.on = call[c].on /\ new.calm = call[c].calm
  BY <1>1 DEF CallRec
<1> HIDE DEF new
<1>6. /\ call' \in [Calls -> CallRec] /\ call'[c] = new
      /\ \A d \in Calls : d # c => call'[d] = call[d]
  BY <1>3, <1>4, NewCall
<1> QED
  BY <1>5, <1>6 DEF OnlyCall, atNew, readNew

\* The reader is done with the adapters.
LEMMA LastAdapterMoves ==
    ASSUME Typed, NEW c \in Calls, NEW x \in Reading,
           call' = [call EXCEPT ![c].left = {}, ![c].at["bt"] = "ok", ![c].read["bt"] = x]
    PROVE  /\ OnlyCall(c)
           /\ call'[c].left = {}
           /\ call'[c].at = [call[c].at EXCEPT !["bt"] = "ok"]
           /\ call'[c].read = [call[c].read EXCEPT !["bt"] = x]
           /\ call'[c].known = call[c].known /\ call'[c].listed = call[c].listed
           /\ call'[c].seen = call[c].seen /\ call'[c].missed = call[c].missed
           /\ call'[c].result = call[c].result
<1> DEFINE leftNew == {}
           atNew == [call[c].at EXCEPT !["bt"] = "ok"]
           readNew == [call[c].read EXCEPT !["bt"] = x]
           new == [call[c] EXCEPT !.left = leftNew, !.at = atNew, !.read = readNew]
<1>1. call[c] \in CallRec
  BY DEF Typed
<1>2. /\ leftNew \in SUBSET Adapters
      /\ atNew \in [AllBranches -> Stages]
      /\ readNew \in [{"wifi", "wwan", "bt"} -> Reading]
  BY <1>1 DEF CallRec, AllBranches, Stages, Over
<1>3. call' = [call EXCEPT ![c] = new]
  BY <1>1 DEF CallRec
<1> HIDE DEF leftNew, atNew, readNew
<1>4. new \in CallRec
  BY <1>1, <1>2 DEF CallRec
<1>5. /\ new.left = leftNew
      /\ new.at = atNew
      /\ new.read = readNew
      /\ new.known = call[c].known /\ new.listed = call[c].listed /\ new.seen = call[c].seen
      /\ new.missed = call[c].missed /\ new.result = call[c].result /\ new.op = call[c].op
      /\ new.on = call[c].on /\ new.calm = call[c].calm
  BY <1>1 DEF CallRec
<1> HIDE DEF new
<1>6. /\ call' \in [Calls -> CallRec] /\ call'[c] = new
      /\ \A d \in Calls : d # c => call'[d] = call[d]
  BY <1>3, <1>4, NewCall
<1> QED
  BY <1>5, <1>6 DEF OnlyCall, leftNew, atNew, readNew

\* The adapters are listed.
LEMMA ListMoves ==
    ASSUME Typed, NEW c \in Calls, NEW found \in SUBSET Adapters, NEW s \in Stages,
           call' = [call EXCEPT ![c].listed = found, ![c].left = found, ![c].at["bt"] = s]
    PROVE  /\ OnlyCall(c)
           /\ call'[c].listed = found
           /\ call'[c].left = found
           /\ call'[c].at = [call[c].at EXCEPT !["bt"] = s]
           /\ call'[c].known = call[c].known /\ call'[c].seen = call[c].seen
           /\ call'[c].read = call[c].read /\ call'[c].missed = call[c].missed
           /\ call'[c].result = call[c].result
<1> DEFINE listedNew == found
           leftNew == found
           atNew == [call[c].at EXCEPT !["bt"] = s]
           new == [call[c] EXCEPT !.listed = listedNew, !.left = leftNew, !.at = atNew]
<1>1. call[c] \in CallRec
  BY DEF Typed
<1>2. /\ listedNew \in SUBSET Adapters
      /\ leftNew \in SUBSET Adapters
      /\ atNew \in [AllBranches -> Stages]
  BY <1>1 DEF CallRec, AllBranches, Stages, Over
<1>3. call' = [call EXCEPT ![c] = new]
  BY <1>1 DEF CallRec
<1> HIDE DEF listedNew, leftNew, atNew
<1>4. new \in CallRec
  BY <1>1, <1>2 DEF CallRec
<1>5. /\ new.listed = listedNew
      /\ new.left = leftNew
      /\ new.at = atNew
      /\ new.known = call[c].known /\ new.seen = call[c].seen /\ new.read = call[c].read
      /\ new.missed = call[c].missed /\ new.result = call[c].result /\ new.op = call[c].op
      /\ new.on = call[c].on /\ new.calm = call[c].calm
  BY <1>1 DEF CallRec
<1> HIDE DEF new
<1>6. /\ call' \in [Calls -> CallRec] /\ call'[c] = new
      /\ \A d \in Calls : d # c => call'[d] = call[d]
  BY <1>3, <1>4, NewCall
<1> QED
  BY <1>5, <1>6 DEF OnlyCall, listedNew, leftNew, atNew

\* One adapter less is left.
LEMMA LeftMoves ==
    ASSUME Typed, NEW c \in Calls, NEW a \in Adapters,
           call' = [call EXCEPT ![c].left = @ \ {a}]
    PROVE  /\ OnlyCall(c)
           /\ call'[c].left = call[c].left \ {a}
           /\ call'[c].known = call[c].known /\ call'[c].at = call[c].at
           /\ call'[c].listed = call[c].listed /\ call'[c].seen = call[c].seen
           /\ call'[c].read = call[c].read /\ call'[c].missed = call[c].missed
           /\ call'[c].result = call[c].result
<1> DEFINE leftNew == call[c].left \ {a}
           new == [call[c] EXCEPT !.left = leftNew]
<1>1. call[c] \in CallRec
  BY DEF Typed
<1>2. leftNew \in SUBSET Adapters
  BY <1>1 DEF CallRec
<1>3. call' = [call EXCEPT ![c] = new]
  BY <1>1 DEF CallRec
<1> HIDE DEF leftNew
<1>4. new \in CallRec
  BY <1>1, <1>2 DEF CallRec
<1>5. /\ new.left = leftNew
      /\ new.known = call[c].known /\ new.at = call[c].at /\ new.listed = call[c].listed
      /\ new.seen = call[c].seen /\ new.read = call[c].read /\ new.missed = call[c].missed
      /\ new.result = call[c].result /\ new.op = call[c].op /\ new.on = call[c].on
      /\ new.calm = call[c].calm
  BY <1>1 DEF CallRec
<1> HIDE DEF new
<1>6. /\ call' \in [Calls -> CallRec] /\ call'[c] = new
      /\ \A d \in Calls : d # c => call'[d] = call[d]
  BY <1>3, <1>4, NewCall
<1> QED
  BY <1>5, <1>6 DEF OnlyCall, leftNew

\* An adapter refused, or could not be read.
LEMMA MissedMoves ==
    ASSUME Typed, NEW c \in Calls, NEW a \in Adapters, NEW m \in BOOLEAN,
           call' = [call EXCEPT ![c].left = @ \ {a}, ![c].missed = m]
    PROVE  /\ OnlyCall(c)
           /\ call'[c].left = call[c].left \ {a}
           /\ call'[c].missed = m
           /\ call'[c].known = call[c].known /\ call'[c].at = call[c].at
           /\ call'[c].listed = call[c].listed /\ call'[c].seen = call[c].seen
           /\ call'[c].read = call[c].read /\ call'[c].result = call[c].result
<1> DEFINE leftNew == call[c].left \ {a}
           missedNew == m
           new == [call[c] EXCEPT !.left = leftNew, !.missed = missedNew]
<1>1. call[c] \in CallRec
  BY DEF Typed
<1>2. /\ leftNew \in SUBSET Adapters
      /\ missedNew \in BOOLEAN
  BY <1>1 DEF CallRec
<1>3. call' = [call EXCEPT ![c] = new]
  BY <1>1 DEF CallRec
<1> HIDE DEF leftNew, missedNew
<1>4. new \in CallRec
  BY <1>1, <1>2 DEF CallRec
<1>5. /\ new.left = leftNew
      /\ new.missed = missedNew
      /\ new.known = call[c].known /\ new.at = call[c].at /\ new.listed = call[c].listed
      /\ new.seen = call[c].seen /\ new.read = call[c].read /\ new.result = call[c].result
      /\ new.op = call[c].op /\ new.on = call[c].on /\ new.calm = call[c].calm
  BY <1>1 DEF CallRec
<1> HIDE DEF new
<1>6. /\ call' \in [Calls -> CallRec] /\ call'[c] = new
      /\ \A d \in Calls : d # c => call'[d] = call[d]
  BY <1>3, <1>4, NewCall
<1> QED
  BY <1>5, <1>6 DEF OnlyCall, leftNew, missedNew

\* The wait for the adapters, or their verdict.
LEMMA CacheMoves ==
    ASSUME Typed, NEW c \in Calls,
           NEW s \in Stages, NEW e \in SUBSET Adapters, NEW v \in [Adapters -> BOOLEAN],
           call' = [call EXCEPT ![c].at["bt"] = s, ![c].left = e, ![c].seen = v]
    PROVE  /\ OnlyCall(c)
           /\ call'[c].at = [call[c].at EXCEPT !["bt"] = s]
           /\ call'[c].left = e
           /\ call'[c].seen = v
           /\ call'[c].known = call[c].known /\ call'[c].listed = call[c].listed
           /\ call'[c].read = call[c].read /\ call'[c].missed = call[c].missed
           /\ call'[c].result = call[c].result
<1> DEFINE atNew == [call[c].at EXCEPT !["bt"] = s]
           leftNew == e
           seenNew == v
           new == [call[c] EXCEPT !.at = atNew, !.left = leftNew, !.seen = seenNew]
<1>1. call[c] \in CallRec
  BY DEF Typed
<1>2. /\ atNew \in [AllBranches -> Stages]
      /\ leftNew \in SUBSET Adapters
      /\ seenNew \in [Adapters -> BOOLEAN]
  BY <1>1 DEF CallRec, AllBranches, Stages, Over
<1>3. call' = [call EXCEPT ![c] = new]
  BY <1>1 DEF CallRec
<1> HIDE DEF atNew, leftNew, seenNew
<1>4. new \in CallRec
  BY <1>1, <1>2 DEF CallRec
<1>5. /\ new.at = atNew
      /\ new.left = leftNew
      /\ new.seen = seenNew
      /\ new.known = call[c].known /\ new.listed = call[c].listed /\ new.read = call[c].read
      /\ new.missed = call[c].missed /\ new.result = call[c].result /\ new.op = call[c].op
      /\ new.on = call[c].on /\ new.calm = call[c].calm
  BY <1>1 DEF CallRec
<1> HIDE DEF new
<1>6. /\ call' \in [Calls -> CallRec] /\ call'[c] = new
      /\ \A d \in Calls : d # c => call'[d] = call[d]
  BY <1>3, <1>4, NewCall
<1> QED
  BY <1>5, <1>6 DEF OnlyCall, atNew, leftNew, seenNew

\* A cache is told of a change.
LEMMA SeenMoves ==
    ASSUME Typed, NEW c \in Calls, NEW a \in Adapters, NEW v \in BOOLEAN,
           call' = [call EXCEPT ![c].seen[a] = v]
    PROVE  /\ OnlyCall(c)
           /\ call'[c].seen = [call[c].seen EXCEPT ![a] = v]
           /\ call'[c].known = call[c].known /\ call'[c].at = call[c].at
           /\ call'[c].listed = call[c].listed /\ call'[c].left = call[c].left
           /\ call'[c].read = call[c].read /\ call'[c].missed = call[c].missed
           /\ call'[c].result = call[c].result
<1> DEFINE seenNew == [call[c].seen EXCEPT ![a] = v]
           new == [call[c] EXCEPT !.seen = seenNew]
<1>1. call[c] \in CallRec
  BY DEF Typed
<1>2. seenNew \in [Adapters -> BOOLEAN]
  BY <1>1 DEF CallRec
<1>3. call' = [call EXCEPT ![c] = new]
  BY <1>1 DEF CallRec
<1> HIDE DEF seenNew
<1>4. new \in CallRec
  BY <1>1, <1>2 DEF CallRec
<1>5. /\ new.seen = seenNew
      /\ new.known = call[c].known /\ new.at = call[c].at /\ new.listed = call[c].listed
      /\ new.left = call[c].left /\ new.read = call[c].read /\ new.missed = call[c].missed
      /\ new.result = call[c].result /\ new.op = call[c].op /\ new.on = call[c].on
      /\ new.calm = call[c].calm
  BY <1>1 DEF CallRec
<1> HIDE DEF new
<1>6. /\ call' \in [Calls -> CallRec] /\ call'[c] = new
      /\ \A d \in Calls : d # c => call'[d] = call[d]
  BY <1>3, <1>4, NewCall
<1> QED
  BY <1>5, <1>6 DEF OnlyCall, seenNew

\* The call answers.
LEMMA ResultMoves ==
    ASSUME Typed, NEW c \in Calls, NEW v \in Over,
           call' = [call EXCEPT ![c] =
                      [@ EXCEPT !.known = {}, !.listed = {}, !.missed = FALSE, !.result = v]]
    PROVE  /\ OnlyCall(c)
           /\ call'[c].known = {}
           /\ call'[c].listed = {}
           /\ call'[c].missed = FALSE
           /\ call'[c].result = v
           /\ call'[c].at = call[c].at /\ call'[c].left = call[c].left
           /\ call'[c].seen = call[c].seen /\ call'[c].read = call[c].read
<1> DEFINE knownNew == {}
           listedNew == {}
           missedNew == FALSE
           resultNew == v
           new == [call[c] EXCEPT !.known = knownNew, !.listed = listedNew,
                                  !.missed = missedNew, !.result = resultNew]
<1>1. call[c] \in CallRec
  BY DEF Typed
<1>2. /\ knownNew \in SUBSET {"wifi", "modem", "unknown"}
      /\ listedNew \in SUBSET Adapters
      /\ missedNew \in BOOLEAN
      /\ resultNew \in Over \cup {"none"}
  BY <1>1 DEF CallRec
<1>3. call' = [call EXCEPT ![c] = new]
  BY <1>1 DEF CallRec
<1> HIDE DEF knownNew, listedNew, missedNew, resultNew
<1>4. new \in CallRec
  BY <1>1, <1>2 DEF CallRec
<1>5. /\ new.known = knownNew
      /\ new.listed = listedNew
      /\ new.missed = missedNew
      /\ new.result = resultNew
      /\ new.at = call[c].at /\ new.left = call[c].left /\ new.seen = call[c].seen
      /\ new.read = call[c].read /\ new.op = call[c].op /\ new.on = call[c].on
      /\ new.calm = call[c].calm
  BY <1>1 DEF CallRec
<1> HIDE DEF new
<1>6. /\ call' \in [Calls -> CallRec] /\ call'[c] = new
      /\ \A d \in Calls : d # c => call'[d] = call[d]
  BY <1>3, <1>4, NewCall
<1> QED
  BY <1>5, <1>6 DEF OnlyCall, knownNew, listedNew, missedNew, resultNew

-----------------------------------------------------------------------------
(* The invariant is inductive.                                             *)

\* The branches of each operation.
LEMMA BranchesOf ==
    /\ Branches("none") = {} /\ Branches("wireless") = {"wifi"}
    /\ Branches("wwan") = {"wwan"} /\ Branches("bluetooth") = {"bt"}
    /\ Branches("interface") = {"card"}
    /\ Branches("airplane") = {"wifi", "wwan", "bt"}
    /\ Branches("state") = {"wifi", "wwan", "bt"}
BY DEF Branches

\* The invariant holds on every host before the first call.
LEMMA InitInv == Init => Inv
<1> SUFFICES ASSUME Init PROVE Inv
  OBVIOUS
<1> USE RadiosAssumption DEF RadiosAssumption
<1>1. Idle \in CallRec
  BY DEF Idle, CallRec, Reading, AllOps, AllBranches, Stages, Over
<1>2. Typed
  BY <1>1 DEF Init, Typed, NmRadios
<1>3. ASSUME NEW c \in Calls PROVE CallInv(c)
  <2>1. /\ call[c].op = "none" /\ call[c].result = "none" /\ ~call[c].calm
        /\ \A b \in AllBranches : call[c].at[b] = "none"
    BY DEF Init, Idle, AllBranches
  <2> QED
    BY <2>1, BranchesOf
       DEF CallInv, Formed, Knows, Blames, Means, Calmly, NmRadios, AllBranches
<1> QED
  BY <1>2, <1>3 DEF Inv

\* What a step of c may do to the rest: to read, and to move the bookkeeping of
\* c, changes no radio; what a setter changes is not what the others rest on.
Confined(c) ==
    /\ OnlyCall(c)
    /\ Active(c)
    /\ \/ UNCHANGED world
       \/ call[c].op # "state" /\ UNCHANGED types

\* The other calls keep their part of the invariant: while one of them is calm
\* only readers are active beside it.
LEMMA OthersKeep ==
    ASSUME Inv, NEW c \in Calls, Confined(c), NEW d \in Calls, d # c
    PROVE  CallInv(d)'
<1>1. call'[d] = call[d] /\ types' = types
  BY DEF Confined, OnlyCall, world
<1>2. Formed(d)' /\ Knows(d)' /\ Blames(d)' /\ Means(d)'
  <2> Formed(d) /\ Knows(d) /\ Blames(d) /\ Means(d)
    BY DEF Inv, CallInv
  <2>1. Formed(d)'
    BY <1>1 DEF Formed
  <2>2. Knows(d)'
    BY <1>1 DEF Knows
  <2>3. Blames(d)' /\ Means(d)'
    BY <1>1 DEF Blames, Means
  <2> QED
    BY <2>1, <2>2, <2>3
<1>3. ASSUME call[d].calm PROVE Calmly(d)'
  <2>1. Alone(d) /\ Stable(d) /\ Powers(d) /\ Sets(d) /\ Reads(d)
    BY <1>3 DEF Inv, CallInv, Calmly
  <2>2. UNCHANGED world
    BY <2>1 DEF Alone, Confined
  <2>3. Alone(d)'
    BY <1>1, <2>1 DEF Alone, Confined, OnlyCall, Active
  <2>4. Stable(d)' /\ Powers(d)' /\ Sets(d)' /\ Reads(d)'
    BY <1>1, <2>1, <2>2, ZenonT(60)
       DEF Stable, Powers, Sets, Reads, SwitchSaid, BluetoothSaid, Settled, RadioOn, world
  <2> QED
    BY <2>3, <2>4 DEF Calmly
<1> QED
  BY <1>1, <1>2, <1>3 DEF CallInv, Calmly

\* A call at work is active, and one that has answered is not at work.
LEMMA AtWork ==
    ASSUME Inv, NEW c \in Calls, NEW b \in AllBranches, call[c].at[b] \notin Over \cup {"none"}
    PROVE  Active(c) /\ b \in Branches(call[c].op)
BY BranchesOf DEF Inv, CallInv, Formed, Active

\* Who is alone stays so.
LEMMA AloneKept ==
    ASSUME NEW c \in Calls, OnlyCall(c), Alone(c)
    PROVE  Alone(c)'
BY DEF OnlyCall, Alone, Active

\* FetchTypes keeps the invariant of its call.
LEMMA FetchTypesKeeps ==
    ASSUME Inv, NEW c \in Calls, FetchTypes(c)
    PROVE  Confined(c) /\ CallInv(c)'
<1>1. /\ OnlyCall(c) /\ UNCHANGED world
      /\ call'[c].known \in {types, Unknown}
      /\ call'[c].at = [b \in AllBranches |->
                          IF call[c].at[b] = "types" THEN "todo" ELSE call[c].at[b]]
      /\ \E b \in AllBranches : call[c].at[b] = "types"
      /\ call'[c].listed = call[c].listed /\ call'[c].left = call[c].left
      /\ call'[c].seen = call[c].seen /\ call'[c].read = call[c].read
      /\ call'[c].missed = call[c].missed /\ call'[c].result = call[c].result
  BY FetchTypesMoves DEF Inv
<1>2. CallInv(c) /\ call[c].at \in [AllBranches -> Stages]
  BY DEF Inv, Typed, CallRec
<1>3. Active(c)
  BY <1>1, AtWork DEF Over
<1>4. Confined(c)
  BY <1>1, <1>3 DEF Confined
<1>5. Formed(c)'
  BY <1>1, <1>2, <1>3, ZenonT(60) DEF CallInv, Formed, OnlyCall, AllBranches, NmRadios, Active
<1>6. Knows(c)' /\ Blames(c)' /\ Means(c)'
  BY <1>1, <1>2, <1>3 DEF CallInv, Knows, Blames, Means, OnlyCall, AllBranches, world, Active
<1>7. ASSUME call[c].calm PROVE Calmly(c)'
  <2>1. Alone(c) /\ Stable(c) /\ Powers(c) /\ Sets(c) /\ Reads(c)
    BY <1>2, <1>7 DEF CallInv, Calmly
  <2>2. Stable(c)' /\ Powers(c)'
    BY <1>1, <2>1 DEF Stable, Powers, Settled, RadioOn, world, OnlyCall, AllBranches
  <2>3. Sets(c)'
    BY <1>1, <2>1 DEF Sets, RadioOn, world, OnlyCall, AllBranches, NmRadios
  <2>4. Reads(c)'
    BY <1>1, <2>1, ZenonT(60)
       DEF Reads, SwitchSaid, BluetoothSaid, world, OnlyCall, AllBranches, NmRadios
  <2> QED
    BY <1>1, <2>1, <2>2, <2>3, <2>4, AloneKept DEF Calmly
<1> QED
  BY <1>1, <1>4, <1>5, <1>6, <1>7 DEF CallInv, Calmly, OnlyCall

\* SetSwitch keeps the invariant of its call: the switch it writes is its own.
LEMMA SetSwitchKeeps ==
    ASSUME Inv, NEW c \in Calls, NEW r \in NmRadios, SetSwitch(c, r)
    PROVE  Confined(c) /\ CallInv(c)'
<1>1. PICK s \in {"ok", "failed"} :
         /\ call' = [call EXCEPT ![c].at[r] = s]
         /\ s = "ok" => switch' = [switch EXCEPT ![r] = RadioOn(c)]
         /\ s = "failed" => UNCHANGED switch
  BY DEF SetSwitch
<1>2. /\ OnlyCall(c)
      /\ call'[c].at = [call[c].at EXCEPT ![r] = s]
      /\ call'[c].listed = call[c].listed /\ call'[c].left = call[c].left
      /\ call'[c].seen = call[c].seen /\ call'[c].missed = call[c].missed
      /\ call'[c].read = call[c].read
      /\ call'[c].known = call[c].known /\ call'[c].result = call[c].result
  <2>1. Typed /\ r \in AllBranches /\ s \in Stages
    BY DEF Inv, NmRadios, AllBranches, Stages, Over
  <2> QED
    BY <1>1, <2>1, StageMoves
<1>3. /\ call[c].op # "state" /\ call[c].at[r] = "todo"
      /\ r \in AllBranches /\ r # "bt" /\ r # "card"
      /\ UNCHANGED <<types, killed, soft, bluez, power, asked, changes>>
  BY DEF SetSwitch, NmRadios, AllBranches
<1>4. CallInv(c) /\ call[c].at \in [AllBranches -> Stages] /\ switch \in [NmRadios -> BOOLEAN]
  BY DEF Inv, Typed, CallRec
<1>5. Active(c) /\ r \in Branches(call[c].op)
  BY <1>3, AtWork DEF Over
<1>6. Confined(c)
  BY <1>2, <1>3, <1>5 DEF Confined
<1>7. Formed(c)'
  BY <1>2, <1>3, <1>4, <1>5, ZenonT(60) DEF CallInv, Formed, OnlyCall, AllBranches, NmRadios, Active
<1>8. Knows(c)' /\ Blames(c)' /\ Means(c)'
  BY <1>2, <1>3, <1>4, <1>5 DEF CallInv, Knows, Blames, Means, OnlyCall, AllBranches, Active
<1>9. ASSUME call[c].calm PROVE Calmly(c)'
  <2>1. Alone(c) /\ Stable(c) /\ Powers(c) /\ Sets(c) /\ Reads(c)
    BY <1>4, <1>9 DEF CallInv, Calmly
  <2>2. Stable(c)' /\ Powers(c)'
    BY <1>2, <1>3, <1>4, <2>1 DEF Stable, Powers, Settled, RadioOn, OnlyCall, AllBranches
  <2>3. Sets(c)'
    <3>1. call[c].op # "interface"
      BY <1>5, BranchesOf DEF NmRadios
    <3>2. RadioOn(c)' = RadioOn(c) /\ call'[c].op = call[c].op
      BY <1>2 DEF RadioOn, OnlyCall
    <3>3. ASSUME NEW q \in NmRadios, call'[c].at[q] = "ok" PROVE switch'[q] = RadioOn(c)
      BY <1>1, <1>2, <1>3, <1>4, <2>1, <3>1, <3>3 DEF Sets, NmRadios, AllBranches
    <3> QED
      BY <3>1, <3>2, <3>3 DEF Sets
  <2>4. Reads(c)'
    BY <1>2, <1>3 DEF Reads, OnlyCall
  <2> QED
    BY <1>2, <2>1, <2>2, <2>3, <2>4, AloneKept DEF Calmly
<1> QED
  BY <1>2, <1>6, <1>7, <1>8, <1>9 DEF CallInv, Calmly, OnlyCall

\* ReadSwitch keeps the invariant of its call.
LEMMA ReadSwitchKeeps ==
    ASSUME Inv, NEW c \in Calls, NEW r \in NmRadios, ReadSwitch(c, r)
    PROVE  Confined(c) /\ CallInv(c)'
<1>1. /\ call[c].op = "state" /\ call[c].at[r] = "todo" /\ UNCHANGED world
      /\ r \in AllBranches /\ r # "bt" /\ r # "card"
  BY DEF ReadSwitch, NmRadios, AllBranches
<1>2. /\ CallInv(c) /\ Typed /\ call[c].at \in [AllBranches -> Stages]
      /\ call[c].read \in [{"wifi", "wwan", "bt"} -> Reading]
      /\ r \in {"wifi", "wwan", "bt"}
  BY DEF Inv, Typed, CallRec, NmRadios
<1>3. Active(c) /\ r \in Branches(call[c].op)
  BY <1>1, AtWork DEF Over
<1>4. ASSUME OnlyCall(c),
             NEW s \in {"ok", "failed"}, call'[c].at = [call[c].at EXCEPT ![r] = s],
             call'[c].known = call[c].known, call'[c].listed = call[c].listed,
             call'[c].left = call[c].left, call'[c].seen = call[c].seen,
             call'[c].missed = call[c].missed, call'[c].result = call[c].result,
             \A q \in {"wifi", "wwan", "bt"} : q # r => call'[c].read[q] = call[c].read[q],
             s = "ok" => SwitchSaid(call'[c].read[r], r)
      PROVE  Confined(c) /\ CallInv(c)'
  <2>1. Confined(c)
    BY <1>1, <1>3, <1>4 DEF Confined
  <2>2. Formed(c)'
    <3>1. /\ call'[c].op = call[c].op /\ call'[c].calm = call[c].calm
          /\ call'[c].result = "none" /\ call'[c].at = [call[c].at EXCEPT ![r] = s]
      BY <1>3, <1>4 DEF OnlyCall, Active
    <3> QED
      BY <1>1, <1>2, <1>3, <3>1 DEF CallInv, Formed, AllBranches, NmRadios
  <2>3. Knows(c)' /\ Blames(c)' /\ Means(c)'
    BY <1>1, <1>2, <1>3, <1>4
       DEF CallInv, Knows, Blames, Means, OnlyCall, AllBranches, Active, world
  <2>4. ASSUME call[c].calm PROVE Calmly(c)'
    <3>1. Alone(c) /\ Stable(c) /\ Reads(c)
      BY <1>2, <2>4 DEF CallInv, Calmly
    <3>2. Stable(c)' /\ Powers(c)' /\ Sets(c)'
      BY <1>1, <1>4, <3>1 DEF Stable, Powers, Sets, Settled, RadioOn, OnlyCall, world
    <3>3. ASSUME NEW q \in NmRadios, call'[c].at[q] = "ok"
          PROVE  SwitchSaid(call'[c].read[q], q)
      <4>1. CASE q = r
        BY <1>1, <1>2, <1>4, <3>3, <4>1
      <4>2. CASE q # r
        BY <1>1, <1>2, <1>4, <3>1, <3>3, <4>2 DEF Reads, NmRadios, AllBranches
      <4> QED
        BY <4>1, <4>2
    <3>4. call'[c].at["bt"] = call[c].at["bt"] /\ call'[c].read["bt"] = call[c].read["bt"]
      BY <1>1, <1>2, <1>4 DEF AllBranches
    <3>5. Reads(c)'
      BY <1>1, <1>4, <3>1, <3>3, <3>4 DEF Reads, SwitchSaid, BluetoothSaid, OnlyCall, world
    <3> QED
      BY <1>4, <3>1, <3>2, <3>5, AloneKept DEF Calmly
  <2> QED
    BY <1>4, <2>1, <2>2, <2>3, <2>4 DEF CallInv, Calmly, OnlyCall
<1>5. ASSUME NEW n \in {TRUE, r \notin killed}, NEW block \in HardBlocks(r),
             call' = [call EXCEPT ![c].at[r] = "ok", ![c].read[r] =
                <<switch[r], Reconcile(n, block), Present(call[c].known, r),
                  block = (r \in killed)>>]
      PROVE  Confined(c) /\ CallInv(c)'
  <2> DEFINE x == <<switch[r], Reconcile(n, block), Present(call[c].known, r),
                    block = (r \in killed)>>
  <2>1. /\ x \in Reading
        /\ x[1] = switch[r] /\ x[3] = Present(call[c].known, r)
        /\ r \notin killed => x[2]
        /\ x[4] => x[2] = (r \notin killed)
    BY <1>2 DEF Reading, Reconcile, HardBlocks, Present, Typed, NmRadios
  <2>2. call[c].known \in {types, Unknown}
    BY <1>1, <1>2, <1>3 DEF CallInv, Knows, Active
  <2>3. DeviceType[r] \in types => Present(call[c].known, r)
    BY <2>2 DEF Present
  <2> HIDE DEF x
  <2>4. call' = [call EXCEPT ![c].at[r] = "ok", ![c].read[r] = x]
    BY <1>5 DEF x
  <2>5. /\ OnlyCall(c)
        /\ call'[c].at = [call[c].at EXCEPT ![r] = "ok"]
        /\ call'[c].read = [call[c].read EXCEPT ![r] = x]
        /\ call'[c].known = call[c].known /\ call'[c].listed = call[c].listed
        /\ call'[c].left = call[c].left /\ call'[c].seen = call[c].seen
        /\ call'[c].missed = call[c].missed /\ call'[c].result = call[c].result
    BY <1>2, <2>1, <2>4, ReadMoves
  <2>6. /\ \A q \in {"wifi", "wwan", "bt"} : q # r => call'[c].read[q] = call[c].read[q]
        /\ call'[c].read[r] = x
    BY <1>2, <2>5
  <2>7. SwitchSaid(x, r)
    BY <2>1, <2>3 DEF SwitchSaid
  <2> QED
    BY <1>4, <2>5, <2>6, <2>7
<1>6. ASSUME call' = [call EXCEPT ![c].at[r] = "failed"]
      PROVE  Confined(c) /\ CallInv(c)'
  <2>1. r \in AllBranches /\ "failed" \in Stages
    BY <1>1 DEF Stages, Over
  <2>2. /\ OnlyCall(c)
        /\ call'[c].at = [call[c].at EXCEPT ![r] = "failed"]
        /\ call'[c].listed = call[c].listed /\ call'[c].left = call[c].left
        /\ call'[c].seen = call[c].seen /\ call'[c].missed = call[c].missed
        /\ call'[c].read = call[c].read
        /\ call'[c].known = call[c].known /\ call'[c].result = call[c].result
    BY <1>2, <1>6, <2>1, StageMoves
  <2> QED
    BY <1>4, <2>2
<1> QED
  BY <1>5, <1>6 DEF ReadSwitch

\* A step of the Bluetooth branch of a setter leaves what the invariant says of
\* the other branches.
LEMMA BluetoothStep ==
    ASSUME Inv, NEW c \in Calls, OnlyCall(c), call[c].op # "state",
           call[c].at["bt"] \in {"todo", "list", "toggle", "wait", "verify"},
           NEW s \in {"list", "toggle", "wait", "verify", "ok", "unavailable", "toggle failed"},
           call'[c].at = [call[c].at EXCEPT !["bt"] = s],
           call'[c].known = call[c].known, call'[c].result = call[c].result,
           s \in {"toggle", "wait", "verify"} => call'[c].listed = Adapters,
           s \in {"toggle", "wait", "verify", "ok"} => Adapters # {},
           UNCHANGED <<types, switch, killed, bluez, card, changes>>,
           call[c].calm /\ Stable(c) /\ Powers(c) => Stable(c)' /\ Powers(c)'
    PROVE  Confined(c) /\ CallInv(c)'
<1>1. /\ CallInv(c) /\ call[c].at \in [AllBranches -> Stages]
      /\ "bt" \in AllBranches /\ "bt" \notin NmRadios
  BY DEF Inv, Typed, CallRec, AllBranches, NmRadios
<1>2. Active(c) /\ "bt" \in Branches(call[c].op)
  BY <1>1, AtWork DEF Over
<1>3. /\ call'[c].op = call[c].op /\ call'[c].on = call[c].on /\ call'[c].calm = call[c].calm
      /\ call'[c].result = "none" /\ call[c].result = "none"
  BY <1>2 DEF OnlyCall, Active
<1>4. /\ call'[c].at["bt"] = s
      /\ \A b \in AllBranches : b # "bt" => call'[c].at[b] = call[c].at[b]
  BY <1>1
<1>5. Confined(c)
  BY <1>2 DEF Confined
<1>6. Formed(c)'
  BY <1>1, <1>2, <1>3, <1>4 DEF CallInv, Formed, AllBranches, NmRadios
<1>7. Knows(c)'
  BY <1>1, <1>2, <1>3, <1>4 DEF CallInv, Knows, AllBranches
<1>8. Blames(c)' /\ Means(c)'
  BY <1>3 DEF Blames, Means
<1>9. ASSUME call[c].calm PROVE Calmly(c)'
  <2>1. Alone(c) /\ Stable(c) /\ Powers(c) /\ Sets(c)
    BY <1>1, <1>9 DEF CallInv, Calmly
  <2>2. Sets(c)'
    BY <1>1, <1>3, <1>4, <2>1 DEF Sets, RadioOn, NmRadios, AllBranches
  <2>3. Reads(c)'
    BY <1>3 DEF Reads
  <2> QED
    BY <1>9, <2>1, <2>2, <2>3, AloneKept DEF Calmly
<1> QED
  BY <1>3, <1>5, <1>6, <1>7, <1>8, <1>9 DEF CallInv, Calmly

\* Rfkill keeps the invariant of its call.
LEMMA RfkillKeeps ==
    ASSUME Inv, NEW c \in Calls, Rfkill(c)
    PROVE  Confined(c) /\ CallInv(c)'
<1>1. /\ call[c].op # "state" /\ call[c].at["bt"] = "todo"
      /\ call' = [call EXCEPT ![c].at["bt"] = "list"]
      /\ UNCHANGED <<types, switch, killed, bluez, power, asked, card, changes>>
      /\ Typed /\ "bt" \in AllBranches /\ "list" \in Stages
      /\ call[c].at \in [AllBranches -> Stages]
  BY DEF Rfkill, Inv, Typed, CallRec, AllBranches, Stages
<1>2. /\ OnlyCall(c)
      /\ call'[c].at = [call[c].at EXCEPT !["bt"] = "list"]
      /\ call'[c].listed = call[c].listed /\ call'[c].left = call[c].left
      /\ call'[c].seen = call[c].seen /\ call'[c].missed = call[c].missed
      /\ call'[c].read = call[c].read
      /\ call'[c].known = call[c].known /\ call'[c].result = call[c].result
  BY <1>1, StageMoves
<1>3. "bt" \in Branches(call[c].op)
  BY <1>1, AtWork DEF Over
<1>4. ASSUME Stable(c) PROVE Stable(c)' /\ Powers(c)'
  BY <1>1, <1>2, <1>3, <1>4 DEF Stable, Powers, RadioOn, OnlyCall
<1> QED
  BY <1>1, <1>2, <1>4, BluetoothStep

\* EnumerateAdapters keeps the invariant of its call: it lists every adapter or
\* none.
LEMMA EnumerateKeeps ==
    ASSUME Inv, NEW c \in Calls, EnumerateAdapters(c)
    PROVE  Confined(c) /\ CallInv(c)'
<1>1. PICK found \in {{}, IF bluez THEN Adapters ELSE {}} :
        call' = [call EXCEPT
            ![c].listed = found, ![c].left = found,
            ![c].at["bt"] = IF found # {} THEN "toggle"
                            ELSE IF @ = "list" THEN "unavailable" ELSE "ok"]
  BY DEF EnumerateAdapters
<1> DEFINE s == IF found # {} THEN "toggle"
                ELSE IF call[c].at["bt"] = "list" THEN "unavailable" ELSE "ok"
<1>2. /\ Typed /\ CallInv(c) /\ UNCHANGED world
      /\ call[c].at["bt"] = IF call[c].op = "state" THEN "todo" ELSE "list"
      /\ call[c].at \in [AllBranches -> Stages] /\ "bt" \in AllBranches
      /\ found \in SUBSET Adapters /\ s \in Stages
  BY DEF EnumerateAdapters, Inv, Typed, CallRec, AllBranches, Stages, Over
<1>3. call' = [call EXCEPT ![c].listed = found, ![c].left = found, ![c].at["bt"] = s]
  BY <1>1
<1>4. /\ s \in {"toggle", "unavailable", "ok"}
      /\ s = "toggle" => found = Adapters /\ Adapters # {} /\ bluez
      /\ s = "ok" => call[c].op = "state"
      /\ s = "unavailable" => call[c].op # "state"
  BY <1>2
<1> HIDE DEF s
<1>5. /\ OnlyCall(c)
      /\ call'[c].listed = found /\ call'[c].left = found
      /\ call'[c].at = [call[c].at EXCEPT !["bt"] = s]
      /\ call'[c].known = call[c].known /\ call'[c].seen = call[c].seen
      /\ call'[c].read = call[c].read /\ call'[c].missed = call[c].missed
      /\ call'[c].result = call[c].result
  <2>1. Typed /\ found \in SUBSET Adapters /\ s \in Stages
    BY <1>2
  <2> QED
    BY <1>3, <2>1, ListMoves, ZenonT(60)
<1>6. CASE call[c].op # "state"
  <2>1. "bt" \in Branches(call[c].op)
    BY <1>2, <1>6, AtWork DEF Over
  <2>2. ASSUME Stable(c) PROVE Stable(c)' /\ Powers(c)'
    BY <1>2, <1>4, <1>5, <1>6, <2>1, <2>2 DEF Stable, Powers, RadioOn, OnlyCall, world
  <2> QED
    BY <1>2, <1>4, <1>5, <1>6, <2>2, BluetoothStep DEF world
<1>7. CASE call[c].op = "state"
  <2>1. Active(c) /\ "bt" \in Branches(call[c].op)
    BY <1>2, <1>7, AtWork DEF Over
  <2>2. Confined(c)
    BY <1>2, <1>5, <2>1 DEF Confined
  <2>3. /\ call'[c].op = "state" /\ call'[c].calm = call[c].calm
        /\ call'[c].result = "none" /\ call'[c].at["bt"] = s
        /\ \A b \in AllBranches : b # "bt" => call'[c].at[b] = call[c].at[b]
    BY <1>2, <1>5, <1>7, <2>1 DEF OnlyCall, Active
  <2>4. Formed(c)'
    BY <1>2, <1>4, <1>7, <2>1, <2>3 DEF CallInv, Formed, AllBranches, NmRadios
  <2>5. Knows(c)' /\ Blames(c)' /\ Means(c)'
    BY <1>2, <1>4, <1>5, <1>7, <2>1, <2>3
       DEF CallInv, Knows, Blames, Means, AllBranches, world, Active
  <2>6. ASSUME call[c].calm PROVE Calmly(c)'
    <3>1. Alone(c) /\ Stable(c) /\ Reads(c)
      BY <1>2, <2>6 DEF CallInv, Calmly
    <3>2. Stable(c)' /\ Powers(c)' /\ Sets(c)'
      BY <1>2, <1>7, <2>3, <3>1 DEF Stable, Powers, Sets, Settled, world
    <3>3. Reads(c)'
      <4>1. /\ call'[c].read = call[c].read /\ call'[c].left = found
            /\ UNCHANGED <<types, switch, killed, bluez, power>>
        BY <1>2, <1>5 DEF world
      <4>2. \A r \in NmRadios : call'[c].at[r] = call[c].at[r]
        BY <2>3 DEF NmRadios, AllBranches
      <4>3. ~call[c].read["bt"][3]
        BY <1>2, <1>7, <3>1 DEF Reads
      <4>4. s = "toggle" => bluez /\ found = Adapters
        BY <1>4
      <4>5. s \notin {"types", "todo"}
        BY <1>4
      <4> QED
        BY <1>7, <2>3, <3>1, <4>1, <4>2, <4>3, <4>4, <4>5 DEF Reads, SwitchSaid, BluetoothSaid
    <3> QED
      BY <1>5, <3>1, <3>2, <3>3, AloneKept DEF Calmly
  <2> QED
    BY <2>2, <2>3, <2>4, <2>5, <2>6 DEF CallInv, Calmly
<1> QED
  BY <1>6, <1>7

\* SetPowered keeps the invariant of its call: BlueZ accepts only the value
\* asked for, and to switch on only where rfkill does not block.
LEMMA SetPoweredKeeps ==
    ASSUME Inv, NEW c \in Calls, NEW a \in Adapters, SetPowered(c, a)
    PROVE  Confined(c) /\ CallInv(c)'
<1>1. /\ call[c].op # "state" /\ call[c].at["bt"] = "toggle"
      /\ UNCHANGED <<types, switch, killed, soft, bluez, power, card, changes>>
      /\ Typed /\ CallInv(c) /\ asked \in [Adapters -> SUBSET BOOLEAN]
      /\ call[c].at \in [AllBranches -> Stages] /\ "bt" \in AllBranches
  BY DEF SetPowered, Inv, Typed, CallRec, AllBranches
<1>2. "bt" \in Branches(call[c].op)
  BY <1>1, AtWork DEF Over
<1>3. call[c].listed = Adapters /\ Adapters # {}
  BY <1>1 DEF CallInv, Knows
<1>4. /\ OnlyCall(c)
      /\ call'[c].at = call[c].at /\ call'[c].listed = call[c].listed
      /\ call'[c].known = call[c].known /\ call'[c].result = call[c].result
      /\ \/ /\ ~(soft /\ RadioOn(c)) /\ asked' = [asked EXCEPT ![a] = {RadioOn(c)}]
         \/ call'[c].missed = TRUE /\ UNCHANGED asked
  <2>1. CASE /\ bluez /\ ~(soft /\ RadioOn(c))
             /\ asked' = [asked EXCEPT ![a] = {RadioOn(c)}]
             /\ call' = [call EXCEPT ![c].left = @ \ {a}]
    BY <1>1, <2>1, LeftMoves
  <2>2. CASE call' = [call EXCEPT ![c].left = @ \ {a}, ![c].missed = TRUE] /\ UNCHANGED asked
    <3>1. PICK m \in BOOLEAN : m = TRUE
      OBVIOUS
    <3>2. call' = [call EXCEPT ![c].left = @ \ {a}, ![c].missed = m]
      BY <2>2, <3>1
    <3> QED
      BY <1>1, <2>2, <3>1, <3>2, MissedMoves
  <2> QED
    BY <2>1, <2>2 DEF SetPowered
<1>5. call'[c].at = [call[c].at EXCEPT !["bt"] = "toggle"]
  BY <1>1, <1>4
<1>6. ASSUME Stable(c) PROVE Stable(c)' /\ Powers(c)'
  <2>1. RadioOn(c)' = RadioOn(c) /\ call'[c].op = call[c].op
    BY <1>4 DEF RadioOn, OnlyCall
  <2>2. Stable(c)'
    BY <1>1, <1>2, <1>4, <1>6, <2>1 DEF Stable
  <2>3. Powers(c)'
    BY <1>1, <1>4, <2>1 DEF Powers
  <2> QED
    BY <2>2, <2>3
<1> QED
  BY <1>1, <1>3, <1>4, <1>5, <1>6, BluetoothStep

\* JoinToggles keeps the invariant of its call: the caches start with what the
\* adapters are, and one adapter at least has accepted.
LEMMA JoinTogglesKeeps ==
    ASSUME Inv, NEW c \in Calls, JoinToggles(c)
    PROVE  Confined(c) /\ CallInv(c)'
<1>1. /\ call[c].op # "state" /\ call[c].at["bt"] = "toggle" /\ call[c].left = {}
      /\ UNCHANGED <<types, switch, killed, soft, bluez, power, asked, card, changes>>
      /\ Typed /\ CallInv(c) /\ power \in [Adapters -> BOOLEAN]
      /\ call[c].listed \in SUBSET Adapters /\ call[c].at \in [AllBranches -> Stages]
      /\ "wait" \in Stages /\ "toggle failed" \in Stages /\ "bt" \in AllBranches
  BY DEF JoinToggles, Inv, Typed, CallRec, AllBranches, Stages, Over, world
<1>2. "bt" \in Branches(call[c].op)
  BY <1>1, AtWork DEF Over
<1>3. call[c].listed = Adapters /\ Adapters # {}
  BY <1>1 DEF CallInv, Knows
<1>4. CASE call[c].missed
  <2>1. call' = [call EXCEPT ![c].at["bt"] = "toggle failed"]
    BY <1>4 DEF JoinToggles
  <2>2. /\ OnlyCall(c)
        /\ call'[c].at = [call[c].at EXCEPT !["bt"] = "toggle failed"]
        /\ call'[c].listed = call[c].listed
        /\ call'[c].known = call[c].known /\ call'[c].result = call[c].result
    BY <1>1, <2>1, StageMoves
  <2>3. ASSUME Stable(c) PROVE Stable(c)' /\ Powers(c)'
    <3>1. call'[c].at["bt"] = "toggle failed"
      BY <1>1, <2>2
    <3> QED
      BY <1>1, <1>2, <2>2, <2>3, <3>1 DEF Stable, Powers, RadioOn, OnlyCall
  <2> QED
    BY <1>1, <1>3, <2>2, <2>3, BluetoothStep
<1>5. CASE ~call[c].missed
  <2>1. call' = [call EXCEPT ![c].at["bt"] = "wait", ![c].left = call[c].listed,
                             ![c].seen = power]
    BY <1>5 DEF JoinToggles
  <2>2. /\ OnlyCall(c)
        /\ call'[c].at = [call[c].at EXCEPT !["bt"] = "wait"]
        /\ call'[c].listed = call[c].listed /\ call'[c].seen = power
        /\ call'[c].known = call[c].known /\ call'[c].result = call[c].result
    <3>1. PICK s \in Stages, e \in SUBSET Adapters, v \in [Adapters -> BOOLEAN] :
             s = "wait" /\ e = call[c].listed /\ v = power
      BY <1>1
    <3>2. call' = [call EXCEPT ![c].at["bt"] = s, ![c].left = e, ![c].seen = v]
      BY <2>1, <3>1
    <3>3. Typed
      BY <1>1
    <3>4. /\ OnlyCall(c)
          /\ call'[c].at = [call[c].at EXCEPT !["bt"] = s]
          /\ call'[c].left = e
          /\ call'[c].seen = v
          /\ call'[c].known = call[c].known /\ call'[c].listed = call[c].listed
          /\ call'[c].read = call[c].read /\ call'[c].missed = call[c].missed
          /\ call'[c].result = call[c].result
      BY <3>2, <3>3, CacheMoves
    <3> QED
      BY <3>1, <3>4
  <2>3. ASSUME Stable(c), Powers(c) PROVE Stable(c)' /\ Powers(c)'
    <3>1. call'[c].at["bt"] = "wait"
      BY <1>1, <2>2
    <3>2. RadioOn(c)' = RadioOn(c) /\ call'[c].op = call[c].op
      BY <2>2 DEF RadioOn, OnlyCall
    <3>3. RadioOn(c) => ~soft
      BY <1>1, <1>3, <1>5, <2>3 DEF Powers
    <3> QED
      BY <1>1, <1>2, <2>2, <2>3, <3>1, <3>2, <3>3 DEF Stable, Powers
  <2> QED
    BY <1>1, <1>3, <2>2, <2>3, BluetoothStep
<1> QED
  BY <1>4, <1>5

\* The end of the wait for one adapter keeps the invariant of its call.
LEMMA SeePoweredKeeps ==
    ASSUME Inv, NEW c \in Calls, NEW a \in Adapters, SeePowered(c, a)
    PROVE  Confined(c) /\ CallInv(c)'
<1>1. /\ call[c].at["bt"] = "wait" /\ call' = [call EXCEPT ![c].left = @ \ {a}]
      /\ UNCHANGED <<types, switch, killed, soft, bluez, power, asked, card, changes>>
      /\ Typed /\ CallInv(c)
      /\ call[c].at \in [AllBranches -> Stages] /\ "bt" \in AllBranches
  BY DEF SeePowered, Inv, Typed, CallRec, AllBranches, world
<1>2. "bt" \in Branches(call[c].op) /\ call[c].op # "state"
  BY <1>1, AtWork DEF Over, CallInv, Formed
<1>3. call[c].listed = Adapters /\ Adapters # {}
  BY <1>1, <1>2 DEF CallInv, Knows
<1>4. /\ OnlyCall(c)
      /\ call'[c].at = call[c].at /\ call'[c].listed = call[c].listed
      /\ call'[c].known = call[c].known /\ call'[c].result = call[c].result
      /\ call'[c].seen = call[c].seen
  BY <1>1, LeftMoves
<1>5. call'[c].at = [call[c].at EXCEPT !["bt"] = "wait"]
  BY <1>1, <1>4
<1>6. ASSUME Stable(c), Powers(c) PROVE Stable(c)' /\ Powers(c)'
  BY <1>1, <1>2, <1>4, <1>6 DEF Stable, Powers, RadioOn, OnlyCall
<1> QED
  BY <1>1, <1>2, <1>3, <1>4, <1>5, <1>6, BluetoothStep

\* The end of the wait for all, also by timeout, keeps the invariant of the
\* call.
LEMMA SettleKeeps ==
    ASSUME Inv, NEW c \in Calls, AllSettled(c) \/ SettleTimeout(c)
    PROVE  Confined(c) /\ CallInv(c)'
<1>1. /\ call[c].at["bt"] = "wait" /\ call' = [call EXCEPT ![c].at["bt"] = "verify"]
      /\ UNCHANGED <<types, switch, killed, soft, bluez, power, asked, card, changes>>
      /\ Typed /\ CallInv(c) /\ "verify" \in Stages /\ "bt" \in AllBranches
  BY DEF AllSettled, SettleTimeout, Inv, AllBranches, world, Stages
<1>2. "bt" \in Branches(call[c].op) /\ call[c].op # "state"
  BY <1>1, AtWork DEF Over, CallInv, Formed
<1>3. call[c].listed = Adapters /\ Adapters # {}
  BY <1>1, <1>2 DEF CallInv, Knows
<1>4. /\ OnlyCall(c)
      /\ call'[c].at = [call[c].at EXCEPT !["bt"] = "verify"]
      /\ call'[c].listed = call[c].listed /\ call'[c].seen = call[c].seen
      /\ call'[c].known = call[c].known /\ call'[c].result = call[c].result
  BY <1>1, StageMoves
<1>5. call'[c].at["bt"] = "verify"
  BY <1>1, <1>4 DEF Typed, CallRec
<1>6. ASSUME Stable(c), Powers(c) PROVE Stable(c)' /\ Powers(c)'
  BY <1>1, <1>2, <1>4, <1>5, <1>6 DEF Stable, Powers, RadioOn, OnlyCall
<1> QED
  BY <1>1, <1>2, <1>3, <1>4, <1>6, BluetoothStep

\* VerifyPowered keeps the invariant of its call: what the caches show of the
\* value asked for is so.
LEMMA VerifyKeeps ==
    ASSUME Inv, NEW c \in Calls, VerifyPowered(c)
    PROVE  Confined(c) /\ CallInv(c)'
<1>0. PICK readable \in BOOLEAN :
        call' = [call EXCEPT ![c].at["bt"] =
                    IF readable /\ \A a \in call[c].listed : call[c].seen[a] = RadioOn(c)
                    THEN "ok" ELSE "toggle failed",
                           ![c].left = {}, ![c].seen = Idle.seen]
  BY DEF VerifyPowered
<1> DEFINE s == IF readable /\ \A a \in call[c].listed : call[c].seen[a] = RadioOn(c)
                THEN "ok" ELSE "toggle failed"
<1>1. /\ call[c].at["bt"] = "verify"
      /\ call' = [call EXCEPT ![c].at["bt"] = s, ![c].left = {}, ![c].seen = Idle.seen]
      /\ UNCHANGED <<types, switch, killed, soft, bluez, power, asked, card, changes>>
      /\ Typed /\ CallInv(c) /\ s \in Stages /\ "bt" \in AllBranches
      /\ Idle.seen \in [Adapters -> BOOLEAN]
  BY <1>0 DEF VerifyPowered, Inv, AllBranches, world, Stages, Over, Idle
<1>2. "bt" \in Branches(call[c].op) /\ call[c].op # "state"
  BY <1>1, AtWork DEF Over, CallInv, Formed
<1>3. call[c].listed = Adapters /\ Adapters # {}
  BY <1>1, <1>2 DEF CallInv, Knows
<1>4. /\ s \in {"ok", "toggle failed"}
      /\ s = "ok" => \A a \in Adapters : call[c].seen[a] = RadioOn(c)
  BY <1>3
<1> HIDE DEF s
<1>5. /\ OnlyCall(c)
      /\ call'[c].at = [call[c].at EXCEPT !["bt"] = s]
      /\ call'[c].known = call[c].known /\ call'[c].result = call[c].result
  <2>1. {} \in SUBSET Adapters
    OBVIOUS
  <2> QED
    BY <1>1, <2>1, CacheMoves
<1>6. call'[c].at["bt"] = s
  BY <1>1, <1>5 DEF Typed, CallRec
<1>7. ASSUME Stable(c), Powers(c) PROVE Stable(c)' /\ Powers(c)'
  BY <1>1, <1>2, <1>4, <1>5, <1>6, <1>7 DEF Stable, Powers, RadioOn, OnlyCall
<1> QED
  BY <1>1, <1>2, <1>3, <1>4, <1>5, <1>7, BluetoothStep

\* A cache that is told of a change keeps the invariant of its call.
LEMMA CacheUpdateKeeps ==
    ASSUME Inv, NEW c \in Calls, NEW a \in Adapters, CacheUpdate(c, a)
    PROVE  Confined(c) /\ CallInv(c)'
<1>1. /\ call[c].at["bt"] \in {"wait", "verify"}
      /\ call' = [call EXCEPT ![c].seen[a] = power[a]]
      /\ UNCHANGED <<types, switch, killed, soft, bluez, power, asked, card, changes>>
      /\ Typed /\ CallInv(c) /\ power[a] \in BOOLEAN
      /\ call[c].at \in [AllBranches -> Stages] /\ "bt" \in AllBranches
      /\ call[c].seen \in [Adapters -> BOOLEAN]
  BY DEF CacheUpdate, Inv, Typed, CallRec, AllBranches, world
<1>2. "bt" \in Branches(call[c].op) /\ call[c].op # "state"
  BY <1>1, AtWork DEF Over, CallInv, Formed
<1>3. call[c].listed = Adapters /\ Adapters # {}
  BY <1>1, <1>2 DEF CallInv, Knows
<1>4. /\ OnlyCall(c)
      /\ call'[c].at = call[c].at /\ call'[c].listed = call[c].listed
      /\ call'[c].known = call[c].known /\ call'[c].result = call[c].result
      /\ call'[c].seen = [call[c].seen EXCEPT ![a] = power[a]]
  BY <1>1, SeenMoves
<1>5. call'[c].at = [call[c].at EXCEPT !["bt"] = call[c].at["bt"]]
  BY <1>1, <1>4
<1>6. ASSUME Stable(c), Powers(c) PROVE Stable(c)' /\ Powers(c)'
  BY <1>1, <1>2, <1>4, <1>6 DEF Stable, Powers, RadioOn, OnlyCall
<1> QED
  BY <1>1, <1>2, <1>3, <1>4, <1>5, <1>6, BluetoothStep

\* ReadAdapter keeps the invariant of its call: the reader stops at the first
\* adapter that is on, and those it has passed are off.
LEMMA ReadAdapterKeeps ==
    ASSUME Inv, NEW c \in Calls, ReadAdapter(c)
    PROVE  Confined(c) /\ CallInv(c)'
<1>1. PICK a \in call[c].left, readable \in {FALSE, bluez}, block \in HardBlocks("bt") :
        LET v == readable /\ power[a]
            sure == v \/ (readable /\ ~call[c].missed)
        IN call' = IF v \/ call[c].left = {a}
                   THEN [call EXCEPT ![c].left = {}, ![c].at["bt"] = "ok",
                            ![c].read["bt"] =
                                <<v, ~block, TRUE, sure /\ block = ("bt" \in killed)>>]
                   ELSE [call EXCEPT ![c].left = @ \ {a}, ![c].missed = ~sure]
  BY DEF ReadAdapter
<1>2. /\ call[c].op = "state" /\ call[c].at["bt"] = "toggle" /\ UNCHANGED world
      /\ Typed /\ CallInv(c)
      /\ call[c].at \in [AllBranches -> Stages] /\ "bt" \in AllBranches
      /\ call[c].left \in SUBSET Adapters /\ a \in Adapters
      /\ call[c].read \in [{"wifi", "wwan", "bt"} -> Reading]
      /\ power \in [Adapters -> BOOLEAN] /\ bluez \in BOOLEAN
  BY DEF ReadAdapter, Inv, Typed, CallRec, AllBranches
<1>3. Active(c) /\ "bt" \in Branches(call[c].op)
  BY <1>2, AtWork DEF Over
<1>4. ASSUME OnlyCall(c), NEW s \in {"toggle", "ok"},
             call'[c].at = [call[c].at EXCEPT !["bt"] = s],
             call'[c].known = call[c].known, call'[c].listed = call[c].listed,
             call'[c].result = call[c].result,
             \A r \in NmRadios : call'[c].read[r] = call[c].read[r],
             call[c].calm /\ Reads(c) =>
                IF s = "toggle"
                THEN ~call'[c].missed => \A b \in Adapters \ call'[c].left : ~power[b]
                ELSE BluetoothSaid(call'[c].read["bt"])
      PROVE  Confined(c) /\ CallInv(c)'
  <2>1. Confined(c)
    BY <1>2, <1>3, <1>4 DEF Confined
  <2>2. /\ call'[c].op = "state" /\ call'[c].calm = call[c].calm
        /\ call'[c].result = "none" /\ call'[c].at["bt"] = s
        /\ \A b \in AllBranches : b # "bt" => call'[c].at[b] = call[c].at[b]
    BY <1>2, <1>3, <1>4 DEF OnlyCall, Active
  <2>3. Formed(c)'
    BY <1>2, <1>3, <2>2 DEF CallInv, Formed, AllBranches, NmRadios
  <2>4. Knows(c)' /\ Blames(c)' /\ Means(c)'
    BY <1>2, <1>3, <1>4, <2>2 DEF CallInv, Knows, Blames, Means, AllBranches, world, Active
  <2>5. ASSUME call[c].calm PROVE Calmly(c)'
    <3>1. Alone(c) /\ Stable(c) /\ Reads(c)
      BY <1>2, <2>5 DEF CallInv, Calmly
    <3>2. Stable(c)' /\ Powers(c)' /\ Sets(c)'
      BY <1>2, <2>2, <3>1 DEF Stable, Powers, Sets, Settled, world
    <3>3. /\ bluez /\ UNCHANGED <<types, switch, killed, bluez, power>>
          /\ s # "types" /\ s # "todo"
      BY <1>2, <1>4, <3>1 DEF Reads, world
    <3>4. \A r \in NmRadios : call'[c].at[r] = call[c].at[r]
      BY <2>2 DEF NmRadios, AllBranches
    <3>5. Reads(c)'
      <4>1. \A r \in NmRadios : call'[c].at[r] = "ok" => SwitchSaid(call[c].read[r], r)'
        BY <1>2, <1>4, <3>1, <3>3, <3>4 DEF Reads, SwitchSaid
      <4>2. s = "toggle" => /\ bluez'
                            /\ ~call'[c].missed =>
                                  \A b \in Adapters \ call'[c].left : ~power'[b]
        BY <1>4, <2>5, <3>1, <3>3
      <4>3. s = "ok" => BluetoothSaid(call[c].read["bt"])'
        BY <1>4, <2>5, <3>1, <3>3 DEF BluetoothSaid
      <4> QED
        BY <2>2, <4>1, <4>2, <4>3 DEF Reads
    <3> QED
      BY <1>4, <3>1, <3>2, <3>5, AloneKept DEF Calmly
  <2> QED
    BY <2>1, <2>2, <2>3, <2>4, <2>5 DEF CallInv, Calmly
<1>5. PICK v \in BOOLEAN, sure \in BOOLEAN :
         /\ v = (readable /\ power[a])
         /\ sure = (v \/ (readable /\ ~call[c].missed))
  <2>1. PICK v \in BOOLEAN : v = (readable /\ power[a])
    OBVIOUS
  <2>2. PICK sure \in BOOLEAN : sure = (v \/ (readable /\ ~call[c].missed))
    OBVIOUS
  <2> QED
    BY <2>1, <2>2, Zenon
<1>6. call' = IF v \/ call[c].left = {a}
              THEN [call EXCEPT ![c].left = {}, ![c].at["bt"] = "ok",
                       ![c].read["bt"] =
                           <<v, ~block, TRUE, sure /\ block = ("bt" \in killed)>>]
              ELSE [call EXCEPT ![c].left = @ \ {a}, ![c].missed = ~sure]
  BY <1>1, <1>5
<1>9. /\ v => power[a]
      /\ ~v /\ sure => ~power[a] /\ ~call[c].missed
  BY <1>5
<1>7. CASE v \/ call[c].left = {a}
  <2>7. block = FALSE \/ block = ("bt" \in killed)
    BY DEF HardBlocks
  <2>1. PICK y2 \in BOOLEAN, y4 \in BOOLEAN :
           y2 = ~block /\ y4 = (sure /\ block = ("bt" \in killed))
    <3>1. PICK y2 \in BOOLEAN : y2 = ~block
      OBVIOUS
    <3>2. PICK y4 \in BOOLEAN : y4 = (sure /\ block = ("bt" \in killed))
      OBVIOUS
    <3> QED
      BY <3>1, <3>2, Zenon
  <2> DEFINE x == <<v, y2, TRUE, y4>>
  <2>8. x \in Reading /\ x[1] = v /\ x[2] = y2 /\ x[4] = y4
    <3>1. x \in Reading
      BY DEF Reading
    <3>2. x[1] = v /\ x[2] = y2 /\ x[4] = y4
      OBVIOUS
    <3> QED
      BY <3>1, <3>2
  <2>10. x = <<v, ~block, TRUE, sure /\ block = ("bt" \in killed)>>
    BY <2>1, Zenon
  <2> HIDE DEF x
  <2>9. /\ "bt" \notin killed => y2
        /\ y4 => sure /\ y2 = ("bt" \notin killed)
    BY <2>1, <2>7
  <2>2. call' = [call EXCEPT ![c].left = {}, ![c].at["bt"] = "ok", ![c].read["bt"] = x]
    BY <1>6, <1>7, <2>10
  <2>3. /\ OnlyCall(c)
        /\ call'[c].left = {}
        /\ call'[c].at = [call[c].at EXCEPT !["bt"] = "ok"]
        /\ call'[c].read = [call[c].read EXCEPT !["bt"] = x]
        /\ call'[c].known = call[c].known /\ call'[c].listed = call[c].listed
        /\ call'[c].seen = call[c].seen /\ call'[c].missed = call[c].missed
        /\ call'[c].result = call[c].result
    BY <1>2, <2>2, <2>8, LastAdapterMoves
  <2>4. /\ call'[c].read["bt"] = x
        /\ \A r \in NmRadios : call'[c].read[r] = call[c].read[r]
    BY <1>2, <2>3 DEF NmRadios
  <2>5. ASSUME Reads(c) PROVE BluetoothSaid(x)
    <3>1. bluez /\ (~call[c].missed => \A b \in Adapters \ call[c].left : ~power[b])
      BY <1>2, <2>5 DEF Reads
    <3>2. ASSUME ~v, sure PROVE \A b \in Adapters : ~power[b]
      <4>1. ~power[a] /\ call[c].left = {a}
        BY <1>7, <1>9, <3>2
      <4>2. \A b \in Adapters \ call[c].left : ~power[b]
        BY <1>9, <3>1, <3>2
      <4> QED
        BY <4>1, <4>2
    <3>3. v => \E b \in Adapters : power[b]
      BY <1>2, <1>9
    <3>4. y4 => v = (\E b \in Adapters : power[b])
      BY <2>9, <3>2, <3>3
    <3> QED
      BY <2>8, <2>9, <3>1, <3>3, <3>4 DEF BluetoothSaid
  <2> QED
    BY <1>4, <2>3, <2>4, <2>5
<1>8. CASE ~(v \/ call[c].left = {a})
  <2>1. call' = [call EXCEPT ![c].left = @ \ {a}, ![c].missed = ~sure]
    BY <1>6, <1>8
  <2>2. PICK m \in BOOLEAN : m = ~sure
    OBVIOUS
  <2>3. call' = [call EXCEPT ![c].left = @ \ {a}, ![c].missed = m]
    BY <2>1, <2>2
  <2>4. /\ OnlyCall(c)
        /\ call'[c].left = call[c].left \ {a} /\ call'[c].missed = m
        /\ call'[c].known = call[c].known /\ call'[c].at = call[c].at
        /\ call'[c].listed = call[c].listed /\ call'[c].seen = call[c].seen
        /\ call'[c].read = call[c].read /\ call'[c].result = call[c].result
    BY <1>2, <2>3, MissedMoves
  <2>5. call'[c].at = [call[c].at EXCEPT !["bt"] = "toggle"]
    BY <1>2, <2>4
  <2>6. ASSUME Reads(c), ~call'[c].missed
        PROVE  \A b \in Adapters \ call'[c].left : ~power[b]
    <3>1. ~v /\ sure
      BY <1>8, <2>2, <2>4, <2>6
    <3>2. \A b \in Adapters \ call[c].left : ~power[b]
      BY <1>2, <1>9, <2>6, <3>1 DEF Reads
    <3> QED
      BY <1>9, <2>4, <3>1, <3>2
  <2> QED
    BY <1>4, <2>4, <2>5, <2>6
<1> QED
  BY <1>7, <1>8

\* A step of the branch of the interface leaves what the invariant says of the
\* rest.
LEMMA CardStep ==
    ASSUME Inv, NEW c \in Calls, call[c].at["card"] \in {"todo", "down"},
           NEW s \in {"down", "ok", "failed", "not found", "not wifi"},
           call' = [call EXCEPT ![c].at["card"] = s],
           UNCHANGED <<types, switch, killed, soft, bluez, power, asked, changes>>,
           Sets(c) /\ ~call[c].on =>
              /\ s \in {"down", "ok"} => ~card'.auto
              /\ s = "ok" => ~card'.active
    PROVE  Confined(c) /\ CallInv(c)'
<1>1. /\ Typed /\ CallInv(c) /\ call[c].at \in [AllBranches -> Stages]
      /\ "card" \in AllBranches /\ s \in Stages
  BY DEF Inv, Typed, CallRec, AllBranches, Stages, Over
<1>2. Active(c) /\ call[c].op = "interface"
  <2>1. Active(c) /\ "card" \in Branches(call[c].op) /\ call[c].op \in AllOps
    BY <1>1, AtWork DEF Over, Inv, Typed, CallRec
  <2> QED
    BY <2>1, BranchesOf DEF AllOps
<1>3. /\ OnlyCall(c)
      /\ call'[c].at = [call[c].at EXCEPT !["card"] = s]
      /\ call'[c].listed = call[c].listed /\ call'[c].left = call[c].left
      /\ call'[c].seen = call[c].seen /\ call'[c].missed = call[c].missed
      /\ call'[c].read = call[c].read
      /\ call'[c].known = call[c].known /\ call'[c].result = call[c].result
  BY <1>1, StageMoves
<1>4. /\ call'[c].op = "interface" /\ call'[c].calm = call[c].calm /\ call'[c].on = call[c].on
      /\ call'[c].result = "none" /\ call'[c].at["card"] = s
      /\ \A b \in AllBranches : b # "card" => call'[c].at[b] = call[c].at[b]
  <2>1. /\ call'[c].op = "interface" /\ call'[c].calm = call[c].calm
        /\ call'[c].on = call[c].on /\ call'[c].result = "none"
    BY <1>2, <1>3 DEF OnlyCall, Active
  <2>2. /\ call'[c].at["card"] = s
        /\ \A b \in AllBranches : b # "card" => call'[c].at[b] = call[c].at[b]
    BY <1>1, <1>3, ZenonT(60)
  <2> QED
    BY <2>1, <2>2
<1>5. Branches("interface") = {"card"}
  BY BranchesOf
<1>6. Confined(c)
  BY <1>2, <1>3 DEF Confined
<1>7. Formed(c)'
  BY <1>1, <1>2, <1>4, <1>5 DEF CallInv, Formed, AllBranches, NmRadios
<1>8. Knows(c)' /\ Blames(c)' /\ Means(c)'
  BY <1>1, <1>2, <1>3, <1>4 DEF CallInv, Knows, Blames, Means, AllBranches
<1>9. ASSUME call[c].calm PROVE Calmly(c)'
  <2>1. Alone(c) /\ Stable(c) /\ Powers(c) /\ Sets(c)
    BY <1>1, <1>9 DEF CallInv, Calmly
  <2>2. Stable(c)' /\ Powers(c)'
    BY <1>2, <1>3, <1>4, <1>5, <2>1, ZenonT(60)
       DEF Stable, Powers, Settled, RadioOn, AllBranches
  <2>3. Sets(c)' /\ Reads(c)'
    BY <1>4, <2>1 DEF Sets, Reads
  <2> QED
    BY <1>3, <2>1, <2>2, <2>3, AloneKept DEF Calmly
<1> QED
  BY <1>4, <1>6, <1>7, <1>8, <1>9 DEF CallInv, Calmly

\* SetAutoconnect keeps the invariant of its call.
LEMMA SetAutoconnectKeeps ==
    ASSUME Inv, NEW c \in Calls, SetAutoconnect(c)
    PROVE  Confined(c) /\ CallInv(c)'
<1>1. /\ call[c].at["card"] = "todo"
      /\ UNCHANGED <<types, switch, killed, soft, bluez, power, asked, changes>>
      /\ card \in [auto : BOOLEAN, active : BOOLEAN]
      /\ call[c].on \in BOOLEAN
  BY DEF SetAutoconnect, Inv, Typed, CallRec
<1>2. PICK s \in {"down", "ok", "failed", "not found", "not wifi"} :
         /\ call' = [call EXCEPT ![c].at["card"] = s]
         /\ s \in {"down", "ok"} =>
               /\ card' = [card EXCEPT !.auto = call[c].on]
               /\ s = "ok" => call[c].on
  <2>1. CASE \E e \in {"not found", "not wifi"} :
                call' = [call EXCEPT ![c].at["card"] = e] /\ UNCHANGED card
    BY <2>1
  <2>2. CASE /\ card' = [card EXCEPT !.auto = call[c].on]
             /\ call' = [call EXCEPT ![c].at["card"] = IF call[c].on THEN "ok" ELSE "down"]
    <3>1. CASE call[c].on
      BY <2>2, <3>1
    <3>2. CASE ~call[c].on
      BY <2>2, <3>2
    <3> QED
      BY <3>1, <3>2
  <2>3. CASE call' = [call EXCEPT ![c].at["card"] = "failed"] /\ UNCHANGED card
    BY <2>3
  <2> QED
    BY <2>1, <2>2, <2>3 DEF SetAutoconnect
<1>3. ~call[c].on => (s \in {"down", "ok"} => ~card'.auto) /\ (s = "ok" => ~card'.active)
  BY <1>1, <1>2
<1> QED
  BY <1>1, <1>2, <1>3, CardStep

\* DisconnectCard keeps the invariant of its call.
LEMMA DisconnectCardKeeps ==
    ASSUME Inv, NEW c \in Calls, DisconnectCard(c)
    PROVE  Confined(c) /\ CallInv(c)'
<1>1. /\ call[c].at["card"] = "down"
      /\ UNCHANGED <<types, switch, killed, soft, bluez, power, asked, changes>>
      /\ Typed /\ CallInv(c) /\ card \in [auto : BOOLEAN, active : BOOLEAN]
  BY DEF DisconnectCard, Inv, Typed
<1>2. PICK s \in {"ok", "failed"} :
         /\ call' = [call EXCEPT ![c].at["card"] = s]
         /\ s = "ok" => card' = [card EXCEPT !.active = FALSE]
  BY DEF DisconnectCard
<1>3. call[c].op = "interface"
  <2>1. "card" \in Branches(call[c].op) /\ call[c].op \in AllOps
    BY <1>1, AtWork DEF Over, AllBranches, Typed, CallRec
  <2> QED
    BY <2>1, BranchesOf DEF AllOps
<1>4. Sets(c) /\ ~call[c].on =>
         (s \in {"down", "ok"} => ~card'.auto) /\ (s = "ok" => ~card'.active)
  BY <1>1, <1>2, <1>3 DEF Sets
<1> QED
  BY <1>1, <1>2, <1>4, CardStep

\* What a reader has read stays so while the call and the radios stand.
LEMMA ReadsKept ==
    ASSUME NEW c \in Calls, Reads(c), call'[c].op = call[c].op, call'[c].at = call[c].at,
           call'[c].read = call[c].read, call'[c].left = call[c].left,
           call'[c].missed = call[c].missed \/ call[c].at["bt"] # "toggle",
           types' = types, switch' = switch, killed' = killed, bluez' = bluez, power' = power
    PROVE  Reads(c)'
BY DEF Reads, SwitchSaid, BluetoothSaid

\* What the invariant says of a call is kept when the call answers with w, if w
\* blames and means what it should.
LEMMA AnswerStep ==
    ASSUME Inv, NEW c \in Calls, NEW w \in Over, Active(c),
           \A b \in Branches(call[c].op) : call[c].at[b] \in Over,
           call' = [call EXCEPT ![c] =
                      [@ EXCEPT !.known = {}, !.listed = {}, !.missed = FALSE, !.result = w]],
           UNCHANGED world,
           call[c].op = "airplane" /\ w # "ok" =>
              \/ \E r \in NmRadios : call[c].at[r] = "failed"
              \/ types = {} /\ call[c].at["bt"] = "toggle failed",
           w = "ok" =>
              \A b \in Branches(call[c].op) :
                 call[c].op # "airplane" \/ b \in NmRadios => call[c].at[b] = "ok"
    PROVE  Confined(c) /\ CallInv(c)'
<1>1. Typed /\ CallInv(c)
  BY DEF Inv
<1>2. /\ OnlyCall(c) /\ call'[c].result = w /\ call'[c].at = call[c].at
      /\ call'[c].read = call[c].read /\ call'[c].seen = call[c].seen
      /\ call'[c].left = call[c].left
  BY <1>1, ResultMoves
<1>3. /\ call'[c].op = call[c].op /\ call'[c].on = call[c].on /\ call'[c].calm = call[c].calm
      /\ call[c].op # "none" /\ w # "none"
  BY <1>2 DEF OnlyCall, Active, Over
<1>4. call[c].at["bt"] \notin {"toggle", "wait", "verify"}
  BY <1>1 DEF CallInv, Formed, Over, AllBranches
<1>5. Confined(c)
  BY <1>2 DEF Confined
<1>6. Formed(c)'
  BY <1>1, <1>2, <1>3 DEF CallInv, Formed
<1>7. Knows(c)'
  BY <1>1, <1>2, <1>3, <1>4 DEF CallInv, Knows
<1>8. Blames(c)'
  BY <1>2, <1>3 DEF Blames, world
<1>9. Means(c)'
  BY <1>2, <1>3 DEF Means
<1>10. ASSUME call[c].calm PROVE Calmly(c)'
  <2>1. Alone(c) /\ Stable(c) /\ Powers(c) /\ Sets(c) /\ Reads(c)
    BY <1>1, <1>10 DEF CallInv, Calmly
  <2>2. Stable(c)' /\ Powers(c)' /\ Sets(c)'
    BY <1>2, <1>3, <1>4, <2>1 DEF Stable, Powers, Sets, Settled, RadioOn, world
  <2>3. Reads(c)'
    <3>1. UNCHANGED <<types, switch, killed, bluez, power>>
      BY DEF world
    <3> QED
      BY <1>2, <1>3, <1>4, <2>1, <3>1, ReadsKept
  <2> QED
    BY <1>2, <2>1, <2>2, <2>3, AloneKept DEF Calmly
<1> QED
  BY <1>3, <1>5, <1>6, <1>7, <1>8, <1>9, <1>10 DEF CallInv, Calmly

\* Answer keeps the invariant of its call.
LEMMA AnswerKeeps ==
    ASSUME Inv, NEW c \in Calls, Answer(c)
    PROVE  Confined(c) /\ CallInv(c)'
<1> DEFINE some == IF \A b \in Branches(call[c].op) : call[c].at[b] = "ok" THEN "ok"
                   ELSE CHOOSE e \in Over \ {"ok"} :
                            \E b \in Branches(call[c].op) : call[c].at[b] = e
           w == IF call[c].op = "airplane" THEN Finalize(c) ELSE some
<1>1. /\ Active(c) /\ \A b \in Branches(call[c].op) : call[c].at[b] \in Over
      /\ call' = [call EXCEPT ![c] =
                    [@ EXCEPT !.known = {}, !.listed = {}, !.missed = FALSE, !.result = w]]
      /\ UNCHANGED world /\ Typed /\ CallInv(c)
  BY DEF Answer, Inv
<1>2. /\ some \in Over
      /\ some = "ok" => \A b \in Branches(call[c].op) : call[c].at[b] = "ok"
  BY <1>1 DEF Over
<1>3. ASSUME call[c].op = "airplane"
      PROVE  /\ Finalize(c) \in Over
             /\ Finalize(c) = "ok" => call[c].at["wifi"] = "ok" /\ call[c].at["wwan"] = "ok"
             /\ Finalize(c) # "ok" =>
                   \/ \E r \in NmRadios : call[c].at[r] = "failed"
                   \/ types = {} /\ call[c].at["bt"] = "toggle failed"
  <2>1. Branches(call[c].op) = {"wifi", "wwan", "bt"}
    BY <1>3, BranchesOf
  <2>2. \A r \in NmRadios : call[c].at[r] \in {"ok", "failed"}
    BY <1>1, <2>1 DEF CallInv, Formed, NmRadios, Over
  <2>3. call[c].known \in {types, Unknown} /\ types \subseteq {"wifi", "modem"}
    BY <1>1, <1>3, <2>1 DEF CallInv, Knows, Active, Over, Typed
  <2>4. ~BluetoothExcused(c) => types = {}
    BY <2>3 DEF BluetoothExcused
  <2> QED
    BY <2>2, <2>4 DEF Finalize, NmRadios, Over
<1> HIDE DEF some
<1>4. /\ w \in Over
      /\ call[c].op = "airplane" /\ w # "ok" =>
            \/ \E r \in NmRadios : call[c].at[r] = "failed"
            \/ types = {} /\ call[c].at["bt"] = "toggle failed"
      /\ w = "ok" =>
            \A b \in Branches(call[c].op) :
               call[c].op # "airplane" \/ b \in NmRadios => call[c].at[b] = "ok"
  BY <1>2, <1>3 DEF NmRadios
<1> HIDE DEF w
<1> QED
  BY <1>1, <1>4, AnswerStep

\* Disturbing the calls takes their calm and nothing else.
LEMMA Disturbing ==
    ASSUME Typed
    PROVE  /\ Disturbed(call) \in [Calls -> CallRec]
           /\ \A d \in Calls : /\ Disturbed(call)[d] = [call[d] EXCEPT !.calm = FALSE]
                               /\ ~Disturbed(call)[d].calm
                               /\ Disturbed(call)[d].op = call[d].op
                               /\ Disturbed(call)[d].result = call[d].result
                               /\ Disturbed(call)[d].at = call[d].at
                               /\ Disturbed(call)[d].known = call[d].known
                               /\ Disturbed(call)[d].listed = call[d].listed
<1>1. ASSUME NEW d \in Calls
      PROVE  /\ [call[d] EXCEPT !.calm = FALSE] \in CallRec
             /\ ~[call[d] EXCEPT !.calm = FALSE].calm
             /\ [call[d] EXCEPT !.calm = FALSE].op = call[d].op
             /\ [call[d] EXCEPT !.calm = FALSE].result = call[d].result
             /\ [call[d] EXCEPT !.calm = FALSE].at = call[d].at
             /\ [call[d] EXCEPT !.calm = FALSE].known = call[d].known
             /\ [call[d] EXCEPT !.calm = FALSE].listed = call[d].listed
  <2>1. call[d] \in CallRec
    BY DEF Typed
  <2> QED
    BY <2>1 DEF CallRec
<1> QED
  BY <1>1 DEF Disturbed

\* A call that is disturbed keeps its invariant.
LEMMA DisturbedKeeps ==
    ASSUME Inv, NEW d \in Calls, call'[d] = Disturbed(call)[d], UNCHANGED types
    PROVE  CallInv(d)'
<1>1. /\ ~call'[d].calm /\ call'[d].op = call[d].op /\ call'[d].result = call[d].result
      /\ call'[d].at = call[d].at /\ call'[d].known = call[d].known
      /\ call'[d].listed = call[d].listed
  BY Disturbing DEF Inv
<1>2. Formed(d) /\ Knows(d) /\ Blames(d) /\ Means(d)
  BY DEF Inv, CallInv
<1>3. Formed(d)'
  BY <1>1, <1>2 DEF Formed
<1>4. Knows(d)'
  BY <1>1, <1>2 DEF Knows
<1>5. Blames(d)' /\ Means(d)'
  BY <1>1, <1>2 DEF Blames, Means
<1> QED
  BY <1>1, <1>3, <1>4, <1>5 DEF CallInv, Calmly

\* Begin keeps the invariant: a call that sets disturbs the others, and one is
\* calm that begins while nothing is under way.
LEMMA BeginKeeps ==
    ASSUME Inv, NEW c \in Calls, Begin(c)
    PROVE  Inv'
<1>1. PICK op \in OpsOf[c], on \in BOOLEAN :
        call' = [IF op = "state" THEN call ELSE Disturbed(call) EXCEPT ![c] =
            [Idle EXCEPT !.op = op, !.on = on,
                         !.calm = Settled /\ \A d \in Calls : ~Active(d),
                         !.at = [b \in DOMAIN Idle.at |->
                                    IF b \notin Branches(op) THEN "none"
                                    ELSE IF op \in {"airplane", "state"} THEN "types"
                                    ELSE "todo"]]]
  BY DEF Begin
<1> DEFINE at == [b \in AllBranches |->
                    IF b \notin Branches(op) THEN "none"
                    ELSE IF op \in {"airplane", "state"} THEN "types"
                    ELSE "todo"]
           calm == Settled /\ \A d \in Calls : ~Active(d)
           rest == IF op = "state" THEN call ELSE Disturbed(call)
           new == [Idle EXCEPT !.op = op, !.on = on, !.calm = calm, !.at = at]
<1>2. /\ Typed /\ UNCHANGED world /\ call[c].op = "none"
      /\ op \in AllOps /\ op # "none"
  BY RadiosAssumption DEF Begin, Inv, RadiosAssumption, AllOps
<1>3. DOMAIN Idle.at = AllBranches
  BY DEF Idle, AllBranches
<1>4. call' = [rest EXCEPT ![c] = new]
  BY <1>1, <1>3
<1>5. Idle \in CallRec /\ at \in [AllBranches -> Stages] /\ calm \in BOOLEAN
  BY DEF Idle, CallRec, Reading, AllOps, AllBranches, Stages, Over, Settled, Active
<1>6. rest \in [Calls -> CallRec]
  BY <1>2, Disturbing DEF Typed
<1> HIDE DEF at, calm
<1>7. new \in CallRec
  BY <1>2, <1>5 DEF CallRec
<1>8. /\ new.op = op /\ new.on = on /\ new.calm = calm /\ new.at = at
      /\ new.result = "none" /\ ~new.read["bt"][3]
  BY <1>5 DEF CallRec, Idle
<1> HIDE DEF new, rest
<1>9. /\ call' \in [Calls -> CallRec] /\ call'[c] = new
      /\ \A d \in Calls : d # c => call'[d] = rest[d]
  BY <1>4, <1>6, <1>7
<1>10. Typed'
  BY <1>2, <1>9 DEF Typed, world
<1>11. ASSUME NEW d \in Calls, d # c PROVE CallInv(d)'
  <2>1. CASE op = "state"
    <3>1. call'[d] = call[d] /\ CallInv(d)
      BY <1>9, <1>11, <2>1 DEF rest, Inv
    <3>2. Formed(d)' /\ Blames(d)' /\ Means(d)'
      BY <1>2, <3>1 DEF CallInv, Formed, Blames, Means, world
    <3>3. Knows(d)'
      BY <1>2, <3>1 DEF CallInv, Knows, world
    <3>4. ASSUME call[d].calm PROVE Calmly(d)'
      <4>1. Alone(d) /\ Stable(d) /\ Powers(d) /\ Sets(d) /\ Reads(d)
        BY <3>1, <3>4 DEF CallInv, Calmly
      <4>2. Alone(d)'
        BY <1>8, <1>9, <2>1, <4>1 DEF Alone, Active, rest
      <4>3. UNCHANGED <<types, switch, killed, soft, bluez, power, asked, card>>
        BY <1>2 DEF world
      <4>4. Stable(d)' /\ Powers(d)' /\ Sets(d)'
        BY <3>1, <4>1, <4>3 DEF Stable, Powers, Sets, Settled, RadioOn
      <4>5. Reads(d)'
        BY <3>1, <4>1, <4>3, ReadsKept
      <4> QED
        BY <4>2, <4>4, <4>5 DEF Calmly
    <3> QED
      BY <3>1, <3>2, <3>3, <3>4 DEF CallInv, Calmly
  <2>2. CASE op # "state"
    <3>1. call'[d] = Disturbed(call)[d]
      BY <1>9, <1>11, <2>2 DEF rest
    <3> QED
      BY <1>2, <3>1, DisturbedKeeps DEF world
  <2> QED
    BY <2>1, <2>2
<1>12. CallInv(c)'
  <2>1. /\ call'[c].op = op /\ call'[c].on = on /\ call'[c].calm = calm /\ call'[c].at = at
        /\ call'[c].result = "none" /\ ~call'[c].read["bt"][3]
    BY <1>8, <1>9
  <2>2. /\ \A b \in AllBranches : at[b] \in {"none", "types", "todo"}
        /\ \A b \in AllBranches : at[b] # "none" <=> b \in Branches(op)
        /\ op = "state" => at["bt"] = "types"
        /\ at["card"] \in {"none", "todo"}
        /\ op \in {"airplane", "state"} => \A b \in AllBranches : at[b] \in {"none", "types"}
    BY BranchesOf DEF at, AllBranches
  <2>3. Branches(op) \subseteq AllBranches
    BY <1>2, BranchesOf DEF AllOps, AllBranches
  <2>4. Formed(c)'
    BY <1>2, <2>1, <2>2 DEF Formed, NmRadios, AllBranches
  <2>5. Knows(c)'
    <3>1. \A b \in Branches(op) : op \in {"airplane", "state"} => at[b] = "types"
      BY <2>2, <2>3
    <3> QED
      BY <2>1, <2>2, <3>1 DEF Knows, AllBranches
  <2>6. Blames(c)' /\ Means(c)'
    BY <2>1 DEF Blames, Means
  <2>7. ASSUME calm PROVE Calmly(c)'
    <3>1. Settled /\ \A d \in Calls : ~Active(d)
      BY <2>7 DEF calm
    <3>2. Alone(c)'
      <4>1. ASSUME NEW d \in Calls, d # c PROVE ~Active(d)'
        <5>1. call'[d].op = call[d].op /\ call'[d].result = call[d].result
          BY <1>2, <1>9, <4>1, Disturbing DEF rest
        <5> QED
          BY <3>1, <5>1 DEF Active
      <4> QED
        BY <4>1 DEF Alone
    <3>3. Stable(c)'
      BY <1>2, <3>1 DEF Stable, Settled, world
    <3>4. Powers(c)' /\ Sets(c)' /\ Reads(c)'
      BY <2>1, <2>2 DEF Powers, Sets, Reads, NmRadios, AllBranches
    <3> QED
      BY <3>2, <3>3, <3>4 DEF Calmly
  <2> QED
    BY <2>1, <2>4, <2>5, <2>6, <2>7 DEF CallInv, Calmly
<1> QED
  BY <1>10, <1>11, <1>12 DEF Inv

\* The settling of the power keeps the invariant: BlueZ applies the value a calm
\* call asked for, and rfkill takes the power only where it blocks.
LEMMA PowerKeeps ==
    ASSUME Inv, NEW a \in Adapters, BluezApplies(a) \/ KernelBlocks(a)
    PROVE  Inv'
<1>1. /\ UNCHANGED <<types, switch, killed, soft, bluez, card, changes, call>>
      /\ Typed /\ power \in [Adapters -> BOOLEAN] /\ asked \in [Adapters -> SUBSET BOOLEAN]
      /\ soft \in BOOLEAN
  BY DEF BluezApplies, KernelBlocks, Inv, Typed
<1>2. \/ /\ asked[a] # {} /\ asked' = [asked EXCEPT ![a] = {}]
         /\ \E v \in asked[a] : power' = [power EXCEPT ![a] = v /\ ~soft]
      \/ soft /\ power[a] /\ power' = [power EXCEPT ![a] = FALSE] /\ asked' = asked
  BY DEF BluezApplies, KernelBlocks
<1>3. /\ power' \in [Adapters -> BOOLEAN] /\ asked' \in [Adapters -> SUBSET BOOLEAN]
      /\ \A b \in Adapters : asked'[b] \subseteq asked[b]
      /\ \A b \in Adapters : b # a => power'[b] = power[b]
      /\ power'[a] \in asked[a] \cup {FALSE}
      /\ soft => ~power'[a]
      /\ ~soft => power'[a] \in asked[a]
  <2>1. CASE asked' = [asked EXCEPT ![a] = {}] /\
             \E v \in asked[a] : power' = [power EXCEPT ![a] = v /\ ~soft]
    <3>1. PICK v \in asked[a] : power' = [power EXCEPT ![a] = v /\ ~soft]
      BY <2>1
    <3>2. v \in BOOLEAN
      BY <1>1
    <3> QED
      BY <1>1, <2>1, <3>1, <3>2
  <2>2. CASE soft /\ power[a] /\ power' = [power EXCEPT ![a] = FALSE] /\ asked' = asked
    BY <1>1, <2>2
  <2> QED
    BY <1>2, <2>1, <2>2
<1>4. ~Settled
  BY <1>1, <1>2 DEF Settled
<1>5. Typed'
  BY <1>1, <1>3 DEF Typed
<1>6. ASSUME NEW d \in Calls PROVE CallInv(d)'
  <2>1. call' = call /\ types' = types /\ CallInv(d) /\ call[d].on \in BOOLEAN
    BY <1>1 DEF Inv, Typed, CallRec
  <2>2. Formed(d)' /\ Knows(d)' /\ Blames(d)' /\ Means(d)'
    BY <2>1 DEF CallInv, Formed, Knows, Blames, Means
  <2>3. ASSUME call[d].calm PROVE Calmly(d)'
    <3>1. Alone(d) /\ Stable(d) /\ Powers(d) /\ Sets(d) /\ Reads(d)
      BY <2>1, <2>3 DEF CallInv, Calmly
    <3>2. /\ call[d].op # "state" /\ "bt" \in Branches(call[d].op)
          /\ \A b \in Adapters : asked[b] \subseteq {RadioOn(d)}
      BY <1>4, <3>1 DEF Stable
    <3>3. RadioOn(d)' = RadioOn(d) /\ RadioOn(d) \in BOOLEAN
      BY <2>1 DEF RadioOn
    <3>4. Stable(d)'
      BY <1>1, <1>3, <3>2, <3>3 DEF Stable
    <3>5. ASSUME RadioOn(d) => ~soft, NEW b \in Adapters, power[b] = RadioOn(d)
          PROVE  power'[b] = RadioOn(d)
      BY <1>1, <1>3, <3>2, <3>3, <3>5
    <3>6. ASSUME NEW b \in Adapters, RadioOn(d) => ~soft,
                 call[d].seen[b] = RadioOn(d) => power[b] = RadioOn(d)
          PROVE  call[d].seen[b] = RadioOn(d) => power'[b] = RadioOn(d)
      BY <3>5, <3>6
    <3>7. Powers(d)'
      BY <1>1, <3>1, <3>3, <3>5, <3>6 DEF Powers
    <3>8. Alone(d)' /\ Sets(d)' /\ Reads(d)'
      BY <1>1, <3>1, <3>2, <3>3 DEF Alone, Sets, Reads, SwitchSaid, BluetoothSaid, Active
    <3> QED
      BY <3>4, <3>7, <3>8 DEF Calmly
  <2> QED
    BY <2>1, <2>2, <2>3 DEF CallInv, Calmly
<1> QED
  BY <1>5, <1>6 DEF Inv

\* NetworkManager's own activation keeps the invariant: it leaves an interface
\* alone whose Autoconnect is off.
LEMMA AutoActivateKeeps ==
    ASSUME Inv, AutoActivate
    PROVE  Inv'
<1>1. /\ UNCHANGED <<types, switch, killed, soft, bluez, power, asked, changes, call>>
      /\ Typed /\ card.auto /\ card' = [card EXCEPT !.active = TRUE]
      /\ card \in [auto : BOOLEAN, active : BOOLEAN]
  BY DEF AutoActivate, Inv, Typed
<1>2. card' \in [auto : BOOLEAN, active : BOOLEAN] /\ card'.auto
  BY <1>1
<1>3. Typed'
  BY <1>1, <1>2 DEF Typed
<1>4. ASSUME NEW d \in Calls PROVE CallInv(d)'
  <2>1. call' = call /\ types' = types /\ CallInv(d)
    BY <1>1 DEF Inv
  <2>2. Formed(d)' /\ Knows(d)' /\ Blames(d)' /\ Means(d)'
    BY <2>1 DEF CallInv, Formed, Knows, Blames, Means
  <2>3. ASSUME call[d].calm PROVE Calmly(d)'
    <3>1. Alone(d) /\ Stable(d) /\ Powers(d) /\ Sets(d) /\ Reads(d)
      BY <2>1, <2>3 DEF CallInv, Calmly
    <3>2. Alone(d)' /\ Stable(d)' /\ Powers(d)' /\ Reads(d)'
      BY <1>1, <3>1
         DEF Alone, Stable, Powers, Reads, SwitchSaid, BluetoothSaid, Settled, RadioOn, Active
    <3>3. Sets(d)'
      BY <1>1, <3>1 DEF Sets, RadioOn
    <3> QED
      BY <3>2, <3>3 DEF Calmly
  <2> QED
    BY <2>1, <2>2, <2>3 DEF CallInv, Calmly
<1> QED
  BY <1>3, <1>4 DEF Inv

\* What others do keeps the invariant, for no call stays calm.
LEMMA OtherChangeKeeps ==
    ASSUME Inv, OtherChange
    PROVE  Inv'
<1>1. /\ UNCHANGED <<types, switch, killed, soft, asked, card>>
      /\ Typed /\ power \in [Adapters -> BOOLEAN] /\ bluez \in BOOLEAN
      /\ call' = Disturbed(call)
  BY DEF OtherChange, Inv, Typed
<1>2. power' \in [Adapters -> BOOLEAN] /\ bluez' \in BOOLEAN
  BY <1>1 DEF OtherChange
<1>3. changes' \in 0 .. MaxChanges
  BY RadiosAssumption DEF RadiosAssumption, OtherChange, Inv, Typed
<1>4. Typed'
  BY <1>1, <1>2, <1>3, Disturbing DEF Typed
<1> QED
  BY <1>1, <1>4, DisturbedKeeps DEF Inv

\* The steps of a call keep the types of the radios.
LEMMA RadiosTyped ==
    ASSUME Typed, NEW c \in Calls, CallStep(c)
    PROVE  /\ types' \subseteq {"wifi", "modem"}
           /\ switch' \in [NmRadios -> BOOLEAN]
           /\ killed' \subseteq {"wifi", "wwan", "bt"}
           /\ soft' \in BOOLEAN /\ bluez' \in BOOLEAN
           /\ power' \in [Adapters -> BOOLEAN]
           /\ asked' \in [Adapters -> SUBSET BOOLEAN]
           /\ card' \in [auto : BOOLEAN, active : BOOLEAN]
           /\ changes' \in 0 .. MaxChanges
<1> DEFINE Goal ==
           /\ types' \subseteq {"wifi", "modem"}
           /\ switch' \in [NmRadios -> BOOLEAN]
           /\ killed' \subseteq {"wifi", "wwan", "bt"}
           /\ soft' \in BOOLEAN /\ bluez' \in BOOLEAN
           /\ power' \in [Adapters -> BOOLEAN]
           /\ asked' \in [Adapters -> SUBSET BOOLEAN]
           /\ card' \in [auto : BOOLEAN, active : BOOLEAN]
           /\ changes' \in 0 .. MaxChanges
<1>1. call[c].on \in BOOLEAN /\ RadioOn(c) \in BOOLEAN
  BY DEF Typed, CallRec, RadioOn
<1>2. CASE UNCHANGED world
  BY <1>2 DEF Typed, world
<1>3. ASSUME NEW r \in NmRadios, SetSwitch(c, r) PROVE Goal
  <2>1. UNCHANGED <<types, killed, soft, bluez, power, asked, changes>>
    BY <1>3 DEF SetSwitch
  <2>2. CASE UNCHANGED <<switch, card>>
    BY <2>1, <2>2 DEF Typed
  <2>3. CASE /\ switch' = [switch EXCEPT ![r] = RadioOn(c)]
             /\ card' = [card EXCEPT !.active = @ /\ switch'["wifi"]]
    <3>1. switch' \in [NmRadios -> BOOLEAN]
      BY <1>1, <2>3 DEF Typed
    <3>2. card' \in [auto : BOOLEAN, active : BOOLEAN]
      BY <2>3, <3>1 DEF Typed, NmRadios
    <3> QED
      BY <2>1, <3>1, <3>2 DEF Typed
  <2> QED
    BY <1>3, <2>2, <2>3 DEF SetSwitch
<1>4. ASSUME Rfkill(c) PROVE Goal
  BY <1>1, <1>4 DEF Rfkill, Typed
<1>5. ASSUME NEW a \in Adapters, SetPowered(c, a) PROVE Goal
  <2>1. /\ UNCHANGED <<types, switch, killed, soft, bluez, power, card, changes>>
        /\ asked' = asked \/ asked' = [asked EXCEPT ![a] = {RadioOn(c)}]
    BY <1>5 DEF SetPowered
  <2>2. asked' \in [Adapters -> SUBSET BOOLEAN]
    BY <1>1, <2>1 DEF Typed
  <2> QED
    BY <2>1, <2>2 DEF Typed
<1>6. ASSUME SetAutoconnect(c) PROVE Goal
  <2>1. /\ UNCHANGED <<types, switch, killed, soft, bluez, power, asked, changes>>
        /\ card' = card \/ card' = [card EXCEPT !.auto = call[c].on]
    BY <1>6 DEF SetAutoconnect
  <2> QED
    BY <1>1, <2>1 DEF Typed
<1>7. ASSUME DisconnectCard(c) PROVE Goal
  <2>1. /\ UNCHANGED <<types, switch, killed, soft, bluez, power, asked, changes>>
        /\ card' = card \/ card' = [card EXCEPT !.active = FALSE]
    BY <1>7 DEF DisconnectCard
  <2> QED
    BY <2>1 DEF Typed
<1> QED
  BY <1>2, <1>3, <1>4, <1>5, <1>6, <1>7
     DEF CallStep, FetchTypes, ReadSwitch, EnumerateAdapters, ReadAdapter, SeePowered,
         JoinToggles, AllSettled, SettleTimeout, VerifyPowered, Answer

\* A confined step that keeps the invariant of its call keeps the invariant.
LEMMA ConfinedKeeps ==
    ASSUME Inv, NEW c \in Calls, Confined(c), CallInv(c)', CallStep(c) \/ UNCHANGED world
    PROVE  Inv'
<1>1. Typed'
  <2>1. CASE CallStep(c)
    BY <2>1, RadiosTyped DEF Inv, Typed, Confined, OnlyCall
  <2>2. CASE UNCHANGED world
    BY <2>2 DEF Inv, Typed, Confined, OnlyCall, world
  <2> QED
    BY <2>1, <2>2
<1> QED
  BY <1>1, OthersKeep DEF Inv

\* The invariant is inductive.
LEMMA NextInv == Inv /\ [Next]_vars => Inv'
<1> SUFFICES ASSUME Inv, [Next]_vars PROVE Inv'
  OBVIOUS
<1>1. ASSUME NEW c \in Calls, CallStep(c) PROVE Inv'
  <2>1. Confined(c) /\ CallInv(c)'
    BY <1>1, FetchTypesKeeps, SetSwitchKeeps, ReadSwitchKeeps, RfkillKeeps, EnumerateKeeps,
       ReadAdapterKeeps, SetPoweredKeeps, SeePoweredKeeps, JoinTogglesKeeps, SettleKeeps,
       VerifyKeeps, SetAutoconnectKeeps, DisconnectCardKeeps, AnswerKeeps
       DEF CallStep
  <2> QED
    BY <1>1, <2>1, ConfinedKeeps
<1>2. ASSUME NEW c \in Calls, NEW a \in Adapters, CacheUpdate(c, a) PROVE Inv'
  <2>1. UNCHANGED world
    BY <1>2 DEF CacheUpdate
  <2> QED
    BY <1>2, <2>1, CacheUpdateKeeps, ConfinedKeeps
<1>3. ASSUME NEW c \in Calls, Begin(c) PROVE Inv'
  BY <1>3, BeginKeeps
<1>4. ASSUME NEW a \in Adapters, BluezApplies(a) \/ KernelBlocks(a) PROVE Inv'
  BY <1>4, PowerKeeps
<1>5. CASE AutoActivate
  BY <1>5, AutoActivateKeeps
<1>6. CASE OtherChange
  BY <1>6, OtherChangeKeeps
<1>7. CASE UNCHANGED vars
  <2>1. UNCHANGED <<types, switch, killed, soft, bluez, power, asked, card, changes, call>>
    BY <1>7 DEF vars, world
  <2>2. Typed'
    BY <2>1 DEF Inv, Typed
  <2>3. ASSUME NEW c \in Calls PROVE CallInv(c)'
    <3>1. CallInv(c)
      BY DEF Inv
    <3>2. Formed(c)' /\ Knows(c)' /\ Blames(c)' /\ Means(c)'
      BY <2>1, <3>1 DEF CallInv, Formed, Knows, Blames, Means
    <3>3. Calmly(c)'
      BY <2>1, <3>1
         DEF CallInv, Calmly, Alone, Active, Stable, Settled, RadioOn, Powers, Sets, Reads,
             SwitchSaid, BluetoothSaid
    <3> QED
      BY <3>2, <3>3 DEF CallInv
  <2> QED
    BY <2>2, <2>3 DEF Inv
<1> QED
  BY <1>1, <1>2, <1>3, <1>4, <1>5, <1>6, <1>7 DEF Next

\* The invariant holds in every state of every behavior.
LEMMA Invariance == Spec => []Inv
<1> QED
  BY InitInv, NextInv, PTL DEF Spec

-----------------------------------------------------------------------------
(* What the calls promise.                                                 *)

\* Airplane mode fails only for a radio of NetworkManager or, on a host that
\* has neither Wi-Fi nor a modem, for Bluetooth; for every number of calls, of
\* adapters and whatever others do meanwhile.
THEOREM BluetoothIsExcused == Spec => []BluetoothNeverBlocks
<1>1. Inv => BluetoothNeverBlocks
  BY DEF Inv, CallInv, Blames, BluetoothNeverBlocks
<1> QED
  BY <1>1, Invariance, PTL

\* What the answer of a calm call says of its branches.
LEMMA CalmAnswer ==
    ASSUME Inv, NEW c \in Calls, call[c].calm, call[c].result = "ok"
    PROVE  /\ call[c].op # "none" /\ call[c].op \in AllOps
           /\ Stable(c) /\ Powers(c) /\ Sets(c) /\ Reads(c)
           /\ \A r \in NmRadios \cap Branches(call[c].op) : call[c].at[r] = "ok"
           /\ call[c].op \in {"state", "interface"} =>
                 \A b \in Branches(call[c].op) : call[c].at[b] = "ok"
<1>1. CallInv(c) /\ call[c].op \in AllOps
  BY DEF Inv, Typed, CallRec
<1> QED
  BY <1>1 DEF CallInv, Calmly, Formed, Means

\* A setter that nobody interfered with and that says Ok has set its radios, on
\* a host with any number of adapters; a reader that nobody interfered with has
\* read the switches, and blocks and power as far as they could be read.
LEMMA Said == Inv => SaidIsSo
<1> SUFFICES ASSUME Inv, NEW c \in Calls, call[c].calm, call[c].result = "ok"
             PROVE  /\ call[c].op \notin {"state", "interface"} =>
                       /\ \A r \in NmRadios \cap Branches(call[c].op) : switch[r] = RadioOn(c)
                       /\ call[c].at["bt"] = "ok" => \A a \in Adapters : power[a] = RadioOn(c)
                    /\ call[c].op = "state" =>
                       /\ \A r \in NmRadios : SwitchSaid(call[c].read[r], r)
                       /\ AnyHardwareKilled(call[c].read) => killed # {}
                       /\ call[c].read["bt"][3] => BluetoothSaid(call[c].read["bt"])
  BY DEF SaidIsSo, SwitchSaid, BluetoothSaid
<1>1. /\ Stable(c) /\ Powers(c) /\ Sets(c) /\ Reads(c)
      /\ \A r \in NmRadios \cap Branches(call[c].op) : call[c].at[r] = "ok"
      /\ call[c].op \in {"state", "interface"} =>
            \A b \in Branches(call[c].op) : call[c].at[b] = "ok"
  BY CalmAnswer
<1>2. ASSUME call[c].op \notin {"state", "interface"}
      PROVE  /\ \A r \in NmRadios \cap Branches(call[c].op) : switch[r] = RadioOn(c)
             /\ call[c].at["bt"] = "ok" => \A a \in Adapters : power[a] = RadioOn(c)
  BY <1>1, <1>2 DEF Sets, Powers
<1>3. ASSUME call[c].op = "state"
      PROVE  /\ \A r \in NmRadios : SwitchSaid(call[c].read[r], r)
             /\ AnyHardwareKilled(call[c].read) => killed # {}
             /\ call[c].read["bt"][3] => BluetoothSaid(call[c].read["bt"])
  <2>1. \A b \in {"wifi", "wwan", "bt"} : call[c].at[b] = "ok"
    BY <1>1, <1>3, BranchesOf
  <2>2. /\ \A r \in NmRadios : SwitchSaid(call[c].read[r], r)
        /\ call[c].read["bt"][3] => BluetoothSaid(call[c].read["bt"])
    BY <1>1, <1>3, <2>1 DEF Reads, NmRadios
  <2>3. call[c].read \in [{"wifi", "wwan", "bt"} -> Reading]
    BY DEF Inv, Typed, CallRec
  <2>4. AnyHardwareKilled(call[c].read) => killed # {}
    BY <2>2, <2>3 DEF AnyHardwareKilled, NmRadios, SwitchSaid, BluetoothSaid
  <2> QED
    BY <2>2, <2>4
<1> QED
  BY <1>2, <1>3

\* In every behavior, what a call that nobody interfered with says of the radios is so, as
\* far as it could read them; no block and no Bluetooth power is said that is not there.
THEOREM SayingsAreTrue == Spec => []SaidIsSo
<1> QED
  BY Said, Invariance, PTL

\* Reading the mode after setting it reads what was set.
LEMMA ReadBack == Inv => ReadAfterWrite
<1> SUFFICES ASSUME Inv, NEW c \in Calls, NEW d \in Calls,
                    call[c].op = "airplane", call[d].op = "state",
                    call[c].calm, call[c].result = "ok",
                    call[d].calm, call[d].result = "ok",
                    call[d].read["bt"][3] => (call[c].at["bt"] = "ok" /\ call[d].read["bt"][4])
             PROVE  IsAirplaneMode(call[d].read) <=>
                       call[c].on /\ \E r \in DOMAIN call[d].read : call[d].read[r][3]
  BY DEF ReadAfterWrite
<1>1. /\ DOMAIN call[d].read = {"wifi", "wwan", "bt"} /\ call[c].on \in BOOLEAN
      /\ power \in [Adapters -> BOOLEAN] /\ switch \in [NmRadios -> BOOLEAN]
  BY DEF Inv, Typed, CallRec
<1>2. \A r \in NmRadios : switch[r] = RadioOn(c)
  BY CalmAnswer, BranchesOf DEF Sets, NmRadios
<1>3. \A r \in NmRadios : call[d].read[r][1] = switch[r]
  BY Said DEF SaidIsSo
<1>4. call[c].at["bt"] = "ok" => Adapters # {} /\ \A a \in Adapters : power[a] = RadioOn(c)
  BY CalmAnswer DEF Powers, Inv, CallInv, Knows
<1>5. call[d].read["bt"][3] => call[d].read["bt"][1] = (\E a \in Adapters : power[a])
  BY CalmAnswer, BranchesOf DEF Reads, BluetoothSaid
<1>6. RadioOn(c) = ~call[c].on
  BY DEF RadioOn
<1>7. \A r \in {"wifi", "wwan", "bt"} : call[d].read[r][3] => call[d].read[r][1] = ~call[c].on
  BY <1>1, <1>2, <1>3, <1>4, <1>5, <1>6 DEF NmRadios
<1> QED
  BY <1>1, <1>7 DEF IsAirplaneMode

\* In every behavior, airplane_mode_state reads the mode that set_airplane_mode has set, when
\* nobody else moves a radio and the Bluetooth radio, if present, was toggled and could be read.
THEOREM ReadsWhatWasSet == Spec => []ReadAfterWrite
<1> QED
  BY ReadBack, Invariance, PTL

\* An interface that was switched off is down, and NetworkManager does not
\* bring it up by itself.
THEOREM OffStaysOff == Spec => []DisabledStaysDown
<1>1. Inv => DisabledStaysDown
  <2> SUFFICES ASSUME Inv, NEW c \in Calls, call[c].op = "interface", ~call[c].on,
                      call[c].calm, call[c].result = "ok"
               PROVE  ~card.active
    BY DEF DisabledStaysDown
  <2>1. call[c].at["card"] = "ok"
    BY CalmAnswer, BranchesOf
  <2> QED
    BY <2>1, CalmAnswer DEF Sets
<1> QED
  BY <1>1, Invariance, PTL

=============================================================================
