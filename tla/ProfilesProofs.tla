--------------------------- MODULE ProfilesProofs ---------------------------
(***************************************************************************)
(* What the calls of Profiles promise, for any number of calls, profiles,  *)
(* names and settings: no two profiles of a name come of connecting and    *)
(* importing but by renaming, disconnecting and forgetting a VPN spare     *)
(* what is not meant, certificates stay where they were stored, and an     *)
(* update is lost only to one that overlapped with it or set the same.     *)
(*                                                                         *)
(* The argument is one inductive invariant, Inv: at which stage a call may *)
(* be (CallInv), who holds the guard (GuardInv), that every twin of the    *)
(* profile a connect may add is among those it has still to read (AddInv), *)
(* that the VPN about to be taken down or deleted is the one meant or was  *)
(* edited since (MeantInv), that an import past its first step has its     *)
(* certificates (CertsInv), and that an update about to write has read     *)
(* every update there is, or is marked as overlapped (UpdateInv).  A step  *)
(* is first reduced to what it may do to a call (CallMoves, Left), to a    *)
(* profile (SavedMoves) and to the guard (GuardMoves); each part of Inv    *)
(* then follows from these.                                                *)
(***************************************************************************)
EXTENDS Profiles, TLAPS

\* The stages of each operation.
Starting == {"lookup", "find", "add", "activate", "wait"}
StagesOf(op) ==
    CASE op = "connect_vpn" -> {"lock", "check", "done"} \cup Starting
      [] op = "import_ovpn" -> {"store", "lock", "check", "done"} \cup Starting
      [] op \in {"connect_bluetooth", "connect_wired"} ->
            {"lock", "device", "done"} \cup Starting
      [] op = "connect_vpn_by_uuid" -> {"lock", "resolve", "activate", "wait", "done"}
      [] op = "connect_vpn_by_id" -> {"lock", "list", "list each", "resolve", "activate",
                                      "wait", "done"}
      [] op \in {"disconnect_vpn", "disconnect_vpn_by_uuid"} ->
            {"lock", "off", "off each", "deactivate", "done"}
      [] op = "forget_vpn" -> {"lock", "off", "off each", "deactivate", "forget",
                               "forget each", "delete vpn", "clean", "done"}
      [] op = "forget_bluetooth" ->
            {"lock", "free", "profiles", "each", "delete each", "done"}
      [] op = "add_and_activate" -> {"lock", "free", "add", "wait", "done"}
      [] op = "update" -> {"resolve", "read", "unsaved", "write", "done"}
      [] op = "delete" -> {"resolve", "delete", "done"}
      [] op = "add" -> {"add only", "done"}

Stages == {"idle", "store", "lock", "device", "lookup", "find", "add", "add only", "activate",
           "wait", "check", "list", "list each", "resolve", "off", "off each", "deactivate",
           "forget", "forget each", "delete vpn", "clean", "free", "profiles", "each",
           "delete each", "delete", "read", "unsaved", "write", "done"}

CallRecord ==
    [op : Op \cup {None}, at : Stages, path : Paths \cup {None}, left : SUBSET Paths,
     copy : Settings \cup {NoProfile}, result : Answers \cup {None}, overlapped : BOOLEAN]

Making == {"connect_vpn", "import_ovpn", "connect_bluetooth", "connect_wired",
           "add_and_activate", "add"}

\* The shape of the variables.
Typed ==
    /\ saved \in [Paths -> Settings \cup {NoProfile}]
    /\ fresh \subseteq Paths \ Saved
    /\ active \in [Paths -> {"none", "activating", "activated"}]
    /\ \A p \in Paths : active[p] # "none" => p \in Saved
    /\ certs \subseteq Names \X (Calls \cup {None})
    /\ guard \in Calls \cup {None}
    /\ call \in [Calls -> CallRecord]

\* A call is what it was begun as, at a stage of its operation, and has no
\* answer yet; what updates keeps to the path it was asked for.
CallInv(c) ==
    /\ call[c].at # "done" => call[c].result = None
    /\ call[c].at = "idle" => call[c].op = None
    /\ call[c].at # "idle" =>
        /\ call[c].op \in OpsOf[c]
        /\ call[c].at \in StagesOf(call[c].op.op)
        /\ call[c].op.op = "update" => call[c].path = call[c].op.path
        /\ call[c].at \in {"read", "unsaved", "write"} => call[c].op.key # None
        /\ call[c].at \in {"unsaved", "write"} =>
              call[c].path \in Paths /\ call[c].copy \in Settings

\* Who is past the guard holds it.
Past(c) ==
    /\ call[c].at \notin {"idle", "store", "lock", "done"}
    /\ call[c].op.op \in Guarded \cup {"import_ovpn"}
GuardInv == \A c \in Calls : Past(c) => guard = c

\* Who made a profile has begun; what bears the name of a profile that a
\* connect may add is yet to be read.
Connecting == {"connect_vpn", "import_ovpn", "connect_bluetooth", "connect_wired"}
MadeInv(p) == saved[p].by # None => call[saved[p].by].at # "idle"
Twin(p, n) == ByConnect(p) /\ ~saved[p].renamed /\ saved[p].id = n
AddInv(c) ==
    /\ Is(c, Connecting, "find") =>
          \A p \in Saved : Twin(p, call[c].op.name) => p \in call[c].left
    /\ Is(c, Connecting, "add") => \A p \in Saved : ~Twin(p, call[c].op.name)

\* What is about to be taken down or deleted was meant when it was read, and
\* still is unless it was edited since.
IsMeant(c, p) ==
    \/ p = call[c].op.path
    \/ /\ saved[p].kind \in VpnKinds
       /\ saved[p].id = call[c].op.name \/ call[c].overlapped
MeantInv(c) ==
    call[c].at \in {"deactivate", "delete vpn"} =>
        /\ call[c].path \in Paths \ fresh
        /\ call[c].path \in Saved => IsMeant(c, call[c].path)

\* Nothing but what the name of a directory allows takes certificates back.
Taken(n, owner) == \E c \in Calls : TakesCerts(c, n, owner)
CertsInv ==
    /\ \A p \in Saved : HasCerts(p) \/ Taken(saved[p].certs, saved[p].by)
    /\ \A c \in Calls :
          call[c].at \notin {"idle", "store", "done"} /\ call[c].op.op = "import_ovpn" =>
              <<call[c].op.name, c>> \in certs \/ Taken(call[c].op.name, c)

\* What update c wrote is in the profile, unless a later update excuses it.
Updated(c) ==
    /\ call[c].at = "done" /\ call[c].op.op = "update" /\ call[c].op.key # None
    /\ call[c].result = "ok"
Excused(c) ==
    \E d \in Calls \ {c} :
        /\ call[d].at = "done" /\ call[d].op.op = "update" /\ call[d].result = "ok"
        /\ call[d].path = call[c].path
        /\ call[d].overlapped \/ call[d].op.key = call[c].op.key
UpdateInv(c) ==
    /\ Updated(c) =>
        /\ call[c].path \in Paths \ fresh
        /\ \/ call[c].path \notin Saved
           \/ Carries(saved[call[c].path], c)
           \/ Excused(c)
    /\ call[c].at \in {"unsaved", "write"} =>
        /\ call[c].path \notin fresh
        /\ \A d \in Calls :
              Updated(d) /\ call[d].path = call[c].path /\ call[c].path \in Saved =>
                  \/ Carries(call[c].copy, d)
                  \/ call[c].overlapped
                  \/ Excused(d)

Inv ==
    /\ Typed
    /\ GuardInv
    /\ CertsInv
    /\ NoTwins
    /\ \A p \in Paths : MadeInv(p)
    /\ \A c \in Calls : CallInv(c) /\ AddInv(c) /\ MeantInv(c) /\ UpdateInv(c)

-----------------------------------------------------------------------------
(* How a call moves.                                                       *)

\* The other calls are left alone.
OthersSame(c) == \A d \in Calls \ {c} : call'[d] = call[d]

\* What no step changes of a call once it has begun.
SameCall(c) == call'[c].op = call[c].op

\* The rest of a call, but for its stage and the profiles it has to read.
SameRest(c) ==
    /\ SameCall(c)
    /\ call'[c].path = call[c].path /\ call'[c].result = call[c].result
    /\ call'[c].copy = call[c].copy /\ call'[c].overlapped = call[c].overlapped

\* Going on changes the stage alone.
LEMMA GotoMoves ==
    ASSUME Typed, NEW c \in Calls, NEW s \in Stages, Goto(c, s)
    PROVE  /\ call' \in [Calls -> CallRecord] /\ guard' = guard
           /\ OthersSame(c) /\ SameRest(c)
           /\ call'[c].at = s /\ call'[c].left = call[c].left
BY DEF Typed, Goto, CallRecord, OthersSame, SameCall, SameRest

\* Going over paths changes what is to be read too.
LEMMA GoOverMoves ==
    ASSUME Typed, NEW c \in Calls, NEW s \in Stages, NEW P \in SUBSET Paths, GoOver(c, s, P)
    PROVE  /\ call' \in [Calls -> CallRecord] /\ guard' = guard
           /\ OthersSame(c) /\ SameRest(c)
           /\ call'[c].at = s /\ call'[c].left = P
<1> DEFINE new == [call[c] EXCEPT !.at = s, !.left = P]
<1>1. call[c] \in CallRecord /\ call \in [Calls -> CallRecord]
  BY DEF Typed
<1>2. /\ new \in CallRecord /\ new.op = call[c].op /\ new.at = s /\ new.left = P
      /\ new.path = call[c].path /\ new.result = call[c].result
      /\ new.copy = call[c].copy /\ new.overlapped = call[c].overlapped
  BY <1>1 DEF CallRecord
<1>3. call' = [call EXCEPT ![c] = new]
  BY DEF GoOver
<1> HIDE DEF new
<1> QED
  BY <1>1, <1>2, <1>3 DEF GoOver, OthersSame, SameCall, SameRest

\* Passing a path over takes it from what is to be read.
LEMMA PassMoves ==
    ASSUME Typed, NEW c \in Calls, NEW p, Pass(c, p)
    PROVE  /\ call' \in [Calls -> CallRecord] /\ guard' = guard
           /\ OthersSame(c) /\ SameRest(c)
           /\ call'[c].at = call[c].at /\ call'[c].left = call[c].left \ {p}
<1> DEFINE new == [call[c] EXCEPT !.left = @ \ {p}]
<1>1. call[c] \in CallRecord /\ call \in [Calls -> CallRecord]
  BY DEF Typed
<1>2. /\ new \in CallRecord /\ new.op = call[c].op /\ new.at = call[c].at
      /\ new.left = call[c].left \ {p}
      /\ new.path = call[c].path /\ new.result = call[c].result
      /\ new.copy = call[c].copy /\ new.overlapped = call[c].overlapped
  BY <1>1 DEF CallRecord
<1>3. call' = [call EXCEPT ![c] = new]
  BY DEF Pass
<1> HIDE DEF new
<1> QED
  BY <1>1, <1>2, <1>3 DEF Pass, OthersSame, SameCall, SameRest

\* Going on with a profile that was read changes the path too.
LEMMA GotoWithMoves ==
    ASSUME Typed, NEW c \in Calls, NEW s \in Stages, NEW p \in Paths, GotoWith(c, s, p)
    PROVE  /\ call' \in [Calls -> CallRecord] /\ guard' = guard
           /\ OthersSame(c) /\ SameCall(c)
           /\ call'[c].at = s /\ call'[c].path = p /\ ~call'[c].overlapped
           /\ call'[c].result = call[c].result
<1> DEFINE new == [call[c] EXCEPT !.at = s, !.path = p, !.left = {}, !.overlapped = FALSE]
<1>1. call[c] \in CallRecord /\ call \in [Calls -> CallRecord]
  BY DEF Typed
<1>2. /\ new \in CallRecord /\ new.op = call[c].op /\ new.at = s
      /\ new.path = p /\ new.result = call[c].result
      /\ new.copy = call[c].copy /\ new.overlapped = FALSE
  BY <1>1 DEF CallRecord
<1>3. call' = [call EXCEPT ![c] = new]
  BY DEF GotoWith
<1> HIDE DEF new
<1> QED
  BY <1>1, <1>2, <1>3 DEF GotoWith, OthersSame, SameCall

\* An answer ends the call and frees the guard only of the call itself.
LEMMA AnswerMoves ==
    ASSUME Typed, NEW c \in Calls, NEW r \in Answers, Answer(c, r)
    PROVE  /\ call' \in [Calls -> CallRecord]
           /\ guard' = IF guard = c THEN None ELSE guard
           /\ OthersSame(c) /\ SameCall(c)
           /\ call'[c].at = "done" /\ call'[c].path = call[c].path
           /\ call'[c].result = r
<1> DEFINE ended == [call[c] EXCEPT !.at = "done", !.result = r, !.left = {},
                                    !.copy = NoProfile]
<1>1. call[c] \in CallRecord /\ call \in [Calls -> CallRecord]
  BY DEF Typed
<1>2. ended \in CallRecord
  BY <1>1 DEF CallRecord, Stages
<1>3. /\ ended.op = call[c].op
      /\ ended.at = "done" /\ ended.path = call[c].path /\ ended.result = r
  BY <1>1 DEF CallRecord
<1>4. call' = [call EXCEPT ![c] = ended]
  BY DEF Answer
<1> QED
  BY <1>1, <1>2, <1>3, <1>4 DEF Answer, OthersSame, SameCall

\* A step of a call keeps to the operation the call was begun as.
CallMoves(c) ==
    /\ call' \in [Calls -> CallRecord]
    /\ OthersSame(c) \/ WriteSettings(c)
    /\ call[c].at # "idle" => SameCall(c) /\ call'[c].at \notin {"idle", "store"}
    /\ CallInv(c)'

\* What a call is asked for has the shape the constants promise.
LEMMA OpOf ==
    ASSUME Typed, NEW c \in Calls, CallInv(c), call[c].at # "idle"
    PROVE  /\ call[c].op \in Op
           /\ call[c].op.op \in Making => call[c].op.name \in Names /\ call[c].op.kind \in Kinds
           /\ call[c].op.op = "forget_vpn" \/ (call[c].op.op = "update" /\ call[c].op.key = "id")
                => call[c].op.name \in Names
BY ProfilesAssumption DEF CallInv, Making

\* A call that goes on, with or without another path, or answers, at the right
\* stages, keeps CallInv.
LEMMA GotoCall ==
    ASSUME Typed, NEW c \in Calls, CallInv(c), call[c].at \notin {"idle", "done"},
           NEW s \in Stages \ {"idle", "store", "unsaved", "write"},
           s = "read" => call[c].op.key # None, Goto(c, s), s \in StagesOf(call[c].op.op)
    PROVE  CallMoves(c)
BY GotoMoves DEF CallMoves, CallInv, SameCall, SameRest

\* The same for going over paths.
LEMMA GoOverCall ==
    ASSUME Typed, NEW c \in Calls, CallInv(c), call[c].at \notin {"idle", "done"},
           NEW s \in {"find", "list each", "off each", "forget each", "each"},
           NEW P \in SUBSET Paths, GoOver(c, s, P), s \in StagesOf(call[c].op.op)
    PROVE  CallMoves(c)
<1>1. s \in Stages
  BY DEF Stages
<1> QED
  BY <1>1, GoOverMoves DEF CallMoves, CallInv, SameCall, SameRest

\* The same for passing a path over.
LEMMA PassCall ==
    ASSUME Typed, NEW c \in Calls, CallInv(c), NEW p, Pass(c, p),
           call[c].at \notin {"idle", "store", "done"}
    PROVE  CallMoves(c)
BY PassMoves DEF CallMoves, CallInv, SameCall, SameRest

\* The same for going on with a path.
LEMMA GotoWithCall ==
    ASSUME Typed, NEW c \in Calls, CallInv(c), call[c].at \notin {"idle", "done"},
           NEW s \in Stages \ {"idle", "store", "done", "read", "unsaved", "write"},
           NEW p \in Paths, GotoWith(c, s, p),
           s \in StagesOf(call[c].op.op),
           call[c].op.op # "update"
    PROVE  CallMoves(c)
BY GotoWithMoves DEF CallMoves, CallInv, SameCall

\* The same for an answer.
LEMMA AnswerCall ==
    ASSUME Typed, NEW c \in Calls, CallInv(c), call[c].at # "idle", NEW r \in Answers,
           Answer(c, r)
    PROVE  CallMoves(c)
<1>1. "done" \in StagesOf(call[c].op.op)
  BY OpOf DEF StagesOf, Op, Operations, Guarded
<1> QED
  BY <1>1, AnswerMoves DEF CallMoves, CallInv, SameCall

\* A call begins as one of the operations it may be, at its first stage.
LEMMA BeginMoves ==
    ASSUME Typed, NEW c \in Calls, Begin(c)
    PROVE  \E o \in OpsOf[c] :
             /\ o \in Op /\ call'[c].op = o /\ call'[c].path = o.path
             /\ call'[c].at \in StagesOf(o.op)
             /\ call'[c].at \in {"lock", "store", "add only", "resolve"}
             /\ o.op \in Guarded \cup {"import_ovpn"} <=> call'[c].at \in {"lock", "store"}
             /\ o.op = "import_ovpn" => call'[c].at = "store"
             /\ call'[c].result = call[c].result
             /\ call' \in [Calls -> CallRecord] /\ OthersSame(c) /\ guard' = guard
<1>1. PICK o \in OpsOf[c] :
         call' = [call EXCEPT ![c] =
            [@ EXCEPT !.op = o, !.path = o.path,
                      !.at = CASE o.op \in Guarded -> "lock"
                               [] o.op = "import_ovpn" -> "store"
                               [] o.op = "add" -> "add only"
                               [] OTHER -> "resolve"]]
  BY DEF Begin
<1> DEFINE at == CASE o.op \in Guarded -> "lock"
                   [] o.op = "import_ovpn" -> "store"
                   [] o.op = "add" -> "add only"
                   [] OTHER -> "resolve"
           begun == [call[c] EXCEPT !.op = o, !.path = o.path, !.at = at]
<1>2. o \in Op
  BY ProfilesAssumption
<1>3. /\ at \in StagesOf(o.op) /\ at \in {"lock", "store", "add only", "resolve"}
      /\ o.op \in Guarded \cup {"import_ovpn"} <=> at \in {"lock", "store"}
      /\ o.op = "import_ovpn" => at = "store"
  BY <1>2 DEF Op, Operations, Guarded, StagesOf
<1>4. call' = [call EXCEPT ![c] = begun]
  BY <1>1
<1> HIDE DEF at
<1>5. /\ begun \in CallRecord /\ begun.op = o /\ begun.path = o.path /\ begun.at = at
      /\ begun.result = call[c].result
  <2>1. call[c] \in CallRecord /\ o.path \in Paths \cup {None} /\ at \in Stages
    BY <1>2, <1>3 DEF Typed, Op, Stages
  <2> QED
    BY <1>2, <2>1 DEF CallRecord
<1>6. guard' = guard
  BY DEF Begin
<1> HIDE DEF begun
<1> QED
  BY <1>2, <1>3, <1>4, <1>5, <1>6 DEF Typed, OthersSame

\* Every step of a call keeps to its operation and its stages.
LEMMA OwnCall ==
    ASSUME Typed, NEW c \in Calls, CallInv(c), Begin(c) \/ CallStep(c)
    PROVE  CallMoves(c)
<1>o. call[c].at # "idle" => call[c].op.op \in Operations
  BY OpOf DEF Op
<1>f. fresh \subseteq Paths
  BY DEF Typed
<1>s. Saved \in SUBSET Paths /\ {p \in Saved : active[p] # "none"} \in SUBSET Paths
  BY DEF Saved
<1>r. ASSUME NEW new \in CallRecord, call' = [call EXCEPT ![c] = new]
      PROVE  call' \in [Calls -> CallRecord] /\ OthersSame(c) /\ call'[c] = new
  BY <1>r DEF Typed, OthersSame
<1>c. call[c] \in CallRecord
  BY DEF Typed
<1>1. CASE Begin(c)
  BY <1>1, BeginMoves DEF CallMoves, CallInv, Begin
<1>2. CASE Lock(c)
  <2>1. call[c].op.op \in Guarded \cup {"import_ovpn"} /\ call[c].at = "lock"
    BY <1>2, <1>o DEF Lock, CallInv, StagesOf, Starting, Operations, Guarded
  <2>2. /\ FirstStage(call[c].op.op) \in StagesOf(call[c].op.op)
        /\ FirstStage(call[c].op.op) \in
              Stages \ {"idle", "store", "done", "read", "unsaved", "write"}
    BY <2>1 DEF FirstStage, StagesOf, Starting, Guarded, Stages
  <2> QED
    BY <1>2, <2>1, <2>2
       DEF Lock, Typed, CallRecord, CallMoves, CallInv, OthersSame, SameCall
<1>3. CASE StoreCerts(c)
  BY <1>3, <1>o, GotoCall, GotoWithCall, AnswerCall
     DEF StoreCerts, Is, CallInv, StagesOf, Starting, Stages, Answers, Operations,
         Guarded
<1>4. CASE CheckDevice(c)
  BY <1>4, <1>o, GotoCall, GotoWithCall, AnswerCall
     DEF CheckDevice, Is, CallInv, StagesOf, Starting, Stages, Answers, Operations,
         Guarded
<1>5. CASE Lookup(c)
  BY <1>5, <1>o, <1>s, GoOverCall, AnswerCall
     DEF Lookup, CallInv, StagesOf, Starting, Answers, Operations, Guarded
<1>50. CASE FindSaved(c)
  BY <1>50, <1>o, GotoCall, PassCall, GotoWithCall, AnswerCall
     DEF FindSaved, Named, Saved, CallInv, StagesOf, Starting, Stages, Answers,
         Operations, Guarded
<1>6. CASE Add(c)
  BY <1>6, <1>o, <1>f, GotoCall, GotoWithCall, AnswerCall
     DEF Add, Is, CallInv, StagesOf, Starting, Stages, Answers, Operations, Guarded
<1>7. CASE Activate(c)
  BY <1>7, <1>o, GotoCall, GotoWithCall, AnswerCall
     DEF Activate, Is, CallInv, StagesOf, Starting, Stages, Answers, Operations, Guarded
<1>8. CASE Wait(c)
  BY <1>8, <1>o, GotoCall, GotoWithCall, AnswerCall
     DEF Wait, Is, CallInv, StagesOf, Starting, Stages, Answers, Operations, Guarded
<1>9. CASE Check(c)
  BY <1>9, <1>o, GotoCall, GotoWithCall, AnswerCall
     DEF Check, Is, CallInv, StagesOf, Starting, Stages, Answers, Operations, Guarded
<1>10. CASE ListVpns(c)
  BY <1>10, <1>o, <1>s, GoOverCall, AnswerCall
     DEF ListVpns, CallInv, StagesOf, Starting, Answers, Operations, Guarded
<1>100. CASE ReadVpn(c)
  <2>1. call[c].op.op = "connect_vpn_by_id" /\ call[c].at = "list each"
    BY <1>100, <1>o DEF ReadVpn, CallInv, StagesOf, Starting, Operations, Guarded
  <2>2. ASSUME NEW p \in call[c].left, Pass(c, p) PROVE CallMoves(c)
    BY <2>1, <2>2, PassCall
  <2>3. ASSUME NEW p \in Paths,
               call' = [call EXCEPT ![c].left = @ \ {p}, ![c].path = p]
        PROVE  CallMoves(c)
    <3> DEFINE new == [call[c] EXCEPT !.left = @ \ {p}, !.path = p]
    <3>1. /\ new \in CallRecord /\ new.op = call[c].op
          /\ new.at = call[c].at /\ new.path = p /\ new.result = call[c].result
      BY <1>c DEF CallRecord
    <3>2. call' = [call EXCEPT ![c] = new]
      BY <2>3
    <3> HIDE DEF new
    <3> QED
      BY <1>r, <2>1, <3>1, <3>2 DEF CallMoves, CallInv, SameCall
  <2>4. ASSUME NEW r \in {"ambiguous", "not found"}, Answer(c, r) PROVE CallMoves(c)
    BY <2>1, <2>4, AnswerCall DEF Answers
  <2>5. CASE Goto(c, "resolve")
    BY <2>1, <2>5, GotoCall DEF StagesOf, Stages
  <2> QED
    BY <1>100, <2>2, <2>3, <2>4, <2>5 DEF ReadVpn, Named, Saved
<1>11. CASE Resolve(c)
  BY <1>11, <1>o, GotoCall, GotoWithCall, AnswerCall
     DEF Resolve, EmptyPatch, Is, CallInv, StagesOf, Starting, Stages, Answers,
         Operations, Guarded
<1>off. ASSUME NEW r \in Answers, Off(c, r), call[c].at \in {"off", "off each", "deactivate"}
        PROVE  CallMoves(c)
  BY <1>off, <1>o, GotoCall, AnswerCall
     DEF Off, CallInv, StagesOf, Starting, Stages, Operations, Guarded
<1>12. CASE ListActive(c)
  BY <1>12, <1>o, <1>s, <1>off, GoOverCall
     DEF ListActive, CallInv, StagesOf, Starting, Answers, Operations, Guarded
<1>120. CASE ReadActive(c)
  <2>1. call[c].left \subseteq Paths
    BY <1>c DEF CallRecord
  <2> QED
    BY <1>120, <1>o, <1>off, <2>1, PassCall, GotoWithCall
       DEF ReadActive, CallInv, StagesOf, Starting, Stages, Answers, Operations, Guarded
<1>121. CASE Deactivate(c)
  BY <1>121, <1>off DEF Deactivate, Answers
<1>13. CASE ForgetVpn(c)
  BY <1>13, <1>o, <1>s, GoOverCall, AnswerCall
     DEF ForgetVpn, CallInv, StagesOf, Starting, Answers, Operations, Guarded
<1>130. CASE FindForgotten(c)
  BY <1>130, <1>o, PassCall, GotoWithCall, AnswerCall
     DEF FindForgotten, Named, Saved, CallInv, StagesOf, Starting, Stages, Answers,
         Operations, Guarded
<1>131. CASE DeleteVpn(c)
  BY <1>131, <1>o, GotoCall, AnswerCall
     DEF DeleteVpn, CallInv, StagesOf, Starting, Stages, Answers, Operations, Guarded
<1>14. CASE CleanupCerts(c)
  BY <1>14, <1>o, GotoCall, GotoWithCall, AnswerCall
     DEF CleanupCerts, Is, CallInv, StagesOf, Starting, Stages, Answers, Operations,
         Guarded
<1>15. CASE FreeDevice(c)
  BY <1>15, <1>o, GotoCall, GotoWithCall, AnswerCall
     DEF FreeDevice, Free, Is, CallInv, StagesOf, Starting, Stages, Answers,
         Operations, Guarded
<1>16. CASE FreeBluetooth(c)
  BY <1>16, <1>o, GotoCall, GotoWithCall, AnswerCall
     DEF FreeBluetooth, Free, Is, CallInv, StagesOf, Starting, Stages, Answers,
         Operations, Guarded
<1>17. CASE DeleteProfile(c)
  BY <1>17, <1>o, GotoCall, GotoWithCall, AnswerCall
     DEF DeleteProfile, Is, CallInv, StagesOf, Starting, Stages, Answers, Operations,
         Guarded
<1>18. CASE ListProfiles(c)
  BY <1>18, <1>o, <1>s, GoOverCall, AnswerCall
     DEF ListProfiles, CallInv, StagesOf, Starting, Answers, Operations, Guarded
<1>19. CASE ForgetEach(c)
  <2>1. call[c].op.op = "forget_bluetooth" /\ call[c].at = "each"
    BY <1>19, <1>o DEF ForgetEach, CallInv, StagesOf, Starting, Operations, Guarded
  <2>2. CASE Answer(c, "ok")
    BY <2>1, <2>2, AnswerCall DEF Answers
  <2>3. ASSUME NEW p \in call[c].left, Pass(c, p) PROVE CallMoves(c)
    BY <2>1, <2>3, PassCall
  <2>4. ASSUME NEW p \in call[c].left,
               call' = [call EXCEPT ![c].at = "delete each", ![c].path = p, ![c].left = @ \ {p}]
        PROVE  CallMoves(c)
    <3> DEFINE new == [call[c] EXCEPT !.at = "delete each", !.path = p, !.left = @ \ {p}]
    <3>1. /\ new \in CallRecord /\ new.op = call[c].op
          /\ new.at = "delete each" /\ new.path = p /\ new.result = call[c].result
      BY <1>c DEF CallRecord, Stages
    <3>2. call' = [call EXCEPT ![c] = new]
      BY <2>4
    <3> HIDE DEF new
    <3> QED
      BY <1>r, <2>1, <3>1, <3>2 DEF CallMoves, CallInv, SameCall, StagesOf
  <2> QED
    BY <1>19, <2>2, <2>3, <2>4 DEF ForgetEach
<1>190. CASE DeleteEach(c)
  BY <1>190, <1>o, GotoCall
     DEF DeleteEach, CallInv, StagesOf, Starting, Stages, Operations, Guarded
<1>20. CASE ReadSettings(c)
  <2>1. CASE Answer(c, "failed")
    BY <1>20, <2>1, AnswerCall DEF ReadSettings, Answers
  <2>2. CASE /\ call[c].path \in Saved
             /\ call' = [call EXCEPT ![c].at = "unsaved", ![c].copy = saved[call[c].path]]
    <3> DEFINE new == [call[c] EXCEPT !.at = "unsaved", !.copy = saved[call[c].path]]
    <3>0. call[c].path \in Paths /\ saved[call[c].path] \in Settings
      BY <2>2 DEF Saved, Typed
    <3>1. /\ new \in CallRecord /\ new.op = call[c].op
          /\ new.at = "unsaved" /\ new.path = call[c].path /\ new.result = call[c].result
          /\ new.copy = saved[call[c].path]
      BY <1>c, <3>0 DEF CallRecord, Stages
    <3>2. call' = [call EXCEPT ![c] = new]
      BY <2>2
    <3>3. call[c].op.op = "update" /\ call[c].at = "read"
      BY <1>20, <1>o DEF ReadSettings, CallInv, StagesOf, Starting, Operations, Guarded
    <3> HIDE DEF new
    <3> QED
      BY <1>r, <3>0, <3>1, <3>2, <3>3 DEF CallMoves, CallInv, SameCall, StagesOf
  <2> QED
    BY <1>20, <2>1, <2>2 DEF ReadSettings
<1>21. CASE ReadUnsaved(c)
  <2>1. CASE Answer(c, "failed")
    BY <1>21, <2>1, AnswerCall DEF ReadUnsaved, Answers
  <2>2. CASE /\ call[c].path \in Saved
             /\ call' = [call EXCEPT ![c].at = "write",
                                     ![c].copy.unsaved = saved[call[c].path].unsaved]
    <3> DEFINE copy == [call[c].copy EXCEPT !.unsaved = saved[call[c].path].unsaved]
               new == [call[c] EXCEPT !.at = "write", !.copy = copy]
    <3>3. call[c].op.op = "update" /\ call[c].at = "unsaved"
      BY <1>21, <1>o DEF ReadUnsaved, CallInv, StagesOf, Starting, Operations, Guarded
    <3>0. call[c].path \in Paths /\ copy \in Settings
      BY <2>2, <3>3 DEF Saved, Typed, CallInv, Settings
    <3>1. /\ new \in CallRecord /\ new.op = call[c].op /\ new.overlapped = call[c].overlapped
          /\ new.at = "write" /\ new.path = call[c].path /\ new.result = call[c].result
          /\ new.copy = copy
      BY <1>c, <3>0 DEF CallRecord, Stages
    <3>2. call' = [call EXCEPT ![c] = new]
      BY <2>2
    <3> HIDE DEF new, copy
    <3> QED
      BY <1>r, <3>0, <3>1, <3>2, <3>3 DEF CallMoves, CallInv, SameCall, StagesOf
  <2> QED
    BY <1>21, <2>1, <2>2 DEF ReadUnsaved
<1>22. CASE WriteSettings(c)
  <2>1. CASE Answer(c, "failed")
    BY <1>22, <2>1, AnswerCall DEF WriteSettings, Answers
  <2>2. CASE call' = [d \in Calls |->
                IF d = c THEN [call[c] EXCEPT !.at = "done", !.result = "ok", !.copy = NoProfile]
                ELSE IF HasRead(d, call[c].path) THEN [call[d] EXCEPT !.overlapped = TRUE]
                ELSE call[d]]
    <3> DEFINE new == [call[c] EXCEPT !.at = "done", !.result = "ok", !.copy = NoProfile]
    <3>1. /\ new \in CallRecord /\ new.op = call[c].op /\ new.overlapped = call[c].overlapped
          /\ new.at = "done" /\ new.path = call[c].path
      BY <1>c DEF CallRecord, Stages, Answers
    <3>2. \A d \in Calls : /\ call[d] \in CallRecord
                           /\ [call[d] EXCEPT !.overlapped = TRUE] \in CallRecord
      BY DEF Typed, CallRecord
    <3>3. call[c].op.op = "update"
      BY <1>22, <1>o DEF WriteSettings, CallInv, StagesOf, Starting, Operations, Guarded
    <3>4. call' \in [Calls -> CallRecord] /\ call'[c] = new
      BY <2>2, <3>1, <3>2
    <3> HIDE DEF new
    <3> QED
      BY <1>22, <3>1, <3>3, <3>4
         DEF WriteSettings, CallMoves, CallInv, SameCall, StagesOf
  <2> QED
    BY <1>22, <2>1, <2>2 DEF WriteSettings
<1> QED
  BY <1>1, <1>2, <1>3, <1>4, <1>5, <1>50, <1>6, <1>7, <1>8, <1>9, <1>10, <1>100, <1>11,
     <1>12, <1>120, <1>121, <1>13, <1>130, <1>131, <1>14, <1>15, <1>16, <1>17, <1>18, <1>19,
     <1>190, <1>20, <1>21, <1>22 DEF CallStep

-----------------------------------------------------------------------------
(* What becomes of the profiles and of their connections.                  *)

\* A profile that is there is no NoProfile.
LEMMA SavedSettings ==
    ASSUME Typed, NEW p \in Paths
    PROVE  /\ NoProfile \notin Settings
           /\ p \in Saved <=> saved[p] \in Settings
BY ProfilesAssumption DEF Typed, Saved, Settings, NoProfile

\* What call c may do to a profile: delete it, make it, or change its settings.
Makes(c, p) ==
    /\ Add(c) /\ call[c].at \in {"add", "add only"} /\ p \in fresh
    /\ saved'[p] = Profile(c, call[c].op.kind, call[c].op.name)
    /\ fresh' = fresh \ {p}
Wrote(c) ==
    /\ WriteSettings(c) /\ call[c].at = "write" /\ call[c].path \in Saved
    /\ saved' = [saved EXCEPT ![call[c].path] = Written(c)]
    /\ saved'[call[c].path] = Written(c)
    /\ fresh' = fresh
    /\ call'[c].at = "done" /\ call'[c].result = "ok" /\ call'[c].path = call[c].path
    /\ call'[c].op = call[c].op /\ call'[c].overlapped = call[c].overlapped
    /\ \A d \in Calls \ {c} : HasRead(d, call[c].path) => call'[d].overlapped
Writes(c, p) == Wrote(c) /\ p = call[c].path
SavedMoves(c, p) ==
    \/ saved'[p] = saved[p]
    \/ saved'[p] = NoProfile
    \/ Makes(c, p)
    \/ Writes(c, p)

\* A profile that is made is well formed.
LEMMA ProfileTyped ==
    ASSUME Typed, NEW c \in Calls, CallInv(c), call[c].at \in {"add", "add only"}
    PROVE  /\ Profile(c, call[c].op.kind, call[c].op.name) \in Settings
           /\ Profile(c, call[c].op.kind, call[c].op.name).id = call[c].op.name
           /\ Profile(c, call[c].op.kind, call[c].op.name).by = c
           /\ Profile(c, call[c].op.kind, call[c].op.name).certs
                = IF call[c].op.op = "import_ovpn" THEN call[c].op.name ELSE None
<1>1. call[c].op.op \in Making
  BY OpOf DEF CallInv, StagesOf, Starting, Op, Operations, Guarded, Making
<1>2. call[c].op.name \in Names /\ call[c].op.kind \in Kinds
  BY <1>1, OpOf
<1> QED
  BY <1>2 DEF Profile, NoProfile, Settings

\* So is one that is written: it carries the patch, and what the copy carries of
\* other settings; a new name is remembered.
LEMMA WrittenTyped ==
    ASSUME Typed, NEW c \in Calls, CallInv(c), call[c].at = "write", call[c].path \in Saved
    PROVE  /\ Written(c) \in Settings
           /\ Written(c).by = saved[call[c].path].by
           /\ Written(c).kind = saved[call[c].path].kind
           /\ Written(c).certs = saved[call[c].path].certs
           /\ ~Written(c).renamed => /\ ~saved[call[c].path].renamed
                                     /\ Written(c).id = saved[call[c].path].id
           /\ Carries(Written(c), c)
           /\ \A d \in Calls :
                 call[d].op.key \in Keys \ {call[c].op.key} /\ Carries(call[c].copy, d)
                    => Carries(Written(c), d)
<1>o. call[c].op.op = "update"
  BY OpOf DEF CallInv, StagesOf, Starting, Op, Operations, Guarded
<1>1. call[c].op.key \in Keys /\ call[c].copy \in Settings /\ call[c].path \in Paths
  BY OpOf DEF CallInv, Op
<1>2. saved[call[c].path] \in Settings
  BY <1>1, SavedSettings
<1> DEFINE new == Merged(call[c].copy, c)
<1>3. Renamed(call[c].copy, c) \in Names
  BY <1>o, <1>1, OpOf DEF Renamed, Settings
<1>4. /\ new.id = Renamed(call[c].copy, c)
      /\ new.unsaved = call[c].copy.unsaved
      /\ new.set = [call[c].copy.set EXCEPT ![call[c].op.key] = c]
  BY <1>1 DEF Merged, Settings
<1>5. /\ new.set \in [Keys -> Calls \cup {None}]
      /\ new.set[call[c].op.key] = c
      /\ \A k \in Keys \ {call[c].op.key} : new.set[k] = call[c].copy.set[k]
  BY <1>1, <1>4 DEF Settings
<1>6. Written(c) = [saved[call[c].path] EXCEPT
                      !.set = new.set, !.id = new.id, !.unsaved = call[c].copy.unsaved,
                      !.renamed = saved[call[c].path].renamed
                                    \/ new.id # saved[call[c].path].id]
  BY <1>4, Zenon DEF Written
<1> HIDE DEF new
<1> DEFINE was == saved[call[c].path].renamed \/ new.id # saved[call[c].path].id
<1>7. was \in BOOLEAN
  OBVIOUS
<1>8. was \/ (~saved[call[c].path].renamed /\ new.id = saved[call[c].path].id)
  OBVIOUS
<1> HIDE DEF was
<1>9. Written(c) = [saved[call[c].path] EXCEPT
                      !.set = new.set, !.id = new.id, !.unsaved = call[c].copy.unsaved,
                      !.renamed = was]
  BY <1>6, Zenon DEF was
<1>10. /\ Written(c) \in Settings
       /\ Written(c).by = saved[call[c].path].by
       /\ Written(c).kind = saved[call[c].path].kind
       /\ Written(c).certs = saved[call[c].path].certs
       /\ Written(c).set = new.set /\ Written(c).id = new.id /\ Written(c).renamed = was
  BY <1>1, <1>2, <1>3, <1>4, <1>5, <1>7, <1>9 DEF Settings
<1>11. Carries(Written(c), c)
  BY <1>4, <1>5, <1>10 DEF Carries, Renamed
<1>12. ASSUME NEW d \in Calls, call[d].op.key \in Keys \ {call[c].op.key},
              Carries(call[c].copy, d)
       PROVE  Carries(Written(c), d)
  BY <1>4, <1>5, <1>10, <1>12 DEF Carries, Renamed
<1> QED
  BY <1>8, <1>10, <1>11, <1>12

\* An update writes, or fails and leaves everything as it was.
LEMMA WriteSplit ==
    ASSUME Typed, NEW c \in Calls, WriteSettings(c)
    PROVE  Wrote(c) \/ (Answer(c, "failed") /\ UNCHANGED <<saved, fresh>>)
<1> SUFFICES ASSUME ~(Answer(c, "failed") /\ UNCHANGED saved)
             PROVE  Wrote(c)
  BY DEF WriteSettings
<1>1. /\ call[c].at = "write" /\ call[c].path \in Saved /\ fresh' = fresh
      /\ saved' = [saved EXCEPT ![call[c].path] = Written(c)]
      /\ call' = [d \in Calls |->
            IF d = c THEN [call[c] EXCEPT !.at = "done", !.result = "ok", !.copy = NoProfile]
            ELSE IF HasRead(d, call[c].path) THEN [call[d] EXCEPT !.overlapped = TRUE]
            ELSE call[d]]
  BY Zenon DEF WriteSettings
<1>2. saved \in [Paths -> Settings \cup {NoProfile}] /\ call[c].path \in Paths
  BY <1>1 DEF Typed, Saved
<1>4. saved'[call[c].path] = Written(c)
  BY <1>1, <1>2
<1> DEFINE new == [call[c] EXCEPT !.at = "done", !.result = "ok", !.copy = NoProfile]
<1>5. /\ new.op = call[c].op /\ new.overlapped = call[c].overlapped
      /\ new.at = "done" /\ new.path = call[c].path /\ new.result = "ok"
  BY DEF Typed, CallRecord
<1>6. call'[c] = new
  BY <1>1
<1>7. ASSUME NEW d \in Calls \ {c}, HasRead(d, call[c].path)
      PROVE  call'[d].overlapped
  <2>1. call'[d] = [call[d] EXCEPT !.overlapped = TRUE] /\ call[d] \in CallRecord
    BY <1>1, <1>7 DEF Typed
  <2> QED
    BY <2>1 DEF CallRecord
<1> HIDE DEF new
<1> QED
  BY <1>1, <1>4, <1>5, <1>6, <1>7 DEF Wrote

\* Each step of a call does one of these to each profile.
LEMMA OwnSaved ==
    ASSUME Typed, NEW c \in Calls, CallInv(c), Begin(c) \/ CallStep(c)
    PROVE  /\ \A p \in Paths : SavedMoves(c, p)
           /\ DOMAIN saved' = Paths /\ saved' = [p \in Paths |-> saved'[p]]
           /\ fresh' \subseteq fresh
<1>s. saved \in [Paths -> Settings \cup {NoProfile}] /\ fresh \subseteq Paths
  BY DEF Typed
<1>1. CASE UNCHANGED <<saved, fresh>>
  BY <1>s, <1>1 DEF SavedMoves
<1>2. CASE Add(c)
  BY <1>s, <1>1, <1>2 DEF Add, SavedMoves, Makes
<1>3. CASE WriteSettings(c)
  BY <1>s, <1>1, <1>3, WriteSplit DEF SavedMoves, Writes, Wrote
<1>4. CASE DeleteVpn(c) \/ DeleteEach(c) \/ DeleteProfile(c)
  BY <1>s, <1>1, <1>4 DEF DeleteVpn, DeleteEach, DeleteProfile, Removed, SavedMoves
<1> QED
  BY <1>1, <1>2, <1>3, <1>4 DEF CallStep, Begin, StoreCerts, Lock, CheckDevice, Lookup,
         FindSaved, Activate, Wait, Check, ListVpns, ReadVpn, Resolve, ListActive,
         ReadActive, Deactivate, ForgetVpn, FindForgotten, CleanupCerts, FreeDevice,
         FreeBluetooth, Free, ListProfiles, ForgetEach, ReadSettings, ReadUnsaved, world

\* Only what is saved is active.
ActiveTyped ==
    /\ active \in [Paths -> {"none", "activating", "activated"}]
    /\ \A p \in Paths : active[p] # "none" => p \in Saved

\* Every step of a call leaves active only what is saved.
LEMMA OwnActive ==
    ASSUME Typed, NEW c \in Calls, CallInv(c), Begin(c) \/ CallStep(c)
    PROVE  ActiveTyped'
<1>1. /\ active \in [Paths -> {"none", "activating", "activated"}]
      /\ \A p \in Paths : active[p] # "none" => saved[p] # NoProfile
      /\ fresh \subseteq Paths
      /\ saved \in [Paths -> Settings \cup {NoProfile}]
  BY DEF Typed, Saved
<1>2. ActiveTyped' <=> /\ active' \in [Paths -> {"none", "activating", "activated"}]
                       /\ \A p \in Paths : active'[p] # "none" => saved'[p] # NoProfile
  BY DEF ActiveTyped, Saved
<1>3. CASE UNCHANGED <<saved, active>>
  BY <1>1, <1>2, <1>3
<1>4. CASE Add(c)
  <2>1. CASE UNCHANGED <<saved, active>>
    BY <1>3, <2>1
  <2>2. ASSUME NEW p \in fresh,
               saved' = [saved EXCEPT ![p] = Profile(c, call[c].op.kind, call[c].op.name)],
               \/ active' = active
               \/ active' = [q \in Paths |->
                     IF q = p THEN "activating"
                     ELSE IF saved[q].kind = call[c].op.kind THEN "none" ELSE active[q]]
        PROVE  ActiveTyped'
    <3>1. Profile(c, call[c].op.kind, call[c].op.name) # NoProfile
      BY <1>4, ProfileTyped, SavedSettings, <1>1, <2>2 DEF Add
    <3>2. \A q \in Paths : q # p => saved'[q] = saved[q]
      BY <1>1, <2>2
    <3>3. saved'[p] # NoProfile
      BY <1>1, <2>2, <3>1
    <3> QED
      BY <1>1, <1>2, <2>2, <3>2, <3>3
  <2> QED
    BY <1>4, <2>1, <2>2 DEF Add
<1>5. CASE Activate(c)
  BY <1>1, <1>2, <1>3, <1>5 DEF Activate, Activated, Saved
<1>6. CASE Deactivate(c) \/ FreeDevice(c) \/ FreeBluetooth(c)
  BY <1>1, <1>2, <1>3, <1>6 DEF Deactivate, FreeDevice, FreeBluetooth, Free, world
<1>7. CASE DeleteVpn(c) \/ DeleteEach(c) \/ DeleteProfile(c)
  <2>1. ASSUME NEW p \in Paths, saved' = Removed(p), active' = Without(p) PROVE ActiveTyped'
    BY <1>1, <1>2, <2>1 DEF Removed, Without
  <2> QED
    BY <1>3, <1>7, <2>1 DEF DeleteVpn, DeleteEach, DeleteProfile, Saved
<1>8. CASE WriteSettings(c)
  <2>1. active' = active
    BY <1>8 DEF WriteSettings
  <2>2. \A p \in Paths : saved[p] # NoProfile => saved'[p] # NoProfile
    <3>1. CASE saved' = saved
      BY <3>1
    <3>2. CASE saved' # saved
      <4>1. /\ call[c].path \in Saved /\ call[c].at = "write"
            /\ saved' = [saved EXCEPT ![call[c].path] = Written(c)]
        BY <1>8, <3>2 DEF WriteSettings
      <4>2. Written(c) # NoProfile
        BY <4>1, WrittenTyped, SavedSettings DEF Saved
      <4> QED
        BY <1>1, <4>1, <4>2
    <3> QED
      BY <3>1, <3>2
  <2> QED
    BY <1>1, <1>2, <2>1, <2>2
<1> QED
  BY <1>3, <1>4, <1>5, <1>6, <1>7, <1>8 DEF CallStep, Begin, StoreCerts, Lock, CheckDevice,
         Lookup, FindSaved, Wait, Check, ListVpns, ReadVpn, Resolve, ListActive, ReadActive,
         ForgetVpn, FindForgotten, CleanupCerts, ListProfiles, ForgetEach, ReadSettings,
         ReadUnsaved, world

\* Every step of a call keeps the shape of the variables.
LEMMA OwnTyped ==
    ASSUME Typed, NEW c \in Calls, CallInv(c), Begin(c) \/ CallStep(c)
    PROVE  Typed'
<1>1. call' \in [Calls -> CallRecord]
  BY OwnCall DEF CallMoves
<1>2. ASSUME NEW p \in Paths PROVE saved'[p] \in Settings \cup {NoProfile}
  <2>1. SavedMoves(c, p)
    BY OwnSaved
  <2>2. CASE Makes(c, p)
    BY <2>2, ProfileTyped DEF Makes
  <2>3. CASE Writes(c, p)
    BY <2>3, WrittenTyped DEF Writes, Wrote
  <2> QED
    BY <2>1, <2>2, <2>3 DEF SavedMoves, Typed
<1>3. saved' \in [Paths -> Settings \cup {NoProfile}]
  BY <1>2, OwnSaved
<1>4. fresh' \subseteq Paths \ Saved'
  <2> SUFFICES ASSUME NEW p \in fresh' PROVE p \in Paths /\ saved'[p] = NoProfile
    BY DEF Saved
  <2>1. p \in Paths /\ saved[p] = NoProfile
    BY OwnSaved DEF Typed, Saved
  <2> QED
    BY <2>1, OwnSaved DEF SavedMoves, Makes, Writes, Wrote, Saved
<1>5. certs' \subseteq Names \X (Calls \cup {None})
  <2>1. CASE StoreCerts(c)
    <3>1. call[c].op.op = "import_ovpn" /\ call[c].at = "store"
      BY <2>1 DEF StoreCerts, Is
    <3>2. call[c].op.name \in Names
      BY <3>1, OpOf DEF Making
    <3>3. certs' \subseteq certs \cup {<<call[c].op.name, c>>}
      BY <2>1 DEF StoreCerts
    <3> QED
      BY <3>2, <3>3 DEF Typed
  <2>2. CASE CleanupCerts(c)
    BY <2>2 DEF CleanupCerts, Typed
  <2>3. CASE certs' = certs
    BY <2>3 DEF Typed
  <2> QED
    BY <2>1, <2>2, <2>3 DEF CallStep, Begin, Lock, CheckDevice, Lookup, FindSaved, Add,
           Activate, Wait, Check, ListVpns, ReadVpn, Resolve, ListActive, ReadActive,
           Deactivate, ForgetVpn, FindForgotten, DeleteVpn, FreeDevice, FreeBluetooth, Free,
           ListProfiles, ForgetEach, DeleteEach, DeleteProfile, ReadSettings, ReadUnsaved,
           WriteSettings, world
<1>6. guard' \in Calls \cup {None}
  BY DEF Typed, CallStep, Begin, Lock, CheckDevice, Lookup, FindSaved, Add, Activate, Wait,
         Check, ListVpns, ReadVpn, Resolve, ListActive, ReadActive, Deactivate, ForgetVpn,
         FindForgotten, DeleteVpn, FreeDevice, FreeBluetooth, Free, ListProfiles,
         ForgetEach, DeleteEach, DeleteProfile, ReadSettings, ReadUnsaved, WriteSettings,
         world, StoreCerts, CleanupCerts, Answer, Goto, GotoWith, GoOver, Pass, Off
<1> QED
  BY <1>1, <1>3, <1>4, <1>5, <1>6, OwnActive DEF Typed, ActiveTyped

-----------------------------------------------------------------------------
(* What a step leaves of the calls, and the guard.                         *)

\* A call that is not the one that steps is left alone, but for the history of
\* writes that overlapped with it.
Left(d) ==
    /\ call'[d].op = call[d].op /\ call'[d].at = call[d].at /\ call'[d].path = call[d].path
    /\ call'[d].copy = call[d].copy /\ call'[d].result = call[d].result
    /\ call'[d].left = call[d].left
    /\ call[d].overlapped => call'[d].overlapped

\* A step of one call leaves the others.
LEMMA OthersLeft ==
    ASSUME Typed, NEW c \in Calls, CallInv(c), Begin(c) \/ CallStep(c), NEW d \in Calls \ {c}
    PROVE  Left(d)
<1>1. CASE OthersSame(c)
  BY <1>1 DEF OthersSame, Left
<1>2. CASE WriteSettings(c)
  <2>1. CASE Answer(c, "failed")
    BY <2>1, AnswerMoves DEF Answers, OthersSame, Left
  <2>2. CASE ~Answer(c, "failed")
    <3>1. call'[d] = IF HasRead(d, call[c].path)
                     THEN [call[d] EXCEPT !.overlapped = TRUE] ELSE call[d]
      BY <1>2, <2>2 DEF WriteSettings
    <3>2. call[d] \in CallRecord
      BY DEF Typed
    <3> QED
      BY <3>1, <3>2 DEF Left, CallRecord
  <2> QED
    BY <2>1, <2>2
<1> QED
  BY <1>1, <1>2, OwnCall DEF CallMoves

\* A call that has been answered does nothing more.
LEMMA DoneIsLast ==
    ASSUME Typed, NEW c \in Calls, CallInv(c), Begin(c) \/ CallStep(c)
    PROVE  call[c].at # "done"
BY DEF CallStep, Begin, StoreCerts, Lock, CheckDevice, Lookup, FindSaved, Add, Activate,
       Wait, Check, ListVpns, ReadVpn, Resolve, ListActive, ReadActive, Deactivate,
       ForgetVpn, FindForgotten, DeleteVpn, FreeDevice, FreeBluetooth, ListProfiles,
       ForgetEach, DeleteEach, DeleteProfile, ReadSettings, ReadUnsaved, WriteSettings,
       CleanupCerts, Is

CallsInv == \A c \in Calls : CallInv(c)

\* A call that does not step is left alone.
LEMMA StepsOrLeft ==
    ASSUME Typed, CallsInv, [Next]_vars, NEW c \in Calls, ~(Begin(c) \/ CallStep(c))
    PROVE  Left(c)
<1>1. CASE UNCHANGED call
  BY <1>1 DEF Left
<1>2. ASSUME NEW d \in Calls, Begin(d) \/ CallStep(d) PROVE Left(c)
  BY <1>2, OthersLeft DEF CallsInv
<1> QED
  BY <1>1, <1>2 DEF Next, Activates, Drops, vars

\* Whoever steps, a call that has begun keeps its operation, and one that has
\* ended is left alone.
LEMMA Lasting ==
    ASSUME Typed, CallsInv, [Next]_vars, NEW d \in Calls
    PROVE  /\ call[d].at # "idle" => call'[d].at # "idle" /\ call'[d].op = call[d].op
           /\ call[d].at = "done" => Left(d)
<1>1. CASE Begin(d) \/ CallStep(d)
  BY <1>1, OwnCall, DoneIsLast DEF CallMoves, SameCall, CallsInv
<1>2. CASE ~(Begin(d) \/ CallStep(d))
  BY <1>2, StepsOrLeft DEF Left
<1> QED
  BY <1>1, <1>2

\* What a step may do to the guard.
GuardMoves(c) ==
    \/ guard = None /\ guard' = c
    \/ guard' = guard /\ (Past(c)' => Past(c))
    \/ guard' = (IF guard = c THEN None ELSE guard) /\ ~Past(c)'

\* Going on does not touch the guard, and does not get a call past it.
LEMMA GotoGuard ==
    ASSUME Typed, NEW c \in Calls, NEW s \in Stages, Goto(c, s), Past(c) \/ s = "lock"
    PROVE  GuardMoves(c)
BY GotoMoves DEF GuardMoves, Past, SameCall

\* An answer gives the guard back.
LEMMA AnswerGuard ==
    ASSUME Typed, NEW c \in Calls, NEW r \in Answers, Answer(c, r)
    PROVE  GuardMoves(c)
BY AnswerMoves DEF GuardMoves, Past

\* Only locking, of a free guard, gets a call past it.
LEMMA OwnGuard ==
    ASSUME Typed, NEW c \in Calls, CallInv(c), Begin(c) \/ CallStep(c)
    PROVE  GuardMoves(c)
<1>1. CASE Lock(c)
  BY <1>1 DEF Lock, GuardMoves
<1>2. CASE Begin(c)
  BY <1>2, BeginMoves DEF GuardMoves, Past
<1>3. ASSUME ~Lock(c), ~Begin(c) PROVE GuardMoves(c)
  <2>1. \/ guard' = guard
        \/ guard' = (IF guard = c THEN None ELSE guard) /\ \E r \in Answers : Answer(c, r)
    BY <1>3 DEF Typed, CallStep, CheckDevice, Lookup, FindSaved, Add, Activate, Wait, Check,
           ListVpns, ReadVpn, Resolve, ListActive, ReadActive, Deactivate, ForgetVpn,
           FindForgotten, DeleteVpn, FreeDevice, FreeBluetooth, Free, ListProfiles,
           ForgetEach, DeleteEach, DeleteProfile, ReadSettings, ReadUnsaved, WriteSettings,
           world, StoreCerts, CleanupCerts, Answer, Goto, GotoWith, Answers, GoOver, Pass,
           Off
  <2>2. CASE guard' = guard
    <3>1. CASE StoreCerts(c)
      BY <3>1, AnswerGuard, GotoGuard DEF StoreCerts, Stages, Answers
    <3>2. CASE ~StoreCerts(c)
      <4>1. call[c].at \notin {"idle", "store", "lock", "done"}
        BY <1>3, <3>2 DEF CallStep, CheckDevice, Lookup, FindSaved, Add, Activate, Is, Wait,
               Check, ListVpns, ReadVpn, Resolve, ListActive, ReadActive, Deactivate,
               ForgetVpn, FindForgotten, DeleteVpn, FreeDevice, FreeBluetooth, ListProfiles,
               ForgetEach, DeleteEach, DeleteProfile, ReadSettings, ReadUnsaved,
               WriteSettings, CleanupCerts
      <4>2. call'[c].op = call[c].op
        BY <4>1, OwnCall DEF CallMoves, SameCall
      <4> QED
        BY <2>2, <4>1, <4>2 DEF GuardMoves, Past
    <3> QED
      BY <3>1, <3>2
  <2> QED
    BY <2>1, <2>2, AnswerGuard
<1> QED
  BY <1>1, <1>2, <1>3

\* The guard serialises the calls that ask for it.
LEMMA NextGuard ==
    ASSUME Typed, CallsInv, GuardInv, [Next]_vars
    PROVE  GuardInv'
<1>1. ASSUME NEW c \in Calls, Begin(c) \/ CallStep(c) PROVE GuardInv'
  <2>1. GuardMoves(c) /\ \A d \in Calls \ {c} : Left(d)
    BY <1>1, OwnGuard, OthersLeft DEF CallsInv
  <2>2. \A d \in Calls \ {c} : Past(d)' <=> Past(d)
    BY <2>1 DEF Left, Past
  <2> QED
    BY <2>1, <2>2, ProfilesAssumption DEF GuardInv, GuardMoves
<1>2. CASE UNCHANGED <<call, guard>>
  BY <1>2 DEF GuardInv, Past
<1> QED
  BY <1>1, <1>2 DEF Next, Activates, Drops, vars

-----------------------------------------------------------------------------
(* No twins.                                                               *)

\* A step of any kind changes a profile only as one of the calls may.
LEMMA NextSaved ==
    ASSUME Typed, CallsInv, [Next]_vars
    PROVE  /\ \A p \in Paths : saved'[p] = saved[p] \/ \E c \in Calls : SavedMoves(c, p)
           /\ fresh' \subseteq fresh
BY OwnSaved DEF Next, Activates, Drops, vars, world, CallsInv

\* What a profile was, when a step leaves a profile there: itself, of the same
\* kind, maker and certificates, and of the same name unless that is remembered;
\* or a path not used before.
LEMMA NextProfile ==
    ASSUME Typed, CallsInv, [Next]_vars, NEW p \in Saved'
    PROVE  \/ /\ p \in Saved
              /\ saved'[p].kind = saved[p].kind /\ saved'[p].by = saved[p].by
              /\ saved'[p].certs = saved[p].certs
              /\ ~saved'[p].renamed => ~saved[p].renamed /\ saved'[p].id = saved[p].id
           \/ \E c \in Calls :
                /\ Makes(c, p) /\ call[c].at \in {"add", "add only"}
                /\ saved'[p].id = call[c].op.name /\ saved'[p].by = c
                /\ saved'[p].certs = IF call[c].op.op = "import_ovpn"
                                      THEN call[c].op.name ELSE None
<1>1. p \in Paths /\ saved'[p] # NoProfile
  BY DEF Saved
<1>2. CASE saved'[p] = saved[p]
  BY <1>1, <1>2 DEF Saved
<1>3. ASSUME NEW c \in Calls, Makes(c, p)
      PROVE  /\ call[c].at \in {"add", "add only"}
             /\ saved'[p].id = call[c].op.name /\ saved'[p].by = c
             /\ saved'[p].certs = IF call[c].op.op = "import_ovpn"
                                   THEN call[c].op.name ELSE None
  BY <1>3, ProfileTyped DEF Makes, CallsInv
<1>4. ASSUME NEW c \in Calls, Writes(c, p)
      PROVE  /\ p \in Saved
             /\ saved'[p].kind = saved[p].kind /\ saved'[p].by = saved[p].by
             /\ saved'[p].certs = saved[p].certs
             /\ ~saved'[p].renamed => ~saved[p].renamed /\ saved'[p].id = saved[p].id
  BY <1>4, WrittenTyped DEF Writes, Wrote, CallsInv
<1> QED
  BY <1>1, <1>2, <1>3, <1>4, NextSaved DEF SavedMoves

\* Which stages make profiles for a connect.
LEMMA AddStage ==
    ASSUME Typed, NEW c \in Calls, CallInv(c), call[c].at \in {"add", "add only"},
           call[c].op.op \in Connecting
    PROVE  call[c].at = "add" /\ Past(c)
BY OpOf DEF CallInv, StagesOf, Starting, Connecting, Op, Operations, Guarded, Past

MadesInv == \A p \in Paths : MadeInv(p)
AddsInv == \A c \in Calls : AddInv(c)

\* The maker of a profile has begun, whatever steps.
LEMMA NextMade ==
    ASSUME Typed, CallsInv, MadesInv, [Next]_vars
    PROVE  MadesInv'
<1> SUFFICES ASSUME NEW p \in Paths, saved'[p].by # None
             PROVE  call'[saved'[p].by].at # "idle"
  BY DEF MadesInv, MadeInv
<1>1. p \in Saved'
  BY DEF Saved, NoProfile
<1>2. CASE p \in Saved /\ saved'[p].by = saved[p].by
  <2>1. saved[p].by \in Calls
    BY <1>2, SavedSettings DEF Settings, Saved
  <2> QED
    BY <1>2, <2>1, Lasting DEF MadesInv, MadeInv
<1>3. ASSUME NEW c \in Calls, call[c].at \in {"add", "add only"}, saved'[p].by = c
      PROVE  call'[saved'[p].by].at # "idle"
  BY <1>3, Lasting
<1> QED
  BY <1>1, <1>2, <1>3, NextProfile

\* Whose profile counts does not change.
LEMMA ByConnectLasts ==
    ASSUME Typed, CallsInv, MadesInv, [Next]_vars, NEW p \in Saved, saved'[p].by = saved[p].by
    PROVE  ByConnect(p)' => ByConnect(p)
<1>1. p \in Paths /\ saved[p] \in Settings
  BY SavedSettings DEF Saved
<1> QED
  BY <1>1, Lasting DEF MadesInv, MadeInv, ByConnect, Settings

\* Which steps lead to a stage at which what was read is used.
Chosen == {"find", "add", "deactivate", "delete vpn", "unsaved", "write"}
LEMMA OwnStage ==
    ASSUME Typed, NEW c \in Calls, CallInv(c), Begin(c) \/ CallStep(c),
           call'[c].at \in Chosen
    PROVE  /\ call'[c].at = "find" => Lookup(c) \/ FindSaved(c)
           /\ call'[c].at = "add" => FindSaved(c) \/ FreeDevice(c)
           /\ call'[c].at = "deactivate" => ReadActive(c)
           /\ call'[c].at = "delete vpn" => FindForgotten(c)
           /\ call'[c].at = "unsaved" => ReadSettings(c)
           /\ call'[c].at = "write" => ReadUnsaved(c)
<1>s. Saved \in SUBSET Paths /\ {p \in Saved : active[p] # "none"} \in SUBSET Paths
  BY DEF Saved
<1>d. \A r \in Answers : ~Answer(c, r)
  BY AnswerMoves DEF Chosen
<1>g. \A t \in Stages \ Chosen : ~Goto(c, t)
  BY GotoMoves DEF Chosen
<1>1. ~Begin(c)
  BY BeginMoves DEF Chosen
<1>2. ~Lock(c)
  <2> SUFFICES ASSUME Lock(c) PROVE FALSE
    OBVIOUS
  <2>1. call'[c].at = FirstStage(call[c].op.op) /\ call[c].at = "lock"
    BY DEF Lock, Typed, CallRecord
  <2>2. call[c].op.op \in Guarded \cup {"import_ovpn"}
    BY <2>1, OpOf DEF CallInv, StagesOf, Starting, Op, Operations, Guarded
  <2> QED
    BY <2>1, <2>2 DEF FirstStage, Guarded, Chosen
<1>3. /\ ~StoreCerts(c) /\ ~CheckDevice(c) /\ ~Wait(c) /\ ~Check(c) /\ ~CleanupCerts(c)
      /\ ~Resolve(c) /\ ~DeleteProfile(c) /\ ~Activate(c) /\ ~DeleteVpn(c) /\ ~DeleteEach(c)
  BY <1>d, <1>g DEF StoreCerts, CheckDevice, Wait, Check, CleanupCerts, Resolve,
     DeleteProfile, Activate, DeleteVpn, DeleteEach, Stages, Answers, Chosen
<1>off. \A r \in Answers : ~Off(c, r)
  BY <1>d, <1>g DEF Off, Stages, Chosen
<1>4. ~Deactivate(c)
  BY <1>off DEF Deactivate, Answers
<1>over. ASSUME NEW t \in {"list each", "off each", "forget each", "each"},
                NEW P \in SUBSET Paths, GoOver(c, t, P)
         PROVE  FALSE
  <2>1. t \in Stages /\ t \notin Chosen
    BY DEF Chosen, Stages
  <2> QED
    BY <1>over, <2>1, GoOverMoves
<1>5. ~ListVpns(c) /\ ~ForgetVpn(c) /\ ~ListProfiles(c) /\ ~ListActive(c)
  BY <1>d, <1>off, <1>s, <1>over DEF ListVpns, ForgetVpn, ListProfiles, ListActive, Answers
<1>pass. ASSUME NEW p, Pass(c, p) PROVE call[c].at = call'[c].at
  BY <1>pass, PassMoves
<1>6. ~ReadVpn(c)
  <2> SUFFICES ASSUME ReadVpn(c) PROVE FALSE
    OBVIOUS
  <2>1. call[c].at = "list each" /\ "list each" \notin Chosen
    BY DEF ReadVpn, Chosen
  <2>2. ASSUME NEW p,
               call' = [call EXCEPT ![c].left = @ \ {p}, ![c].path = p]
        PROVE  call'[c].at = call[c].at
    BY <2>2 DEF Typed, CallRecord
  <2> QED
    BY <1>d, <1>g, <1>pass, <2>1, <2>2 DEF ReadVpn, Answers, Stages, Chosen
<1>7. ~ForgetEach(c)
  <2> SUFFICES ASSUME ForgetEach(c) PROVE FALSE
    OBVIOUS
  <2>1. call[c].at = "each" /\ "each" \notin Chosen
    BY DEF ForgetEach, Chosen
  <2>2. ASSUME NEW p,
               call' = [call EXCEPT ![c].at = "delete each", ![c].path = p, ![c].left = @ \ {p}]
        PROVE  call'[c].at = "delete each"
    BY <2>2 DEF Typed, CallRecord
  <2> QED
    BY <1>d, <1>pass, <2>1, <2>2 DEF ForgetEach, Answers, Chosen
<1>8. ~FreeBluetooth(c)
  BY <1>d, <1>g DEF FreeBluetooth, Free, Answers, Stages, Chosen
<1>9. CASE FreeDevice(c)
  BY <1>9, <1>d, GotoMoves DEF FreeDevice, Free, Answers, Stages
<1>10. ~Add(c)
  BY <1>d, GotoWithMoves DEF Add, Typed, Answers, Stages, Chosen
<1>11. CASE Lookup(c)
  BY <1>11, <1>d, <1>s, GoOverMoves DEF Lookup, Answers, Stages
<1>12. CASE FindSaved(c)
  BY <1>12, <1>d, <1>pass, GotoMoves, GotoWithMoves
     DEF FindSaved, Answers, Stages, Named, Saved
<1>13. CASE ReadActive(c)
  <2>1. call[c].left \subseteq Paths
    BY DEF Typed, CallRecord
  <2> QED
    BY <1>13, <1>off, <1>pass, <2>1, GotoWithMoves DEF ReadActive, Answers, Stages
<1>14. CASE FindForgotten(c)
  <2>1. call'[c].at = "delete vpn"
    BY <1>14, <1>d, <1>pass, GotoWithMoves
       DEF FindForgotten, Answers, Stages, Named, Saved, Chosen
  <2> QED
    BY <1>14, <2>1
<1>15. CASE ReadSettings(c)
  <2> DEFINE new == [call[c] EXCEPT !.at = "unsaved", !.copy = saved[call[c].path]]
  <2>1. call' = [call EXCEPT ![c].at = "unsaved", ![c].copy = saved[call[c].path]]
    BY <1>15, <1>d DEF ReadSettings, Answers
  <2>2. call' = [call EXCEPT ![c] = new]
    BY <2>1
  <2>3. new.at = "unsaved"
    BY DEF Typed, CallRecord
  <2> HIDE DEF new
  <2> QED
    BY <1>15, <2>2, <2>3 DEF Typed
<1>16. CASE ReadUnsaved(c)
  <2> DEFINE copy == [call[c].copy EXCEPT !.unsaved = saved[call[c].path].unsaved]
             new == [call[c] EXCEPT !.at = "write", !.copy = copy]
  <2>1. call' = [call EXCEPT ![c].at = "write",
                             ![c].copy.unsaved = saved[call[c].path].unsaved]
    BY <1>16, <1>d DEF ReadUnsaved, Answers
  <2>2. call' = [call EXCEPT ![c] = new]
    BY <2>1
  <2> HIDE DEF copy
  <2>3. new.at = "write"
    BY DEF Typed, CallRecord
  <2> HIDE DEF new
  <2> QED
    BY <1>16, <2>2, <2>3 DEF Typed
<1>17. ~WriteSettings(c)
  <2> SUFFICES ASSUME WriteSettings(c) PROVE FALSE
    OBVIOUS
  <2> QED
    BY <1>d, WriteSplit DEF Answers, Wrote, Chosen
<1> QED
  BY <1>1, <1>2, <1>3, <1>4, <1>5, <1>6, <1>7, <1>8, <1>9, <1>10, <1>11, <1>12, <1>13,
     <1>14, <1>15, <1>16, <1>17 DEF CallStep

\* Looking through the profiles, a connect takes the first of its name; it goes on
\* to add one with none left to read.
LEMMA OwnAdd ==
    ASSUME Typed, NEW c \in Calls, CallInv(c), Begin(c) \/ CallStep(c),
           call'[c].at \in {"find", "add"}, call'[c].op.op \in Connecting
    PROVE  /\ saved' = saved /\ call'[c].op = call[c].op /\ OthersSame(c)
           /\ \/ call'[c].at = "find" /\ call'[c].left = Saved
              \/ /\ call'[c].at = "find" /\ call[c].at = "find"
                 /\ \E p \in Saved : /\ saved[p].id # call[c].op.name
                                     /\ call'[c].left = call[c].left \ {p}
              \/ /\ call'[c].at = "add" /\ call[c].at = "find" /\ call[c].left = {}
<1>s. Saved \in SUBSET Paths
  BY DEF Saved
<1>d. \A r \in Answers : ~Answer(c, r)
  BY AnswerMoves
<1>0. Lookup(c) \/ FindSaved(c) \/ FreeDevice(c)
  BY OwnStage DEF Chosen
<1>1. CASE Lookup(c)
  BY <1>1, <1>d, <1>s, GoOverMoves DEF Lookup, world, Answers, Stages, SameRest, SameCall
<1>2. CASE FindSaved(c)
  <2>1. call[c].at = "find" /\ saved' = saved
    BY <1>2 DEF FindSaved, world
  <2>2. CASE Goto(c, "add") /\ call[c].left = {}
    BY <2>1, <2>2, GotoMoves DEF Stages, SameRest, SameCall
  <2>3. ASSUME NEW p \in Saved \ Named(call[c].op.name), Pass(c, p)
        PROVE  /\ call'[c].op = call[c].op /\ OthersSame(c) /\ call'[c].at = "find"
               /\ \E q \in Saved : /\ saved[q].id # call[c].op.name
                                   /\ call'[c].left = call[c].left \ {q}
    <3>1. saved[p].id # call[c].op.name
      BY <2>3 DEF Named
    <3> QED
      BY <2>1, <2>3, <3>1, PassMoves DEF SameRest, SameCall
  <2>4. ASSUME NEW p \in Paths, GotoWith(c, "activate", p) PROVE FALSE
    BY <2>4, GotoWithMoves DEF Stages
  <2> QED
    BY <1>2, <1>d, <2>1, <2>2, <2>3, <2>4 DEF FindSaved, Answers, Named, Saved
<1>3. CASE FreeDevice(c)
  <2>1. call[c].op.op = "add_and_activate" /\ call[c].at = "free"
    BY <1>3 DEF FreeDevice, Is
  <2>2. call'[c].op = call[c].op
    BY <2>1, OwnCall DEF CallMoves, SameCall
  <2> QED
    BY <2>1, <2>2 DEF Connecting
<1> QED
  BY <1>0, <1>1, <1>2, <1>3

\* Whoever is a twin after a step was one before, or has been added by it.
LEMMA NextTwin ==
    ASSUME Typed, CallsInv, MadesInv, [Next]_vars, NEW p \in Saved', NEW n, Twin(p, n)'
    PROVE  \/ p \in Saved /\ Twin(p, n)
           \/ \E c \in Calls : /\ Makes(c, p) /\ Is(c, Connecting, "add") /\ Past(c)
                               /\ call[c].op.name = n
<1>1. CASE /\ p \in Saved /\ saved'[p].by = saved[p].by
           /\ ~saved'[p].renamed => ~saved[p].renamed /\ saved'[p].id = saved[p].id
  BY <1>1, ByConnectLasts DEF Twin
<1>2. ASSUME NEW c \in Calls, Makes(c, p), saved'[p].id = call[c].op.name,
             saved'[p].by = c, call[c].at \in {"add", "add only"}
      PROVE  Is(c, Connecting, "add") /\ Past(c) /\ call[c].op.name = n
  <2>1. call[c].op.op \in Connecting
    BY <1>2, Lasting DEF Twin, ByConnect, Connecting
  <2> QED
    BY <1>2, <2>1, AddStage DEF CallsInv, Is, Twin
<1> QED
  BY <1>1, <1>2, NextProfile

\* Between the first profile it reads and the one it adds, a connect holds the
\* guard, so no other adds one.
LEMMA NextAdd ==
    ASSUME Typed, CallsInv, MadesInv, AddsInv, GuardInv, [Next]_vars
    PROVE  AddsInv'
<1> SUFFICES ASSUME NEW c \in Calls, call'[c].at \in {"find", "add"},
                    call'[c].op.op \in Connecting, NEW p \in Saved',
                    NEW n, n = call'[c].op.name, Twin(p, n)'
             PROVE  call'[c].at = "find" /\ p \in call'[c].left
  BY DEF AddsInv, AddInv, Is
<1>1. CASE Begin(c) \/ CallStep(c)
  <2>1. /\ saved' = saved /\ call'[c].op = call[c].op
        /\ \/ call'[c].at = "find" /\ call'[c].left = Saved
           \/ /\ call'[c].at = "find" /\ call[c].at = "find"
              /\ \E q \in Saved : /\ saved[q].id # call[c].op.name
                                  /\ call'[c].left = call[c].left \ {q}
           \/ /\ call'[c].at = "add" /\ call[c].at = "find" /\ call[c].left = {}
    BY <1>1, OwnAdd DEF CallsInv
  <2>2. p \in Saved /\ n = call[c].op.name /\ Twin(p, n)
    BY <2>1, ByConnectLasts DEF Twin, Saved
  <2>3. call[c].at = "find" => p \in call[c].left
    BY <2>1, <2>2 DEF AddsInv, AddInv, Is
  <2> QED
    BY <2>1, <2>2, <2>3 DEF Twin
<1>2. CASE ~(Begin(c) \/ CallStep(c))
  <2>1. Left(c)
    BY <1>2, StepsOrLeft
  <2>2. Past(c)
    BY <2>1 DEF Left, Past, Connecting, Guarded
  <2>3. CASE p \in Saved /\ Twin(p, n)
    BY <2>1, <2>3 DEF AddsInv, AddInv, Is, Left
  <2>4. ASSUME NEW d \in Calls, Makes(d, p), Past(d)
        PROVE  FALSE
    <3>1. d = c
      BY <2>2, <2>4 DEF GuardInv
    <3> QED
      BY <1>2, <2>4, <3>1 DEF Makes, CallStep
  <2> QED
    BY <2>1, <2>3, <2>4, NextTwin DEF Left
<1> QED
  BY <1>1, <1>2

\* However connects and imports overlap, no two profiles of a name come of them
\* but by renaming.
LEMMA NextTwins ==
    ASSUME Typed, CallsInv, MadesInv, AddsInv, NoTwins, [Next]_vars
    PROVE  NoTwins'
<1> SUFFICES ASSUME NEW p \in Saved', NEW q \in Saved', p # q, NEW n, Twin(p, n)', Twin(q, n)'
             PROVE  FALSE
  BY DEF NoTwins, Twin
<1> DEFINE Old(r) == r \in Saved /\ Twin(r, n)
           New(r) == \E c \in Calls : /\ Makes(c, r) /\ Is(c, Connecting, "add")
                                      /\ call[c].op.name = n
<1>1. (Old(p) \/ New(p)) /\ (Old(q) \/ New(q))
  BY NextTwin
<1>2. ASSUME NEW r, NEW s, Old(r), New(s)
      PROVE  FALSE
  BY <1>2 DEF AddsInv, AddInv
<1>3. CASE Old(p) /\ Old(q)
  BY <1>3 DEF NoTwins, Twin
<1>4. CASE New(p) /\ New(q)
  BY <1>4 DEF Makes, Typed
<1> QED
  BY <1>1, <1>2, <1>3, <1>4

-----------------------------------------------------------------------------
(* What is taken down and deleted.                                         *)

\* A path that is not fresh is never used for another profile.
LEMMA NotFresh ==
    ASSUME Typed, CallsInv, [Next]_vars, NEW p \in Paths, p \notin fresh
    PROVE  /\ p \notin fresh'
           /\ p \notin Saved => p \notin Saved'
           /\ p \in Saved' => \/ saved'[p] = saved[p]
                              \/ \E c \in Calls : Writes(c, p)
BY NextSaved DEF SavedMoves, Makes, Writes, Wrote, Saved

MeantsInv == \A c \in Calls : MeantInv(c)

\* What is to be taken down or deleted was meant when it was read.
LEMMA OwnMeant ==
    ASSUME Typed, NEW c \in Calls, CallInv(c), Begin(c) \/ CallStep(c),
           call'[c].at \in {"deactivate", "delete vpn"}
    PROVE  /\ saved' = saved /\ fresh' = fresh /\ call'[c].op = call[c].op
           /\ call'[c].path \in Saved /\ IsMeant(c, call[c].path)'
<1>d. \A r \in Answers : ~Answer(c, r)
  BY AnswerMoves
<1>1. CASE ReadActive(c)
  <2>1. call[c].at = "off each" /\ call[c].left \subseteq Paths /\ saved' = saved
        /\ fresh' = fresh
    BY <1>1 DEF ReadActive, Typed, CallRecord, world
  <2>2. \A p : ~Pass(c, p)
    BY <2>1, PassMoves
  <2>3. ~Off(c, "ok")
    BY <1>d, GotoMoves DEF Off, Answers, Stages
  <2>4. PICK p \in call[c].left :
            active[p] # "none" /\ Meant(c, p) /\ GotoWith(c, "deactivate", p)
    BY <1>1, <2>2, <2>3 DEF ReadActive
  <2>5. p \in Saved
    BY <2>1, <2>4 DEF Typed
  <2>6. call'[c].path = p /\ call'[c].op = call[c].op
    BY <2>1, <2>4, GotoWithMoves DEF Stages, SameCall
  <2> QED
    BY <2>1, <2>4, <2>5, <2>6 DEF Meant, IsMeant, Named, Vpns
<1>2. CASE FindForgotten(c)
  <2>1. call[c].at = "forget each" /\ saved' = saved /\ fresh' = fresh
    BY <1>2 DEF FindForgotten, world
  <2>2. \A p : ~Pass(c, p)
    BY <2>1, PassMoves
  <2>3. PICK p \in Named(call[c].op.name) \cap Vpns : GotoWith(c, "delete vpn", p)
    BY <1>2, <1>d, <2>2 DEF FindForgotten, Answers
  <2>4. p \in Saved /\ p \in Paths
    BY <2>3 DEF Named, Saved
  <2>5. call'[c].path = p /\ call'[c].op = call[c].op
    BY <2>3, <2>4, GotoWithMoves DEF Stages, SameCall
  <2> QED
    BY <2>1, <2>3, <2>4, <2>5 DEF IsMeant, Named, Vpns
<1> QED
  BY <1>1, <1>2, OwnStage DEF Chosen

\* It stays so until it is done, unless the profile is edited.
LEMMA NextMeant ==
    ASSUME Typed, CallsInv, MeantsInv, [Next]_vars
    PROVE  MeantsInv'
<1> SUFFICES ASSUME NEW c \in Calls, call'[c].at \in {"deactivate", "delete vpn"}
             PROVE  /\ call'[c].path \in Paths \ fresh'
                    /\ call'[c].path \in Saved' => IsMeant(c, call[c].path)'
  BY DEF MeantsInv, MeantInv
<1>1. CASE Begin(c) \/ CallStep(c)
  <2>1. fresh' = fresh /\ call'[c].path \in Saved /\ IsMeant(c, call[c].path)'
    BY <1>1, OwnMeant DEF CallsInv
  <2> QED
    BY <2>1 DEF Typed, Saved
<1>2. CASE ~(Begin(c) \/ CallStep(c))
  <2>1. Left(c) /\ call[c].at \in {"deactivate", "delete vpn"}
    BY <1>2, StepsOrLeft DEF Left
  <2> DEFINE p == call[c].path
  <2>2. p \in Paths \ fresh /\ (p \in Saved => IsMeant(c, p))
    BY <2>1 DEF MeantsInv, MeantInv
  <2>3. call'[c].path = p /\ call'[c].op = call[c].op
        /\ (call[c].overlapped => call'[c].overlapped)
    BY <2>1 DEF Left
  <2>4. /\ p \notin fresh'
        /\ p \notin Saved => p \notin Saved'
        /\ p \in Saved' => saved'[p] = saved[p] \/ \E w \in Calls : Writes(w, p)
    BY <2>2, NotFresh
  <2>5. ASSUME NEW w \in Calls, Writes(w, p), p \in Saved PROVE IsMeant(c, call[c].path)'
    <3>1. w # c
      BY <1>2, <2>5 DEF Writes, Wrote, CallStep
    <3>2. call'[c].overlapped
      BY <2>1, <2>5, <3>1 DEF Writes, Wrote, HasRead
    <3>3. saved'[p].kind = saved[p].kind
      <4>1. /\ CallInv(w) /\ call[w].at = "write" /\ call[w].path \in Saved
            /\ call[w].path = p /\ saved'[p] = Written(w)
        BY <2>5 DEF Writes, Wrote, CallsInv
      <4>2. Written(w).kind = saved[call[w].path].kind
        BY <4>1, WrittenTyped
      <4> QED
        BY <4>1, <4>2
    <3> QED
      BY <2>2, <2>3, <2>5, <3>2, <3>3 DEF IsMeant
  <2> QED
    BY <2>2, <2>3, <2>4, <2>5 DEF IsMeant
<1> QED
  BY <1>1, <1>2

-----------------------------------------------------------------------------
(* Certificates.                                                           *)

\* Only forgetting a VPN of its name and another import of it take back what is
\* stored.
LEMMA CertsLast ==
    ASSUME Typed, CallsInv, [Next]_vars, NEW n, NEW w, <<n, w>> \in certs
    PROVE  <<n, w>> \in certs' \/ Taken(n, w)'
<1>1. ASSUME NEW c \in Calls, Begin(c) \/ CallStep(c), <<n, w>> \notin certs'
      PROVE  TakesCerts(c, n, w)'
  <2>1. CASE CleanupCerts(c)
    <3>1. call[c].at = "clean" /\ call[c].op.op = "forget_vpn"
      BY <2>1, OpOf
         DEF CleanupCerts, CallsInv, CallInv, StagesOf, Starting, Op, Operations,
         Guarded
    <3>2. <<n, w>>[1] = call[c].op.name
      BY <1>1, <2>1 DEF CleanupCerts, Under
    <3>3. call'[c].op = call[c].op /\ call'[c].result = "ok"
      BY <2>1, AnswerMoves DEF CleanupCerts, Answers, SameCall
    <3>4. call[c].op # None
      BY <3>1, OpOf, ProfilesAssumption DEF CallsInv
    <3> QED
      BY <3>1, <3>2, <3>3, <3>4 DEF TakesCerts
  <2>2. CASE StoreCerts(c)
    <3>1. call[c].op.op = "import_ovpn" /\ call[c].at = "store"
      BY <2>2 DEF StoreCerts, Is
    <3>2. <<n, w>> \in Under(call[c].op.name) \ {<<call[c].op.name, c>>}
      BY <1>1, <2>2 DEF StoreCerts
    <3>3. n = call[c].op.name /\ w # c
      BY <3>2 DEF Under
    <3>4. call'[c].op = call[c].op /\ call'[c].at # "store"
      BY <1>1, <3>1, OwnCall DEF CallsInv, CallMoves, SameCall
    <3>5. call[c].op # None
      BY <3>1, OpOf, ProfilesAssumption DEF CallsInv
    <3> QED
      BY <3>1, <3>3, <3>4, <3>5 DEF TakesCerts
  <2>3. CASE certs' = certs
    BY <1>1, <2>3
  <2> QED
    BY <1>1, <2>1, <2>2, <2>3
       DEF CallStep, Begin, Lock, CheckDevice, Lookup, FindSaved, Add, Activate, Wait,
           Check, ListVpns, ReadVpn, Resolve, ListActive, ReadActive, Deactivate, ForgetVpn,
           FindForgotten, DeleteVpn, FreeDevice, FreeBluetooth, Free, ListProfiles,
           ForgetEach, DeleteEach, DeleteProfile, ReadSettings, ReadUnsaved, WriteSettings,
           world
<1>2. CASE UNCHANGED certs
  BY <1>2
<1> QED
  BY <1>1, <1>2 DEF Next, Activates, Drops, vars, world, Taken

\* Who has taken certificates has taken them for good.
LEMMA TakenLasts ==
    ASSUME Typed, CallsInv, [Next]_vars, NEW n, NEW w, Taken(n, w)
    PROVE  Taken(n, w)'
<1>1. PICK c \in Calls : TakesCerts(c, n, w)
  BY DEF Taken
<1>2. call[c].at # "idle" /\ call'[c].op = call[c].op
  BY <1>1, Lasting DEF TakesCerts, CallsInv, CallInv
<1>3. CASE call[c].op.op = "forget_vpn" /\ call[c].result = "ok"
  <2>1. call[c].at = "done"
    BY <1>3, ProfilesAssumption DEF CallsInv, CallInv, Answers
  <2>2. Left(c)
    BY <2>1, Lasting
  <2> QED
    BY <1>1, <1>2, <1>3, <2>2 DEF Left, TakesCerts, Taken
<1>4. CASE call[c].op.op = "import_ovpn" /\ call[c].at # "store" /\ c # w
  <2>1. call'[c].at # "store"
    <3>1. CASE Begin(c) \/ CallStep(c)
      BY <1>2, <3>1, OwnCall DEF CallsInv, CallMoves
    <3>2. CASE ~(Begin(c) \/ CallStep(c))
      BY <1>4, <3>2, StepsOrLeft DEF Left
    <3> QED
      BY <3>1, <3>2
  <2> QED
    BY <1>1, <1>2, <1>4, <2>1 DEF TakesCerts, Taken
<1> QED
  BY <1>1, <1>3, <1>4 DEF TakesCerts

\* An import reaches the guard with its certificates stored.
LEMMA ImportStage ==
    ASSUME Typed, CallsInv, [Next]_vars, NEW c \in Calls,
           call'[c].op.op = "import_ovpn", call'[c].at \notin {"idle", "store", "done"}
    PROVE  \/ /\ call[c].at \notin {"idle", "store", "done"} /\ call'[c].op = call[c].op
           \/ <<call'[c].op.name, c>> \in certs'
<1>1. CASE Begin(c)
  BY <1>1, BeginMoves
<1>2. CASE CallStep(c)
  <2>1. call[c].at \notin {"idle", "done"}
    BY <1>2, DoneIsLast
       DEF CallsInv, CallStep, StoreCerts, Lock, CheckDevice, Lookup, FindSaved, Add,
           Activate, Wait, Check, ListVpns, ReadVpn, Resolve, ListActive, ReadActive,
           Deactivate, ForgetVpn, FindForgotten, DeleteVpn, FreeDevice, FreeBluetooth,
           ListProfiles, ForgetEach, DeleteEach, DeleteProfile, ReadSettings, ReadUnsaved,
           WriteSettings, CleanupCerts, Is
  <2>2. call'[c].op = call[c].op
    BY <2>1, Lasting
  <2>3. CASE call[c].at = "store"
    <3>1. StoreCerts(c)
      BY <1>2, <2>3
         DEF CallStep, Lock, CheckDevice, Lookup, FindSaved, Add, Activate, Wait, Check,
             ListVpns, ReadVpn, Resolve, ListActive, ReadActive, Deactivate, ForgetVpn,
             FindForgotten, DeleteVpn, FreeDevice, FreeBluetooth, ListProfiles, ForgetEach,
             DeleteEach, DeleteProfile, ReadSettings, ReadUnsaved, WriteSettings,
             CleanupCerts, Is
    <3>2. ~Answer(c, "invalid")
      BY AnswerMoves DEF Answers
    <3> QED
      BY <2>2, <3>1, <3>2 DEF StoreCerts
  <2> QED
    BY <2>1, <2>2, <2>3
<1>3. CASE ~(Begin(c) \/ CallStep(c))
  BY <1>3, StepsOrLeft DEF Left
<1> QED
  BY <1>1, <1>2, <1>3

\* Every import and every imported profile has its certificates, or they were
\* taken.
LEMMA NextCerts ==
    ASSUME Typed, CallsInv, CertsInv, [Next]_vars
    PROVE  CertsInv'
<1>1. ASSUME NEW p \in Saved', NEW n, n = saved'[p].certs, n # None,
             NEW w, w = saved'[p].by
      PROVE  <<n, w>> \in certs' \/ Taken(n, w)'
  <2>1. CASE /\ p \in Saved
             /\ saved'[p].by = saved[p].by /\ saved'[p].certs = saved[p].certs
    <3>1. <<n, w>> \in certs \/ Taken(n, w)
      BY <1>1, <2>1 DEF CertsInv, HasCerts
    <3> QED
      BY <2>1, <3>1, CertsLast, TakenLasts
  <2>2. ASSUME NEW c \in Calls, call[c].at \in {"add", "add only"}, saved'[p].by = c,
               saved'[p].certs = IF call[c].op.op = "import_ovpn"
                                 THEN call[c].op.name ELSE None
        PROVE  <<n, w>> \in certs' \/ Taken(n, w)'
    <3>1. call[c].op.op = "import_ovpn" /\ n = call[c].op.name /\ w = c
      BY <1>1, <2>2
    <3>2. <<n, w>> \in certs \/ Taken(n, w)
      BY <2>2, <3>1 DEF CertsInv
    <3> QED
      BY <2>2, <3>1, <3>2, CertsLast, TakenLasts
  <2> QED
    BY <2>1, <2>2, NextProfile
<1>2. ASSUME NEW c \in Calls, call'[c].op.op = "import_ovpn",
             call'[c].at \notin {"idle", "store", "done"}, NEW n, n = call'[c].op.name
      PROVE  <<n, c>> \in certs' \/ Taken(n, c)'
  BY <1>2, ImportStage, CertsLast, TakenLasts DEF CertsInv
<1> QED
  BY <1>1, <1>2 DEF CertsInv, HasCerts

-----------------------------------------------------------------------------
(* Updates.                                                                *)

\* What excuses an update stays an excuse.
LEMMA ExcuseLasts ==
    ASSUME Typed, CallsInv, [Next]_vars, NEW c \in Calls, Updated(c), Excused(c)
    PROVE  Updated(c)' /\ Excused(c)'
<1>1. PICK d \in Calls \ {c} :
        /\ call[d].at = "done" /\ call[d].op.op = "update" /\ call[d].result = "ok"
        /\ call[d].path = call[c].path
        /\ call[d].overlapped \/ call[d].op.key = call[c].op.key
  BY DEF Excused
<1>2. Left(c) /\ Left(d)
  BY <1>1, Lasting DEF Updated
<1> QED
  BY <1>1, <1>2 DEF Left, Updated, Excused

UpdatesInv == \A c \in Calls : UpdateInv(c)

\* An update ends well only by writing.
LEMMA UpdatedWrote ==
    ASSUME Typed, CallsInv, [Next]_vars, NEW c \in Calls, ~Updated(c), Updated(c)'
    PROVE  Wrote(c) /\ call[c].op.op = "update" /\ call[c].op.key # None
<1>1. Begin(c) \/ CallStep(c)
  BY StepsOrLeft DEF Left, Updated
<1>2. call'[c].at = "done" /\ call'[c].result = "ok" /\ call'[c].op.op = "update"
      /\ call'[c].op.key # None
  BY DEF Updated
<1>3. ~Begin(c)
  BY <1>2, BeginMoves
<1>4. call[c].at # "idle"
  BY <1>1, <1>3 DEF CallStep, StoreCerts, Lock, CheckDevice, Lookup, FindSaved, Add,
         Activate, Wait, Check, ListVpns, ReadVpn, Resolve, ListActive, ReadActive,
         Deactivate, ForgetVpn, FindForgotten, DeleteVpn, FreeDevice, FreeBluetooth,
         ListProfiles, ForgetEach, DeleteEach, DeleteProfile, ReadSettings, ReadUnsaved,
         WriteSettings, CleanupCerts, Is
<1>5. call'[c].op = call[c].op
  BY <1>4, Lasting
<1>6. call[c].at \in {"resolve", "read", "unsaved", "write"}
  BY <1>1, <1>2, <1>4, <1>5, OpOf, DoneIsLast
     DEF CallsInv, CallInv, StagesOf, Starting, Op, Operations, Guarded
<1>7. CASE Resolve(c)
  BY <1>2, <1>5, <1>7, AnswerMoves, GotoMoves DEF Resolve, EmptyPatch, Answers, Stages
<1>8. CASE ReadSettings(c) \/ ReadUnsaved(c)
  <2>1. ~Answer(c, "failed")
    BY <1>2, AnswerMoves DEF Answers
  <2>2. CASE ReadSettings(c)
    BY <1>2, <2>1, <2>2 DEF ReadSettings, Typed, CallRecord
  <2>3. CASE ReadUnsaved(c)
    <3> DEFINE copy == [call[c].copy EXCEPT !.unsaved = saved[call[c].path].unsaved]
               new == [call[c] EXCEPT !.at = "write", !.copy = copy]
    <3>0. call' = [call EXCEPT ![c].at = "write",
                               ![c].copy.unsaved = saved[call[c].path].unsaved]
      BY <2>1, <2>3 DEF ReadUnsaved
    <3>1. call' = [call EXCEPT ![c] = new]
      BY <3>0
    <3> HIDE DEF copy
    <3>2. new.at = "write"
      BY DEF Typed, CallRecord
    <3> HIDE DEF new
    <3> QED
      BY <1>2, <3>1, <3>2 DEF Typed
  <2> QED
    BY <1>8, <2>2, <2>3
<1>9. CASE WriteSettings(c)
  BY <1>2, <1>5, <1>9, WriteSplit, AnswerMoves DEF Answers
<1> QED
  BY <1>1, <1>2, <1>3, <1>5, <1>6, <1>7, <1>8, <1>9 DEF CallStep, StoreCerts, Lock,
         CheckDevice, Lookup, FindSaved, Add, Activate, Wait, Check, ListVpns, ReadVpn,
         ListActive, ReadActive, Deactivate, ForgetVpn, FindForgotten, DeleteVpn,
         FreeDevice, FreeBluetooth, ListProfiles, ForgetEach, DeleteEach, DeleteProfile,
         CleanupCerts, Is

\* A write excuses the update of the same setting, and those its copy lacks.
LEMMA WriteExcuses ==
    ASSUME Typed, CallsInv, UpdatesInv, [Next]_vars, NEW c \in Calls, NEW w \in Calls \ {c},
           Updated(c), Writes(w, call[c].path)
    PROVE  \/ Carries(saved[call[c].path], c)'
           \/ Excused(c)'
<1>1. /\ CallInv(w) /\ call[w].at = "write" /\ call[w].path = call[c].path
      /\ call[w].path \in Saved /\ saved'[call[c].path] = Written(w)
      /\ call'[w].at = "done" /\ call'[w].path = call[w].path /\ call'[w].result = "ok"
      /\ call'[w].op = call[w].op /\ call'[w].overlapped = call[w].overlapped
  BY DEF Writes, Wrote, CallsInv
<1>2. call[w].op.op = "update"
  BY <1>1, OpOf DEF CallInv, StagesOf, Starting, Op, Operations, Guarded
<1>3. Left(c)
  BY Lasting DEF Updated
<1>4. CASE call[w].overlapped \/ call[w].op.key = call[c].op.key
  BY <1>1, <1>2, <1>3, <1>4 DEF Excused, Left
<1>5. CASE Excused(c)
  BY <1>5, ExcuseLasts
<1>6. CASE /\ ~(call[w].overlapped \/ call[w].op.key = call[c].op.key)
           /\ ~Excused(c)
  <2>1. Carries(call[w].copy, c)
    BY <1>1, <1>6 DEF UpdatesInv, UpdateInv
  <2>2. call[c].op.key \in Keys \ {call[w].op.key}
    BY <1>6, OpOf DEF Updated, CallsInv, Op
  <2>3. Carries(Written(w), c)
    BY <1>1, <2>1, <2>2, WrittenTyped
  <2> QED
    BY <1>1, <1>3, <2>3 DEF Carries, Left
<1> QED
  BY <1>4, <1>5, <1>6

\* What an update wrote stays, or an update that did not see it excuses it.
LEMMA NextUpdated ==
    ASSUME Typed, CallsInv, UpdatesInv, [Next]_vars, NEW c \in Calls, Updated(c)'
    PROVE  /\ call'[c].path \in Paths \ fresh'
           /\ \/ call'[c].path \notin Saved'
              \/ Carries(saved[call[c].path], c)'
              \/ Excused(c)'
<1>1. CASE Updated(c)
  <2>1. Left(c) /\ call[c].path \in Paths \ fresh
    BY <1>1, Lasting DEF Updated, UpdatesInv, UpdateInv
  <2>2. CASE call[c].path \notin Saved
    BY <2>1, <2>2, NotFresh DEF Left
  <2>3. CASE Excused(c)
    BY <1>1, <2>1, <2>3, NotFresh, ExcuseLasts DEF Left
  <2>4. CASE call[c].path \in Saved /\ Carries(saved[call[c].path], c)
    <3>1. CASE saved'[call[c].path] = saved[call[c].path]
      BY <2>1, <2>4, <3>1, NotFresh DEF Left, Carries
    <3>2. ASSUME NEW w \in Calls, Writes(w, call[c].path)
          PROVE  \/ Carries(saved[call[c].path], c)'
                 \/ Excused(c)'
      <4>1. w # c
        BY <1>1, <3>2 DEF Updated, Writes, Wrote
      <4> QED
        BY <1>1, <3>2, <4>1, WriteExcuses
    <3> QED
      BY <2>1, <3>1, <3>2, NotFresh DEF Left
  <2> QED
    BY <1>1, <2>2, <2>3, <2>4 DEF UpdatesInv, UpdateInv
<1>2. CASE ~Updated(c)
  <2>1. Wrote(c)
    BY <1>2, UpdatedWrote
  <2>2. call[c].path \notin fresh /\ call[c].path \in Paths
    BY <2>1 DEF Wrote, UpdatesInv, UpdateInv, Saved
  <2>3. Carries(saved[call[c].path], c)'
    BY <2>1, WrittenTyped DEF CallsInv, Wrote, Carries
  <2> QED
    BY <2>1, <2>2, <2>3 DEF Wrote
<1> QED
  BY <1>1, <1>2

\* An update reads the settings, and keeps them as it reads the unsaved flag.
LEMMA ReadStage ==
    ASSUME Typed, NEW c \in Calls, CallInv(c), Begin(c) \/ CallStep(c),
           call'[c].at \in {"unsaved", "write"}
    PROVE  /\ call'[c].path = call[c].path /\ call'[c].overlapped = call[c].overlapped
           /\ call[c].path \in Saved /\ UNCHANGED <<saved, fresh>> /\ OthersSame(c)
           /\ \/ call'[c].copy = saved[call[c].path]
              \/ /\ call[c].at = "unsaved"
                 /\ call'[c].copy.set = call[c].copy.set /\ call'[c].copy.id = call[c].copy.id
<1>1. CASE ReadSettings(c)
  <2>1. ~Answer(c, "failed")
    BY AnswerMoves DEF Answers
  <2>2. /\ call[c].path \in Saved /\ UNCHANGED <<saved, fresh>>
        /\ call' = [call EXCEPT ![c].at = "unsaved", ![c].copy = saved[call[c].path]]
    BY <1>1, <2>1 DEF ReadSettings, world
  <2> QED
    BY <2>2 DEF Typed, CallRecord, OthersSame
<1>2. CASE ReadUnsaved(c)
  <2>1. ~Answer(c, "failed")
    BY AnswerMoves DEF Answers
  <2>2. /\ call[c].path \in Saved /\ UNCHANGED <<saved, fresh>> /\ call[c].at = "unsaved"
        /\ call' = [call EXCEPT ![c].at = "write",
                                ![c].copy.unsaved = saved[call[c].path].unsaved]
    BY <1>2, <2>1 DEF ReadUnsaved, world
  <2>3. call[c].copy \in Settings
    BY <2>2 DEF CallInv
  <2> DEFINE copy == [call[c].copy EXCEPT !.unsaved = saved[call[c].path].unsaved]
             new == [call[c] EXCEPT !.at = "write", !.copy = copy]
  <2>4. copy.set = call[c].copy.set /\ copy.id = call[c].copy.id
    BY <2>3 DEF Settings
  <2> HIDE DEF copy
  <2>5. new.path = call[c].path /\ new.overlapped = call[c].overlapped /\ new.copy = copy
    BY DEF Typed, CallRecord
  <2>6. call' = [call EXCEPT ![c] = new]
    BY <2>2 DEF copy
  <2>7. call'[c] = new /\ OthersSame(c)
    BY <2>6 DEF Typed, OthersSame
  <2> HIDE DEF new
  <2> QED
    BY <2>2, <2>4, <2>5, <2>7
<1> QED
  BY <1>1, <1>2, OwnStage DEF Chosen

\* What an update has read holds every update there was, unless one that wrote
\* since has marked it as overlapped.
LEMMA NextCopy ==
    ASSUME Typed, CallsInv, UpdatesInv, [Next]_vars, NEW c \in Calls,
           call'[c].at \in {"unsaved", "write"}
    PROVE  /\ call'[c].path \notin fresh'
           /\ \A d \in Calls :
                Updated(d)' /\ call'[d].path = call'[c].path /\ call'[c].path \in Saved' =>
                  \/ Carries(call[c].copy, d)'
                  \/ call'[c].overlapped
                  \/ Excused(d)'
<1>1. CASE Begin(c) \/ CallStep(c)
  <2>1. /\ call'[c].path = call[c].path /\ call'[c].overlapped = call[c].overlapped
        /\ call[c].path \in Saved /\ UNCHANGED <<saved, fresh>> /\ OthersSame(c)
        /\ \/ call'[c].copy = saved[call[c].path]
           \/ /\ call[c].at = "unsaved"
              /\ call'[c].copy.set = call[c].copy.set /\ call'[c].copy.id = call[c].copy.id
    BY <1>1, ReadStage DEF CallsInv
  <2>2. call[c].path \notin fresh
    BY <2>1 DEF Typed
  <2>3. ASSUME NEW d \in Calls, Updated(d)', call'[d].path = call[c].path
        PROVE  \/ Carries(call[c].copy, d)'
               \/ call'[c].overlapped
               \/ Excused(d)'
    <3>1. call'[d] = call[d] /\ Updated(d)
      BY <2>1, <2>3 DEF OthersSame, Updated
    <3>2. CASE Excused(d)
      BY <3>1, <3>2, ExcuseLasts
    <3>3. CASE ~Excused(d) /\ call'[c].copy = saved[call[c].path]
      BY <2>1, <2>3, <3>1, <3>3 DEF UpdatesInv, UpdateInv, Carries
    <3>4. CASE /\ ~Excused(d) /\ call[c].at = "unsaved"
               /\ call'[c].copy.set = call[c].copy.set /\ call'[c].copy.id = call[c].copy.id
      BY <2>1, <2>3, <3>1, <3>4 DEF UpdatesInv, UpdateInv, Carries
    <3> QED
      BY <2>1, <3>2, <3>3, <3>4
  <2> QED
    BY <2>1, <2>2, <2>3
<1>2. CASE ~(Begin(c) \/ CallStep(c))
  <2>1. Left(c) /\ call[c].at \in {"unsaved", "write"}
    BY <1>2, StepsOrLeft DEF Left
  <2>2. call[c].path \in Paths \ fresh
    BY <2>1 DEF CallsInv, CallInv, UpdatesInv, UpdateInv
  <2>3. ASSUME NEW d \in Calls, Updated(d)', call'[d].path = call'[c].path,
               call'[c].path \in Saved'
        PROVE  \/ Carries(call[c].copy, d)'
               \/ call'[c].overlapped
               \/ Excused(d)'
    <3>1. CASE Updated(d)
      <4>1. Left(d) /\ call[c].path \in Saved
        BY <2>1, <2>2, <2>3, <3>1, Lasting, NotFresh DEF Updated, Left
      <4>2. \/ Carries(call[c].copy, d)
            \/ call[c].overlapped
            \/ Excused(d)
        BY <2>1, <2>3, <3>1, <4>1 DEF UpdatesInv, UpdateInv, Left
      <4> QED
        BY <2>1, <3>1, <4>1, <4>2, ExcuseLasts DEF Left, Carries
    <3>2. CASE ~Updated(d)
      <4>1. Wrote(d)
        BY <2>3, <3>2, UpdatedWrote
      <4>2. c # d
        BY <1>2, <4>1 DEF Wrote, CallStep
      <4> QED
        BY <2>1, <2>3, <4>1, <4>2 DEF Wrote, Left, HasRead
    <3> QED
      BY <3>1, <3>2
  <2> QED
    BY <2>1, <2>2, <2>3, NotFresh DEF Left
<1> QED
  BY <1>1, <1>2

\* What was updated, and what was read, is as UpdateInv says after every step.
LEMMA NextUpdates ==
    ASSUME Typed, CallsInv, UpdatesInv, [Next]_vars
    PROVE  UpdatesInv'
BY NextUpdated, NextCopy DEF UpdatesInv, UpdateInv

-----------------------------------------------------------------------------
(* The theorems.                                                           *)

\* Every step keeps the shape of the variables and of the calls.
LEMMA NextTyped ==
    ASSUME Typed, CallsInv, [Next]_vars
    PROVE  Typed' /\ CallsInv'
<1>1. ASSUME NEW c \in Calls, Begin(c) \/ CallStep(c) PROVE Typed' /\ CallsInv'
  <2>1. Typed'
    BY <1>1, OwnTyped DEF CallsInv
  <2>2. CallInv(c)'
    BY <1>1, OwnCall DEF CallsInv, CallMoves
  <2>3. ASSUME NEW d \in Calls \ {c} PROVE CallInv(d)'
    BY <1>1, <2>3, OthersLeft DEF CallsInv, CallInv, Left
  <2> QED
    BY <2>1, <2>2, <2>3 DEF CallsInv
<1>2. ASSUME NEW p \in Paths, Activates(p) \/ Drops(p) PROVE Typed' /\ CallsInv'
  BY <1>2 DEF Activates, Drops, Typed, Saved, CallsInv, CallInv
<1>3. CASE UNCHANGED vars
  BY <1>3 DEF vars, world, Typed, Saved, CallsInv, CallInv
<1> QED
  BY <1>1, <1>2, <1>3 DEF Next

\* The invariant holds at the start.
LEMMA InitInv ==
    ASSUME Init
    PROVE  Inv
<1>1. saved \in [Paths -> Settings \cup {NoProfile}] /\ \A p \in Paths : saved[p].by = None
  BY ProfilesAssumption DEF Init
<1>2. \A p \in Paths : saved[p] # NoProfile => saved[p] \in Settings
  BY <1>1
<1>3. certs \subseteq Names \X (Calls \cup {None})
  BY <1>1, <1>2 DEF Init, NoProfile, Settings
<1>4. Idle \in CallRecord
  BY DEF Idle, CallRecord, Stages
<1>5. Typed
  BY <1>1, <1>3, <1>4 DEF Init, Typed, Saved
<1>6. \A c \in Calls : call[c].at = "idle" /\ call[c].result = None /\ call[c].op = None
  BY DEF Init, Idle
<1>7. \A p \in Saved : HasCerts(p)
  BY <1>1 DEF Init, HasCerts, Saved
<1>8. /\ GuardInv /\ CertsInv
      /\ \A c \in Calls : CallInv(c) /\ AddInv(c) /\ MeantInv(c) /\ UpdateInv(c)
  BY <1>6, <1>7
     DEF GuardInv, Past, CertsInv, CallInv, AddInv, Is, MeantInv, UpdateInv, Updated
<1>9. NoTwins /\ \A p \in Paths : MadeInv(p)
  BY <1>1 DEF NoTwins, ByConnect, MadeInv, Saved
<1> QED
  BY <1>5, <1>8, <1>9 DEF Inv

\* Every step keeps the invariant.
LEMMA NextInv ==
    ASSUME Inv, [Next]_vars
    PROVE  Inv'
<1>1. Typed /\ CallsInv /\ GuardInv /\ CertsInv /\ NoTwins /\ MadesInv /\ AddsInv
      /\ MeantsInv /\ UpdatesInv
  BY DEF Inv, CallsInv, MadesInv, AddsInv, MeantsInv, UpdatesInv
<1>2. Typed' /\ CallsInv' /\ GuardInv' /\ CertsInv' /\ NoTwins' /\ MadesInv' /\ AddsInv'
      /\ MeantsInv' /\ UpdatesInv'
  BY <1>1, NextTyped, NextGuard, NextCerts, NextTwins, NextMade, NextAdd, NextMeant,
     NextUpdates
<1> QED
  BY <1>2 DEF Inv, CallsInv, MadesInv, AddsInv, MeantsInv, UpdatesInv

\* The invariant holds always.
LEMMA Invariant == Spec => []Inv
BY InitInv, NextInv, PTL DEF Spec

\* The variables have their shapes, whatever the calls and the other programs do.
THEOREM TypesKept == Spec => []TypeOK
<1>1. ASSUME Typed PROVE TypeOK
  <2>1. \A p \in Paths : saved[p] = NoProfile \/ saved[p] \in Settings
    BY <1>1 DEF Typed
  <2>2. \A p \in Paths : active[p] = "none" \/
            (active[p] \in {"activating", "activated"} /\ p \in Saved)
    BY <1>1 DEF Typed
  <2>3. \A c \in Calls : call[c].result \in Answers \cup {None}
    BY <1>1 DEF Typed, CallRecord
  <2> QED
    BY <1>1, <2>1, <2>2, <2>3 DEF TypeOK, Typed, Settings
<1> QED
  BY <1>1, Invariant, PTL DEF Inv

\* However connects and imports of one name overlap, and whatever is edited while
\* they look through the profiles, two profiles of the name come of them only by
\* renaming one.
THEOREM OneOfEachName == Spec => []NoTwins
BY Invariant, PTL DEF Inv

\* The certificates stored for a profile stay where its paths lead, renamed or not,
\* until their name is forgotten or imported again.
THEOREM CertsAreKept == Spec => []CertsStay
<1>1. Inv => CertsStay
  BY DEF Inv, CertsInv, Taken, CertsStay
<1> QED
  BY <1>1, Invariant, PTL

\* An update that was answered with "ok" is lost only to one of the same setting,
\* or to one that read before it and wrote after it.
THEOREM UpdatesLast == Spec => []UpdatesKept
<1>1. ASSUME Inv PROVE UpdatesKept
  <2> SUFFICES ASSUME NEW c \in Calls, call[c].op # None, call[c].result = "ok",
                      call[c].op.op = "update", call[c].op.key # None, call[c].path \in Saved
               PROVE  Carries(saved[call[c].path], c) \/ Excused(c)
    <3>1. \A d \in Calls : call[d].at = "done" => call[d].op # None
      BY <1>1, OpOf, ProfilesAssumption DEF Inv
    <3> QED
      BY <3>1 DEF UpdatesKept, Excused
  <2>1. "ok" # None
    BY ProfilesAssumption DEF Answers
  <2> QED
    BY <1>1, <2>1 DEF Inv, CallInv, UpdateInv, Updated
<1> QED
  BY <1>1, Invariant, PTL

\* Disconnecting and forgetting a VPN takes down and deletes nothing but VPNs of
\* the name, or the profile of the UUID, or a VPN that was edited after it was read.
THEOREM VpnOpsTouchNoOther == Spec => VpnOpsSpare
<1> DEFINE Spares(c, p) ==
      (/\ Active(c) /\ call'[c].at # call[c].at
       /\ call[c].op.op \in {"disconnect_vpn", "disconnect_vpn_by_uuid", "forget_vpn"}
       /\ saved'[p] # saved[p] \/ (active[p] # "none" /\ active'[p] = "none"))
          => \/ p = call[c].op.path
             \/ /\ saved[p].kind \in VpnKinds
                /\ saved[p].id = call[c].op.name \/ call[c].overlapped
<1>1. ASSUME Inv, [Next]_vars, NEW c \in Calls, NEW p \in Saved PROVE Spares(c, p)
  <2> SUFFICES ASSUME Active(c), call'[c].at # call[c].at,
                      call[c].op.op \in {"disconnect_vpn", "disconnect_vpn_by_uuid", "forget_vpn"},
                      saved'[p] # saved[p] \/ (active[p] # "none" /\ active'[p] = "none")
               PROVE  IsMeant(c, p)
    BY DEF IsMeant
  <2>1. /\ saved \in [Paths -> Settings \cup {NoProfile}] /\ p \in Paths
        /\ active \in [Paths -> {"none", "activating", "activated"}]
    BY <1>1 DEF Inv, Typed, Saved
  <2>2. call[c].at \in {"lock", "off", "off each", "deactivate", "forget", "forget each",
                        "delete vpn", "clean"}
    BY <1>1 DEF Inv, CallInv, StagesOf, Active
  <2>3. Begin(c) \/ CallStep(c)
    BY <1>1, StepsOrLeft DEF Inv, CallsInv, Left
  <2>4. \/ UNCHANGED <<saved, active>>
        \/ Deactivate(c)
        \/ DeleteVpn(c)
    BY <2>2, <2>3
       DEF Begin, CallStep, StoreCerts, Lock, CheckDevice, Lookup, FindSaved, Add, Activate,
           Wait, Check, ListVpns, ReadVpn, Resolve, ListActive, ReadActive, ForgetVpn,
           FindForgotten, CleanupCerts, FreeDevice, FreeBluetooth, ListProfiles, ForgetEach,
           DeleteEach, DeleteProfile, ReadSettings, ReadUnsaved, WriteSettings, world, Is
  <2>5. CASE Deactivate(c)
    <3>1. call[c].at = "deactivate" /\ p = call[c].path
      BY <2>1, <2>5 DEF Deactivate
    <3> QED
      BY <1>1, <3>1 DEF Inv, MeantInv
  <2>6. CASE DeleteVpn(c)
    <3>1. call[c].at = "delete vpn" /\ p = call[c].path
      BY <2>1, <2>6 DEF DeleteVpn, Removed, Without
    <3> QED
      BY <1>1, <3>1 DEF Inv, MeantInv
  <2> QED
    BY <2>4, <2>5, <2>6
<1>2. Inv /\ [Next]_vars => [\A c \in Calls, p \in Saved : Spares(c, p)]_vars
  BY <1>1
<1> QED
  BY <1>2, Invariant, PTL DEF Spec, VpnOpsSpare

=============================================================================
