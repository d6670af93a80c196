---------------------------- MODULE StatusProofs ----------------------------
(***************************************************************************)
(* What the readings of a network hold to while it changes, for any        *)
(* devices, access points, operations and changes of the network.  Three   *)
(* invariants, each resting on those before it:                            *)
(*                                                                         *)
(*  - Inv: a listing shows one active access point per radio at most, and  *)
(*    what is called connected was.  Course: which operation and pass a    *)
(*    read belongs to; Present: the devices that exist are listed once;    *)
(*    Noted: what was read to be active was, during the call; Walk: the    *)
(*    devices still to read have no row yet, but for the one whose access  *)
(*    points are being read; Rows: an active row was active, and is the    *)
(*    only one of its device;                                              *)
(*  - ListsInv: what is there all through a call is in its listing, once;  *)
(*  - AirInv: merged networks and the rows of a snapshot agree with the    *)
(*    access points that were read.                                        *)
(*                                                                         *)
(* Facts about finite data that would be proved by induction are proved by *)
(* the absence of a least counterexample (LeastNumber, FirstExists).       *)
(***************************************************************************)
EXTENDS Status, FiniteSetTheorems, SequenceTheorems, NaturalsInduction, TLAPS

Course ==
    /\ pc = "idle" => phase = "none"
    /\ op.name = "current" => phase \in {"ssid", "pick"}
    /\ phase # "walk" \/ pc = "get" => found = << >>
    /\ pc \in {"ap_list", "ap", "merge"} => phase = "walk"
    /\ pc \in {"path", "gone", "path_device"} => phase = "active"
    /\ pc \in {"profile", "vpn_get", "vpn_path"} => phase \in {"saved", "vpns", "active_vpns"}
    /\ pc \in {"info", "info_settings", "info_device"} => phase = "vpn_info"

Present == devices \in Seq(ToSet(AllDevices)) /\ IsInjective(devices)

Noted ==
    /\ pc # "idle" => ActiveNow \subseteq wasActive
    /\ pc \in {"ap_list", "ap"} => act \in wasActive \cup {None}
    /\ pc \in {"active_ap", "address"} => act \in wasActive
    /\ pc = "address" => ApInfo[act].ssid = target

Walking == phase = "walk" /\ pc \in {"device", "ap_list", "ap"}

Walk ==
    Walking =>
        /\ todo \in Seq(ToSet(AllDevices)) /\ IsInjective(todo)
        /\ pc # "device" => todo # << >> /\ cur = Head(todo)
        /\ \A r \in ToSet(found), i \in DOMAIN todo : r.dev = todo[i] => pc = "ap" /\ i = 1
        /\ pc = "ap" => \A r \in ToSet(found) : r.dev = cur /\ r.active => r.ap = act

RowsOver(aps) == [ap : aps \cup {None}, active : BOOLEAN, dev : ToSet(AllDevices)]

Rows ==
    /\ found \in Seq(RowsOver(Aps \cup wasActive))
    /\ \A r \in ToSet(found) : r.active => r.ap \in wasActive
    /\ \A r, q \in ToSet(found) : r.active /\ q.active /\ r.dev = q.dev => r = q

Inv == Course /\ Present /\ Noted /\ Walk /\ Rows /\ CurrentWasConnected

-----------------------------------------------------------------------------
(* Sequences.                                                              *)

LEMMA Removing ==
    ASSUME NEW S, NEW s \in Seq(S), IsInjective(s), NEW k \in DOMAIN s
    PROVE  RemoveAt(s, k) \in Seq(S) /\ IsInjective(RemoveAt(s, k))
  <1> DEFINE a == SubSeq(s, 1, k - 1)
             b == SubSeq(s, k + 1, Len(s))
  <1>1. k \in 1 .. Len(s) /\ Len(s) \in Nat
    BY LenProperties
  <1>2. /\ a \in Seq(S) /\ Len(a) = k - 1
        /\ \A j \in 1 .. k - 1 : a[j] = s[j]
    <2>1. \A j \in 1 .. k - 1 : j \in 1 .. Len(s)
      BY <1>1
    <2> QED
      BY <1>1, <2>1
  <1>3. /\ b \in Seq(S) /\ Len(b) = Len(s) - k
        /\ \A j \in 1 .. Len(s) - k : b[j] = s[j + k]
    BY <1>1
  <1>4. /\ a \o b \in Seq(S) /\ Len(a \o b) = Len(s) - 1
        /\ \A j \in 1 .. Len(s) - 1 : (a \o b)[j] = IF j < k THEN s[j] ELSE s[j + 1]
    <2> HIDE DEF a, b
    <2> QED
      BY <1>1, <1>2, <1>3
  <1>5. DOMAIN (a \o b) = 1 .. Len(s) - 1
    <2> HIDE DEF a, b
    <2> QED
      BY <1>4
  <1>6. IsInjective(a \o b)
    <2> DEFINE c == a \o b
    <2>1. \A x, y \in 1 .. Len(s) : s[x] = s[y] => x = y
      BY <1>1 DEF IsInjective
    <2>2. /\ DOMAIN c = 1 .. Len(s) - 1
          /\ \A j \in 1 .. Len(s) - 1 : c[j] = IF j < k THEN s[j] ELSE s[j + 1]
      BY <1>4, <1>5
    <2> HIDE DEF c
    <2>3. \A i, j \in 1 .. Len(s) - 1 : c[i] = c[j] => i = j
      BY <1>1, <2>1, <2>2
    <2>4. IsInjective(c)
      BY <2>2, <2>3 DEF IsInjective
    <2> QED
      BY <2>4 DEF c
  <1> QED
    BY <1>4, <1>6 DEF RemoveAt

LEMMA Advancing ==
    ASSUME NEW S, NEW s \in Seq(S), s # << >>, IsInjective(s)
    PROVE  /\ Tail(s) \in Seq(S) /\ IsInjective(Tail(s))
           /\ 1 \in DOMAIN s /\ Head(s) = s[1] /\ Head(s) \in S
           /\ \A i \in DOMAIN Tail(s) : i + 1 \in DOMAIN s /\ i + 1 # 1 /\ Tail(s)[i] = s[i + 1]
  <1>1. /\ Tail(s) \in Seq(S) /\ Len(s) \in Nat \ {0} /\ Len(Tail(s)) = Len(s) - 1
        /\ \A i \in 1 .. Len(s) - 1 : Tail(s)[i] = s[i + 1]
        /\ DOMAIN s = 1 .. Len(s) /\ DOMAIN Tail(s) = 1 .. Len(s) - 1
    BY EmptySeq, HeadTailProperties
  <1>2. \A x, y \in 1 .. Len(s) : s[x] = s[y] => x = y
    BY <1>1 DEF IsInjective
  <1>3. IsInjective(Tail(s))
    <2> SUFFICES ASSUME NEW i \in 1 .. Len(s) - 1, NEW j \in 1 .. Len(s) - 1,
                        s[i + 1] = s[j + 1]
                 PROVE  i = j
      BY <1>1 DEF IsInjective
    <2>1. i + 1 \in 1 .. Len(s) /\ j + 1 \in 1 .. Len(s)
      BY <1>1
    <2>2. i + 1 = j + 1
      BY <1>2, <2>1
    <2> QED
      BY <2>2
  <1>4. Head(s) = s[1] /\ s[1] \in S /\ 1 \in DOMAIN s
    BY <1>1
  <1> QED
    BY <1>1, <1>3, <1>4

LEMMA Appended ==
    ASSUME NEW S, NEW s \in Seq(S), NEW x \in S
    PROVE  Append(s, x) \in Seq(S) /\ ToSet(Append(s, x)) = ToSet(s) \cup {x}
  <1>1. /\ Append(s, x) \in Seq(S) /\ Len(s) \in Nat
        /\ DOMAIN s = 1 .. Len(s) /\ DOMAIN Append(s, x) = 1 .. Len(s) + 1
        /\ \A i \in 1 .. Len(s) : Append(s, x)[i] = s[i]
        /\ Append(s, x)[Len(s) + 1] = x
    BY AppendProperties, LenProperties
  <1>2. \A i \in 1 .. Len(s) + 1 : i \in 1 .. Len(s) \/ i = Len(s) + 1
    BY <1>1
  <1>3. ToSet(Append(s, x)) \subseteq ToSet(s) \cup {x}
    BY <1>1, <1>2 DEF ToSet
  <1>4. \A i \in 1 .. Len(s) : i \in 1 .. Len(s) + 1
    BY <1>1
  <1>5. Len(s) + 1 \in 1 .. Len(s) + 1
    BY <1>1
  <1>6. ToSet(s) \cup {x} \subseteq ToSet(Append(s, x))
    BY <1>1, <1>4, <1>5 DEF ToSet
  <1> QED
    BY <1>1, <1>3, <1>6

LEMMA Members ==
    ASSUME NEW S, NEW s \in Seq(S)
    PROVE  \A x \in ToSet(s) : x \in S
  BY DEF ToSet

LEMMA NoRows == ToSet(<< >>) = {} /\ \A S : << >> \in Seq(S)
  BY DEF ToSet

LEMMA Wider ==
    ASSUME NEW A, NEW B, A \subseteq B, NEW s \in Seq(RowsOver(A))
    PROVE  s \in Seq(RowsOver(B))
  <1>1. RowsOver(A) \subseteq RowsOver(B)
    BY DEF RowsOver
  <1> QED
    BY <1>1

LEMMA LeastNumber ==
    ASSUME NEW T, T \subseteq Nat, T # {}
    PROVE  \E n \in T : \A m \in T : ~(m < n)
  <1>1. PICK n \in T : \A m \in T : ~(<<m, n>> \in OpToRel(<, Nat))
    BY NatLessThanWellFounded, WFMin, Zenon
  <1>2. \A m \in T : m < n => <<m, n>> \in OpToRel(<, Nat)
    BY DEF OpToRel
  <1> QED
    BY <1>1, <1>2

\* What a prefix of a list becomes without the members of X.
RestUpTo(s, X, n, f) ==
    f = [i \in 0 .. n |->
            IF i = 0 THEN << >>
            ELSE IF s[i] \in X THEN f[i - 1] ELSE Append(f[i - 1], s[i])]

LEMMA RestExists ==
    ASSUME NEW S, NEW s \in Seq(S), NEW X
    PROVE  \E f : RestUpTo(s, X, Len(s), f)
  <1> DEFINE Bad == {n \in Nat : \A f : ~RestUpTo(s, X, n, f)}
  <1> SUFFICES ASSUME Bad # {} PROVE FALSE
    BY LenProperties
  <1>1. PICK n \in Bad : \A m \in Bad : ~(m < n)
    BY LeastNumber
  <1>2. CASE n = 0
    <2> DEFINE f == [i \in 0 .. 0 |-> << >>]
    <2>1. RestUpTo(s, X, 0, f)
      BY DEF RestUpTo
    <2> QED
      BY <1>1, <1>2, <2>1
  <1>3. CASE n # 0
    <2>1. n - 1 \in Nat /\ n \in Nat /\ n - 1 < n
      BY <1>3
    <2>2. PICK f : RestUpTo(s, X, n - 1, f)
      BY <1>1, <2>1
    <2> DEFINE last == IF s[n] \in X THEN f[n - 1] ELSE Append(f[n - 1], s[n])
               g == [i \in 0 .. n |-> IF i = n THEN last ELSE f[i]]
    <2>3. /\ \A i \in 0 .. n - 1 : f[i] = IF i = 0 THEN << >>
                 ELSE IF s[i] \in X THEN f[i - 1] ELSE Append(f[i - 1], s[i])
      BY <2>2 DEF RestUpTo
    <2>4. \A i \in 0 .. n : g[i] = IF i = 0 THEN << >>
                 ELSE IF s[i] \in X THEN g[i - 1] ELSE Append(g[i - 1], s[i])
      <3> SUFFICES ASSUME NEW i \in 0 .. n
                   PROVE g[i] = IF i = 0 THEN << >>
                       ELSE IF s[i] \in X THEN g[i - 1] ELSE Append(g[i - 1], s[i])
        OBVIOUS
      <3>1. i = 0 \/ g[i - 1] = f[i - 1]
        BY <2>1
      <3>2. CASE i = n
        BY <1>3, <3>1, <3>2
      <3>3. CASE i # n
        <4>1. i \in 0 .. n - 1 /\ g[i] = f[i]
          BY <2>1, <3>3
        <4> QED
          BY <2>3, <3>1, <4>1
      <3> QED
        BY <3>2, <3>3
    <2>5. RestUpTo(s, X, n, g)
      BY <2>4 DEF RestUpTo
    <2> QED
      BY <1>1, <2>5
  <1> QED
    BY <1>2, <1>3

LEMMA AppendedOnce ==
    ASSUME NEW S, NEW s \in Seq(S), NEW x \in S, IsInjective(s), x \notin ToSet(s)
    PROVE  IsInjective(Append(s, x))
  <1>1. /\ Len(s) \in Nat
        /\ DOMAIN s = 1 .. Len(s) /\ DOMAIN Append(s, x) = 1 .. Len(s) + 1
        /\ \A i \in 1 .. Len(s) : Append(s, x)[i] = s[i]
        /\ Append(s, x)[Len(s) + 1] = x
    BY AppendProperties, LenProperties
  <1>2. \A i \in 1 .. Len(s) + 1 : i \in 1 .. Len(s) \/ i = Len(s) + 1
    BY <1>1
  <1>3. \A i \in 1 .. Len(s) : s[i] # x
    BY <1>1 DEF ToSet
  <1> QED
    BY <1>1, <1>2, <1>3 DEF IsInjective

\* The members of a list that are not in X, in their order and once each if
\* they were there once.
LEMMA LeftOut ==
    ASSUME NEW S, NEW s \in Seq(S), NEW X
    PROVE  /\ LeaveOut(s, X) \in Seq(S)
           /\ ToSet(LeaveOut(s, X)) = ToSet(s) \ X
           /\ IsInjective(s) => IsInjective(LeaveOut(s, X))
  <1> DEFINE f == CHOOSE g : RestUpTo(s, X, Len(s), g)
  <1>1. RestUpTo(s, X, Len(s), f)
    BY RestExists
  <1>2. LeaveOut(s, X) = f[Len(s)]
    BY DEF LeaveOut, RestUpTo
  <1> HIDE DEF f
  <1>3. \A i \in 0 .. Len(s) :
           f[i] = IF i = 0 THEN << >>
                  ELSE IF s[i] \in X THEN f[i - 1] ELSE Append(f[i - 1], s[i])
    BY <1>1 DEF RestUpTo
  <1>4. Len(s) \in Nat /\ DOMAIN s = 1 .. Len(s) /\ \A i \in 1 .. Len(s) : s[i] \in S
    BY LenProperties, ElementOfSeq
  <1> DEFINE Upto(n) == {s[i] : i \in 1 .. n}
             Good(n) == /\ f[n] \in Seq(S)
                        /\ ToSet(f[n]) = Upto(n) \ X
                        /\ IsInjective(s) => IsInjective(f[n])
             Bad == {n \in 0 .. Len(s) : ~Good(n)}
  <1>5. Good(0)
    <2>1. f[0] = << >>
      BY <1>3, <1>4
    <2>2. << >> \in Seq(S) /\ ToSet(<< >>) = {} /\ IsInjective(<< >>)
      BY NoRows DEF IsInjective
    <2>3. Upto(0) = {}
      OBVIOUS
    <2> QED
      BY <2>1, <2>2, <2>3
  <1>6. ASSUME NEW n \in 1 .. Len(s), Good(n - 1)
        PROVE  Good(n)
    <2>1. n \in 0 .. Len(s) /\ n - 1 \in 0 .. Len(s) /\ n # 0 /\ s[n] \in S
      BY <1>4
    <2>2. Upto(n) = Upto(n - 1) \cup {s[n]}
      <3>1. \A i \in 1 .. n : i \in 1 .. n - 1 \/ i = n
        BY <1>4
      <3>2. \A i \in 1 .. n - 1 : i \in 1 .. n
        BY <1>4
      <3> QED
        BY <2>1, <3>1, <3>2
    <2>3. CASE s[n] \in X
      <3>1. f[n] = f[n - 1]
        BY <1>3, <2>1, <2>3
      <3> QED
        BY <1>6, <2>2, <2>3, <3>1
    <2>4. CASE s[n] \notin X
      <3>1. f[n] = Append(f[n - 1], s[n])
        BY <1>3, <2>1, <2>4
      <3>2. f[n] \in Seq(S) /\ ToSet(f[n]) = ToSet(f[n - 1]) \cup {s[n]}
        BY <1>6, <2>1, <3>1, Appended
      <3>3. ASSUME IsInjective(s) PROVE IsInjective(f[n])
        <4>1. s[n] \notin Upto(n - 1)
          BY <1>4, <3>3 DEF IsInjective
        <4>2. IsInjective(f[n - 1]) /\ s[n] \notin ToSet(f[n - 1])
          BY <1>6, <3>3, <4>1
        <4> QED
          BY <1>6, <2>1, <3>1, <4>2, AppendedOnce
      <3> QED
        BY <1>6, <2>2, <2>4, <3>2, <3>3
    <2> QED
      BY <2>3, <2>4
  <1>7. \A n \in 0 .. Len(s) : Good(n)
    <2> SUFFICES ASSUME Bad # {} PROVE FALSE
      OBVIOUS
    <2>1. Bad \subseteq Nat
      BY <1>4
    <2> HIDE DEF Good
    <2>2. PICK n \in Bad : \A m \in Bad : ~(m < n)
      BY <2>1, LeastNumber
    <2>3. n \in 1 .. Len(s) /\ n - 1 \in 0 .. Len(s) /\ n - 1 < n
      BY <1>4, <1>5, <2>2
    <2>4. Good(n - 1)
      BY <2>2, <2>3
    <2> QED
      BY <1>6, <2>2, <2>3, <2>4
  <1>8. Good(Len(s)) /\ Upto(Len(s)) = ToSet(s)
    BY <1>4, <1>7 DEF ToSet
  <1> QED
    BY <1>2, <1>8

LEMMA Joined ==
    ASSUME NEW S, NEW s \in Seq(S), NEW t \in Seq(S)
    PROVE  /\ s \o t \in Seq(S) /\ ToSet(s \o t) = ToSet(s) \cup ToSet(t)
           /\ IsInjective(s) /\ IsInjective(t) /\ ToSet(s) \cap ToSet(t) = {} => IsInjective(s \o t)
  <1> DEFINE u == s \o t
  <1>1. /\ u \in Seq(S) /\ Len(s) \in Nat /\ Len(t) \in Nat /\ Len(u) = Len(s) + Len(t)
        /\ \A i \in 1 .. Len(s) + Len(t) :
              u[i] = IF i <= Len(s) THEN s[i] ELSE t[i - Len(s)]
    BY ConcatProperties, LenProperties
  <1>2. DOMAIN s = 1 .. Len(s) /\ DOMAIN t = 1 .. Len(t) /\ DOMAIN u = 1 .. Len(s) + Len(t)
    <2> HIDE DEF u
    <2> QED
      BY <1>1, LenProperties
  <1> HIDE DEF u
  <1>3. \A i \in 1 .. Len(s) : i \in DOMAIN u /\ u[i] = s[i]
    BY <1>1, <1>2
  <1>4. \A i \in 1 .. Len(t) : i + Len(s) \in DOMAIN u /\ u[i + Len(s)] = t[i]
    <2> SUFFICES ASSUME NEW i \in 1 .. Len(t)
                 PROVE  i + Len(s) \in DOMAIN u /\ u[i + Len(s)] = t[i]
      OBVIOUS
    <2>1. i + Len(s) \in 1 .. Len(s) + Len(t) /\ ~(i + Len(s) <= Len(s)) /\ (i + Len(s)) - Len(s) = i
      BY <1>1
    <2>2. u[i + Len(s)] = t[(i + Len(s)) - Len(s)]
      BY <1>1, <2>1
    <2> QED
      BY <1>2, <2>1, <2>2
  <1>5. \A i \in DOMAIN u : \/ i \in 1 .. Len(s) /\ u[i] = s[i]
                            \/ i - Len(s) \in 1 .. Len(t) /\ u[i] = t[i - Len(s)]
    BY <1>1, <1>2
  <1>6. ToSet(u) = ToSet(s) \cup ToSet(t)
    <2>1. ToSet(u) \subseteq ToSet(s) \cup ToSet(t)
      BY <1>2, <1>5 DEF ToSet
    <2>2. ToSet(s) \subseteq ToSet(u)
      BY <1>2, <1>3 DEF ToSet
    <2>3. ToSet(t) \subseteq ToSet(u)
      <3>1. \A i \in DOMAIN t : \E j \in DOMAIN u : u[j] = t[i]
        BY <1>2, <1>4
      <3> QED
        BY <3>1 DEF ToSet
    <2> QED
      BY <2>1, <2>2, <2>3
  <1>7. ASSUME IsInjective(s), IsInjective(t), ToSet(s) \cap ToSet(t) = {}
        PROVE  IsInjective(u)
    <2>1. /\ \A i, j \in 1 .. Len(s) : s[i] = s[j] => i = j
          /\ \A i, j \in 1 .. Len(t) : t[i] = t[j] => i = j
          /\ \A i \in 1 .. Len(s), j \in 1 .. Len(t) : s[i] # t[j]
      <3>1. /\ \A i, j \in 1 .. Len(s) : s[i] = s[j] => i = j
            /\ \A i, j \in 1 .. Len(t) : t[i] = t[j] => i = j
        BY <1>2, <1>7 DEF IsInjective
      <3>2. /\ \A i \in 1 .. Len(s) : s[i] \in ToSet(s)
            /\ \A j \in 1 .. Len(t) : t[j] \in ToSet(t)
        BY <1>2 DEF ToSet
      <3> QED
        BY <1>7, <3>1, <3>2
    <2>2. ASSUME NEW i \in DOMAIN u, NEW j \in DOMAIN u, u[i] = u[j] PROVE i = j
      <3>1. i \in 1 .. Len(s) + Len(t) /\ j \in 1 .. Len(s) + Len(t)
        BY <1>2
      <3>2. CASE i \in 1 .. Len(s) /\ j \in 1 .. Len(s)
        BY <1>3, <2>1, <2>2, <3>2
      <3>3. CASE i \notin 1 .. Len(s) /\ j \notin 1 .. Len(s)
        <4>1. /\ i - Len(s) \in 1 .. Len(t) /\ u[i] = t[i - Len(s)]
              /\ j - Len(s) \in 1 .. Len(t) /\ u[j] = t[j - Len(s)]
          BY <1>5, <3>3
        <4>2. i - Len(s) = j - Len(s)
          BY <2>1, <2>2, <4>1
        <4> QED
          BY <1>1, <3>1, <4>2
      <3>4. CASE i \in 1 .. Len(s) /\ j \notin 1 .. Len(s)
        BY <1>3, <1>5, <2>1, <2>2, <3>4
      <3>5. CASE i \notin 1 .. Len(s) /\ j \in 1 .. Len(s)
        BY <1>3, <1>5, <2>1, <2>2, <3>5
      <3> QED
        BY <3>2, <3>3, <3>4, <3>5
    <2> QED
      BY <2>2 DEF IsInjective
  <1> QED
    BY <1>1, <1>6, <1>7 DEF u

LEMMA Single ==
    ASSUME NEW S, NEW x \in S
    PROVE  <<x>> \in Seq(S) /\ ToSet(<<x>>) = {x} /\ IsInjective(<<x>>) /\ <<x>> # << >>
  BY DEF ToSet, IsInjective

\* The rest of a list in which everything is once is without its head.
LEMMA TailLacks ==
    ASSUME NEW S, NEW s \in Seq(S), s # << >>, IsInjective(s)
    PROVE  ToSet(Tail(s)) = ToSet(s) \ {Head(s)} /\ Head(s) \in ToSet(s)
  <1>1. /\ Tail(s) \in Seq(S) /\ Len(s) \in Nat \ {0} /\ Len(Tail(s)) = Len(s) - 1
        /\ \A i \in 1 .. Len(s) - 1 : Tail(s)[i] = s[i + 1]
        /\ DOMAIN s = 1 .. Len(s) /\ DOMAIN Tail(s) = 1 .. Len(s) - 1
        /\ Head(s) = s[1] /\ 1 \in DOMAIN s
    BY EmptySeq, HeadTailProperties
  <1>2. \A i \in 1 .. Len(s) : i = 1 \/ (i - 1 \in 1 .. Len(s) - 1 /\ Tail(s)[i - 1] = s[i])
    BY <1>1
  <1>3. \A i \in 1 .. Len(s) - 1 : i + 1 \in DOMAIN s /\ Tail(s)[i] = s[i + 1] /\ s[i + 1] # s[1]
    BY <1>1 DEF IsInjective
  <1>4. ToSet(Tail(s)) \subseteq ToSet(s) \ {Head(s)}
    BY <1>1, <1>3 DEF ToSet
  <1>5. ToSet(s) \ {Head(s)} \subseteq ToSet(Tail(s))
    <2>1. \A i \in DOMAIN s : s[i] = Head(s) \/ \E j \in DOMAIN Tail(s) : Tail(s)[j] = s[i]
      BY <1>1, <1>2
    <2> QED
      BY <2>1 DEF ToSet
  <1> QED
    BY <1>1, <1>4, <1>5 DEF ToSet

LEMMA Enumerated ==
    ASSUME NEW S, IsFiniteSet(S), NEW s \in SetToSeqs(S)
    PROVE  s \in Seq(S) /\ IsInjective(s) /\ ToSet(s) = S
  <1> DEFINE n == Cardinality(S)
  <1>1. n \in Nat
    BY FS_CardinalityType
  <1>2. s \in [1 .. n -> S] /\ \A i, j \in 1 .. n : i # j => s[i] # s[j]
    BY DEF SetToSeqs
  <1>3. s \in Injection(1 .. n, S)
    BY <1>2 DEF Injection, IsInjective
  <1>4. IsFiniteSet(1 .. n) /\ Cardinality(1 .. n) = n
    BY <1>1, FS_Interval
  <1>5. s \in Surjection(1 .. n, S)
    BY <1>3, <1>4, FS_Injection
  <1>6. \A x \in S : \E i \in 1 .. n : s[i] = x
    BY <1>5 DEF Surjection
  <1>7. s \in Seq(S) /\ DOMAIN s = 1 .. n
    BY <1>1, <1>2
  <1> QED
    BY <1>2, <1>6, <1>7 DEF ToSet, IsInjective

LEMMA CanEnumerate ==
    ASSUME NEW S, NEW s \in Seq(S), IsInjective(s), ToSet(s) = S
    PROVE  s \in SetToSeqs(S) /\ IsFiniteSet(S) /\ Len(s) = Cardinality(S)
  <1>1. s \in [1 .. Len(s) -> S] /\ Len(s) \in Nat /\ DOMAIN s = 1 .. Len(s)
    BY LenProperties, ElementOfSeq
  <1>2. s \in Bijection(1 .. Len(s), S)
    BY <1>1 DEF Bijection, Injection, Surjection, IsInjective, ToSet
  <1>3. ExistsBijection(1 .. Len(s), S)
    BY <1>2 DEF ExistsBijection
  <1>4. Cardinality(S) = Len(s) /\ IsFiniteSet(S)
    BY <1>1, <1>3, FS_CountingElements, FS_NatBijection
  <1> QED
    BY <1>1, <1>4 DEF SetToSeqs, IsInjective

-----------------------------------------------------------------------------
(* The order of the access points of a row.                                *)

\* Rows of access points, each in one row at most.
Apart(group) == \A r, q \in group : r.ap \in Aps /\ (r.ap = q.ap => r = q)

LEMMA BeforeOrders ==
    ASSUME NEW group, Apart(group)
    PROVE  /\ \A r, q \in group : r = q \/ Before(r, q) \/ Before(q, r)
           /\ \A r, q, p \in group : Before(r, q) /\ Before(q, p) => Before(r, p)
  <1> DEFINE str(r) == ApInfo[r.ap].strength
  <1>1. \A r \in group : r.ap \in Nat /\ str(r) \in Nat
    BY StatusAssumption DEF Apart
  <1>2. \A r, q \in group : r.ap = q.ap => r = q
    BY DEF Apart
  <1>3. \A r, q : Before(r, q) <=>
           \/ str(r) > str(q)
           \/ str(r) = str(q) /\ ApIsActive(r) /\ ~ApIsActive(q)
           \/ str(r) = str(q) /\ (ApIsActive(r) <=> ApIsActive(q)) /\ r.ap < q.ap
    BY DEF Before, ApIsActive
  <1> HIDE DEF str
  <1> QED
    BY <1>1, <1>2, <1>3

\* The one that comes before all others.
LEMMA FirstExists ==
    ASSUME NEW group, IsFiniteSet(group), Apart(group), group # {}
    PROVE  \E r \in group : \A q \in group : r = q \/ Before(r, q)
  <1> DEFINE HasFirst(T) == \E r \in T : \A q \in T : r = q \/ Before(r, q)
             Bad == {T \in SUBSET group : T # {} /\ ~HasFirst(T)}
  <1> SUFFICES ASSUME Bad # {} PROVE FALSE
    OBVIOUS
  <1>1. Bad \subseteq FiniteSubsetsOf(group)
    BY FS_Subset DEF FiniteSubsetsOf
  <1>2. PICK T \in Bad : \A U \in Bad : ~(<<U, T>> \in StrictSubsetOrdering(group))
    <2> HIDE DEF Bad
    <2> QED
      BY <1>1, FS_StrictSubsetOrderingWellFounded, WFMin, Zenon
  <1>3. T \subseteq group /\ T # {}
    OBVIOUS
  <1>4. PICK x \in T : TRUE
    BY <1>3
  <1>5. T \ {x} \notin Bad
    BY <1>2, <1>3, <1>4 DEF StrictSubsetOrdering
  <1>6. CASE T \ {x} = {}
    BY <1>2, <1>4, <1>6
  <1>7. CASE T \ {x} # {}
    <2>1. PICK m \in T \ {x} : \A q \in T \ {x} : m = q \/ Before(m, q)
      BY <1>3, <1>5, <1>7
    <2>2. m = x \/ Before(m, x) \/ Before(x, m)
      BY <1>3, <1>4, <2>1, BeforeOrders
    <2>3. Before(x, m) => \A q \in T : x = q \/ Before(x, q)
      BY <1>3, <1>4, <2>1, BeforeOrders
    <2>4. Before(m, x) => \A q \in T : m = q \/ Before(m, q)
      BY <2>1
    <2> QED
      BY <1>2, <1>4, <2>1, <2>2, <2>3, <2>4
  <1> QED
    BY <1>6, <1>7

InOrder(s) == \A i, j \in DOMAIN s : i < j => Before(s[i], s[j])

LEMMA SortedSorts ==
    ASSUME NEW group, IsFiniteSet(group), Apart(group)
    PROVE  Sorted(group) \in SetToSeqs(group) /\ InOrder(Sorted(group))
  <1> DEFINE Sorts(T) == \E s \in SetToSeqs(T) : InOrder(s)
             Bad == {T \in SUBSET group : ~Sorts(T)}
  <1> SUFFICES Sorts(group)
    BY DEF Sorted, InOrder
  <1> SUFFICES ASSUME Bad # {} PROVE FALSE
    OBVIOUS
  <1>1. Bad \subseteq FiniteSubsetsOf(group)
    BY FS_Subset DEF FiniteSubsetsOf
  <1>2. PICK T \in Bad : \A U \in Bad : ~(<<U, T>> \in StrictSubsetOrdering(group))
    <2> HIDE DEF Bad
    <2> QED
      BY <1>1, FS_StrictSubsetOrderingWellFounded, WFMin, Zenon
  <1>3. T \subseteq group /\ IsFiniteSet(T) /\ Apart(T)
    BY FS_Subset DEF Apart
  <1>4. CASE T = {}
    <2>1. << >> \in Seq({}) /\ IsInjective(<< >>) /\ ToSet(<< >>) = {}
      BY NoRows DEF IsInjective
    <2>2. << >> \in SetToSeqs({})
      BY <2>1, CanEnumerate
    <2>3. InOrder(<< >>)
      BY DEF InOrder
    <2> QED
      BY <1>2, <1>4, <2>2, <2>3
  <1>5. CASE T # {}
    <2>1. PICK x \in T : \A q \in T : x = q \/ Before(x, q)
      BY <1>3, <1>5, FirstExists
    <2>2. T \ {x} \notin Bad
      BY <1>2, <1>3, <2>1 DEF StrictSubsetOrdering
    <2>3. PICK s \in SetToSeqs(T \ {x}) : InOrder(s)
      BY <1>3, <2>2
    <2>4. IsFiniteSet(T \ {x})
      BY <1>3, FS_Subset
    <2>5. s \in Seq(T \ {x}) /\ IsInjective(s) /\ ToSet(s) = T \ {x}
      BY <2>3, <2>4, Enumerated
    <2>6. s \in Seq(T)
      BY <2>5
    <2>7. <<x>> \in Seq(T) /\ ToSet(<<x>>) = {x} /\ IsInjective(<<x>>)
      BY <2>1, Single
    <2> DEFINE u == <<x>> \o s
    <2>8. u \in Seq(T) /\ IsInjective(u) /\ ToSet(u) = T
      <3> DEFINE one == <<x>>
      <3>1. /\ one \in Seq(T) /\ ToSet(one) = {x} /\ IsInjective(one)
            /\ u = one \o s
        BY <2>7
      <3> HIDE DEF one, u
      <3>2. /\ one \o s \in Seq(T) /\ ToSet(one \o s) = ToSet(one) \cup ToSet(s)
            /\ ToSet(one) \cap ToSet(s) = {} => IsInjective(one \o s)
        BY <2>5, <2>6, <3>1, Joined
      <3> QED
        BY <2>1, <2>5, <3>1, <3>2
    <2>9. /\ Len(s) \in Nat /\ DOMAIN s = 1 .. Len(s)
          /\ DOMAIN u = 1 .. Len(s) + 1
          /\ \A i \in 1 .. Len(s) + 1 : u[i] = IF i = 1 THEN x ELSE s[i - 1]
      BY <2>6, <2>7, LenProperties, ConcatProperties
    <2>10. \A i \in 1 .. Len(s) : s[i] \in T /\ s[i] # x
      BY <2>5, <2>9 DEF ToSet
    <2> HIDE DEF u
    <2>11. InOrder(u)
      <3> SUFFICES ASSUME NEW i \in 1 .. Len(s) + 1, NEW j \in 1 .. Len(s) + 1, i < j
                   PROVE  Before(u[i], u[j])
        BY <2>9 DEF InOrder
      <3>1. j # 1 /\ j - 1 \in 1 .. Len(s) /\ u[j] = s[j - 1]
        BY <2>9
      <3>2. CASE i = 1
        BY <2>1, <2>9, <2>10, <3>1, <3>2
      <3>3. CASE i # 1
        <4>1. i - 1 \in 1 .. Len(s) /\ u[i] = s[i - 1] /\ i - 1 < j - 1
          BY <2>9, <3>3
        <4> QED
          BY <2>3, <2>9, <3>1, <4>1 DEF InOrder
      <3> QED
        BY <3>2, <3>3
    <2>12. u \in SetToSeqs(T)
      BY <2>8, CanEnumerate
    <2> QED
      BY <1>2, <2>11, <2>12
  <1> QED
    BY <1>4, <1>5

-----------------------------------------------------------------------------
(* The network changes beside the calls.                                   *)

LEMMA InitInv == Init => Inv
  <1> SUFFICES ASSUME Init PROVE Inv
    OBVIOUS
  <1>1. Course /\ Noted /\ Walk /\ CurrentWasConnected
    BY DEF Init, Idle, Course, Noted, Walk, Walking, CurrentWasConnected, Returned
  <1>2. Present
    <2>1. OtherDevices \o WifiDevices \in Seq(ToSet(AllDevices))
      BY StatusAssumption, Joined
    <2> QED
      BY <2>1, StatusAssumption DEF Init, Present, AllDevices
  <1>3. Rows
    BY NoRows DEF Init, Rows
  <1> QED
    BY <1>1, <1>2, <1>3 DEF Inv

\* A history that only grows disturbs nothing that was read.
LEMMA ChangedKeeps ==
    ASSUME Inv, Changed, Present'
    PROVE  Inv'
  <1>1. /\ op' = op /\ phase' = phase /\ pc' = pc /\ todo' = todo /\ cur' = cur /\ act' = act
        /\ found' = found /\ target' = target /\ result' = result
    BY DEF Changed, callVars
  <1>2. wasActive' = wasActive \cup ActiveNow'
    BY DEF Changed
  <1>3. Course'
    BY <1>1 DEF Inv, Course
  <1>4. Noted'
    BY <1>1, <1>2 DEF Inv, Noted
  <1>5. Walk'
    BY <1>1 DEF Inv, Walk, Walking
  <1>6. Rows'
    <2>1. found \in Seq(RowsOver(Aps \cup wasActive'))
      <3>1. Aps \cup wasActive \subseteq Aps \cup wasActive'
        BY <1>2
      <3> QED
        BY <3>1, Wider DEF Inv, Rows
    <2>2. /\ \A r \in ToSet(found) : r.active => r.ap \in wasActive'
          /\ \A r, q \in ToSet(found) : r.active /\ q.active /\ r.dev = q.dev => r = q
      BY <1>2 DEF Inv, Rows
    <2> QED
      BY <1>1, <2>1, <2>2 DEF Rows
  <1>7. CurrentWasConnected'
    BY <1>1, <1>2 DEF Inv, CurrentWasConnected, Returned
  <1> QED
    BY <1>3, <1>4, <1>5, <1>6, <1>7 DEF Inv

LEMMA NetworkKeeps == Inv /\ Network => Inv'
  <1> SUFFICES ASSUME Inv, Network PROVE Inv'
    OBVIOUS
  <1>1. Present
    BY DEF Inv
  <1>2. ASSUME NEW d \in ToSet(AllDevices), Unplugged(d) PROVE Inv'
    <2>1. PICK i \in DOMAIN devices : devices' = RemoveAt(devices, i)
      BY <1>2 DEF Unplugged
    <2>2. Present'
      BY <1>1, <2>1, Removing DEF Present
    <2>3. Changed
      BY <1>2 DEF Unplugged
    <2> QED
      BY <2>2, <2>3, ChangedKeeps
  <1>3. ASSUME devices' = devices, Changed PROVE Inv'
    <2>1. Present'
      BY <1>1, <1>3 DEF Present
    <2> QED
      BY <1>3, <2>1, ChangedKeeps
  <1>4. ASSUME NEW a \in Aps, ApAppears(a) \/ ApVanishes(a) PROVE Inv'
    BY <1>3, <1>4 DEF ApAppears, ApVanishes
  <1>5. ASSUME NEW d \in Wifi, NEW a \in Aps, Connects(d, a) \/ Roams(d, a) PROVE Inv'
    BY <1>3, <1>5 DEF Connects, Roams
  <1>6. ASSUME NEW d \in Wifi, Disconnects(d) PROVE Inv'
    BY <1>3, <1>6 DEF Disconnects
  <1>7. ASSUME NEW v \in Vpns, VpnUp(v) \/ VpnDown(v) \/ VpnForgotten(v) PROVE Inv'
    BY <1>3, <1>7 DEF VpnUp, VpnDown, VpnForgotten
  <1> QED
    BY <1>2, <1>4, <1>5, <1>6, <1>7 DEF Network

-----------------------------------------------------------------------------
(* The steps of a call that list no device and no access point.            *)

\* What such a step does to the variables of the invariant.
Aside ==
    /\ pc # "idle" /\ pc' \notin {"idle", "ap_list", "ap"}
    /\ UNCHANGED <<envVars, histVars>> /\ found' = found
    /\ ~Walking'
    /\ pc' \in {"active_ap", "address"} => act' \in wasActive
    /\ pc' = "address" => ApInfo[act'].ssid = target'
    /\ Course'
    /\ CurrentWasConnected'

LEMMA AsideKeeps == Inv /\ Aside => Inv'
  <1> SUFFICES ASSUME Inv, Aside PROVE Inv'
    OBVIOUS
  <1>1. devices' = devices /\ link' = link /\ conns' = conns /\ wasActive' = wasActive
    BY DEF Aside, envVars, histVars
  <1>2. Present'
    BY <1>1 DEF Inv, Present
  <1>3. ActiveNow' = ActiveNow
    BY <1>1 DEF ActiveNow, ActiveAp, Connected
  <1>4. Noted'
    BY <1>1, <1>3 DEF Inv, Aside, Noted
  <1>5. Walk'
    BY DEF Aside, Walk
  <1>6. Rows'
    BY <1>1 DEF Inv, Aside, Rows
  <1> QED
    BY <1>2, <1>4, <1>5, <1>6 DEF Inv, Aside

\* current_ssid, and what its callers do with the SSID.
LEMMA SsidKeeps ==
    Inv /\ (SsidAp \/ SsidNone \/ \E d \in ToSet(AllDevices) : SsidDevice(d)) => Inv'
  <1> SUFFICES ASSUME Inv, SsidAp \/ SsidNone \/ \E d \in ToSet(AllDevices) : SsidDevice(d)
               PROVE  Aside
    BY AsideKeeps
  <1>1. Course /\ Noted
    BY DEF Inv
  <1>2. pc \in {"active_ap", "device"} /\ phase = "ssid" /\ UNCHANGED <<envVars, histVars>>
    BY DEF SsidAp, SsidNone, SsidDevice, AtDevice, Still
  <1>3. found = << >>
    BY <1>1, <1>2 DEF Course
  <1>4. ASSUME NEW s, SsidIs(s) PROVE Aside
    <2>1. CASE op.name = "ssid" /\ Answer(s)
      BY <1>1, <1>2, <1>3, <2>1
      DEF Answer, Finish, Aside, Course, Walking, CurrentWasConnected, Returned
    <2>2. CASE op.name = "current" /\ s = None /\ Answer(None)
      BY <1>1, <1>2, <1>3, <2>2
      DEF Answer, Finish, Aside, Course, Walking, CurrentWasConnected, Returned
    <2>3. CASE op.name = "current" /\ NextPhase("pick")
      BY <1>1, <1>2, <1>3, <2>3
      DEF NextPhase, Aside, Course, Walking, CurrentWasConnected, Returned
    <2>4. CASE /\ op.name = "details"
               /\ NextPhase(IF s = op.arg.ssid THEN "addr" ELSE "walk")
      BY <1>1, <1>2, <1>3, <2>4
      DEF NextPhase, Aside, Course, Walking, CurrentWasConnected, Returned
    <2> QED
      BY <1>4, <2>1, <2>2, <2>3, <2>4 DEF SsidIs
  <1>5. ASSUME Skip PROVE Aside
    BY <1>1, <1>2, <1>3, <1>5 DEF Skip, Aside, Course, Walking, CurrentWasConnected, Returned
  <1>6. ASSUME NEW d, ActiveAp(d) # None, d \in Wifi, NoteActive(d, "active_ap") PROVE Aside
    <2>1. act' \in wasActive
      BY <1>1, <1>2, <1>6 DEF NoteActive, Noted, ActiveNow
    <2> QED
      BY <1>1, <1>2, <1>3, <1>6, <2>1
      DEF NoteActive, Aside, Course, Walking, CurrentWasConnected, Returned
  <1>7. ASSUME NEW d, ActiveAp(d) # None PROVE d \in Wifi
    BY <1>7 DEF ActiveAp, Connected
  <1>8. CASE SsidAp
    BY <1>4, <1>8 DEF SsidAp
  <1>9. CASE SsidNone
    BY <1>4, <1>9 DEF SsidNone
  <1>10. ASSUME NEW d \in ToSet(AllDevices), SsidDevice(d) PROVE Aside
    BY <1>4, <1>5, <1>6, <1>7, <1>10 DEF SsidDevice
  <1> QED
    BY <1>8, <1>9, <1>10

\* The second pass of current_network.
LEMMA PickKeeps ==
    Inv /\ (PickAp \/ PickAddress \/ PickNone \/ \E d \in ToSet(AllDevices) : PickDevice(d))
        => Inv'
  <1> SUFFICES ASSUME Inv,
                      PickAp \/ PickAddress \/ PickNone \/ \E d \in ToSet(AllDevices) : PickDevice(d)
               PROVE  Aside
    BY AsideKeeps
  <1>1. Course /\ Noted
    BY DEF Inv
  <1>2. /\ pc \in {"active_ap", "address", "device"} /\ phase = "pick"
        /\ UNCHANGED <<envVars, histVars>>
    BY DEF PickAp, PickAddress, PickNone, PickDevice, AtDevice, Still
  <1>3. found = << >>
    BY <1>1, <1>2 DEF Course
  <1>4. ASSUME Skip \/ Fail PROVE Aside
    BY <1>1, <1>2, <1>3, <1>4
    DEF Skip, Fail, Finish, Aside, Course, Walking, CurrentWasConnected, Returned
  <1>5. ASSUME NEW d, ActiveAp(d) # None, NoteActive(d, "active_ap") PROVE Aside
    <2>1. act' \in wasActive
      <3>1. d \in Wifi
        BY <1>5 DEF ActiveAp, Connected
      <3> QED
        BY <1>1, <1>2, <1>5, <3>1 DEF NoteActive, Noted, ActiveNow
    <2> QED
      BY <1>1, <1>2, <1>3, <1>5, <2>1
      DEF NoteActive, Aside, Course, Walking, CurrentWasConnected, Returned
  <1>6. ASSUME NEW d \in ToSet(AllDevices), PickDevice(d) PROVE Aside
    BY <1>4, <1>5, <1>6 DEF PickDevice
  <1>7. CASE PickAp
    <2>1. CASE Skip \/ Fail
      BY <1>4, <2>1
    <2>2. CASE /\ ApInfo[act].ssid = target /\ pc' = "address"
               /\ UNCHANGED <<op, phase, act, found, target>>
      BY <1>1, <1>2, <1>3, <1>7, <2>2
      DEF PickAp, Noted, Aside, Course, Walking, CurrentWasConnected, Returned
    <2> QED
      BY <1>7, <2>1, <2>2 DEF PickAp
  <1>8. CASE PickAddress
    <2>1. act \in wasActive /\ ApInfo[act].ssid = target
      BY <1>1, <1>8 DEF PickAddress, Noted
    <2>2. /\ result'.value = [NetworkOf(act, TRUE, link[cur]) EXCEPT !.known = TRUE]
          /\ pc' = "done" /\ UNCHANGED <<op, phase, found, target>>
      BY <1>8 DEF PickAddress, Answer, Finish
    <2>3. result'.value.bssid = act /\ result'.value.ssid = ApInfo[act].ssid
      BY <2>2 DEF NetworkOf
    <2>4. wasActive' = wasActive
      BY <1>2 DEF histVars
    <2> QED
      BY <1>1, <1>2, <1>3, <2>1, <2>2, <2>3, <2>4
      DEF Aside, Course, Walking, CurrentWasConnected, Returned
  <1>9. CASE PickNone
    BY <1>1, <1>2, <1>3, <1>9
    DEF PickNone, Answer, Finish, Aside, Course, Walking, CurrentWasConnected, Returned
  <1> QED
    BY <1>6, <1>7, <1>8, <1>9

\* The addresses of show_details.
LEMMA AddrKeeps ==
    Inv /\ (AddrNone \/ \E d \in ToSet(AllDevices) : AddrDevice(d)) => Inv'
  <1> SUFFICES ASSUME Inv, AddrNone \/ \E d \in ToSet(AllDevices) : AddrDevice(d)
               PROVE  Aside
    BY AsideKeeps
  <1>1. Course /\ pc = "device" /\ phase = "addr" /\ UNCHANGED <<envVars, histVars>>
    BY DEF Inv, AddrNone, AddrDevice, AtDevice, Still
  <1>2. found = << >> /\ op.name # "current"
    BY <1>1 DEF Course
  <1>3. CASE Skip
    BY <1>1, <1>2, <1>3 DEF Skip, Aside, Course, Walking, CurrentWasConnected, Returned
  <1>4. CASE phase' = "walk" /\ pc' = "get" /\ UNCHANGED <<op, found>>
    BY <1>1, <1>2, <1>4 DEF Aside, Course, Walking, CurrentWasConnected, Returned
  <1>5. Skip \/ (phase' = "walk" /\ pc' = "get" /\ UNCHANGED <<op, found>>)
    BY DEF AddrNone, AddrDevice, NextPhase
  <1> QED
    BY <1>3, <1>4, <1>5

\* What is made of the rows and of the connections after they are read: the
\* merging, the listings of connections and of profiles, get_vpn_info.
After ==
    \/ EndOfWalk \/ MergeNext \/ MarkKnown
    \/ ReadPath \/ PathGone \/ ReadPathDevice \/ EndOfPaths
    \/ GetPaths \/ ListSaved \/ ReadVpnPath \/ EndOfVpnPaths \/ EndOfProfiles
    \/ \E v \in Vpns : ReadProfile(v)
    \/ ReadInfoPath \/ ReadInfoSettings \/ ReadInfoDevice \/ EndOfInfo

LEMMA AfterKeeps == Inv /\ After => Inv'
  <1> SUFFICES ASSUME Inv, After PROVE Aside
    BY AsideKeeps
  <1>1. Course
    BY DEF Inv
  <1>2. CASE EndOfWalk
    <2>1. /\ pc = "device" /\ phase = "walk" /\ op.name # "current"
          /\ pc' \in {"done", "merge"} /\ UNCHANGED <<op, phase, found>>
          /\ UNCHANGED <<envVars, histVars>>
      BY <1>1, <1>2 DEF EndOfWalk, Answer, Finish, Still, Course
    <2> QED
      BY <1>1, <2>1 DEF Aside, Course, Walking, CurrentWasConnected, Returned
  <1>3. CASE MergeNext \/ MarkKnown
    <2>1. /\ pc = "merge" /\ pc' \in {"done", "merge"} /\ UNCHANGED <<op, phase, found>>
          /\ UNCHANGED <<envVars, histVars>>
      BY <1>3 DEF MergeNext, MarkKnown, Answer, Finish, Still
    <2>2. op.name # "current"
      BY <1>1, <2>1 DEF Course
    <2> QED
      BY <1>1, <2>1, <2>2 DEF Aside, Course, Walking, CurrentWasConnected, Returned
  <1>4. CASE ReadPath \/ PathGone \/ ReadPathDevice
    <2>1. /\ pc \in {"path", "gone", "path_device"}
          /\ pc' \in {"path", "gone", "path_device", "done"} /\ UNCHANGED <<op, phase, found>>
          /\ UNCHANGED <<envVars, histVars>>
      BY <1>4 DEF ReadPath, PathGone, ReadPathDevice, Fail, Finish, Still
    <2>2. phase = "active" /\ op.name # "current"
      BY <1>1, <2>1 DEF Course
    <2> QED
      BY <1>1, <2>1, <2>2 DEF Aside, Course, Walking, CurrentWasConnected, Returned
  <1>5. CASE EndOfPaths
    <2>1. /\ pc = "path" /\ op.name # "current" /\ UNCHANGED <<op, found>>
          /\ \/ pc' = "done" /\ phase' = phase
             \/ pc' = "get" /\ phase' = "walk"
          /\ UNCHANGED <<envVars, histVars>>
      BY <1>5 DEF EndOfPaths, Answer, Finish, NextPhase, Still
    <2>2. phase = "active" /\ found = << >>
      BY <1>1, <2>1 DEF Course
    <2> QED
      BY <1>1, <2>1, <2>2 DEF Aside, Course, Walking, CurrentWasConnected, Returned
  <1>6. CASE GetPaths
    <2>1. /\ \/ pc = "get" /\ phase \in {"active", "vpn_info"}
             \/ pc = "vpn_get"
          /\ pc' = CASE phase = "active" -> "path" [] phase = "vpn_info" -> "info"
                     [] OTHER -> "vpn_path"
          /\ UNCHANGED <<op, phase, found>> /\ UNCHANGED <<envVars, histVars>>
      BY <1>6 DEF GetPaths, Still
    <2>2. pc = "vpn_get" => phase \in {"saved", "vpns", "active_vpns"}
      BY <1>1 DEF Course
    <2>3. \/ phase = "active" /\ pc' = "path"
          \/ phase = "vpn_info" /\ pc' = "info"
          \/ phase \in {"saved", "vpns", "active_vpns"} /\ pc' = "vpn_path"
      BY <2>1, <2>2
    <2> QED
      BY <1>1, <2>1, <2>3 DEF Aside, Course, Walking, CurrentWasConnected, Returned
  <1>7. CASE ListSaved \/ ReadVpnPath \/ EndOfVpnPaths \/ EndOfProfiles \/ \E v \in Vpns : ReadProfile(v)
    <2>1. /\ \/ pc = "get" /\ phase \in {"saved", "vpns", "active_vpns"}
             \/ pc \in {"profile", "vpn_get", "vpn_path"}
          /\ pc' \in {"profile", "vpn_get", "vpn_path", "done"} /\ UNCHANGED <<op, phase, found>>
          /\ UNCHANGED <<envVars, histVars>>
      BY <1>7 DEF ListSaved, ReadVpnPath, EndOfVpnPaths, EndOfProfiles, ReadProfile, Answer,
                  Finish, Still
    <2>2. phase \in {"saved", "vpns", "active_vpns"} /\ op.name # "current"
      BY <1>1, <2>1 DEF Course
    <2> QED
      BY <1>1, <2>1, <2>2 DEF Aside, Course, Walking, CurrentWasConnected, Returned
  <1>8. CASE ReadInfoPath \/ ReadInfoSettings \/ ReadInfoDevice \/ EndOfInfo
    <2>1. /\ pc \in {"info", "info_settings", "info_device"}
          /\ pc' \in {"info", "info_settings", "info_device", "done"}
          /\ UNCHANGED <<op, phase, found>> /\ UNCHANGED <<envVars, histVars>>
      BY <1>8 DEF ReadInfoPath, ReadInfoSettings, ReadInfoDevice, EndOfInfo, Answer, Fail,
                  Finish, Still
    <2>2. phase = "vpn_info" /\ op.name # "current"
      BY <1>1, <2>1 DEF Course
    <2> QED
      BY <1>1, <2>1, <2>2 DEF Aside, Course, Walking, CurrentWasConnected, Returned
  <1> QED
    BY <1>2, <1>3, <1>4, <1>5, <1>6, <1>7, <1>8 DEF After

-----------------------------------------------------------------------------
(* The pass over the devices and their access points.                      *)

\* A step of the pass is given by what becomes of Walk and Rows.
Pass ==
    /\ pc # "idle" /\ pc' \notin {"idle", "active_ap", "address", "done"}
    /\ UNCHANGED <<envVars, histVars>>
    /\ pc' \in {"ap_list", "ap"} => act' \in wasActive \cup {None}
    /\ Course' /\ Walk' /\ Rows'

LEMMA PassKeeps == Inv /\ Pass => Inv'
  <1> SUFFICES ASSUME Inv, Pass PROVE Inv'
    OBVIOUS
  <1>1. devices' = devices /\ link' = link /\ conns' = conns /\ wasActive' = wasActive
    BY DEF Pass, envVars, histVars
  <1>2. Present'
    BY <1>1 DEF Inv, Present
  <1>3. ActiveNow' = ActiveNow
    BY <1>1 DEF ActiveNow, ActiveAp, Connected
  <1>4. Noted'
    BY <1>1, <1>3 DEF Inv, Pass, Noted
  <1>5. CurrentWasConnected'
    BY DEF Pass, CurrentWasConnected, Returned
  <1> QED
    BY <1>2, <1>4, <1>5 DEF Inv, Pass

LEMMA GetDevicesKeeps == Inv /\ GetDevices => Inv'
  <1> SUFFICES ASSUME Inv, GetDevices PROVE Pass
    BY PassKeeps
  <1>1. /\ pc = "get" /\ phase \in {"ssid", "pick", "addr", "walk"}
        /\ todo' = devices /\ pc' = "device"
        /\ UNCHANGED <<op, phase, cur, act, found>> /\ UNCHANGED <<envVars, histVars>>
    BY DEF GetDevices, Still
  <1>2. found = << >> /\ Course'
    BY <1>1 DEF Inv, Course
  <1>3. Walk'
    <2>1. todo' \in Seq(ToSet(AllDevices)) /\ IsInjective(todo)'
      BY <1>1 DEF Inv, Present, IsInjective
    <2>2. ToSet(found') = {}
      BY <1>1, <1>2, NoRows
    <2> QED
      BY <1>1, <2>1, <2>2 DEF Walk, Walking
  <1>4. Rows'
    <2>1. wasActive' = wasActive
      BY <1>1 DEF histVars
    <2> QED
      BY <1>1, <2>1 DEF Inv, Rows
  <1> QED
    BY <1>1, <1>2, <1>3, <1>4 DEF Pass

\* A call that fails at a device or at an access point answers.
LEMMA FailKeeps ==
    ASSUME Inv, pc \in {"device", "ap_list", "ap"}, phase = "walk", Fail,
           UNCHANGED <<envVars, histVars>>
    PROVE  Inv'
  <1>1. Aside
    BY DEF Inv, Fail, Finish, Aside, Course, Walking, CurrentWasConnected, Returned
  <1> QED
    BY <1>1, AsideKeeps

\* A device that is passed over, or whose access points have all been read.
LEMMA SkipKeeps ==
    ASSUME Inv, Walking, todo # << >>, Skip, UNCHANGED <<envVars, histVars>>
    PROVE  Inv'
  <1> SUFFICES Pass
    BY PassKeeps
  <1>1. todo' = Tail(todo) /\ pc' = "device" /\ UNCHANGED <<op, phase, cur, act, found>>
    BY DEF Skip
  <1>2. Course'
    BY <1>1 DEF Inv, Course, Walking
  <1>3. /\ todo \in Seq(ToSet(AllDevices)) /\ IsInjective(todo)
        /\ \A r \in ToSet(found), i \in DOMAIN todo : r.dev = todo[i] => i = 1
    BY DEF Inv, Walk
  <1>4. /\ Tail(todo) \in Seq(ToSet(AllDevices)) /\ IsInjective(Tail(todo))
        /\ \A i \in DOMAIN Tail(todo) : i + 1 \in DOMAIN todo /\ i + 1 # 1 /\ Tail(todo)[i] = todo[i + 1]
    BY <1>3, Advancing
  <1>5. \A r \in ToSet(found), i \in DOMAIN Tail(todo) : r.dev # Tail(todo)[i]
    BY <1>3, <1>4
  <1>6. Walk'
    <2>1. IsInjective(todo')
      BY <1>1, <1>4
    <2> QED
      BY <1>1, <1>4, <1>5, <2>1 DEF Walk, Walking, IsInjective
  <1>7. Rows'
    <2>1. wasActive' = wasActive
      BY DEF histVars
    <2> QED
      BY <1>1, <2>1 DEF Inv, Rows
  <1> QED
    BY <1>1, <1>2, <1>6, <1>7 DEF Pass, Walking

\* A device whose access points will be read: its active one is noted first.
LEMMA WalkDeviceKeeps ==
    ASSUME Inv, NEW d \in ToSet(AllDevices), WalkDevice(d) PROVE Inv'
  <1>1. /\ pc = "device" /\ phase = "walk" /\ todo # << >> /\ d = Head(todo)
        /\ UNCHANGED <<envVars, histVars>>
    BY DEF WalkDevice, AtDevice, Still
  <1>2. Walking
    BY <1>1 DEF Walking
  <1>3. CASE Fail
    BY <1>1, <1>3, FailKeeps
  <1>4. CASE Skip
    BY <1>1, <1>2, <1>4, SkipKeeps
  <1>5. CASE NoteActive(d, "ap_list")
    <2>1. /\ cur' = d /\ act' = ActiveAp(d) /\ pc' = "ap_list"
          /\ UNCHANGED <<op, phase, todo, found>> /\ wasActive' = wasActive
      BY <1>1, <1>5 DEF NoteActive, histVars
    <2>2. act' \in wasActive \cup {None}
      <3>1. ActiveNow \subseteq wasActive
        BY <1>1 DEF Inv, Noted
      <3>2. ActiveAp(d) # None => d \in Wifi
        BY DEF ActiveAp, Connected
      <3> QED
        BY <2>1, <3>1, <3>2 DEF ActiveNow
    <2>3. Course'
      BY <1>1, <2>1 DEF Inv, Course
    <2>4. Walk'
      BY <1>1, <1>2, <2>1 DEF Inv, Walk, Walking
    <2>5. Rows'
      BY <2>1 DEF Inv, Rows
    <2>6. Pass
      BY <1>1, <2>1, <2>2, <2>3, <2>4, <2>5 DEF Pass, histVars
    <2> QED
      BY <2>6, PassKeeps
  <1> QED
    BY <1>3, <1>4, <1>5 DEF WalkDevice

LEMMA ListApsKeeps == Inv /\ ListAps => Inv'
  <1> SUFFICES ASSUME Inv, ListAps PROVE Inv'
    OBVIOUS
  <1>1. pc = "ap_list" /\ phase = "walk" /\ UNCHANGED <<envVars, histVars>>
    BY DEF Inv, Course, ListAps, Still
  <1>2. CASE Fail
    BY <1>1, <1>2, FailKeeps
  <1>3. CASE pc' = "ap" /\ UNCHANGED <<op, phase, todo, cur, act, found>>
    <2>1. Course' /\ act \in wasActive \cup {None}
      BY <1>1, <1>3 DEF Inv, Course, Noted
    <2>2. wasActive' = wasActive
      BY <1>1 DEF histVars
    <2>3. /\ todo \in Seq(ToSet(AllDevices)) /\ IsInjective(todo)
          /\ todo # << >> /\ cur = Head(todo)
          /\ \A r \in ToSet(found), i \in DOMAIN todo : r.dev # todo[i]
      BY <1>1 DEF Inv, Walk, Walking
    <2>4. \A r \in ToSet(found) : r.dev # cur
      BY <2>3, Advancing
    <2>5. Walk'
      BY <1>3, <2>3, <2>4 DEF Walk, Walking
    <2>6. Rows'
      BY <1>3, <2>2 DEF Inv, Rows
    <2>7. Pass
      BY <1>1, <1>3, <2>1, <2>2, <2>5, <2>6 DEF Pass
    <2> QED
      BY <2>7, PassKeeps
  <1> QED
    BY <1>2, <1>3 DEF ListAps

\* One more row: it is the only active one of its device, since any other would
\* be of the access point that was noted.
LEMMA ReadApKeeps ==
    ASSUME Inv, NEW a \in Aps, ReadAp(a) PROVE Inv'
  <1>1. pc = "ap" /\ phase = "walk" /\ UNCHANGED <<envVars, histVars>>
    BY DEF Inv, Course, ReadAp, Still
  <1>2. CASE Fail
    BY <1>1, <1>2, FailKeeps
  <1>3. CASE ~Fail
    <2> DEFINE row == [ap |-> a, active |-> IsActiveAp(a), dev |-> cur]
    <2>1. /\ UNCHANGED <<op, phase, pc, todo, cur, act>>
          /\ found' = found \/ found' = Append(found, row)
      BY <1>3 DEF ReadAp
    <2>2. wasActive' = wasActive
      BY <1>1 DEF histVars
    <2>3. /\ todo \in Seq(ToSet(AllDevices)) /\ IsInjective(todo)
          /\ todo # << >> /\ cur = Head(todo)
          /\ \A r \in ToSet(found), i \in DOMAIN todo : r.dev = todo[i] => i = 1
          /\ \A r \in ToSet(found) : r.dev = cur /\ r.active => r.ap = act
      BY <1>1 DEF Inv, Walk, Walking
    <2>4. /\ cur \in ToSet(AllDevices) /\ cur = todo[1] /\ 1 \in DOMAIN todo
      BY <2>3, Advancing
    <2>5. /\ row.ap = a /\ row.dev = cur /\ row.active = (act = a)
          /\ row \in RowsOver(Aps \cup wasActive)
      BY <2>4 DEF RowsOver, IsActiveAp
    <2>6. row.active => row.ap \in wasActive /\ row.ap = act
      BY <1>1, <2>5, StatusAssumption DEF Inv, Noted
    <2>7. /\ found \in Seq(RowsOver(Aps \cup wasActive))
          /\ \A r \in ToSet(found) : r \in RowsOver(Aps \cup wasActive)
      <3>1. found \in Seq(RowsOver(Aps \cup wasActive))
        BY DEF Inv, Rows
      <3> QED
        BY <3>1, Members
    <2>8. /\ found' \in Seq(RowsOver(Aps \cup wasActive))
          /\ ToSet(found') \subseteq ToSet(found) \cup {row}
      <3> HIDE DEF row
      <3>1. /\ Append(found, row) \in Seq(RowsOver(Aps \cup wasActive))
            /\ ToSet(Append(found, row)) = ToSet(found) \cup {row}
        BY <2>5, <2>7, Appended
      <3>2. CASE found' = found
        BY <2>7, <3>2
      <3>3. CASE found' = Append(found, row)
        BY <3>1, <3>3
      <3> QED
        BY <2>1, <3>2, <3>3
    <2>9. \A r \in ToSet(found) : r.active /\ row.active /\ r.dev = row.dev => r = row
      BY <2>3, <2>5, <2>6, <2>7 DEF RowsOver
    <2> HIDE DEF row
    <2>10. Course'
      BY <1>1, <2>1 DEF Inv, Course
    <2>11. Walk'
      <3>1. \A i \in DOMAIN todo : row.dev = todo[i] => i = 1
        BY <2>3, <2>4, <2>5 DEF IsInjective
      <3>2. \A r \in ToSet(found'), i \in DOMAIN todo : r.dev = todo[i] => i = 1
        BY <2>3, <2>8, <3>1
      <3>3. \A r \in ToSet(found') : r.dev = cur /\ r.active => r.ap = act
        BY <2>3, <2>6, <2>8
      <3> QED
        BY <1>1, <2>1, <2>3, <3>2, <3>3 DEF Walk, Walking
    <2>12. Rows'
      <3>1. \A r \in ToSet(found') : r.active => r.ap \in wasActive
        BY <2>6, <2>8 DEF Inv, Rows
      <3>2. \A r, q \in ToSet(found') : r.active /\ q.active /\ r.dev = q.dev => r = q
        BY <2>8, <2>9 DEF Inv, Rows
      <3> QED
        BY <2>2, <2>8, <3>1, <3>2 DEF Rows
    <2>13. Pass
      BY <1>1, <2>1, <2>2, <2>10, <2>11, <2>12 DEF Inv, Noted, Pass
    <2> QED
      BY <2>13, PassKeeps
  <1> QED
    BY <1>2, <1>3

LEMMA EndOfDeviceKeeps == Inv /\ EndOfDevice => Inv'
  <1> SUFFICES ASSUME Inv, EndOfDevice PROVE Inv'
    OBVIOUS
  <1>1. pc = "ap" /\ phase = "walk" /\ Skip /\ UNCHANGED <<envVars, histVars>>
    BY DEF Inv, Course, EndOfDevice, Still
  <1>2. Walking /\ todo # << >>
    BY <1>1 DEF Inv, Walk, Walking
  <1> QED
    BY <1>1, <1>2, SkipKeeps

\* A device that is itself a row, of the listings of devices and of the scan.
LEMMA VisitDeviceKeeps ==
    ASSUME Inv, NEW d \in ToSet(AllDevices),
           ScanDevice(d) \/ ListDevice(d) \/ ListWifiDevice(d) \/ ListWiredDevice(d)
    PROVE  Inv'
  <1> DEFINE row == [ap |-> ActiveAp(d), active |-> ActiveAp(d) # None, dev |-> d]
             Listed == /\ found' = Append(found, row) /\ todo' = Tail(todo)
                       /\ UNCHANGED <<op, phase, pc, cur, act>>
  <1>1. pc = "device" /\ phase = "walk" /\ todo # << >> /\ d = Head(todo)
    BY DEF ScanDevice, ListDevice, ListWifiDevice, ListWiredDevice, AtDevice
  <1>2. UNCHANGED <<envVars, histVars>> /\ (Fail \/ Skip \/ Listed)
    BY DEF ScanDevice, ListDevice, ListWifiDevice, ListWiredDevice, VisitDevice, Still
  <1>3. Walking
    BY <1>1 DEF Walking
  <1>4. CASE Fail
    BY <1>1, <1>2, <1>4, FailKeeps
  <1>5. CASE Skip
    BY <1>1, <1>2, <1>3, <1>5, SkipKeeps
  <1>6. CASE Listed
    <2>1. wasActive' = wasActive
      BY <1>2 DEF histVars
    <2>2. /\ todo \in Seq(ToSet(AllDevices)) /\ IsInjective(todo)
          /\ \A r \in ToSet(found), i \in DOMAIN todo : r.dev # todo[i]
      BY <1>1, <1>3 DEF Inv, Walk
    <2>3. /\ Tail(todo) \in Seq(ToSet(AllDevices)) /\ IsInjective(Tail(todo))
          /\ 1 \in DOMAIN todo /\ d = todo[1]
          /\ \A i \in DOMAIN Tail(todo) :
                i + 1 \in DOMAIN todo /\ i + 1 # 1 /\ Tail(todo)[i] = todo[i + 1]
      BY <1>1, <2>2, Advancing
    <2>4. ActiveAp(d) \in wasActive \cup {None}
      <3>1. ActiveNow \subseteq wasActive
        BY <1>1 DEF Inv, Noted
      <3>2. ActiveAp(d) # None => d \in Wifi
        BY DEF ActiveAp, Connected
      <3> QED
        BY <3>1, <3>2 DEF ActiveNow
    <2>5. /\ row.ap = ActiveAp(d) /\ row.dev = d /\ row.active = (ActiveAp(d) # None)
          /\ row \in RowsOver(Aps \cup wasActive)
      BY <2>4 DEF RowsOver
    <2>6. found \in Seq(RowsOver(Aps \cup wasActive))
      BY DEF Inv, Rows
    <2>7. /\ found' \in Seq(RowsOver(Aps \cup wasActive))
          /\ ToSet(found') = ToSet(found) \cup {row}
      BY <1>6, <2>5, <2>6, Appended
    <2>8. UNCHANGED <<op, phase, pc, cur, act>> /\ todo' = Tail(todo)
      BY <1>6
    <2> HIDE DEF row, Listed
    <2>9. Course'
      BY <1>1, <2>8 DEF Inv, Course
    <2>10. \A r \in ToSet(found') : r.active => r.ap \in wasActive
      BY <2>4, <2>5, <2>7 DEF Inv, Rows
    <2>11. \A r \in ToSet(found) : r.dev # row.dev
      BY <2>2, <2>3, <2>5
    <2>12. \A r, q \in ToSet(found') : r.active /\ q.active /\ r.dev = q.dev => r = q
      BY <2>7, <2>11 DEF Inv, Rows
    <2>13. Rows'
      BY <2>1, <2>7, <2>10, <2>12 DEF Rows
    <2>14. \A r \in ToSet(found'), i \in DOMAIN Tail(todo) : r.dev # Tail(todo)[i]
      <3>1. \A i \in DOMAIN Tail(todo) : todo[i + 1] # d
        BY <2>2, <2>3 DEF IsInjective
      <3> QED
        BY <2>2, <2>3, <2>5, <2>7, <3>1
    <2>15. Walk'
      <3>1. IsInjective(todo')
        BY <2>3, <2>8
      <3> QED
        BY <1>1, <2>3, <2>8, <2>14, <3>1 DEF Walk, Walking, IsInjective
    <2>16. Pass
      BY <1>1, <1>2, <2>8, <2>9, <2>13, <2>15 DEF Pass
    <2> QED
      BY <2>16, PassKeeps
  <1> QED
    BY <1>2, <1>4, <1>5, <1>6

-----------------------------------------------------------------------------
(* The invariant, and what follows from it.                                *)

LEMMA BeginKeeps == ASSUME Inv, NEW o \in Ops, Begin(o) PROVE Inv'
  <1>1. /\ pc = "idle" /\ op' = o /\ phase' = FirstPhase(o.name) /\ pc' = "get"
        /\ wasActive' = ActiveNow /\ found' = found
        /\ UNCHANGED <<devices, link, conns>>
    BY DEF Begin, envVars
  <1>2. found = << >>
    BY <1>1 DEF Inv, Course
  <1>3. o.name = "current" => phase' = "ssid"
    BY <1>1 DEF FirstPhase
  <1>4. Course'
    BY <1>1, <1>2, <1>3 DEF Course
  <1>5. Present' /\ ActiveNow' = ActiveNow
    BY <1>1 DEF Inv, Present, ActiveNow, ActiveAp, Connected
  <1>6. Noted' /\ Walk' /\ CurrentWasConnected'
    BY <1>1, <1>5 DEF Noted, Walk, Walking, CurrentWasConnected, Returned
  <1>7. Rows'
    BY <1>1, <1>2, NoRows DEF Rows
  <1> QED
    BY <1>4, <1>5, <1>6, <1>7 DEF Inv

LEMMA ReturnKeeps == Inv /\ Return => Inv'
  <1> SUFFICES ASSUME Inv, Return PROVE Inv'
    OBVIOUS
  <1>1. op' = Idle /\ phase' = "none" /\ pc' = "idle" /\ found' = << >> /\ devices' = devices
    BY DEF Return, envVars
  <1>2. Course' /\ Noted' /\ Walk' /\ CurrentWasConnected'
    BY <1>1 DEF Idle, Course, Noted, Walk, Walking, CurrentWasConnected, Returned
  <1>3. Present' /\ Rows'
    BY <1>1, NoRows DEF Inv, Present, Rows
  <1> QED
    BY <1>2, <1>3 DEF Inv

LEMMA StutterKeeps == ASSUME Inv, UNCHANGED vars PROVE Inv'
  <1>1. /\ UNCHANGED <<devices, link, conns, op, phase, pc, todo, cur, act, found, target,
                       result, wasActive>>
    BY DEF vars, envVars, callVars, histVars
  <1>2. Course' /\ Present' /\ CurrentWasConnected'
    BY <1>1 DEF Inv, Course, Present, CurrentWasConnected, Returned
  <1>3. ActiveNow' = ActiveNow
    BY <1>1 DEF ActiveNow, ActiveAp, Connected
  <1>4. Noted' /\ Walk' /\ Rows'
    BY <1>1, <1>3 DEF Inv, Noted, Walk, Walking, Rows
  <1> QED
    BY <1>2, <1>4 DEF Inv

LEMMA InvNext == Inv /\ [Next]_vars => Inv'
  <1> SUFFICES ASSUME Inv, [Next]_vars PROVE Inv'
    OBVIOUS
  <1>1. ASSUME NEW o \in Ops, Begin(o) PROVE Inv'
    BY <1>1, BeginKeeps
  <1>2. ASSUME NEW d \in ToSet(AllDevices),
               \/ SsidDevice(d) \/ PickDevice(d) \/ AddrDevice(d) \/ WalkDevice(d)
               \/ ScanDevice(d) \/ ListDevice(d) \/ ListWifiDevice(d) \/ ListWiredDevice(d)
        PROVE  Inv'
    BY <1>2, SsidKeeps, PickKeeps, AddrKeeps, WalkDeviceKeeps, VisitDeviceKeeps
  <1>3. ASSUME NEW a \in Aps, ReadAp(a) PROVE Inv'
    BY <1>3, ReadApKeeps
  <1>4. CASE GetDevices \/ ListAps \/ EndOfDevice \/ Return
    BY <1>4, GetDevicesKeeps, ListApsKeeps, EndOfDeviceKeeps, ReturnKeeps
  <1>5. CASE SsidAp \/ SsidNone \/ PickAp \/ PickAddress \/ PickNone \/ AddrNone
    BY <1>5, SsidKeeps, PickKeeps, AddrKeeps
  <1>6. CASE After
    BY <1>6, AfterKeeps
  <1>7. Caller => Inv'
    BY <1>1, <1>2, <1>3, <1>4, <1>5, <1>6 DEF Caller, After
  <1> QED
    BY <1>7, NetworkKeeps, StutterKeeps DEF Next

LEMMA Invariance == Spec => []Inv
  BY InitInv, InvNext, PTL DEF Spec

\* A listing shows at most one active access point per radio, one that was active
\* during the call, however the radio roams while the others are read:
\* list_access_points, list_networks, the snapshot and the listings of devices.
THEOREM OneIsActive == Spec => []OneActivePerRadio
  <1>1. Inv => OneActivePerRadio
    <2> SUFFICES ASSUME Inv PROVE OneActivePerRadio
      OBVIOUS
    <2>1. ASSUME NEW d \in Wifi
          PROVE  Cardinality({r \in ToSet(found) : r.dev = d /\ r.active}) <= 1
      <3> DEFINE mine == {r \in ToSet(found) : r.dev = d /\ r.active}
      <3>1. \A r, q \in mine : r = q
        BY DEF Inv, Rows
      <3> HIDE DEF mine
      <3>2. CASE mine = {}
        BY <3>2, FS_EmptySet DEF mine
      <3>3. CASE mine # {}
        <4>1. PICK r : mine = {r}
          BY <3>1, <3>3
        <4>2. Cardinality(mine) = 1
          BY <4>1, FS_Singleton
        <4> QED
          BY <4>2 DEF mine
      <3> QED
        BY <3>2, <3>3
    <2> QED
      BY <2>1 DEF OneActivePerRadio, Inv, Rows
  <1> QED
    BY <1>1, Invariance, PTL

\* current_network answers with a network whose access point was active during the
\* call and which has the SSID found first, whatever changed between its two passes.
THEOREM CurrentIsReal == Spec => []CurrentWasConnected
  <1>1. Inv => CurrentWasConnected
    BY DEF Inv
  <1> QED
    BY <1>1, Invariance, PTL

-----------------------------------------------------------------------------
(* The listings of connections and of profiles.                            *)
(*                                                                         *)
(*  - Purpose: which operation a pass and a step belong to;                *)
(*  - Blank: what has not been begun has listed nothing;                   *)
(*  - Formed: the connections of the network, whose paths are never used   *)
(*    again; what was steady still is there;                               *)
(*  - Queue: the paths to read were handed out, and what is being read is  *)
(*    the only one of its radio or VPN;                                    *)
(*  - Listed, VpnListing, Sought: what was steady is still to be read, is  *)
(*    being read or has been read, once.                                   *)

ListsAps == op.name \in {"networks", "snapshot", "details"}

Purpose ==
    /\ phase \in {"saved", "vpns", "active_vpns", "vpn_info"} => op.name = phase
    /\ phase = "active" => op.name \in {"active", "snapshot"}
    /\ op.name \in {"active", "saved", "vpns", "active_vpns", "vpn_info"} => phase = op.name
    /\ op.name = "snapshot" => phase \in {"active", "walk"}
    /\ pc \in {"ap_list", "ap"} => ListsAps
    /\ pc = "merge" => op.name = "networks"
    /\ pc \in {"vpn_get", "vpn_path"} => phase # "saved"

Blank ==
    /\ \/ pc = "idle"
       \/ pc = "get" /\ phase \in {"active", "saved", "vpns", "active_vpns", "vpn_info"}
       => listed = << >> /\ up = {}
    /\ pc \in {"vpn_get", "vpn_path"} => listed = << >>

Connection == [dev : Wifi \cup {None}, ap : Aps \cup {None}, vpn : Vpns \cup {None}]

Kin(p, c) ==
    \/ conns[p].dev = c.dev /\ c.dev # None
    \/ conns[p].vpn = c.vpn /\ c.vpn # None

Formed ==
    /\ paths \in Nat /\ DOMAIN conns \subseteq 1 .. paths
    /\ conns \in [DOMAIN conns -> Connection] /\ link \in [Wifi -> Nat \cup {None}]
    /\ \A p \in DOMAIN conns :
          /\ conns[p].dev # None => link[conns[p].dev] = p /\ conns[p].ap # None
          /\ conns[p].vpn \in kept \cup {None}
    /\ \A p, q \in DOMAIN conns : conns[p].vpn = conns[q].vpn /\ conns[p].vpn # None => p = q
    /\ kept \subseteq Vpns /\ seen \subseteq Aps
    /\ steady \subseteq DOMAIN conns

AtPath == {"path_device", "info_settings", "info_device"}
AtPaths == {"path", "gone", "vpn_path", "info"} \cup AtPath

Queue ==
    /\ pc \in AtPaths => todo \in Seq(1 .. paths) /\ IsInjective(todo)
    /\ pc \in AtPath \cup {"gone"} => cur \in 1 .. paths /\ cur \notin ToSet(todo)
    /\ pc = "gone" => cur \notin DOMAIN conns
    /\ pc \in AtPath =>
          /\ act \in Connection /\ act.vpn \in wasActive \cup {None}
          /\ act.dev # None => act.ap # None
          /\ cur \in DOMAIN conns => conns[cur].dev = act.dev /\ conns[cur].vpn = act.vpn
          /\ \A p \in DOMAIN conns : Kin(p, act) => p = cur \/ p \notin ToSet(todo) \cup steady

PathRow == [path : Nat, kind : {"wifi", "vpn", "other"}, dev : Wifi \cup {None},
            ssid : {ApInfo[a].ssid : a \in Aps} \cup {None}, bssid : Aps \cup {None}]

Listed ==
    /\ op.name \in {"active", "snapshot"} =>
          /\ listed \in Seq(PathRow)
          /\ \A i \in DOMAIN listed :
                /\ listed[i].path <= paths
                /\ listed[i].kind = "wifi" => listed[i].dev # None
                /\ listed[i].bssid # None => ApInfo[listed[i].bssid].ssid = listed[i].ssid
          /\ \A i, j \in DOMAIN listed :
                \/ listed[i].path = listed[j].path
                \/ listed[i].kind = "wifi" /\ listed[j].kind = "wifi" /\ listed[i].dev = listed[j].dev
                => i = j
    /\ pc \in {"path", "gone", "path_device"} =>
          /\ \A i \in DOMAIN listed :
                /\ listed[i].path \notin ToSet(todo)
                /\ pc # "path" => listed[i].path # cur
                /\ listed[i].kind = "wifi" =>
                      /\ \A p \in ToSet(todo) \cap DOMAIN conns : conns[p].dev # listed[i].dev
                      /\ pc = "path_device" => act.dev # listed[i].dev
          /\ \A p \in steady : \/ p \in ToSet(todo)
                               \/ pc = "path_device" /\ p = cur
                               \/ \E i \in DOMAIN listed : listed[i].path = p

VpnRow == [vpn : Vpns, active : BOOLEAN]

VpnListing ==
    /\ up \subseteq wasActive
    /\ pc = "vpn_path" => \A p \in steady : p \in ToSet(todo) \/ conns[p].vpn \in up \cup {None}
    /\ pc = "profile" /\ phase # "saved" => \A p \in steady : conns[p].vpn \in up \cup {None}
    /\ pc \in {"vpn_get", "vpn_path", "profile"} =>
          /\ left \subseteq Vpns
          /\ listed \in Seq(VpnRow)
          /\ \A v \in kept : v \in left \/ \E i \in DOMAIN listed : listed[i].vpn = v
          /\ \A i \in DOMAIN listed :
                listed[i].vpn \notin left /\ listed[i].active = (listed[i].vpn \in up)
          /\ \A i, j \in DOMAIN listed : listed[i].vpn = listed[j].vpn => i = j

Sought ==
    /\ pc \in {"info", "info_settings", "info_device"} =>
          \A p \in steady :
             conns[p].vpn # None /\ VpnName[conns[p].vpn] = op.arg =>
                p \in ToSet(todo) \/ (pc # "info" /\ p = cur)
    /\ pc = "info_device" => act.vpn \in Vpns /\ VpnName[act.vpn] = op.arg

ListsInv ==
    /\ Purpose /\ Blank /\ Formed /\ Queue /\ Listed /\ VpnListing /\ Sought
    /\ StableReported

LEMMA InitLists == Init => ListsInv
  <1> SUFFICES ASSUME Init PROVE ListsInv
    OBVIOUS
  <1>1. /\ op.name = "none" /\ phase = "none" /\ pc = "idle" /\ up = {} /\ listed = << >>
        /\ conns = << >> /\ paths = 0 /\ kept = Vpns /\ steady = {} /\ seen \subseteq Aps
        /\ link = [d \in Wifi |-> None]
    BY DEF Init, Idle
  <1>2. DOMAIN conns = {}
    BY <1>1
  <1>3. Formed
    BY <1>1, <1>2 DEF Formed
  <1>4. Purpose /\ Blank /\ Queue /\ Listed /\ VpnListing /\ Sought
    BY <1>1 DEF Purpose, Blank, Queue, AtPath, AtPaths, Listed, VpnListing, Sought
  <1>5. StableReported
    BY <1>1 DEF StableReported, Returned
  <1> QED
    BY <1>3, <1>4, <1>5 DEF ListsInv

\* What the network does to what a call relies on.
Evolves ==
    /\ UNCHANGED callVars
    /\ wasActive \subseteq wasActive' /\ steady' = steady \cap DOMAIN conns'
    /\ kept' \subseteq kept /\ seen' \subseteq Aps
    /\ paths' \in Nat /\ paths <= paths'
    /\ DOMAIN conns' \subseteq DOMAIN conns \cup (1 .. paths' \ 1 .. paths)
    /\ \A p \in DOMAIN conns \cap DOMAIN conns' :
          conns'[p].dev = conns[p].dev /\ conns'[p].vpn = conns[p].vpn
    /\ Formed'

LEMMA WifiListed == Wifi \subseteq ToSet(AllDevices) /\ None \notin Wifi
  <1>1. WifiDevices \in Seq(ToSet(AllDevices))
    BY StatusAssumption
  <1>2. \A d \in ToSet(WifiDevices) : d \in ToSet(AllDevices)
    BY <1>1, Members
  <1> QED
    BY <1>2, StatusAssumption DEF Wifi

LEMMA NetworkEvolves == Formed /\ Network => Evolves
  <1> SUFFICES ASSUME Formed, Network PROVE Evolves
    OBVIOUS
  <1>1. Changed /\ UNCHANGED callVars /\ wasActive \subseteq wasActive'
        /\ steady' = steady \cap DOMAIN conns'
    BY DEF Network, ApAppears, ApVanishes, Connects, Roams, Disconnects, VpnUp, VpnDown,
           VpnForgotten, Unplugged, Changed
  <1>2. None \notin Nat /\ None \notin Vpns
    BY StatusAssumption
  <1>3. ASSUME NEW a \in Aps, ApAppears(a) \/ ApVanishes(a) PROVE Evolves
    <2>1. UNCHANGED <<link, kept, conns, paths>> /\ seen' \subseteq Aps
      BY <1>3 DEF ApAppears, ApVanishes, Formed
    <2> QED
      BY <1>1, <2>1 DEF Evolves, Formed
  <1>4. ASSUME NEW ps, conns' = Without(ps), UNCHANGED paths, seen' \subseteq seen, kept' \subseteq kept,
               link' \in [Wifi -> Nat \cup {None}],
               \A p \in DOMAIN conns \ ps :
                  /\ conns[p].dev # None => link'[conns[p].dev] = link[conns[p].dev]
                  /\ conns[p].vpn # None => conns[p].vpn \in kept'
        PROVE  Evolves
    <2>1. DOMAIN conns' = DOMAIN conns \ ps /\ \A p \in DOMAIN conns \ ps : conns'[p] = conns[p]
      BY <1>4 DEF Without
    <2>2. conns' \in [DOMAIN conns' -> Connection]
      BY <1>4, <2>1 DEF Formed, Without
    <2> QED
      BY <1>1, <1>4, <2>1, <2>2 DEF Evolves, Formed
  <1>5. ASSUME NEW d \in Wifi, NEW a \in Aps, Connects(d, a) PROVE Evolves
    <2> DEFINE c == [dev |-> d, ap |-> a, vpn |-> None]
    <2>1. /\ paths' = paths + 1 /\ link[d] = None /\ link' = [link EXCEPT ![d] = paths']
          /\ UNCHANGED <<seen, kept>>
          /\ conns' = [p \in DOMAIN conns \cup {paths'} |-> IF p = paths' THEN c ELSE conns[p]]
      BY <1>5 DEF Connects
    <2>2. c \in Connection /\ c.dev = d /\ c.vpn = None /\ c.ap = a /\ a # None
      BY StatusAssumption DEF Connection
    <2> HIDE DEF c
    <2>3. paths' \notin DOMAIN conns /\ paths' \in Nat
      BY <2>1 DEF Formed
    <2>4. /\ DOMAIN conns' = DOMAIN conns \cup {paths'} /\ conns'[paths'] = c
          /\ \A p \in DOMAIN conns : conns'[p] = conns[p]
      BY <2>1, <2>3
    <2>5. conns' \in [DOMAIN conns' -> Connection]
      BY <2>1, <2>2 DEF Formed
    <2>6. link' \in [Wifi -> Nat \cup {None}] /\ link'[d] = paths'
          /\ \A e \in Wifi : e # d => link'[e] = link[e]
      BY <2>1, <2>3 DEF Formed
    <2>7. \A p \in DOMAIN conns : conns[p].dev # d
      <3>1. link[d] \notin Nat /\ d # None
        BY <1>2, <2>1, WifiListed
      <3> QED
        BY <3>1 DEF Formed
    <2>8. \A p \in DOMAIN conns : conns[p].dev \in Wifi \cup {None}
      BY DEF Formed, Connection
    <2> QED
      BY <1>1, <2>1, <2>2, <2>3, <2>4, <2>5, <2>6, <2>7, <2>8 DEF Evolves, Formed
  <1>6. ASSUME NEW d \in Wifi, NEW a \in Aps, Roams(d, a) PROVE Evolves
    <2>1. conns' = [conns EXCEPT ![link[d]].ap = a] /\ UNCHANGED <<seen, link, kept, paths>>
      BY <1>6 DEF Roams
    <2>2. a # None
      BY StatusAssumption
    <2> DEFINE here == [conns[link[d]] EXCEPT !.ap = a]
    <2>4. conns' = [conns EXCEPT ![link[d]] = here]
      BY <2>1
    <2>5. \A p \in DOMAIN conns : conns[p] \in Connection
      BY DEF Formed
    <2>6. link[d] \in DOMAIN conns =>
             /\ here \in Connection /\ here.dev = conns[link[d]].dev
             /\ here.vpn = conns[link[d]].vpn /\ here.ap = a
      BY <2>5 DEF Connection
    <2> HIDE DEF here
    <2>3. /\ DOMAIN conns' = DOMAIN conns /\ conns' \in [DOMAIN conns' -> Connection]
          /\ \A p \in DOMAIN conns : /\ conns'[p].dev = conns[p].dev /\ conns'[p].vpn = conns[p].vpn
                                     /\ conns'[p].ap \in {conns[p].ap, a}
      BY <2>4, <2>5, <2>6 DEF Formed
    <2> QED
      BY <1>1, <2>1, <2>2, <2>3 DEF Evolves, Formed
  <1>7. ASSUME NEW d \in Wifi, Disconnects(d) PROVE Evolves
    <2>1. /\ conns' = Without({link[d]}) /\ link' = [link EXCEPT ![d] = None]
          /\ UNCHANGED <<seen, kept, paths>>
      BY <1>7 DEF Disconnects
    <2>2. link' \in [Wifi -> Nat \cup {None}] /\ \A e \in Wifi : e # d => link'[e] = link[e]
      BY <2>1 DEF Formed
    <2>3. \A p \in DOMAIN conns : conns[p].dev \in Wifi \cup {None}
      BY DEF Formed, Connection
    <2> QED
      BY <1>4, <2>1, <2>2, <2>3 DEF Formed
  <1>8. ASSUME NEW v \in Vpns, VpnUp(v) PROVE Evolves
    <2> DEFINE c == [dev |-> None, ap |-> None, vpn |-> v]
    <2>1. /\ paths' = paths + 1 /\ v \in kept /\ VpnPaths(v) = {}
          /\ UNCHANGED <<seen, link, kept>>
          /\ conns' = [p \in DOMAIN conns \cup {paths'} |-> IF p = paths' THEN c ELSE conns[p]]
      BY <1>8 DEF VpnUp
    <2>2. c \in Connection /\ c.dev = None /\ c.vpn = v
      BY DEF Connection
    <2> HIDE DEF c
    <2>3. paths' \notin DOMAIN conns /\ paths' \in Nat
      BY <2>1 DEF Formed
    <2>4. /\ DOMAIN conns' = DOMAIN conns \cup {paths'} /\ conns'[paths'] = c
          /\ \A p \in DOMAIN conns : conns'[p] = conns[p]
      BY <2>1, <2>3
    <2>5. conns' \in [DOMAIN conns' -> Connection]
      BY <2>1, <2>2 DEF Formed
    <2>6. \A p \in DOMAIN conns : conns[p].vpn # v
      BY <2>1 DEF VpnPaths
    <2> QED
      BY <1>1, <2>1, <2>2, <2>3, <2>4, <2>5, <2>6 DEF Evolves, Formed
  <1>9. ASSUME NEW v \in Vpns, VpnDown(v) PROVE Evolves
    <2>1. conns' = Without(VpnPaths(v)) /\ UNCHANGED <<seen, link, kept, paths>>
      BY <1>9 DEF VpnDown
    <2> QED
      BY <1>4, <2>1 DEF Formed
  <1>10. ASSUME NEW v \in Vpns, VpnForgotten(v) PROVE Evolves
    <2>1. conns' = Without(VpnPaths(v)) /\ kept' = kept \ {v} /\ UNCHANGED <<seen, link, paths>>
      BY <1>10 DEF VpnForgotten
    <2> QED
      BY <1>4, <2>1 DEF Formed, VpnPaths
  <1>11. ASSUME NEW d \in ToSet(AllDevices), Unplugged(d) PROVE Evolves
    <2> DEFINE ps == {p \in DOMAIN conns : conns[p].dev = d}
    <2>1. /\ conns' = Without(ps) /\ seen' \subseteq seen
          /\ link' = [e \in Wifi |-> IF e = d THEN None ELSE link[e]]
          /\ UNCHANGED <<kept, paths>>
      BY <1>11 DEF Unplugged
    <2>2. link' \in [Wifi -> Nat \cup {None}] /\ \A e \in Wifi : e # d => link'[e] = link[e]
      BY <2>1 DEF Formed
    <2>3. \A p \in DOMAIN conns : conns[p].dev \in Wifi \cup {None}
      BY DEF Formed, Connection
    <2> QED
      BY <1>4, <2>1, <2>2, <2>3 DEF Formed
  <1> QED
    BY <1>3, <1>5, <1>6, <1>7, <1>8, <1>9, <1>10, <1>11 DEF Network

\* A report stays true while less is steady or kept and more was active.
LEMMA StableStays ==
    ASSUME StableReported, UNCHANGED <<pc, op, result>>, kept' \subseteq kept,
           wasActive \subseteq wasActive', steady' \subseteq steady,
           \A p \in steady' : conns'[p].vpn = conns[p].vpn
    PROVE  StableReported'
  <1> DEFINE rows == result.value
             OneOfPath(p) == Cardinality({i \in DOMAIN rows : rows[i].path = p}) = 1
             OneOfVpn(v) == Cardinality({i \in DOMAIN rows : rows[i].vpn = v}) = 1
             OneUp(v) == Once(rows, [vpn |-> v, active |-> TRUE])
             Vpn(v) == v # None /\ \E p \in steady : conns[p].vpn = v
             Stated ==
                /\ pc = "done" /\ op.name \in Listings => result.ok
                /\ Returned("active") => \A p \in steady : OneOfPath(p)
                /\ Returned("saved") \/ Returned("vpns") => \A v \in kept : OneOfVpn(v)
                /\ Returned("vpns") \/ Returned("active_vpns") =>
                      /\ \A v : Vpn(v) => OneUp(v)
                      /\ \A i \in DOMAIN rows : rows[i].active => rows[i].vpn \in wasActive
                /\ pc = "done" /\ op.name = "vpn_info" =>
                      /\ result.ok => rows \in wasActive /\ VpnName[rows] = op.arg
                      /\ \A v : Vpn(v) =>
                            ((VpnName[v] = op.arg
                              /\ \A w \in Vpns \cap wasActive : VpnName[w] = op.arg => w = v)
                                 => result.ok /\ rows = v)
  <1>1. \A v : Vpn(v)' => Vpn(v)
    OBVIOUS
  <1>2. rows' = rows
    OBVIOUS
  <1>3. \A v : OneOfPath(v)' = OneOfPath(v) /\ OneOfVpn(v)' = OneOfVpn(v) /\ OneUp(v)' = OneUp(v)
    BY <1>2 DEF Once
  <1>4. \A n : Returned(n)' = Returned(n)
    BY DEF Returned
  <1>5. Stated
    BY DEF StableReported
  <1>6. Stated' => StableReported'
    BY DEF StableReported
  <1>7. Stated'
    <2> HIDE DEF OneOfPath, OneOfVpn, OneUp, Vpn, rows
    <2> QED
      BY <1>1, <1>2, <1>3, <1>4, <1>5
  <1> QED
    BY <1>6, <1>7

LEMMA EvolvesKeeps == ListsInv /\ Evolves => ListsInv'
  <1> SUFFICES ASSUME ListsInv, Evolves PROVE ListsInv'
    OBVIOUS
  <1>1. /\ UNCHANGED <<op, phase, pc, todo, cur, act, left, listed, up, result>>
        /\ wasActive \subseteq wasActive' /\ steady' \subseteq steady \cap DOMAIN conns'
        /\ kept' \subseteq kept /\ paths \in Nat /\ paths' \in Nat /\ paths <= paths'
        /\ steady \subseteq DOMAIN conns /\ DOMAIN conns \subseteq 1 .. paths
    BY DEF Evolves, callVars, ListsInv, Formed
  <1>2. \A p \in DOMAIN conns' : p \in 1 .. paths =>
           p \in DOMAIN conns /\ conns'[p].dev = conns[p].dev /\ conns'[p].vpn = conns[p].vpn
    BY DEF Evolves
  <1>3. \A p \in steady' : p \in steady /\ p \in 1 .. paths /\ conns'[p].vpn = conns[p].vpn
    BY <1>1, <1>2
  <1>4. pc \in AtPaths => \A p \in ToSet(todo) : p \in 1 .. paths
    BY Members DEF ListsInv, Queue
  <1>5. Queue'
    <2>1. ASSUME pc \in AtPaths PROVE todo \in Seq(1 .. paths')
      <3>1. 1 .. paths \subseteq 1 .. paths' /\ todo \in Seq(1 .. paths)
        BY <1>1, <2>1 DEF ListsInv, Queue
      <3> QED
        BY <3>1, SeqMonotonic
    <2>2. 1 .. paths \subseteq 1 .. paths'
      BY <1>1
    <2>3. AtPath \subseteq AtPaths
      BY DEF AtPaths
    <2>4. ASSUME pc \in AtPath, NEW p \in DOMAIN conns', Kin(p, act)', p \in ToSet(todo) \cup steady'
          PROVE  p = cur
      <3>1. p \in 1 .. paths
        BY <1>3, <1>4, <2>3, <2>4
      <3>2. p \in DOMAIN conns /\ Kin(p, act) /\ p \in ToSet(todo) \cup steady
        BY <1>1, <1>2, <1>3, <2>4, <3>1 DEF Kin
      <3> QED
        BY <2>4, <3>2 DEF ListsInv, Queue
    <2>5. pc \in AtPaths => IsInjective(todo')
      BY <1>1 DEF ListsInv, Queue
    <2> QED
      BY <1>1, <1>2, <2>1, <2>2, <2>4, <2>5 DEF ListsInv, Queue, IsInjective
  <1>6. Listed'
    <2>1. {"path", "gone", "path_device"} \subseteq AtPaths
      BY DEF AtPaths, AtPath
    <2>2. op.name \in {"active", "snapshot"} =>
             \A i \in DOMAIN listed : listed[i].path <= paths'
      <3>1. \A r \in PathRow : r.path \in Nat
        BY DEF PathRow
      <3>2. op.name \in {"active", "snapshot"} =>
               \A i \in DOMAIN listed : listed[i].path \in Nat /\ listed[i].path <= paths
        BY <3>1 DEF ListsInv, Listed
      <3> QED
        BY <1>1, <3>2
    <2> QED
      BY <1>1, <1>2, <1>3, <1>4, <2>1, <2>2 DEF ListsInv, Listed
  <1>7. VpnListing'
    BY <1>1, <1>3 DEF ListsInv, VpnListing
  <1>8. Sought'
    BY <1>1, <1>3 DEF ListsInv, Sought
  <1>9. StableReported'
    BY <1>1, <1>3, StableStays DEF ListsInv
  <1>10. Purpose' /\ Blank'
    BY <1>1 DEF ListsInv, Purpose, Blank, ListsAps
  <1> QED
    BY <1>5, <1>6, <1>7, <1>8, <1>9, <1>10 DEF ListsInv, Evolves

\* The passes over the devices list no connection and no profile.
Passes == {"ssid", "pick", "addr", "walk"}

Elsewhere ==
    /\ pc # "idle" /\ pc' \in {"device", "active_ap", "address", "get", "ap_list", "ap", "merge", "done"}
    /\ phase \in Passes /\ phase' \in Passes
    /\ phase' = phase \/ phase' = "walk" \/ op.name \in {"current", "details"}
    /\ pc' \in {"ap_list", "ap"} => ListsAps
    /\ pc' = "merge" => op.name = "networks"
    /\ UNCHANGED <<op, listed, up, envVars, histVars>>

AnElsewhere ==
    \/ GetDevices
    \/ \E d \in ToSet(AllDevices) :
          \/ SsidDevice(d) \/ PickDevice(d) \/ AddrDevice(d) \/ WalkDevice(d)
          \/ ScanDevice(d) \/ ListDevice(d) \/ ListWifiDevice(d) \/ ListWiredDevice(d)
    \/ SsidAp \/ SsidNone
    \/ PickAp \/ PickAddress \/ PickNone
    \/ AddrNone
    \/ ListAps \/ EndOfDevice \/ EndOfWalk
    \/ \E a \in Aps : ReadAp(a)
    \/ MergeNext \/ MarkKnown

LEMMA PassesListNothing == Course /\ Purpose /\ AnElsewhere => Elsewhere
  <1> SUFFICES ASSUME Course, Purpose, AnElsewhere PROVE Elsewhere
    OBVIOUS
  <1>1. CASE GetDevices
    BY <1>1 DEF GetDevices, Still, Elsewhere, Passes
  <1>2. ASSUME phase = "ssid", pc # "idle", UNCHANGED <<envVars, histVars>>,
               Skip \/ (\E s : SsidIs(s)) \/ \E d : NoteActive(d, "active_ap")
        PROVE  Elsewhere
    BY <1>2 DEF SsidIs, Skip, NoteActive, Answer, Finish, NextPhase, Elsewhere, Passes
  <1>3. CASE SsidAp \/ SsidNone \/ \E d \in ToSet(AllDevices) : SsidDevice(d)
    BY <1>2, <1>3 DEF SsidAp, SsidNone, SsidDevice, AtDevice, Still
  <1>4. CASE \E d \in ToSet(AllDevices) : PickDevice(d)
    BY <1>4 DEF PickDevice, AtDevice, Skip, NoteActive, Fail, Finish, Still, Elsewhere, Passes
  <1>5. CASE PickAp \/ PickAddress \/ PickNone
    BY <1>5 DEF PickAp, PickAddress, PickNone, Skip, Answer, Fail, Finish, Still, Elsewhere, Passes
  <1>6. CASE AddrNone \/ \E d \in ToSet(AllDevices) : AddrDevice(d)
    BY <1>6 DEF AddrNone, AddrDevice, AtDevice, Skip, NextPhase, Still, Elsewhere, Passes
  <1>7. CASE \E d \in ToSet(AllDevices) : WalkDevice(d)
    BY <1>7 DEF WalkDevice, AtDevice, Skip, NoteActive, Fail, Finish, Still, Elsewhere, Passes,
                ListsAps
  <1>8. CASE \E d \in ToSet(AllDevices) :
                ScanDevice(d) \/ ListDevice(d) \/ ListWifiDevice(d) \/ ListWiredDevice(d)
    BY <1>8 DEF ScanDevice, ListDevice, ListWifiDevice, ListWiredDevice, VisitDevice, AtDevice,
                Skip, Fail, Finish, Still, Elsewhere, Passes
  <1>9. CASE ListAps \/ EndOfDevice \/ \E a \in Aps : ReadAp(a)
    BY <1>9 DEF ListAps, EndOfDevice, ReadAp, Skip, Fail, Finish, Still, Elsewhere, Passes,
                Course, Purpose, ListsAps
  <1>10. CASE EndOfWalk
    BY <1>10 DEF EndOfWalk, Answer, Finish, Still, Elsewhere, Passes
  <1>11. CASE MergeNext \/ MarkKnown
    BY <1>11 DEF MergeNext, MarkKnown, Answer, Finish, Still, Elsewhere, Passes, Course, Purpose
  <1> QED
    BY <1>1, <1>3, <1>4, <1>5, <1>6, <1>7, <1>8, <1>9, <1>10, <1>11 DEF AnElsewhere

LEMMA FormedStays ==
    Formed /\ UNCHANGED envVars /\ steady' \subseteq DOMAIN conns => Formed'
  BY DEF Formed, envVars

LEMMA ElsewhereKeeps == ListsInv /\ Elsewhere => ListsInv'
  <1> SUFFICES ASSUME ListsInv, Elsewhere PROVE ListsInv'
    OBVIOUS
  <1>1. op.name \notin {"active", "saved", "vpns", "active_vpns", "vpn_info"}
    BY DEF ListsInv, Purpose, Elsewhere, Passes
  <1>2. Formed'
    BY FormedStays DEF ListsInv, Formed, Elsewhere, histVars
  <1>3. Purpose' /\ Blank'
    BY <1>1 DEF ListsInv, Purpose, Blank, Elsewhere, Passes, ListsAps
  <1>4. Queue' /\ Sought'
    BY DEF Elsewhere, Queue, Sought, AtPath, AtPaths
  <1>5. Listed'
    BY DEF ListsInv, Listed, Elsewhere, envVars
  <1>6. VpnListing'
    BY DEF ListsInv, VpnListing, Elsewhere, histVars
  <1>7. StableReported'
    BY <1>1 DEF Elsewhere, StableReported, Returned, Listings
  <1> QED
    BY <1>2, <1>3, <1>4, <1>5, <1>6, <1>7 DEF ListsInv

LEMMA BeginKeepsLists ==
    ASSUME ListsInv, NEW o \in Ops, Begin(o) PROVE ListsInv'
  <1>1. /\ pc = "idle" /\ pc' = "get" /\ phase' = FirstPhase(op'.name)
        /\ listed' = << >> /\ up' = {} /\ steady' = DOMAIN conns /\ UNCHANGED envVars
    BY DEF Begin, ListsInv, Blank
  <1>2. Formed'
    BY <1>1, FormedStays DEF ListsInv
  <1>3. Purpose'
    BY <1>1 DEF FirstPhase, Purpose
  <1>4. Blank' /\ Queue' /\ Sought' /\ VpnListing'
    BY <1>1 DEF Blank, Queue, Sought, VpnListing, AtPath, AtPaths
  <1>5. Listed'
    BY <1>1 DEF Listed
  <1>6. StableReported'
    BY <1>1 DEF StableReported, Returned
  <1> QED
    BY <1>2, <1>3, <1>4, <1>5, <1>6 DEF ListsInv

LEMMA ReturnKeepsLists == ListsInv /\ Return => ListsInv'
  <1> SUFFICES ASSUME ListsInv, Return PROVE ListsInv'
    OBVIOUS
  <1>1. /\ pc' = "idle" /\ phase' = "none" /\ op'.name = "none"
        /\ listed' = << >> /\ up' = {} /\ steady' = {} /\ UNCHANGED envVars
    BY DEF Return, Idle
  <1>2. Formed'
    BY <1>1, FormedStays DEF ListsInv
  <1>3. Purpose' /\ Blank' /\ Queue' /\ Sought' /\ VpnListing' /\ Listed'
    BY <1>1 DEF Purpose, Blank, Queue, Sought, VpnListing, AtPath, AtPaths, Listed
  <1>4. StableReported'
    BY <1>1 DEF StableReported, Returned
  <1> QED
    BY <1>2, <1>3, <1>4 DEF ListsInv

\* The paths are handed over, in some order.
LEMMA GetPathsKeeps == Inv /\ ListsInv /\ GetPaths => ListsInv'
  <1> SUFFICES ASSUME Inv, ListsInv, GetPaths PROVE ListsInv'
    OBVIOUS
  <1>1. /\ \/ pc = "get" /\ phase \in {"active", "vpn_info"}
           \/ pc = "vpn_get"
        /\ todo' \in SetToSeqs(DOMAIN conns)
        /\ pc' = CASE phase = "active" -> "path" [] phase = "vpn_info" -> "info" [] OTHER -> "vpn_path"
        /\ UNCHANGED <<envVars, histVars, op, phase, left, listed, up, result>>
    BY DEF GetPaths, Still
  <1>2. pc = "vpn_get" => phase \in {"vpns", "active_vpns"}
    BY DEF Inv, Course, ListsInv, Purpose
  <1>3. \/ pc' = "path" /\ phase = "active" /\ pc = "get"
        \/ pc' = "info" /\ phase = "vpn_info"
        \/ pc' = "vpn_path" /\ pc = "vpn_get" /\ phase \in {"vpns", "active_vpns"}
    BY <1>1, <1>2
  <1>4. /\ DOMAIN conns \subseteq 1 .. paths /\ paths \in Nat /\ steady \subseteq DOMAIN conns
    BY DEF ListsInv, Formed
  <1>5. IsFiniteSet(DOMAIN conns)
    <2>1. paths \in Int /\ 1 \in Int /\ DOMAIN conns \in SUBSET (1 .. paths)
      BY <1>4
    <2> QED
      BY <2>1, FS_Interval, FS_Subset
  <1>6. todo' \in Seq(DOMAIN conns) /\ IsInjective(todo') /\ ToSet(todo') = DOMAIN conns
    BY <1>1, <1>5, Enumerated
  <1>7. todo' \in Seq(1 .. paths)
    BY <1>4, <1>6, SeqMonotonic
  <1>8. Formed'
    BY <1>1, <1>4, FormedStays DEF ListsInv, histVars
  <1>9. Purpose' /\ Blank'
    BY <1>1, <1>3 DEF ListsInv, Purpose, Blank, ListsAps
  <1>10. Queue'
    BY <1>1, <1>3, <1>6, <1>7 DEF Queue, AtPath, AtPaths, IsInjective, envVars
  <1>11. Sought'
    BY <1>1, <1>3, <1>4, <1>6 DEF Sought, histVars, envVars
  <1>12. Listed'
    <2>1. pc' = "path" => listed = << >>
      BY <1>3 DEF ListsInv, Blank
    <2> QED
      BY <1>1, <1>3, <1>4, <1>6, <2>1 DEF ListsInv, Listed, histVars, envVars
  <1>13. VpnListing'
    BY <1>1, <1>3, <1>4, <1>6 DEF ListsInv, VpnListing, histVars, envVars
  <1>14. StableReported'
    BY <1>3 DEF StableReported, Returned
  <1> QED
    BY <1>8, <1>9, <1>10, <1>11, <1>12, <1>13, <1>14 DEF ListsInv

\* What the steps over paths and profiles leave alone.
Reading == UNCHANGED <<envVars, histVars, op, phase>>

LEMMA ReadingKeeps ==
    ASSUME ListsInv, Reading, pc' \notin {"idle", "get", "ap_list", "ap", "merge", "vpn_get"},
           pc' = "vpn_path" => pc = "vpn_path" /\ listed' = << >>
    PROVE  Formed' /\ Purpose' /\ Blank'
  <1>1. Formed'
    BY FormedStays DEF ListsInv, Formed, Reading, histVars
  <1>2. Purpose' /\ Blank'
    BY DEF ListsInv, Purpose, Blank, Reading, ListsAps
  <1> QED
    BY <1>1, <1>2

\* The next path of a list in which each is once.
LEMMA NextPath ==
    ASSUME ListsInv, pc \in AtPaths, todo # << >>
    PROVE  /\ Tail(todo) \in Seq(1 .. paths) /\ IsInjective(Tail(todo))
           /\ Head(todo) \in 1 .. paths
           /\ ToSet(todo) = ToSet(Tail(todo)) \cup {Head(todo)} /\ Head(todo) \notin ToSet(Tail(todo))
  <1>1. todo \in Seq(1 .. paths) /\ IsInjective(todo)
    BY DEF ListsInv, Queue
  <1>2. /\ Tail(todo) \in Seq(1 .. paths) /\ IsInjective(Tail(todo)) /\ Head(todo) \in 1 .. paths
    BY <1>1, Advancing
  <1>3. ToSet(Tail(todo)) = ToSet(todo) \ {Head(todo)} /\ Head(todo) \in ToSet(todo)
    BY <1>1, TailLacks
  <1> QED
    BY <1>2, <1>3

\* What is read of a connection, while none else is of its radio or VPN.
LEMMA ReadConnection ==
    ASSUME Inv, ListsInv, pc # "idle", NEW p \in DOMAIN conns
    PROVE  LET c == conns[p]
           IN /\ c \in Connection /\ c.vpn \in wasActive \cup {None}
              /\ c.dev # None => c.ap # None
              /\ \A q \in DOMAIN conns : Kin(q, c) => q = p
  <1>1. conns[p] \in Connection /\ (conns[p].dev # None => conns[p].ap # None)
    BY DEF ListsInv, Formed
  <1>2. conns[p].vpn \in wasActive \cup {None}
    <2>1. ActiveNow \subseteq wasActive
      BY DEF Inv, Noted
    <2> QED
      BY <2>1 DEF ActiveNow
  <1>3. \A q \in DOMAIN conns : Kin(q, conns[p]) => q = p
    BY DEF ListsInv, Formed, Kin
  <1> QED
    BY <1>1, <1>2, <1>3

LEMMA ReadPathKeeps == Inv /\ ListsInv /\ ReadPath => ListsInv'
  <1> SUFFICES ASSUME Inv, ListsInv, ReadPath PROVE ListsInv'
    OBVIOUS
  <1> DEFINE p == Head(todo)
  <1>1. /\ pc = "path" /\ todo # << >> /\ cur' = p /\ todo' = Tail(todo)
        /\ act' = IF p \in DOMAIN conns THEN conns[p] ELSE None
        /\ pc' = IF p \in DOMAIN conns THEN "path_device" ELSE "gone"
        /\ UNCHANGED <<listed, up>> /\ Reading
    BY DEF ReadPath, Still, Reading
  <1>2. /\ todo' \in Seq(1 .. paths) /\ IsInjective(todo') /\ p \in 1 .. paths
        /\ ToSet(todo) = ToSet(todo') \cup {p} /\ p \notin ToSet(todo')
    BY <1>1, NextPath DEF AtPaths
  <1>3. Formed' /\ Purpose' /\ Blank'
    BY <1>1, ReadingKeeps
  <1>4. p \in DOMAIN conns =>
          /\ conns[p] \in Connection /\ conns[p].vpn \in wasActive \cup {None}
          /\ conns[p].dev # None => conns[p].ap # None
          /\ \A q \in DOMAIN conns : Kin(q, conns[p]) => q = p
    BY <1>1, ReadConnection
  <1> HIDE DEF p
  <1>5. UNCHANGED <<conns, paths, steady, wasActive, op, phase>>
    BY <1>1 DEF Reading, envVars, histVars
  <1>6. Queue'
    BY <1>1, <1>2, <1>4, <1>5 DEF Queue, AtPath, AtPaths, Kin, IsInjective
  <1>7. Sought' /\ VpnListing'
    BY <1>1, <1>5 DEF ListsInv, Sought, VpnListing
  <1>8. Listed'
    <2>1. /\ op.name \in {"active", "snapshot"} =>
                /\ listed \in Seq(PathRow)
                /\ \A i \in DOMAIN listed : listed[i].kind = "wifi" => listed[i].dev # None
          /\ \A i \in DOMAIN listed :
                /\ listed[i].path \notin ToSet(todo)
                /\ listed[i].kind = "wifi" =>
                      \A q \in ToSet(todo) \cap DOMAIN conns : conns[q].dev # listed[i].dev
          /\ \A q \in steady : q \in ToSet(todo) \/ \E i \in DOMAIN listed : listed[i].path = q
      BY <1>1 DEF ListsInv, Listed
    <2>2. steady \subseteq DOMAIN conns
      BY DEF ListsInv, Formed
    <2> QED
      BY <1>1, <1>2, <1>5, <2>1, <2>2 DEF ListsInv, Listed
  <1>9. StableReported'
    BY <1>1 DEF StableReported, Returned
  <1> QED
    BY <1>3, <1>6, <1>7, <1>8, <1>9 DEF ListsInv

\* A path that is gone never comes back, so that the listing goes on.
LEMMA PathGoneKeeps == Inv /\ ListsInv /\ PathGone => ListsInv'
  <1> SUFFICES ASSUME Inv, ListsInv, PathGone PROVE ListsInv'
    OBVIOUS
  <1>1. /\ pc = "gone" /\ pc' = "path"
        /\ UNCHANGED <<todo, cur, listed, up>> /\ Reading
    BY DEF ListsInv, Queue, PathGone, Still, Reading
  <1>2. Formed' /\ Purpose' /\ Blank'
    BY <1>1, ReadingKeeps
  <1>3. UNCHANGED <<conns, paths, steady, wasActive, op, phase>>
    BY <1>1 DEF Reading, envVars, histVars
  <1>4. Queue'
    BY <1>1, <1>3 DEF ListsInv, Queue, AtPath, AtPaths, IsInjective
  <1>5. Sought' /\ VpnListing'
    BY <1>1, <1>3 DEF ListsInv, Sought, VpnListing
  <1>6. Listed'
    BY <1>1, <1>3 DEF ListsInv, Listed
  <1>7. StableReported'
    BY <1>1 DEF StableReported, Returned
  <1> QED
    BY <1>2, <1>4, <1>5, <1>6, <1>7 DEF ListsInv

LEMMA ReadPathDeviceKeeps == Inv /\ ListsInv /\ ReadPathDevice => ListsInv'
  <1> SUFFICES ASSUME Inv, ListsInv, ReadPathDevice PROVE ListsInv'
    OBVIOUS
  <1> DEFINE wifi == act.dev \in plugged
             row == [path |-> cur,
                     kind |-> IF wifi THEN "wifi" ELSE IF act.dev = None THEN "vpn" ELSE "other",
                     dev |-> IF wifi THEN act.dev ELSE None,
                     ssid |-> IF wifi THEN ApInfo[act.ap].ssid ELSE None,
                     bssid |-> IF wifi /\ act.ap \in seen THEN act.ap ELSE None]
  <1>1. /\ pc = "path_device" /\ pc' = "path" /\ listed' = Append(listed, row)
        /\ UNCHANGED <<todo, cur, up>> /\ Reading
    BY DEF ReadPathDevice, Still, Reading
  <1>2. Formed' /\ Purpose' /\ Blank'
    BY <1>1, ReadingKeeps
  <1>3. UNCHANGED <<conns, paths, steady, wasActive, op, phase>>
    BY <1>1 DEF Reading, envVars, histVars
  <1>4. /\ cur \in 1 .. paths /\ cur \notin ToSet(todo) /\ act \in Connection /\ paths \in Nat
        /\ act.dev # None => act.ap # None
        /\ \A p \in DOMAIN conns : Kin(p, act) => p = cur \/ p \notin ToSet(todo)
    BY <1>1 DEF ListsInv, Queue, AtPath, Formed
  <1>5. wifi => act.dev \in Wifi /\ act.dev # None /\ act.ap \in Aps
    <2>1. \A d \in plugged : d \in ToSet(AllDevices)
      BY Members DEF Inv, Present, plugged
    <2> QED
      BY <1>4, <2>1, StatusAssumption DEF Connection
  <1>6. /\ row \in PathRow /\ row.path = cur /\ row.dev = IF row.kind = "wifi" THEN act.dev ELSE None
        /\ row.kind = "wifi" => row.dev # None
        /\ row.bssid # None => ApInfo[row.bssid].ssid = row.ssid
    <2>1. cur \in Nat
      BY <1>4
    <2> HIDE DEF wifi
    <2> QED
      BY <1>5, <2>1 DEF PathRow
  <1> HIDE DEF row, wifi
  <1>7. Queue'
    BY <1>1, <1>3 DEF ListsInv, Queue, AtPath, AtPaths, IsInjective
  <1>8. Sought' /\ VpnListing'
    BY <1>1, <1>3 DEF ListsInv, Sought, VpnListing
  <1>9. Listed'
    <2>1. phase = "active" /\ op.name \in {"active", "snapshot"}
      BY <1>1 DEF Inv, Course, ListsInv, Purpose
    <2>2. /\ listed \in Seq(PathRow)
          /\ \A i \in DOMAIN listed :
                /\ listed[i].path <= paths
                /\ listed[i].kind = "wifi" => listed[i].dev # None
                /\ listed[i].bssid # None => ApInfo[listed[i].bssid].ssid = listed[i].ssid
          /\ \A i, j \in DOMAIN listed :
                \/ listed[i].path = listed[j].path
                \/ listed[i].kind = "wifi" /\ listed[j].kind = "wifi" /\ listed[i].dev = listed[j].dev
                => i = j
      BY <2>1 DEF ListsInv, Listed
    <2>3. /\ \A i \in DOMAIN listed :
                /\ listed[i].path \notin ToSet(todo)
                /\ listed[i].path # cur
                /\ listed[i].kind = "wifi" =>
                      /\ \A p \in ToSet(todo) \cap DOMAIN conns : conns[p].dev # listed[i].dev
                      /\ act.dev # listed[i].dev
          /\ \A p \in steady : p \in ToSet(todo) \/ p = cur \/ \E i \in DOMAIN listed : listed[i].path = p
      BY <1>1 DEF ListsInv, Listed
    <2> DEFINE n == Len(listed)
    <2>4. /\ n \in Nat /\ DOMAIN listed = 1 .. n /\ DOMAIN listed' = 1 .. n + 1
          /\ listed' \in Seq(PathRow)
          /\ \A i \in 1 .. n : listed'[i] = listed[i]
          /\ listed'[n + 1] = row
      BY <1>1, <1>6, <2>2, AppendProperties, LenProperties
    <2> HIDE DEF n
    <2>5. \A i \in 1 .. n + 1 : i \in 1 .. n \/ i = n + 1
      BY <2>4
    <2>6. \A p \in ToSet(todo) \cap DOMAIN conns : row.kind = "wifi" => conns[p].dev # row.dev
      BY <1>4, <1>6 DEF Kin
    <2>7. \A i \in DOMAIN listed' :
             /\ listed'[i].path <= paths
             /\ listed'[i].kind = "wifi" => listed'[i].dev # None
             /\ listed'[i].bssid # None => ApInfo[listed'[i].bssid].ssid = listed'[i].ssid
             /\ listed'[i].path \notin ToSet(todo)
             /\ listed'[i].kind = "wifi" =>
                   \A p \in ToSet(todo) \cap DOMAIN conns : conns[p].dev # listed'[i].dev
      <3> SUFFICES ASSUME NEW i \in 1 .. n + 1
                   PROVE /\ listed'[i].path <= paths
                         /\ listed'[i].kind = "wifi" => listed'[i].dev # None
                         /\ listed'[i].bssid # None => ApInfo[listed'[i].bssid].ssid = listed'[i].ssid
                         /\ listed'[i].path \notin ToSet(todo)
                         /\ listed'[i].kind = "wifi" =>
                               \A p \in ToSet(todo) \cap DOMAIN conns : conns[p].dev # listed'[i].dev
        BY <2>4
      <3>1. CASE i \in 1 .. n
        BY <2>2, <2>3, <2>4, <3>1
      <3>2. CASE i = n + 1
        BY <1>4, <1>6, <2>4, <2>6, <3>2
      <3> QED
        BY <2>5, <3>1, <3>2
    <2>8. \A i, j \in DOMAIN listed' :
             \/ listed'[i].path = listed'[j].path
             \/ listed'[i].kind = "wifi" /\ listed'[j].kind = "wifi" /\ listed'[i].dev = listed'[j].dev
             => i = j
      <3>1. \A i \in 1 .. n : /\ listed[i].path # row.path
                              /\ ~(listed[i].kind = "wifi" /\ row.kind = "wifi" /\ listed[i].dev = row.dev)
        BY <1>6, <2>3, <2>4
      <3> QED
        BY <2>2, <2>4, <2>5, <3>1
    <2>9. \A p \in steady : p \in ToSet(todo) \/ \E i \in DOMAIN listed' : listed'[i].path = p
      <3>1. n + 1 \in DOMAIN listed' /\ listed'[n + 1].path = cur
        BY <1>6, <2>4
      <3>2. \A i \in DOMAIN listed : i \in DOMAIN listed' /\ listed'[i] = listed[i]
        BY <2>4
      <3> QED
        BY <2>3, <3>1, <3>2
    <2> QED
      BY <1>1, <1>3, <2>4, <2>7, <2>8, <2>9 DEF Listed
  <1>10. StableReported'
    BY <1>1 DEF StableReported, Returned
  <1> QED
    BY <1>2, <1>7, <1>8, <1>9, <1>10 DEF ListsInv

\* One row, and one only, when no two rows have the same path or profile.
LEMMA OneRow ==
    ASSUME NEW D, NEW k \in D, NEW P, P \subseteq D, k \in P, \A i \in P : i = k
    PROVE  Cardinality(P) = 1
  <1>1. P = {k}
    OBVIOUS
  <1> QED
    BY <1>1, FS_Singleton

\* All that was steady has been read by the end, once.
LEMMA EndOfPathsKeeps == Inv /\ ListsInv /\ EndOfPaths => ListsInv'
  <1> SUFFICES ASSUME Inv, ListsInv, EndOfPaths PROVE ListsInv'
    OBVIOUS
  <1>1. /\ pc = "path" /\ todo = << >> /\ UNCHANGED <<envVars, histVars, op, listed, up>>
        /\ \/ op.name = "active" /\ pc' = "done" /\ phase' = phase
              /\ result' = [ok |-> TRUE, value |-> listed]
           \/ op.name = "snapshot" /\ pc' = "get" /\ phase' = "walk"
    BY DEF EndOfPaths, Still, Answer, Finish, NextPhase
  <1>2. Formed'
    BY <1>1, FormedStays DEF ListsInv, Formed, histVars
  <1>3. Purpose' /\ Blank'
    BY <1>1 DEF ListsInv, Purpose, Blank, ListsAps
  <1>4. Queue' /\ Sought' /\ VpnListing'
    BY <1>1 DEF ListsInv, Queue, AtPath, AtPaths, Sought, VpnListing, histVars
  <1>5. Listed'
    BY <1>1 DEF ListsInv, Listed, envVars
  <1>6. StableReported'
    <2>1. CASE pc' = "get"
      BY <2>1 DEF StableReported, Returned
    <2>2. CASE pc' = "done"
      <3>1. op'.name = "active" /\ result'.ok /\ result'.value = listed
        BY <1>1, <2>2
      <3>2. ToSet(todo) = {}
        BY <1>1, NoRows
      <3>3. /\ \A p \in steady : \E i \in DOMAIN listed : listed[i].path = p
            /\ \A i, j \in DOMAIN listed : listed[i].path = listed[j].path => i = j
        BY <1>1, <3>1, <3>2 DEF ListsInv, Listed
      <3>4. \A p \in steady : Cardinality({i \in DOMAIN listed : listed[i].path = p}) = 1
        <4> SUFFICES ASSUME NEW p \in steady
                     PROVE  Cardinality({i \in DOMAIN listed : listed[i].path = p}) = 1
          OBVIOUS
        <4>1. PICK k \in DOMAIN listed : listed[k].path = p
          BY <3>3
        <4> QED
          BY <3>3, <4>1, OneRow
      <3>5. \A p \in steady' : Cardinality({i \in DOMAIN result'.value : result'.value[i].path = p}) = 1
        BY <1>1, <3>1, <3>4 DEF histVars
      <3> QED
        BY <3>1, <3>5 DEF StableReported, Returned, Listings
    <2> QED
      BY <1>1, <2>1, <2>2
  <1> QED
    BY <1>2, <1>3, <1>4, <1>5, <1>6 DEF ListsInv

LEMMA ListSavedKeeps == Inv /\ ListsInv /\ ListSaved => ListsInv'
  <1> SUFFICES ASSUME Inv, ListsInv, ListSaved PROVE ListsInv'
    OBVIOUS
  <1>1. /\ pc = "get" /\ phase \in {"saved", "vpns", "active_vpns"} /\ left' = kept
        /\ pc' = IF phase = "saved" THEN "profile" ELSE "vpn_get"
        /\ UNCHANGED <<listed, up>> /\ Reading
    BY DEF ListSaved, Still, Reading
  <1>2. listed = << >> /\ up = {} /\ op.name = phase
    BY <1>1 DEF ListsInv, Blank, Purpose
  <1>3. Formed'
    BY <1>1, FormedStays DEF ListsInv, Formed, Reading, histVars
  <1>4. Purpose' /\ Blank'
    BY <1>1, <1>2 DEF ListsInv, Purpose, Blank, Reading, ListsAps
  <1>5. Queue' /\ Sought' /\ Listed'
    BY <1>1, <1>2 DEF Queue, AtPath, AtPaths, Sought, Listed, Reading
  <1>6. VpnListing'
    <2>1. << >> \in Seq(VpnRow) /\ kept \subseteq Vpns
      BY DEF ListsInv, Formed
    <2> QED
      BY <1>1, <1>2, <2>1 DEF VpnListing, Reading, envVars
  <1>7. StableReported'
    BY <1>1 DEF StableReported, Returned
  <1> QED
    BY <1>3, <1>4, <1>5, <1>6, <1>7 DEF ListsInv

LEMMA ReadVpnPathKeeps == Inv /\ ListsInv /\ ReadVpnPath => ListsInv'
  <1> SUFFICES ASSUME Inv, ListsInv, ReadVpnPath PROVE ListsInv'
    OBVIOUS
  <1> DEFINE p == Head(todo)
  <1>1. /\ pc = "vpn_path" /\ todo # << >> /\ todo' = Tail(todo) /\ pc' = pc
        /\ up' = up \cup ({conns[q].vpn : q \in {p} \cap DOMAIN conns} \ {None})
        /\ UNCHANGED <<left, listed>> /\ Reading
    BY DEF ReadVpnPath, Still, Reading
  <1>2. /\ todo' \in Seq(1 .. paths) /\ IsInjective(todo') /\ ToSet(todo) = ToSet(todo') \cup {p}
    BY <1>1, NextPath DEF AtPaths
  <1> HIDE DEF p
  <1>3. listed = << >>
    BY <1>1 DEF ListsInv, Blank
  <1>4. Formed' /\ Purpose' /\ Blank'
    BY <1>1, <1>3, ReadingKeeps
  <1>5. UNCHANGED <<conns, kept, paths, steady, wasActive, op, phase>>
    BY <1>1 DEF Reading, envVars, histVars
  <1>6. Queue' /\ Sought' /\ Listed'
    BY <1>1, <1>2, <1>3, <1>5 DEF ListsInv, Queue, AtPath, AtPaths, Sought, Listed, IsInjective
  <1>7. VpnListing'
    <2>1. up' \subseteq wasActive
      <3>1. ActiveNow \subseteq wasActive
        BY <1>1 DEF Inv, Noted
      <3> QED
        BY <1>1, <3>1 DEF ListsInv, VpnListing, ActiveNow
    <2>2. p \in steady => conns[p].vpn \in up' \cup {None}
      BY <1>1 DEF ListsInv, Formed
    <2>3. \A q \in steady : q \in ToSet(todo') \/ conns[q].vpn \in up' \cup {None}
      BY <1>1, <1>2, <2>2 DEF ListsInv, VpnListing
    <2>4. DOMAIN listed = {}
      BY <1>3
    <2> QED
      BY <1>1, <1>3, <1>5, <2>1, <2>3, <2>4 DEF ListsInv, VpnListing
  <1>8. StableReported'
    BY <1>1 DEF StableReported, Returned
  <1> QED
    BY <1>4, <1>6, <1>7, <1>8 DEF ListsInv

LEMMA EndOfVpnPathsKeeps == Inv /\ ListsInv /\ EndOfVpnPaths => ListsInv'
  <1> SUFFICES ASSUME Inv, ListsInv, EndOfVpnPaths PROVE ListsInv'
    OBVIOUS
  <1>1. /\ pc = "vpn_path" /\ todo = << >> /\ pc' = "profile"
        /\ UNCHANGED <<left, listed, up>> /\ Reading
    BY DEF EndOfVpnPaths, Still, Reading
  <1>2. Formed' /\ Purpose' /\ Blank'
    BY <1>1, ReadingKeeps
  <1>3. UNCHANGED <<conns, kept, paths, steady, wasActive, op, phase>>
    BY <1>1 DEF Reading, envVars, histVars
  <1>4. Queue' /\ Sought' /\ Listed'
    BY <1>1, <1>3 DEF ListsInv, Queue, AtPath, AtPaths, Sought, Listed
  <1>5. VpnListing'
    BY <1>1, <1>3, NoRows DEF ListsInv, VpnListing
  <1>6. StableReported'
    BY <1>1 DEF StableReported, Returned
  <1> QED
    BY <1>2, <1>4, <1>5, <1>6 DEF ListsInv

LEMMA ReadProfileKeeps ==
    ASSUME Inv, ListsInv, NEW v \in Vpns, ReadProfile(v) PROVE ListsInv'
  <1> DEFINE row == [vpn |-> v, active |-> v \in up]
  <1>1. /\ pc = "profile" /\ pc' = pc /\ v \in left /\ left' = left \ {v}
        /\ listed' = IF v \in kept THEN Append(listed, row) ELSE listed
        /\ UNCHANGED up /\ Reading
    BY DEF ReadProfile, Still, Reading
  <1>2. row \in VpnRow /\ row.vpn = v /\ row.active = (v \in up)
    BY DEF VpnRow
  <1> HIDE DEF row
  <1>3. Formed' /\ Purpose' /\ Blank'
    BY <1>1, ReadingKeeps
  <1>4. UNCHANGED <<conns, kept, paths, steady, wasActive, op, phase>>
    BY <1>1 DEF Reading, envVars, histVars
  <1>5. phase \in {"saved", "vpns", "active_vpns"} /\ op.name = phase
    BY <1>1 DEF Inv, Course, ListsInv, Purpose
  <1>6. Queue' /\ Sought' /\ Listed'
    BY <1>1, <1>4, <1>5 DEF Queue, AtPath, AtPaths, Sought, Listed
  <1>7. /\ left \subseteq Vpns
        /\ listed \in Seq(VpnRow)
        /\ \A w \in kept : w \in left \/ \E i \in DOMAIN listed : listed[i].vpn = w
        /\ \A i \in DOMAIN listed :
              listed[i].vpn \notin left /\ listed[i].active = (listed[i].vpn \in up)
        /\ \A i, j \in DOMAIN listed : listed[i].vpn = listed[j].vpn => i = j
        /\ up \subseteq wasActive
        /\ phase # "saved" => \A p \in steady : conns[p].vpn \in up \cup {None}
    BY <1>1 DEF ListsInv, VpnListing
  <1>8. VpnListing'
    <2>1. CASE v \notin kept
      <3>1. listed' = listed
        BY <1>1, <2>1
      <3> QED
        BY <1>1, <1>4, <1>7, <2>1, <3>1 DEF VpnListing
    <2>2. CASE v \in kept
      <3> DEFINE n == Len(listed)
      <3>1. /\ n \in Nat /\ DOMAIN listed = 1 .. n /\ DOMAIN listed' = 1 .. n + 1
            /\ listed' \in Seq(VpnRow)
            /\ \A i \in 1 .. n : listed'[i] = listed[i]
            /\ listed'[n + 1] = row
        BY <1>1, <1>2, <1>7, <2>2, AppendProperties, LenProperties
      <3> HIDE DEF n
      <3>2. \A i \in 1 .. n + 1 : i \in 1 .. n \/ i = n + 1
        BY <3>1
      <3>3. \A i \in 1 .. n : listed[i].vpn # row.vpn
        BY <1>1, <1>2, <1>7, <3>1
      <3>4. \A i \in DOMAIN listed' :
               listed'[i].vpn \notin left' /\ listed'[i].active = (listed'[i].vpn \in up)
        BY <1>1, <1>2, <1>7, <3>1, <3>2
      <3>5. \A i, j \in DOMAIN listed' : listed'[i].vpn = listed'[j].vpn => i = j
        BY <1>7, <3>1, <3>2, <3>3
      <3>6. \A w \in kept : w \in left' \/ \E i \in DOMAIN listed' : listed'[i].vpn = w
        <4>1. n + 1 \in DOMAIN listed' /\ listed'[n + 1].vpn = v
          BY <1>2, <3>1
        <4>2. \A i \in DOMAIN listed : i \in DOMAIN listed' /\ listed'[i] = listed[i]
          BY <3>1
        <4> QED
          BY <1>1, <1>7, <4>1, <4>2
      <3> QED
        BY <1>1, <1>4, <1>7, <3>1, <3>4, <3>5, <3>6 DEF VpnListing
    <2> QED
      BY <2>1, <2>2
  <1>9. StableReported'
    BY <1>1 DEF StableReported, Returned
  <1> QED
    BY <1>3, <1>6, <1>8, <1>9 DEF ListsInv

LEMMA InfoKeeps ==
    Inv /\ ListsInv /\ (ReadInfoPath \/ ReadInfoSettings) => ListsInv'
  <1> SUFFICES ASSUME Inv, ListsInv, ReadInfoPath \/ ReadInfoSettings PROVE ListsInv'
    OBVIOUS
  <1>1. /\ pc \in {"info", "info_settings"} /\ pc' \in {"info", "info_settings", "info_device"}
        /\ UNCHANGED <<listed, up>> /\ Reading
    BY DEF ReadInfoPath, ReadInfoSettings, Still, Reading
  <1>2. Formed' /\ Purpose' /\ Blank'
    BY <1>1, ReadingKeeps
  <1>3. UNCHANGED <<conns, kept, paths, steady, wasActive, op, phase>>
    BY <1>1 DEF Reading, envVars, histVars
  <1>4. phase = "vpn_info" /\ op.name = "vpn_info"
    BY <1>1 DEF Inv, Course, ListsInv, Purpose
  <1>5. Listed' /\ VpnListing' /\ StableReported'
    BY <1>1, <1>3, <1>4 DEF ListsInv, Listed, VpnListing, StableReported, Returned
  <1>6. CASE ReadInfoPath
    <2> DEFINE p == Head(todo)
    <2>1. /\ pc = "info" /\ todo # << >> /\ cur' = p /\ todo' = Tail(todo)
          /\ act' = IF p \in DOMAIN conns THEN conns[p] ELSE None
          /\ pc' = IF p \in DOMAIN conns THEN "info_settings" ELSE "info"
      BY <1>6 DEF ReadInfoPath
    <2>2. /\ todo' \in Seq(1 .. paths) /\ IsInjective(todo') /\ p \in 1 .. paths
          /\ ToSet(todo) = ToSet(todo') \cup {p} /\ p \notin ToSet(todo')
      BY <2>1, NextPath DEF AtPaths
    <2>3. p \in DOMAIN conns =>
            /\ conns[p] \in Connection /\ conns[p].vpn \in wasActive \cup {None}
            /\ conns[p].dev # None => conns[p].ap # None
            /\ \A q \in DOMAIN conns : Kin(q, conns[p]) => q = p
      BY <2>1, ReadConnection
    <2>4. steady \subseteq DOMAIN conns
      BY DEF ListsInv, Formed
    <2> HIDE DEF p
    <2>5. Queue'
      BY <1>3, <2>1, <2>2, <2>3 DEF Queue, AtPath, AtPaths, Kin, IsInjective
    <2>6. Sought'
      BY <1>3, <2>1, <2>2, <2>4 DEF ListsInv, Sought
    <2> QED
      BY <1>2, <1>5, <2>5, <2>6 DEF ListsInv
  <1>7. CASE ReadInfoSettings
    <2>1. /\ pc = "info_settings" /\ UNCHANGED <<todo, cur, act>>
          /\ pc' = IF act.vpn \in kept /\ VpnName[act.vpn] = op.arg THEN "info_device" ELSE "info"
      BY <1>7 DEF ReadInfoSettings, Still
    <2>2. Queue'
      BY <1>3, <2>1 DEF ListsInv, Queue, AtPath, AtPaths, Kin, IsInjective
    <2>3. /\ steady \subseteq DOMAIN conns /\ kept \subseteq Vpns
          /\ \A p \in DOMAIN conns : conns[p].vpn \in kept \cup {None}
          /\ cur \in DOMAIN conns => conns[cur].vpn = act.vpn
      BY <2>1 DEF ListsInv, Formed, Queue, AtPath
    <2>4. Sought'
      BY <1>3, <2>1, <2>3 DEF ListsInv, Sought
    <2> QED
      BY <1>2, <1>5, <2>2, <2>4 DEF ListsInv
  <1> QED
    BY <1>6, <1>7

\* The VPN that is found is of the name; the only one of the name is found.
LEMMA InfoEnds ==
    Inv /\ ListsInv /\ (ReadInfoDevice \/ EndOfInfo) => ListsInv'
  <1> SUFFICES ASSUME Inv, ListsInv, ReadInfoDevice \/ EndOfInfo PROVE ListsInv'
    OBVIOUS
  <1>1. /\ pc \in {"info", "info_device"} /\ pc' = "done"
        /\ UNCHANGED <<listed, up>> /\ Reading
    BY DEF ReadInfoDevice, EndOfInfo, Answer, Fail, Finish, Still, Reading
  <1>2. Formed' /\ Purpose' /\ Blank'
    BY <1>1, ReadingKeeps
  <1>3. UNCHANGED <<conns, kept, paths, steady, wasActive, op, phase>>
    BY <1>1 DEF Reading, envVars, histVars
  <1>4. phase = "vpn_info" /\ op.name = "vpn_info"
    BY <1>1 DEF Inv, Course, ListsInv, Purpose
  <1>5. Listed' /\ VpnListing' /\ Queue' /\ Sought'
    BY <1>1, <1>3, <1>4 DEF ListsInv, Listed, VpnListing, Queue, Sought, AtPath, AtPaths
  <1>6. None \notin Vpns /\ steady \subseteq DOMAIN conns
    BY StatusAssumption DEF ListsInv, Formed
  <1>7. /\ result'.ok => result'.value \in wasActive /\ VpnName[result'.value] = op.arg
        /\ \A p \in steady :
              conns[p].vpn # None /\ VpnName[conns[p].vpn] = op.arg
              /\ (\A w \in Vpns \cap wasActive : VpnName[w] = op.arg => w = conns[p].vpn)
                 => result'.ok /\ result'.value = conns[p].vpn
    <2>1. CASE pc = "info"
      <3>1. todo = << >> /\ ~result'.ok
        BY <2>1 DEF ReadInfoDevice, EndOfInfo, Fail, Finish
      <3>2. ToSet(todo) = {}
        BY <3>1, NoRows
      <3> QED
        BY <2>1, <3>1, <3>2 DEF ListsInv, Sought
    <2>2. CASE pc = "info_device"
      <3>1. /\ act.vpn \in Vpns /\ act.vpn \in wasActive /\ VpnName[act.vpn] = op.arg
            /\ cur \in DOMAIN conns => conns[cur].vpn = act.vpn
            /\ \A p \in steady : Kin(p, act) => p = cur
        BY <1>6, <2>2 DEF ListsInv, Sought, Queue, AtPath
      <3>2. \/ result'.ok /\ result'.value = act.vpn
            \/ ~result'.ok /\ cur \notin DOMAIN conns
        BY <2>2 DEF ReadInfoDevice, EndOfInfo, Answer, Fail, Finish
      <3> QED
        BY <1>6, <3>1, <3>2 DEF Kin
    <2> QED
      BY <1>1, <2>1, <2>2
  <1>8. StableReported'
    BY <1>1, <1>3, <1>4, <1>7 DEF StableReported, Returned, Listings
  <1> QED
    BY <1>2, <1>5, <1>8 DEF ListsInv

LEMMA EndOfProfilesKeeps == Inv /\ ListsInv /\ EndOfProfiles => ListsInv'
  <1> SUFFICES ASSUME Inv, ListsInv, EndOfProfiles PROVE ListsInv'
    OBVIOUS
  <1> DEFINE idle == {r \in ToSet(listed) : ~r.active}
             rows == IF op.name = "active_vpns" THEN LeaveOut(listed, idle) ELSE listed
  <1>1. /\ pc = "profile" /\ left = {} /\ pc' = "done"
        /\ result'.ok /\ result'.value = rows
        /\ UNCHANGED <<listed, up>> /\ Reading
    BY DEF EndOfProfiles, Answer, Finish, Still, Reading
  <1>2. Formed' /\ Purpose' /\ Blank'
    BY <1>1, ReadingKeeps
  <1>3. UNCHANGED <<conns, kept, paths, steady, wasActive, op, phase>>
    BY <1>1 DEF Reading, envVars, histVars
  <1>4. phase \in {"saved", "vpns", "active_vpns"} /\ op.name = phase
    BY <1>1 DEF Inv, Course, ListsInv, Purpose
  <1>5. Listed' /\ VpnListing' /\ Queue' /\ Sought'
    BY <1>1, <1>3, <1>4 DEF ListsInv, Listed, VpnListing, Queue, Sought, AtPath, AtPaths
  <1>6. /\ listed \in Seq(VpnRow)
        /\ \A v \in kept : \E i \in DOMAIN listed : listed[i].vpn = v
        /\ \A i \in DOMAIN listed : listed[i].active = (listed[i].vpn \in up)
        /\ \A i, j \in DOMAIN listed : listed[i].vpn = listed[j].vpn => i = j
        /\ up \subseteq wasActive
        /\ phase # "saved" => \A p \in steady : conns[p].vpn \in up \cup {None}
    BY <1>1 DEF ListsInv, VpnListing
  <1>7. /\ rows \in Seq(VpnRow) /\ IsInjective(rows)
        /\ ToSet(rows) \subseteq ToSet(listed)
        /\ \A r \in ToSet(listed) : r.active => r \in ToSet(rows)
    <2>1. IsInjective(listed)
      BY <1>6 DEF IsInjective
    <2>2. CASE op.name = "active_vpns"
      <3>1. /\ LeaveOut(listed, idle) \in Seq(VpnRow)
            /\ ToSet(LeaveOut(listed, idle)) = ToSet(listed) \ idle
            /\ IsInjective(LeaveOut(listed, idle))
        <4> HIDE DEF idle
        <4> QED
          BY <1>6, <2>1, LeftOut
      <3>2. rows = LeaveOut(listed, idle)
        BY <2>2
      <3> HIDE DEF rows
      <3> QED
        BY <3>1, <3>2
    <2>3. CASE op.name # "active_vpns"
      BY <1>6, <2>1, <2>3
    <2> QED
      BY <2>2, <2>3
  <1> HIDE DEF rows, idle
  <1>8. op.name # "active_vpns" => rows = listed
    BY DEF rows
  <1>9. op.name # "active_vpns" =>
           \A v \in kept : Cardinality({i \in DOMAIN rows : rows[i].vpn = v}) = 1
    <2> SUFFICES ASSUME rows = listed, NEW v \in kept
                 PROVE  Cardinality({i \in DOMAIN rows : rows[i].vpn = v}) = 1
      BY <1>8
    <2>1. PICK k \in DOMAIN rows : rows[k].vpn = v
      BY <1>6
    <2>2. \A i \in DOMAIN rows : rows[i].vpn = v => i = k
      BY <1>6, <2>1
    <2> DEFINE P == {i \in DOMAIN rows : rows[i].vpn = v}
    <2>3. P \subseteq DOMAIN rows /\ k \in P /\ \A i \in P : i = k
      BY <2>1, <2>2
    <2> HIDE DEF P
    <2>4. Cardinality(P) = 1
      BY <2>1, <2>3, OneRow
    <2> QED
      BY <2>4 DEF P
  <1>10. \A i \in DOMAIN rows : rows[i].active => rows[i].vpn \in wasActive
    <2> SUFFICES ASSUME NEW i \in DOMAIN rows, rows[i].active
                 PROVE  rows[i].vpn \in wasActive
      OBVIOUS
    <2>1. rows[i] \in ToSet(listed)
      BY <1>7 DEF ToSet
    <2>2. PICK j \in DOMAIN listed : listed[j] = rows[i]
      BY <2>1 DEF ToSet
    <2>3. listed[j].active = (listed[j].vpn \in up)
      BY <1>6
    <2>4. rows[i].vpn \in up
      BY <2>2, <2>3
    <2> QED
      BY <1>6, <2>4
  <1>11. ASSUME phase # "saved", NEW p \in steady, conns[p].vpn # None
         PROVE  Once(rows, [vpn |-> conns[p].vpn, active |-> TRUE])
    <2> DEFINE v == conns[p].vpn
               row == [vpn |-> v, active |-> TRUE]
    <2>1. v \in up /\ v \in kept
      BY <1>6, <1>11 DEF ListsInv, Formed
    <2>2. PICK k \in DOMAIN listed : listed[k].vpn = v
      BY <1>6, <2>1
    <2>3. listed[k] = row
      <3>1. listed[k] \in VpnRow
        BY <1>6, <2>2, ElementOfSeq, LenProperties
      <3>2. listed[k].active = TRUE
        <4>1. listed[k].active = (listed[k].vpn \in up)
          BY <1>6, <2>2
        <4>2. listed[k].vpn \in up
          BY <2>1, <2>2
        <4> HIDE DEF v, row
        <4> QED
          BY <4>1, <4>2
      <3> QED
        BY <2>2, <3>1, <3>2 DEF VpnRow
    <2>4. row \in ToSet(rows)
      BY <1>7, <2>2, <2>3 DEF ToSet
    <2> HIDE DEF row
    <2>5. PICK j \in DOMAIN rows : rows[j] = row
      BY <2>4 DEF ToSet
    <2>6. \A i \in DOMAIN rows : row = rows[i] => i = j
      BY <1>7, <2>5 DEF IsInjective
    <2>7. Cardinality({i \in DOMAIN rows : row = rows[i]}) = 1
      BY <2>5, <2>6, OneRow
    <2> QED
      BY <2>7 DEF Once, row
  <1>12. StableReported'
    <2>1. pc' = "done" /\ result'.ok /\ result'.value = rows /\ op'.name = phase
      BY <1>1, <1>3, <1>4
    <2>2. op'.name # "active_vpns" =>
            \A v \in kept' : Cardinality({i \in DOMAIN result'.value : result'.value[i].vpn = v}) = 1
      BY <1>3, <1>9, <2>1
    <2>3. \A i \in DOMAIN result'.value : result'.value[i].active => result'.value[i].vpn \in wasActive'
      BY <1>3, <1>10, <2>1
    <2>4. phase # "saved" =>
             \A v \in {conns'[p].vpn : p \in steady'} \ {None} :
                Once(result'.value, [vpn |-> v, active |-> TRUE])
      BY <1>3, <1>11, <2>1
    <2> QED
      BY <1>4, <2>1, <2>2, <2>3, <2>4 DEF StableReported, Returned
  <1> QED
    BY <1>2, <1>5, <1>12 DEF ListsInv

LEMMA ListsKept == Inv /\ ListsInv /\ [Next]_vars => ListsInv'
  <1> SUFFICES ASSUME Inv, ListsInv, [Next]_vars PROVE ListsInv'
    OBVIOUS
  <1>1. CASE Network
    BY <1>1, NetworkEvolves, EvolvesKeeps DEF ListsInv
  <1>2. CASE AnElsewhere
    BY <1>2, PassesListNothing, ElsewhereKeeps DEF Inv, ListsInv
  <1>3. CASE \E o \in Ops : Begin(o)
    BY <1>3, BeginKeepsLists
  <1>4. CASE Return
    BY <1>4, ReturnKeepsLists
  <1>5. CASE GetPaths \/ ReadPath \/ PathGone \/ ReadPathDevice \/ EndOfPaths
    BY <1>5, GetPathsKeeps, ReadPathKeeps, PathGoneKeeps, ReadPathDeviceKeeps, EndOfPathsKeeps
  <1>6. CASE ListSaved \/ ReadVpnPath \/ EndOfVpnPaths \/ EndOfProfiles \/ \E v \in Vpns : ReadProfile(v)
    BY <1>6, ListSavedKeeps, ReadVpnPathKeeps, EndOfVpnPathsKeeps, EndOfProfilesKeeps, ReadProfileKeeps
  <1>7. CASE ReadInfoPath \/ ReadInfoSettings \/ ReadInfoDevice \/ EndOfInfo
    BY <1>7, InfoKeeps, InfoEnds
  <1>8. CASE UNCHANGED vars
    <2>1. UNCHANGED <<op, phase, pc, todo, cur, act, left, listed, up, result, conns, link, kept,
                      seen, paths, wasActive, steady>>
      BY <1>8 DEF vars, envVars, callVars, histVars
    <2>2. StableReported'
      BY <2>1, StableStays DEF ListsInv
    <2> QED
      BY <2>1, <2>2 DEF ListsInv, Purpose, ListsAps, Blank, Formed, Queue, Kin, Listed, VpnListing,
                        Sought, IsInjective
  <1>9. Network \/ AnElsewhere \/ (\E o \in Ops : Begin(o)) \/ Return
        \/ (GetPaths \/ ReadPath \/ PathGone \/ ReadPathDevice \/ EndOfPaths)
        \/ (ListSaved \/ ReadVpnPath \/ EndOfVpnPaths \/ EndOfProfiles \/ \E v \in Vpns : ReadProfile(v))
        \/ (ReadInfoPath \/ ReadInfoSettings \/ ReadInfoDevice \/ EndOfInfo)
        \/ UNCHANGED vars
    BY DEF Next, Caller, AnElsewhere
  <1> QED
    BY <1>1, <1>2, <1>3, <1>4, <1>5, <1>6, <1>7, <1>8, <1>9

\* Connections and profiles that come and go do not disturb a listing: it does not
\* fail, what was there all through is in it once, and what it calls active was
\* (active_connection.rs:52-64, vpn.rs:447-502, 910).
THEOREM WhatStaysIsListed == Spec => []StableReported
  <1>1. ListsInv => StableReported
    BY DEF ListsInv
  <1> QED
    BY <1>1, InitInv, InvNext, InitLists, ListsKept, PTL DEF Spec

-----------------------------------------------------------------------------
(* The access points, and what is made of them.                            *)
(*                                                                         *)
(*  - Shown: an access point is listed once, with its own radio, and those *)
(*    still to read are others;                                            *)
(*  - Unmerged: nothing is merged before the last access point is read;    *)
(*  - Merging: each merged network agrees with those of its access points  *)
(*    that have been merged.                                               *)

Shown ==
    ListsAps =>
        /\ \A i \in DOMAIN found : found[i].ap \in Aps /\ found[i].dev = ApInfo[found[i].ap].dev
        /\ \A i, j \in DOMAIN found : found[i].ap = found[j].ap => i = j
        /\ pc = "ap" => /\ left \subseteq {a \in Aps : ApInfo[a].dev = cur}
                        /\ \A i \in DOMAIN found : found[i].ap \notin left

Unmerged ==
    /\ op.name = "networks" => phase = "walk"
    /\ pc = "idle" \/ (op.name = "networks" /\ pc \notin {"merge", "done"}) => nets = << >>

Fields == {"ssid", "dev", "bssid", "bssids", "strength", "security", "secured", "isEap",
           "active", "ip", "known"}

KeyOf(r) == <<r.dev, ApInfo[r.ap].ssid>>

Agrees(n, k, mine) ==
    /\ DOMAIN n = Fields /\ n.dev = k[1] /\ n.ssid = k[2]
    /\ n.bssids \in Seq(mine) /\ ToSet(n.bssids) = mine /\ IsInjective(n.bssids)
    /\ n.bssids # << >> /\ n.bssid = Head(n.bssids)
    /\ n.strength = ApInfo[n.bssid].strength
    /\ \A a \in mine : ApInfo[a].strength <= n.strength
    /\ \A cap : cap \in n.security <=> \E a \in mine : cap \in DecodeSecurity(ApInfo[a])
    /\ n.secured \in BOOLEAN
    /\ n.secured <=> \E a \in mine : ~IsOpen(DecodeSecurity(ApInfo[a]))
    /\ n.active \in BOOLEAN /\ (n.ip # None => n.active)

ApsOf(rows, k) == {r.ap : r \in {q \in rows : KeyOf(q) = k}}

MergedRows == ToSet(found) \ ToSet(todo)

Merging ==
    pc = "merge" =>
        /\ todo \in Seq(ToSet(found)) /\ IsInjective(todo)
        /\ DOMAIN nets = {KeyOf(r) : r \in MergedRows}
        /\ \A k \in DOMAIN nets : Agrees(nets[k], k, ApsOf(MergedRows, k))

AirInv == Shown /\ Unmerged /\ Merging /\ MergedFaithful /\ RowsFaithful

LEMMA InitAir == Init => AirInv
  BY DEF Init, Idle, AirInv, Shown, ListsAps, Unmerged, Merging, MergedFaithful, RowsFaithful,
         Returned

\* Both reports are about what was read, which the network does not change.
LEMMA AirStays == AirInv /\ UNCHANGED callVars => AirInv'
  <1> SUFFICES ASSUME AirInv, UNCHANGED callVars PROVE AirInv'
    OBVIOUS
  <1>1. UNCHANGED <<op, phase, pc, todo, cur, left, found, nets, result>>
    BY DEF callVars
  <1>2. Shown' /\ Unmerged'
    BY <1>1 DEF AirInv, Shown, ListsAps, Unmerged
  <1>3. Merging'
    BY <1>1, Zenon DEF AirInv, Merging, MergedRows, ApsOf, KeyOf, Agrees, DecodeSecurity
  <1>4. MergedFaithful'
    BY <1>1, Zenon DEF AirInv, MergedFaithful, Returned
  <1>5. RowsFaithful'
    BY <1>1, Zenon DEF AirInv, RowsFaithful, Returned
  <1> QED
    BY <1>2, <1>3, <1>4, <1>5 DEF AirInv

\* The steps that list no access point, merge none and do not answer with them.
Beside ==
    /\ pc \notin {"idle", "merge", "done"} /\ pc' \notin {"idle", "ap", "merge"}
    /\ op' = op /\ found' = found /\ nets' = nets
    /\ op.name = "networks" => phase' = "walk"
    /\ pc' = "done" => ~result'.ok \/ op.name \notin {"networks", "snapshot"}

LEMMA BesideKeeps == AirInv /\ Beside => AirInv'
  <1> SUFFICES ASSUME AirInv, Beside PROVE AirInv'
    OBVIOUS
  <1>1. Shown' /\ Unmerged' /\ Merging'
    BY DEF AirInv, Beside, Shown, Unmerged, Merging, ListsAps
  <1>2. MergedFaithful' /\ RowsFaithful'
    BY DEF Beside, MergedFaithful, RowsFaithful, Returned
  <1> QED
    BY <1>1, <1>2 DEF AirInv

LEMMA BeginKeepsAir == ASSUME Inv, AirInv, NEW o \in Ops, Begin(o) PROVE AirInv'
  <1>1. /\ pc = "idle" /\ pc' = "get" /\ phase' = FirstPhase(op'.name)
        /\ found' = << >> /\ nets' = << >>
    BY DEF Begin, Inv, Course, AirInv, Unmerged
  <1>2. Shown'
    BY <1>1 DEF Shown
  <1>3. Unmerged' /\ Merging' /\ MergedFaithful' /\ RowsFaithful'
    BY <1>1 DEF FirstPhase, Unmerged, Merging, MergedFaithful, RowsFaithful, Returned
  <1> QED
    BY <1>2, <1>3 DEF AirInv

LEMMA ReturnKeepsAir == Return => AirInv'
  BY DEF Return, Idle, AirInv, Shown, ListsAps, Unmerged, Merging, MergedFaithful, RowsFaithful,
         Returned

\* The passes that only look for the current SSID or its addresses.
LEMMA LookingIsBeside ==
    ASSUME Course, Unmerged,
           \/ GetDevices
           \/ SsidAp \/ SsidNone \/ \E d \in ToSet(AllDevices) : SsidDevice(d)
           \/ PickAp \/ PickAddress \/ PickNone \/ \E d \in ToSet(AllDevices) : PickDevice(d)
           \/ AddrNone \/ \E d \in ToSet(AllDevices) : AddrDevice(d)
           \/ \E d \in ToSet(AllDevices) : WalkDevice(d)
           \/ EndOfDevice,
           Purpose
    PROVE  Beside
  <1>1. op.name = "networks" => phase = "walk"
    BY DEF Unmerged
  <1>2. CASE GetDevices \/ EndOfDevice
    BY <1>1, <1>2 DEF GetDevices, EndOfDevice, Skip, Still, Beside
  <1>3. ASSUME phase = "ssid", pc \in {"device", "active_ap"},
               Skip \/ (\E s : SsidIs(s)) \/ \E d : NoteActive(d, "active_ap")
        PROVE  Beside
    BY <1>1, <1>3 DEF SsidIs, Skip, NoteActive, Answer, Finish, NextPhase, Beside
  <1>4. CASE SsidAp \/ SsidNone \/ \E d \in ToSet(AllDevices) : SsidDevice(d)
    BY <1>3, <1>4 DEF SsidAp, SsidNone, SsidDevice, AtDevice
  <1>5. ASSUME phase = "pick", pc \in {"device", "active_ap", "address"},
               \/ Skip \/ Fail \/ (\E v : Answer(v)) \/ \E d : NoteActive(d, "active_ap")
               \/ pc' = "address" /\ UNCHANGED <<op, phase, found, nets>>
        PROVE  Beside
    BY <1>1, <1>5 DEF Skip, Fail, NoteActive, Answer, Finish, Purpose, Beside
  <1>6. CASE PickAp \/ PickAddress \/ PickNone \/ \E d \in ToSet(AllDevices) : PickDevice(d)
    BY <1>5, <1>6 DEF PickAp, PickAddress, PickNone, PickDevice, AtDevice
  <1>7. CASE AddrNone \/ \E d \in ToSet(AllDevices) : AddrDevice(d)
    BY <1>1, <1>7 DEF AddrNone, AddrDevice, AtDevice, Skip, NextPhase, Beside
  <1>8. CASE \E d \in ToSet(AllDevices) : WalkDevice(d)
    BY <1>1, <1>8 DEF WalkDevice, AtDevice, Skip, NoteActive, Fail, Finish, Beside
  <1> QED
    BY <1>2, <1>4, <1>6, <1>7, <1>8

\* The listings of connections and profiles.
LEMMA ListingIsBeside ==
    ASSUME Course, Unmerged, Purpose,
           \/ GetPaths \/ ReadPath \/ PathGone \/ ReadPathDevice \/ EndOfPaths
           \/ ListSaved \/ ReadVpnPath \/ EndOfVpnPaths \/ EndOfProfiles
           \/ \E v \in Vpns : ReadProfile(v)
           \/ ReadInfoPath \/ ReadInfoSettings \/ ReadInfoDevice \/ EndOfInfo
    PROVE  Beside
  <1>1. op.name = "networks" => phase = "walk"
    BY DEF Unmerged
  <1>2. CASE GetPaths
    BY <1>1, <1>2 DEF GetPaths, Still, Beside
  <1>3. CASE ReadPath \/ PathGone \/ ReadPathDevice \/ EndOfPaths
    BY <1>1, <1>3 DEF ReadPath, PathGone, ReadPathDevice, EndOfPaths, Fail, Answer, Finish,
                      NextPhase, Still, Beside
  <1>4. CASE ListSaved \/ ReadVpnPath \/ EndOfVpnPaths \/ \E v \in Vpns : ReadProfile(v)
    BY <1>1, <1>4 DEF ListSaved, ReadVpnPath, EndOfVpnPaths, ReadProfile, Still, Beside
  <1>5. CASE EndOfProfiles
    <2>1. phase \in {"saved", "vpns", "active_vpns"} /\ op.name = phase
      BY <1>5 DEF EndOfProfiles, Course, Purpose
    <2> QED
      BY <1>1, <1>5, <2>1 DEF EndOfProfiles, Answer, Finish, Still, Beside
  <1>6. CASE ReadInfoPath \/ ReadInfoSettings \/ ReadInfoDevice \/ EndOfInfo
    <2>1. phase = "vpn_info" /\ op.name = phase
      BY <1>6 DEF ReadInfoPath, ReadInfoSettings, ReadInfoDevice, EndOfInfo, Course, Purpose
    <2> QED
      BY <1>6, <2>1 DEF ReadInfoPath, ReadInfoSettings, ReadInfoDevice, EndOfInfo, Fail, Answer,
                        Finish, Still, Beside
  <1> QED
    BY <1>2, <1>3, <1>4, <1>5, <1>6

\* The listings of devices and the scan.
LEMMA VisitKeepsAir ==
    AirInv /\ (\E d \in ToSet(AllDevices) :
                  ScanDevice(d) \/ ListDevice(d) \/ ListWifiDevice(d) \/ ListWiredDevice(d))
        => AirInv'
  <1> SUFFICES ASSUME AirInv,
                      NEW d \in ToSet(AllDevices),
                      ScanDevice(d) \/ ListDevice(d) \/ ListWifiDevice(d) \/ ListWiredDevice(d)
               PROVE  AirInv'
    OBVIOUS
  <1>1. /\ op.name \in {"scan", "devices", "wifi_devices", "wired_devices"} /\ pc = "device"
        /\ op' = op /\ pc' \in {"device", "done"} /\ nets' = nets
    BY DEF ScanDevice, ListDevice, ListWifiDevice, ListWiredDevice, VisitDevice, AtDevice, Skip,
           Fail, Finish
  <1> QED
    BY <1>1 DEF AirInv, Shown, ListsAps, Unmerged, Merging, MergedFaithful, RowsFaithful, Returned

LEMMA ListApsKeepsAir == Inv /\ ListsInv /\ AirInv /\ ListAps => AirInv'
  <1> SUFFICES ASSUME Inv, ListsInv, AirInv, ListAps PROVE AirInv'
    OBVIOUS
  <1>1. CASE Fail
    <2>1. Beside
      BY <1>1 DEF ListAps, Fail, Finish, AirInv, Unmerged, Beside
    <2> QED
      BY <2>1, BesideKeeps
  <1>2. CASE left' = VisibleOn(cur) /\ pc' = "ap" /\ UNCHANGED <<op, phase, cur, found, nets>>
    <2>1. /\ pc = "ap_list" /\ phase = "walk" /\ cur = Head(todo) /\ todo # << >>
          /\ todo \in Seq(ToSet(AllDevices))
      BY DEF ListAps, Inv, Course, Walk, Walking
    <2>2. 1 \in DOMAIN todo /\ cur = todo[1]
      BY <2>1, EmptySeq, HeadTailProperties, LenProperties
    <2>3. \A i \in DOMAIN found : found[i].dev # cur
      <3>1. \A r \in ToSet(found) : r.dev # todo[1]
        BY <2>1, <2>2 DEF Inv, Walk, Walking
      <3> QED
        BY <2>2, <3>1 DEF ToSet
    <2>4. left' \subseteq {a \in Aps : ApInfo[a].dev = cur}
      BY <1>2 DEF ListsInv, Formed, VisibleOn
    <2>5. Shown'
      BY <1>2, <2>3, <2>4 DEF AirInv, Shown, ListsAps
    <2>6. Unmerged' /\ Merging' /\ MergedFaithful' /\ RowsFaithful'
      BY <1>2, <2>1 DEF AirInv, Unmerged, Merging, MergedFaithful, RowsFaithful, Returned
    <2> QED
      BY <2>5, <2>6 DEF AirInv
  <1> QED
    BY <1>1, <1>2 DEF ListAps

LEMMA ReadApKeepsAir ==
    ASSUME Inv, ListsInv, AirInv, NEW a \in Aps, ReadAp(a) PROVE AirInv'
  <1>1. /\ pc = "ap" /\ a \in left /\ phase = "walk" /\ ListsAps
        /\ UNCHANGED <<op, phase, nets>>
    BY DEF ReadAp, Fail, Finish, Inv, Course, ListsInv, Purpose
  <1>2. CASE Fail
    <2>1. Beside
      BY <1>1, <1>2 DEF Fail, Finish, Beside
    <2> QED
      BY <2>1, BesideKeeps
  <1> DEFINE row == [ap |-> a, active |-> IsActiveAp(a), dev |-> cur]
  <1>3. CASE /\ left' = left \ {a} /\ UNCHANGED <<pc, cur>>
             /\ found' = IF Keep(a) THEN Append(found, row) ELSE found
    <2>1. row.ap = a /\ row.dev = cur
      OBVIOUS
    <2> HIDE DEF row
    <2>2. /\ \A i \in DOMAIN found : /\ found[i].ap \in Aps /\ found[i].dev = ApInfo[found[i].ap].dev
                                     /\ found[i].ap \notin left
          /\ \A i, j \in DOMAIN found : found[i].ap = found[j].ap => i = j
          /\ left \subseteq {b \in Aps : ApInfo[b].dev = cur}
      BY <1>1 DEF AirInv, Shown
    <2>3. Shown'
      <3>1. CASE found' = found
        BY <1>1, <1>3, <2>2, <3>1 DEF Shown, ListsAps
      <3>2. CASE found' = Append(found, row)
        <4>1. found \in Seq(RowsOver(Aps \cup wasActive))
          BY DEF Inv, Rows
        <4> DEFINE n == Len(found)
        <4>2. n \in Nat /\ DOMAIN found = 1 .. n
          BY <4>1, LenProperties
        <4>3. /\ DOMAIN found' = 1 .. n + 1 /\ found'[n + 1] = row
              /\ \A i \in 1 .. n : found'[i] = found[i]
          <5>1. /\ Len(found') = n + 1 /\ DOMAIN found' = 1 .. Len(found')
                /\ \A i \in 1 .. n : found'[i] = found[i] /\ found'[n + 1] = row
            BY <3>2, <4>1
          <5> QED
            BY <3>2, <4>1, <5>1
        <4> HIDE DEF n
        <4>4. \A i \in 1 .. n + 1 : i \in 1 .. n \/ i = n + 1
          BY <4>2
        <4>5. a \in Aps /\ ApInfo[a].dev = cur
          BY <1>1, <2>2
        <4>6. /\ \A i \in DOMAIN found' : /\ found'[i].ap \in Aps
                                          /\ found'[i].dev = ApInfo[found'[i].ap].dev
                                          /\ found'[i].ap \notin left'
          BY <1>3, <2>1, <2>2, <4>2, <4>3, <4>4, <4>5
        <4>7. \A i, j \in DOMAIN found' : found'[i].ap = found'[j].ap => i = j
          BY <1>1, <2>1, <2>2, <4>2, <4>3, <4>4
        <4>8. left' \subseteq {b \in Aps : ApInfo[b].dev = cur'}
          BY <1>3, <2>2
        <4> QED
          BY <4>6, <4>7, <4>8 DEF Shown
      <3> QED
        BY <1>3, <3>1, <3>2
    <2>4. Unmerged' /\ Merging' /\ MergedFaithful' /\ RowsFaithful'
      BY <1>1, <1>3 DEF AirInv, Unmerged, Merging, MergedFaithful, RowsFaithful, Returned
    <2> QED
      BY <2>3, <2>4 DEF AirInv
  <1> QED
    BY <1>2, <1>3 DEF ReadAp

-----------------------------------------------------------------------------
(* Merging.                                                                *)

\* One access point is a network that agrees with it.
LEMMA OneAgrees ==
    ASSUME NEW a \in Aps, NEW active \in BOOLEAN, NEW ip, ip # None => active
    PROVE  Agrees(NetworkOf(a, active, ip), <<ApInfo[a].dev, ApInfo[a].ssid>>, {a})
  <1> DEFINE n == NetworkOf(a, active, ip)
             k == <<ApInfo[a].dev, ApInfo[a].ssid>>
  <1>1. /\ DOMAIN n = Fields /\ n.dev = ApInfo[a].dev /\ n.ssid = ApInfo[a].ssid
        /\ n.bssid = a /\ n.bssids = <<a>> /\ n.strength = ApInfo[a].strength
        /\ n.security = DecodeSecurity(ApInfo[a])
        /\ n.secured = ~IsOpen(DecodeSecurity(ApInfo[a]))
        /\ n.active = active /\ n.ip = ip
    BY DEF NetworkOf, Fields
  <1>2. k[1] = ApInfo[a].dev /\ k[2] = ApInfo[a].ssid
    OBVIOUS
  <1> HIDE DEF n, k
  <1>3. <<a>> \in Seq({a}) /\ ToSet(<<a>>) = {a} /\ IsInjective(<<a>>) /\ <<a>> # << >>
        /\ Head(<<a>>) = a
    BY Single
  <1>4. ApInfo[a].strength \in Nat
    BY StatusAssumption
  <1>5. n.secured \in BOOLEAN /\ (n.secured <=> ~IsOpen(DecodeSecurity(ApInfo[a])))
    BY <1>1, Zenon
  <1>6. \A b \in {a} : ApInfo[b].strength <= n.strength
    BY <1>1, <1>4
  <1>7. \A cap : cap \in n.security <=> \E b \in {a} : cap \in DecodeSecurity(ApInfo[b])
    BY <1>1, Zenon
  <1>8. n.secured <=> \E b \in {a} : ~IsOpen(DecodeSecurity(ApInfo[b]))
    BY <1>5, Zenon
  <1>9. Agrees(n, k, {a})
    BY <1>1, <1>2, <1>3, <1>5, <1>6, <1>7, <1>8 DEF Agrees
  <1> QED
    BY <1>9 DEF n, k

\* The fields of a merged network.
LEMMA MergedFields ==
    ASSUME NEW n, NEW o, DOMAIN n = Fields
    PROVE  LET m == MergeAp(n, o)
               best == IF o.strength > n.strength THEN o ELSE n
               all == n.bssids \o LeaveOut(o.bssids, ToSet(n.bssids))
           IN /\ DOMAIN m = Fields /\ m.dev = n.dev /\ m.ssid = n.ssid
              /\ m.strength = best.strength /\ m.bssid = best.bssid
              /\ m.bssids = <<best.bssid>> \o LeaveOut(all, {best.bssid})
              /\ m.security = n.security \cup o.security
              /\ m.secured = (n.secured \/ o.secured)
              /\ m.active = (n.active \/ o.active)
              /\ m.ip = IF n.ip = None THEN o.ip ELSE n.ip
  BY DEF MergeAp, PushUnique, Fields

\* The BSSIDs of a merged network: all of them once, the chosen one first.
LEMMA MergedBssids ==
    ASSUME NEW S, NEW s \in Seq(S), NEW t \in Seq(S), IsInjective(s), IsInjective(t),
           ToSet(s) \cup ToSet(t) = S, NEW b \in S
    PROVE  LET all == s \o LeaveOut(t, ToSet(s))
               u == <<b>> \o LeaveOut(all, {b})
           IN u \in Seq(S) /\ ToSet(u) = S /\ IsInjective(u) /\ u # << >> /\ Head(u) = b
  <1> DEFINE more == LeaveOut(t, ToSet(s))
             all == s \o more
             rest == LeaveOut(all, {b})
             one == <<b>>
             u == one \o rest
  <1>1. more \in Seq(S) /\ ToSet(more) = ToSet(t) \ ToSet(s) /\ IsInjective(more)
    BY LeftOut
  <1> HIDE DEF more
  <1>2. all \in Seq(S) /\ ToSet(all) = S /\ IsInjective(all)
    <2>1. /\ s \o more \in Seq(S) /\ ToSet(s \o more) = ToSet(s) \cup ToSet(more)
          /\ IsInjective(s) /\ IsInjective(more) /\ ToSet(s) \cap ToSet(more) = {}
                => IsInjective(s \o more)
      BY <1>1, Joined
    <2> QED
      BY <1>1, <2>1
  <1> HIDE DEF all
  <1>3. rest \in Seq(S) /\ ToSet(rest) = S \ {b} /\ IsInjective(rest)
    BY <1>2, LeftOut
  <1>4. one \in Seq(S) /\ ToSet(one) = {b} /\ IsInjective(one) /\ Len(one) = 1 /\ one[1] = b
    BY Single
  <1> HIDE DEF rest, one
  <1>5. u \in Seq(S) /\ ToSet(u) = S /\ IsInjective(u)
    <2>1. /\ one \o rest \in Seq(S) /\ ToSet(one \o rest) = ToSet(one) \cup ToSet(rest)
          /\ IsInjective(one) /\ IsInjective(rest) /\ ToSet(one) \cap ToSet(rest) = {}
                => IsInjective(one \o rest)
      BY <1>3, <1>4, Joined
    <2> QED
      BY <1>3, <1>4, <2>1
  <1>6. u[1] = b /\ Len(u) # 0
    <2>1. Len(rest) \in Nat
      BY <1>3, LenProperties
    <2>2. /\ Len(one \o rest) = Len(one) + Len(rest)
          /\ \A i \in 1 .. Len(one) + Len(rest) :
                (one \o rest)[i] = IF i <= Len(one) THEN one[i] ELSE rest[i - Len(one)]
      <3>1. one \in Seq(S) /\ rest \in Seq(S)
        BY <1>3, <1>4
      <3> HIDE DEF u
      <3> QED
        BY ONLY <3>1, ConcatProperties
    <2>3. 1 \in 1 .. Len(one) + Len(rest) /\ 1 <= Len(one) /\ Len(one) + Len(rest) # 0
      BY <1>4, <2>1
    <2> QED
      BY <1>4, <2>2, <2>3
  <1>7. u # << >> /\ Head(u) = b
    <2> HIDE DEF u
    <2> QED
      BY <1>5, <1>6
  <1> QED
    BY <1>5, <1>7 DEF u, one, rest, all, more

\* Merging one more access point into what agrees with the others.
LEMMA MergeAgrees ==
    ASSUME NEW n, NEW o, NEW k, NEW mine \in SUBSET Aps, NEW a \in Aps,
           Agrees(n, k, mine), Agrees(o, k, {a})
    PROVE  Agrees(MergeAp(n, o), k, mine \cup {a})
  <1> DEFINE m == MergeAp(n, o)
             best == IF o.strength > n.strength THEN o ELSE n
             all == n.bssids \o LeaveOut(o.bssids, ToSet(n.bssids))
             S == mine \cup {a}
  <1>1. /\ DOMAIN m = Fields /\ m.dev = n.dev /\ m.ssid = n.ssid
        /\ m.strength = best.strength /\ m.bssid = best.bssid
        /\ m.bssids = <<best.bssid>> \o LeaveOut(all, {best.bssid})
        /\ m.security = n.security \cup o.security
        /\ m.secured = (n.secured \/ o.secured)
        /\ m.active = (n.active \/ o.active)
        /\ m.ip = IF n.ip = None THEN o.ip ELSE n.ip
    BY MergedFields DEF Agrees
  <1> HIDE DEF m
  <1>2. /\ n.bssids \in Seq(S) /\ o.bssids \in Seq(S)
        /\ ToSet(n.bssids) \cup ToSet(o.bssids) = S
        /\ IsInjective(n.bssids) /\ IsInjective(o.bssids)
    <2>1. n.bssids \in Seq(mine) /\ o.bssids \in Seq({a})
      BY DEF Agrees
    <2>2. n.bssids \in Seq(S) /\ o.bssids \in Seq(S)
      BY <2>1, SeqMonotonic
    <2> QED
      BY <2>2 DEF Agrees
  <1>3. n.bssid \in mine /\ o.bssid = a
    <2>1. /\ n.bssids \in Seq(mine) /\ n.bssids # << >> /\ n.bssid = Head(n.bssids)
          /\ o.bssids \in Seq({a}) /\ o.bssids # << >> /\ o.bssid = Head(o.bssids)
      BY DEF Agrees
    <2> QED
      BY <2>1, HeadTailProperties
  <1>4. /\ n.strength = ApInfo[n.bssid].strength /\ o.strength = ApInfo[o.bssid].strength
        /\ n.strength \in Nat /\ o.strength \in Nat
    BY <1>3, StatusAssumption DEF Agrees
  <1>5. /\ best.bssid \in S /\ best.strength = ApInfo[best.bssid].strength
        /\ best.strength \in Nat /\ best.strength >= n.strength /\ best.strength >= o.strength
    BY <1>3, <1>4
  <1> DEFINE b == best.bssid
             u == <<b>> \o LeaveOut(all, {b})
  <1>6. u \in Seq(S) /\ ToSet(u) = S /\ IsInjective(u) /\ u # << >> /\ Head(u) = b
    <2> HIDE DEF b
    <2>1. b \in S
      BY <1>5 DEF b
    <2> HIDE DEF S
    <2> QED
      BY <1>2, <2>1, MergedBssids
  <1>7. m.bssids = u
    BY <1>1
  <1>8. m.bssid = b /\ m.strength = ApInfo[b].strength
    BY <1>1, <1>5
  <1>9. \A c \in S : ApInfo[c].strength <= m.strength
    <2>1. \A c \in S : ApInfo[c].strength \in Nat
      BY StatusAssumption
    <2>2. /\ \A c \in mine : ApInfo[c].strength <= n.strength
          /\ ApInfo[a].strength <= o.strength
      BY DEF Agrees
    <2>3. best.strength \in Nat /\ m.strength = best.strength
      BY <1>1, <1>5
    <2> HIDE DEF best
    <2> QED
      BY <1>4, <1>5, <2>1, <2>2, <2>3
  <1> HIDE DEF u, b, best, all
  <1>10. \A cap : cap \in m.security <=> \E c \in S : cap \in DecodeSecurity(ApInfo[c])
    <2>1. /\ \A cap : cap \in n.security <=> \E c \in mine : cap \in DecodeSecurity(ApInfo[c])
          /\ \A cap : cap \in o.security <=> \E c \in {a} : cap \in DecodeSecurity(ApInfo[c])
      BY Zenon DEF Agrees
    <2>2. \A cap : cap \in m.security <=> cap \in n.security \/ cap \in o.security
      BY <1>1, Zenon
    <2> QED
      BY <2>1, <2>2, Zenon
  <1>11. /\ m.secured \in BOOLEAN
         /\ m.secured <=> \E c \in S : ~IsOpen(DecodeSecurity(ApInfo[c]))
    <2>1. /\ n.secured <=> \E c \in mine : ~IsOpen(DecodeSecurity(ApInfo[c]))
          /\ o.secured <=> \E c \in {a} : ~IsOpen(DecodeSecurity(ApInfo[c]))
      BY Zenon DEF Agrees
    <2>2. m.secured \in BOOLEAN /\ (m.secured <=> n.secured \/ o.secured)
      BY <1>1, Zenon
    <2> QED
      BY <2>1, <2>2, Zenon
  <1>12. m.active \in BOOLEAN /\ (m.ip # None => m.active)
    <2>1. (n.ip # None => n.active) /\ (o.ip # None => o.active)
      BY Zenon DEF Agrees
    <2>2. m.active \in BOOLEAN /\ (m.active <=> n.active \/ o.active)
      BY <1>1, Zenon
    <2> QED
      BY <1>1, <2>1, <2>2, Zenon
  <1>13. DOMAIN m = Fields /\ m.dev = k[1] /\ m.ssid = k[2]
    BY <1>1 DEF Agrees
  <1>14. Agrees(m, k, S)
    BY <1>6, <1>7, <1>8, <1>9, <1>10, <1>11, <1>12, <1>13 DEF Agrees
  <1> QED
    BY <1>14 DEF m

\* The rows of access points: each of an access point of its own.
LEMMA RowsShown ==
    ASSUME Inv, Shown, ListsAps
    PROVE  /\ found \in Seq(ToSet(found)) /\ IsInjective(found)
           /\ Apart(ToSet(found))
           /\ \A r \in ToSet(found) :
                 r.ap \in Aps /\ r.dev = ApInfo[r.ap].dev /\ r.active \in BOOLEAN
  <1>1. found \in Seq(RowsOver(Aps \cup wasActive))
    BY DEF Inv, Rows
  <1>2. Len(found) \in Nat /\ DOMAIN found = 1 .. Len(found)
        /\ found = [i \in 1 .. Len(found) |-> found[i]]
    BY <1>1, LenProperties
  <1>3. \A i \in 1 .. Len(found) : found[i] \in ToSet(found)
    BY <1>2 DEF ToSet
  <1>4. found \in Seq(ToSet(found))
    BY <1>2, <1>3, IsASeq
  <1>5. IsInjective(found)
    BY DEF Shown, IsInjective
  <1>6. \A r \in ToSet(found) : r \in RowsOver(Aps \cup wasActive)
    BY <1>1, Members
  <1>7. \A r \in ToSet(found) : r.active \in BOOLEAN
    BY <1>6 DEF RowsOver
  <1>8. \A r \in ToSet(found) : r.ap \in Aps /\ r.dev = ApInfo[r.ap].dev
    BY DEF Shown, ToSet
  <1>9. \A r, q \in ToSet(found) : r.ap = q.ap => r = q
    BY DEF Shown, ToSet
  <1> QED
    BY <1>4, <1>5, <1>7, <1>8, <1>9 DEF Apart

LEMMA MergeNextKeeps == Inv /\ ListsInv /\ AirInv /\ MergeNext => AirInv'
  <1> SUFFICES ASSUME Inv, ListsInv, AirInv, MergeNext PROVE AirInv'
    OBVIOUS
  <1> DEFINE r == Head(todo)
             key == <<r.dev, ApInfo[r.ap].ssid>>
             net == NetworkOf(r.ap, r.active, IF r.active THEN link[r.dev] ELSE None)
  <1>1. /\ pc = "merge" /\ todo # << >> /\ todo' = Tail(todo)
        /\ nets' = [k \in DOMAIN nets \cup {key} |->
                       IF k # key THEN nets[k]
                       ELSE IF key \in DOMAIN nets THEN MergeAp(nets[key], net) ELSE net]
        /\ UNCHANGED <<op, phase, pc, found, left, cur>>
    BY DEF MergeNext
  <1>2. op.name = "networks" /\ phase = "walk"
    BY <1>1 DEF ListsInv, Purpose, AirInv, Unmerged
  <1>3. /\ todo \in Seq(ToSet(found)) /\ IsInjective(todo)
        /\ DOMAIN nets = {KeyOf(q) : q \in MergedRows}
        /\ \A k \in DOMAIN nets : Agrees(nets[k], k, ApsOf(MergedRows, k))
    BY <1>1 DEF AirInv, Merging
  <1>4. /\ Tail(todo) \in Seq(ToSet(found)) /\ IsInjective(Tail(todo))
        /\ ToSet(Tail(todo)) = ToSet(todo) \ {r} /\ r \in ToSet(todo)
        /\ r \in ToSet(found)
    BY <1>1, <1>3, Advancing, TailLacks
  <1>5. MergedRows' = MergedRows \cup {r}
    BY <1>1, <1>4 DEF MergedRows
  <1>6. ListsAps /\ \A q \in ToSet(found) :
           q.ap \in Aps /\ q.dev = ApInfo[q.ap].dev /\ q.active \in BOOLEAN
    BY <1>2, RowsShown DEF ListsAps, AirInv
  <1>7. key = KeyOf(r) /\ key = <<ApInfo[r.ap].dev, ApInfo[r.ap].ssid>>
    BY <1>4, <1>6 DEF KeyOf
  <1>8. Agrees(net, key, {r.ap})
    <2>1. Agrees(net, <<ApInfo[r.ap].dev, ApInfo[r.ap].ssid>>, {r.ap})
      <3> DEFINE ip == IF r.active THEN link[r.dev] ELSE None
      <3>1. r.ap \in Aps /\ r.active \in BOOLEAN /\ (ip # None => r.active)
        BY <1>4, <1>6
      <3> HIDE DEF ip, r
      <3>2. Agrees(NetworkOf(r.ap, r.active, ip), <<ApInfo[r.ap].dev, ApInfo[r.ap].ssid>>, {r.ap})
        BY <3>1, OneAgrees
      <3> QED
        BY <3>2 DEF ip
    <2> HIDE DEF net, key
    <2> QED
      BY <1>7, <2>1
  <1> HIDE DEF r, key, net
  <1>9. /\ DOMAIN nets' = DOMAIN nets \cup {key}
        /\ \A k \in DOMAIN nets : k # key => nets'[k] = nets[k]
        /\ nets'[key] = IF key \in DOMAIN nets THEN MergeAp(nets[key], net) ELSE net
    BY <1>1
  <1>10. DOMAIN nets' = {KeyOf(q) : q \in MergedRows'}
    BY <1>3, <1>5, <1>7, <1>9
  <1>11. /\ ApsOf(MergedRows', key) = ApsOf(MergedRows, key) \cup {r.ap}
         /\ \A k : k # key => ApsOf(MergedRows', k) = ApsOf(MergedRows, k)
    BY <1>5, <1>7 DEF ApsOf
  <1>12. ASSUME NEW k \in DOMAIN nets' PROVE Agrees(nets'[k], k, ApsOf(MergedRows', k))
    <2>1. CASE k # key
      <3>1. k \in DOMAIN nets /\ nets'[k] = nets[k] /\ ApsOf(MergedRows', k) = ApsOf(MergedRows, k)
        BY <1>9, <1>11, <2>1
      <3>2. Agrees(nets[k], k, ApsOf(MergedRows, k))
        BY <1>3, <3>1
      <3> QED
        BY <3>1, <3>2, Zenon
    <2>2. CASE k = key /\ key \in DOMAIN nets
      <3>1. Agrees(nets[key], key, ApsOf(MergedRows, key))
        BY <1>3, <2>2
      <3>2. ApsOf(MergedRows, key) \in SUBSET Aps /\ r.ap \in Aps
        BY <1>4, <1>6 DEF ApsOf, MergedRows
      <3>3. Agrees(MergeAp(nets[key], net), key, ApsOf(MergedRows, key) \cup {r.ap})
        BY <1>8, <3>1, <3>2, MergeAgrees
      <3>4. nets'[key] = MergeAp(nets[key], net)
        BY <1>9, <2>2, Zenon
      <3> QED
        BY <1>11, <2>2, <3>3, <3>4, Zenon
    <2>3. CASE k = key /\ key \notin DOMAIN nets
      <3>1. ApsOf(MergedRows, key) = {}
        BY <1>3, <2>3 DEF ApsOf
      <3>2. ApsOf(MergedRows', key) = {r.ap}
        BY <1>11, <3>1
      <3>3. nets'[key] = net
        BY <1>9, <2>3, Zenon
      <3> QED
        BY <1>8, <2>3, <3>2, <3>3, Zenon
    <2> QED
      BY <2>1, <2>2, <2>3
  <1>13. Merging'
    <2>1. todo' \in Seq(ToSet(found')) /\ IsInjective(todo')
      BY <1>1, <1>4
    <2> QED
      BY <1>10, <1>12, <2>1, Zenon DEF Merging
  <1>14. Shown' /\ Unmerged' /\ MergedFaithful' /\ RowsFaithful'
    BY <1>1, <1>2 DEF AirInv, Shown, ListsAps, Unmerged, MergedFaithful, RowsFaithful, Returned
  <1> QED
    BY <1>13, <1>14 DEF AirInv

\* All are merged: every network agrees with all of its access points.
LEMMA MarkKnownKeeps == Inv /\ ListsInv /\ AirInv /\ MarkKnown => AirInv'
  <1> SUFFICES ASSUME Inv, ListsInv, AirInv, MarkKnown PROVE AirInv'
    OBVIOUS
  <1> DEFINE marked(k) == [nets[k] EXCEPT !.known = KnownWifi(nets[k].ssid) # {}]
  <1>1. /\ pc = "merge" /\ todo = << >> /\ pc' = "done"
        /\ result'.value = {marked(k) : k \in DOMAIN nets}
        /\ UNCHANGED <<op, phase, todo, found, left, cur, nets>>
    BY DEF MarkKnown, Answer, Finish
  <1>2. op.name = "networks" /\ phase = "walk"
    BY <1>1 DEF ListsInv, Purpose, AirInv, Unmerged
  <1>3. MergedRows = ToSet(found)
    BY <1>1, NoRows DEF MergedRows
  <1>4. /\ DOMAIN nets = {KeyOf(q) : q \in ToSet(found)}
        /\ \A k \in DOMAIN nets : Agrees(nets[k], k, ApsOf(ToSet(found), k))
    BY <1>1, <1>3 DEF AirInv, Merging
  <1> DEFINE Faithful(f, n) ==
               LET mine == {r.ap : r \in {q \in ToSet(f) :
                               q.dev = n.dev /\ ApInfo[q.ap].ssid = n.ssid}}
               IN /\ ToSet(n.bssids) = mine /\ Len(n.bssids) = Cardinality(mine)
                  /\ n.bssid = Head(n.bssids)
                  /\ n.strength = ApInfo[n.bssid].strength
                  /\ \A a \in mine : ApInfo[a].strength <= n.strength
                  /\ n.secured = (\E a \in mine : ~IsOpen(DecodeSecurity(ApInfo[a])))
                  /\ PreferredConnectType(n.security) = "open" =>
                         \A a \in mine : PreferredConnectType(DecodeSecurity(ApInfo[a])) = "open"
                  /\ n.ip # None => n.active
  <1>5. ASSUME NEW k \in DOMAIN nets PROVE Faithful(found, marked(k))
    <2> DEFINE n == marked(k)
               mine == {r.ap : r \in {q \in ToSet(found) :
                               q.dev = n.dev /\ ApInfo[q.ap].ssid = n.ssid}}
    <2>1. Agrees(nets[k], k, ApsOf(ToSet(found), k))
      BY <1>4
    <2>2. DOMAIN nets[k] = Fields
      BY <2>1 DEF Agrees
    <2>3. /\ n.dev = nets[k].dev /\ n.ssid = nets[k].ssid /\ n.bssid = nets[k].bssid
          /\ n.bssids = nets[k].bssids /\ n.strength = nets[k].strength
          /\ n.security = nets[k].security /\ n.secured = nets[k].secured
          /\ n.active = nets[k].active /\ n.ip = nets[k].ip
      BY <2>2 DEF Fields
    <2>4. n.dev = k[1] /\ n.ssid = k[2]
      BY <2>1, <2>3 DEF Agrees
    <2> HIDE DEF n
    <2>5. PICK q \in ToSet(found) : k = KeyOf(q)
      BY <1>4
    <2>6. k = <<k[1], k[2]>>
      BY <2>5 DEF KeyOf
    <2>7. \A p : KeyOf(p) = k <=> p.dev = n.dev /\ ApInfo[p.ap].ssid = n.ssid
      BY <2>4, <2>6 DEF KeyOf
    <2>8. mine = ApsOf(ToSet(found), k)
      BY <2>7 DEF ApsOf
    <2> HIDE DEF mine
    <2>9. /\ n.bssids \in Seq(mine) /\ ToSet(n.bssids) = mine /\ IsInjective(n.bssids)
          /\ n.bssid = Head(n.bssids) /\ n.strength = ApInfo[n.bssid].strength
          /\ \A a \in mine : ApInfo[a].strength <= n.strength
      BY <2>1, <2>3, <2>8 DEF Agrees
    <2>10. Len(n.bssids) = Cardinality(mine)
      BY <2>9, CanEnumerate
    <2>11. n.secured = (\E a \in mine : ~IsOpen(DecodeSecurity(ApInfo[a])))
      BY <2>1, <2>3, <2>8, Zenon DEF Agrees
    <2>12. n.ip # None => n.active
      BY <2>1, <2>3, Zenon DEF Agrees
    <2>13. ASSUME PreferredConnectType(n.security) = "open", NEW a \in mine
           PROVE  PreferredConnectType(DecodeSecurity(ApInfo[a])) = "open"
      <3> DEFINE sec == DecodeSecurity(ApInfo[a])
      <3>1. \A cap : cap \in sec => cap \in n.security
        BY <2>1, <2>3, <2>8, Zenon DEF Agrees
      <3> HIDE DEF sec
      <3>2. /\ ~IsEnterprise(n.security) /\ "sae" \notin n.security /\ "psk" \notin n.security
            /\ n.security \cap {"owe", "owe_tm"} = {}
        BY <2>13 DEF PreferredConnectType
      <3>3. /\ ~IsEnterprise(sec) /\ "sae" \notin sec /\ "psk" \notin sec
            /\ sec \cap {"owe", "owe_tm"} = {}
        BY <3>1, <3>2 DEF IsEnterprise
      <3>4. PreferredConnectType(sec) = "open"
        BY <3>3 DEF PreferredConnectType
      <3> QED
        BY <3>4 DEF sec
    <2> QED
      BY <2>9, <2>10, <2>11, <2>12, <2>13 DEF n, mine
  <1>6. MergedFaithful'
    <2> SUFFICES ASSUME NEW n \in result'.value PROVE Faithful(found', n)
      BY Zenon DEF MergedFaithful
    <2>1. PICK k \in DOMAIN nets : n = marked(k)
      BY <1>1
    <2> HIDE DEF Faithful, marked
    <2> QED
      BY <1>1, <1>5, <2>1, Zenon
  <1>7. Shown' /\ Unmerged' /\ Merging' /\ RowsFaithful'
    BY <1>1, <1>2 DEF AirInv, Shown, ListsAps, Unmerged, Merging, RowsFaithful, Returned
  <1> QED
    BY <1>6, <1>7 DEF AirInv

-----------------------------------------------------------------------------
(* The rows of a snapshot.                                                 *)

AtMostOne(S) == \A v, w \in S : v = w

LEMMA FewElements ==
    ASSUME NEW S
    PROVE  /\ AtMostOne(S) => Cardinality(S) <= 1
           /\ AtMostOne(S) /\ S # {} => Cardinality(S) = 1
           /\ S = {} => Cardinality(S) = 0
  <1>1. Cardinality({}) = 0
    BY FS_EmptySet
  <1>2. ASSUME AtMostOne(S), S # {} PROVE Cardinality(S) = 1
    <2>1. PICK v : S = {v}
      BY <1>2 DEF AtMostOne
    <2> QED
      BY <2>1, FS_Singleton
  <1> QED
    BY <1>1, <1>2

\* The access points that a row shows, and the row.
GroupOf(k) ==
    {r \in ToSet(found) :
        ApInfo[r.ap].ssid # Hidden /\ ApInfo[r.ap].dev = k[1] /\ ApInfo[r.ap].ssid = k[2]}
RowOf(k) ==
    [dev |-> k[1], ssid |-> k[2], aps |-> Sorted(GroupOf(k)),
     saved |-> {p \in Profiles : ProfileMatches(p, k[1], k[2], GroupOf(k))},
     active |-> \E c \in WifiOn(k[1]) : c.ssid = k[2] \/ \E r \in GroupOf(k) : r.ap = c.bssid]
GroupKeys ==
    {<<ApInfo[r.ap].dev, ApInfo[r.ap].ssid>> :
        r \in {q \in ToSet(found) : ApInfo[q.ap].ssid # Hidden}}

LEMMA GroupsAreRows == WifiGroups = {RowOf(k) : k \in GroupKeys}
  <1> DEFINE shown == {r \in ToSet(found) : ApInfo[r.ap].ssid # Hidden}
             Group(d, s) == {r \in shown : ApInfo[r.ap].dev = d /\ ApInfo[r.ap].ssid = s}
  <1>1. \A k : Group(k[1], k[2]) = GroupOf(k)
    BY DEF GroupOf
  <1> QED
    BY <1>1 DEF WifiGroups, RowOf, GroupKeys

\* A row shows the access points of its radio and SSID, the strongest first.
LEMMA RowShows ==
    ASSUME Inv, Shown, ListsAps, NEW k
    PROVE  LET aps == Sorted(GroupOf(k))
           IN /\ aps \in Seq(GroupOf(k)) /\ ToSet(aps) = GroupOf(k)
              /\ \A i \in 1 .. Len(aps) - 1 :
                    ApInfo[aps[i].ap].strength >= ApInfo[aps[i + 1].ap].strength
  <1> DEFINE G == GroupOf(k)
             aps == Sorted(G)
  <1>1. IsFiniteSet(ToSet(found)) /\ Apart(ToSet(found))
    BY RowsShown, CanEnumerate
  <1>2. G \in SUBSET ToSet(found)
    BY DEF GroupOf
  <1> HIDE DEF G
  <1>3. IsFiniteSet(G) /\ Apart(G)
    BY <1>1, <1>2, FS_Subset DEF Apart
  <1>4. aps \in SetToSeqs(G) /\ InOrder(aps)
    BY <1>3, SortedSorts
  <1> HIDE DEF aps
  <1>5. aps \in Seq(G) /\ ToSet(aps) = G
    BY <1>3, <1>4, Enumerated
  <1>6. ASSUME NEW i \in 1 .. Len(aps) - 1
        PROVE  ApInfo[aps[i].ap].strength >= ApInfo[aps[i + 1].ap].strength
    <2>1. /\ i \in DOMAIN aps /\ i + 1 \in DOMAIN aps /\ i < i + 1
          /\ aps[i] \in G /\ aps[i + 1] \in G
      BY <1>5, LenProperties, ElementOfSeq
    <2>2. Before(aps[i], aps[i + 1])
      BY <1>4, <2>1 DEF InOrder
    <2>3. ApInfo[aps[i].ap].strength \in Nat /\ ApInfo[aps[i + 1].ap].strength \in Nat
      BY <1>3, <2>1, StatusAssumption DEF Apart
    <2> QED
      BY <2>2, <2>3 DEF Before
  <1> QED
    BY <1>5, <1>6 DEF aps, G

\* One SSID of a radio is active: that of its one connection.
LEMMA OneRowActive ==
    ASSUME Inv, ListsInv, Shown, op.name = "snapshot", NEW j \in GroupKeys, NEW k \in GroupKeys,
           j[1] = k[1], RowOf(j).active, RowOf(k).active
    PROVE  j = k
  <1>1. \A r \in ToSet(found) : r.ap \in Aps /\ r.ap # None
    BY RowsShown, StatusAssumption DEF ListsAps
  <1>2. \A c, e \in WifiOn(k[1]) : c = e
    BY DEF ListsInv, Listed, WifiOn, ToSet
  <1>3. \A c \in WifiOn(k[1]) : c.bssid # None => ApInfo[c.bssid].ssid = c.ssid
    BY DEF ListsInv, Listed, WifiOn, ToSet
  <1>4. ASSUME NEW i \in GroupKeys, i[1] = k[1], RowOf(i).active
        PROVE  \E c \in WifiOn(k[1]) : i[2] = c.ssid
    <2>1. PICK c \in WifiOn(k[1]) : c.ssid = i[2] \/ \E r \in GroupOf(i) : r.ap = c.bssid
      BY <1>4 DEF RowOf
    <2>2. ASSUME NEW r \in GroupOf(i), r.ap = c.bssid PROVE i[2] = c.ssid
      BY <1>1, <1>3, <2>2 DEF GroupOf
    <2> QED
      BY <2>1, <2>2
  <1>5. j[2] = k[2]
    BY <1>2, <1>4
  <1>6. j = <<j[1], j[2]>> /\ k = <<k[1], k[2]>>
    BY DEF GroupKeys
  <1> QED
    BY <1>5, <1>6

LEMMA GroupsAreFaithful ==
    ASSUME Inv, ListsInv, Shown, op.name = "snapshot", NEW rows, rows = WifiGroups
    PROVE  /\ \A r \in ToSet(found) :
                 Cardinality({w \in rows : r \in ToSet(w.aps)})
                     = (IF ApInfo[r.ap].ssid = Hidden THEN 0 ELSE 1)
           /\ \A w \in rows : \A i \in 1..(Len(w.aps) - 1) :
                 ApInfo[w.aps[i].ap].strength >= ApInfo[w.aps[i + 1].ap].strength
           /\ \A w \in rows, p \in Profiles :
                 p \in w.saved <=>
                     /\ p \in KnownWifi(w.ssid)
                     /\ p.dev = None \/ p.dev = w.dev
                     /\ p.ap = None \/ \E r \in ToSet(w.aps) : r.ap = p.ap
           /\ \A d \in Wifi : Cardinality({w \in rows : w.dev = d /\ w.active}) <= 1
  <1>1. rows = {RowOf(k) : k \in GroupKeys}
    BY GroupsAreRows
  <1>2. ListsAps
    BY DEF ListsAps
  <1>3. ASSUME NEW k
        PROVE  /\ RowOf(k).dev = k[1] /\ RowOf(k).ssid = k[2] /\ RowOf(k).aps = Sorted(GroupOf(k))
               /\ RowOf(k).saved = {p \in Profiles : ProfileMatches(p, k[1], k[2], GroupOf(k))}
    BY DEF RowOf
  <1>4. \A k : ToSet(RowOf(k).aps) = GroupOf(k)
    <2> SUFFICES ASSUME NEW k PROVE ToSet(Sorted(GroupOf(k))) = GroupOf(k)
      BY <1>3
    <2> QED
      BY <1>2, RowShows
  <1>5. ASSUME NEW r \in ToSet(found)
        PROVE  Cardinality({w \in rows : r \in ToSet(w.aps)})
                   = (IF ApInfo[r.ap].ssid = Hidden THEN 0 ELSE 1)
    <2> DEFINE own == <<ApInfo[r.ap].dev, ApInfo[r.ap].ssid>>
               mine == {w \in rows : r \in ToSet(w.aps)}
    <2>1. \A k \in GroupKeys : r \in GroupOf(k) => k = own /\ ApInfo[r.ap].ssid # Hidden
      BY DEF GroupKeys, GroupOf
    <2>2. \A w \in mine : \E k \in GroupKeys : w = RowOf(k) /\ r \in GroupOf(k)
      BY <1>1, <1>4
    <2>3. \A w \in mine : w = RowOf(own) /\ ApInfo[r.ap].ssid # Hidden
      BY <2>1, <2>2
    <2>4. CASE ApInfo[r.ap].ssid = Hidden
      <3>1. mine = {}
        BY <2>3, <2>4
      <3> HIDE DEF mine
      <3>2. Cardinality(mine) = 0
        BY <3>1, FewElements
      <3> QED
        BY <2>4, <3>2 DEF mine
    <2>5. CASE ApInfo[r.ap].ssid # Hidden
      <3>1. own \in GroupKeys /\ r \in GroupOf(own)
        BY <2>5 DEF GroupKeys, GroupOf
      <3>2. RowOf(own) \in mine
        BY <1>1, <1>4, <3>1
      <3>3. AtMostOne(mine)
        BY <2>3 DEF AtMostOne
      <3> HIDE DEF mine
      <3>4. Cardinality(mine) = 1
        BY <3>2, <3>3, FewElements
      <3> QED
        BY <2>5, <3>4 DEF mine
    <2> QED
      BY <2>4, <2>5
  <1>6. ASSUME NEW w \in rows, NEW i \in 1..(Len(w.aps) - 1)
        PROVE  ApInfo[w.aps[i].ap].strength >= ApInfo[w.aps[i + 1].ap].strength
    <2>1. PICK k \in GroupKeys : w = RowOf(k)
      BY <1>1
    <2>2. w.aps = Sorted(GroupOf(k))
      BY <1>3, <2>1
    <2>3. \A n \in 1 .. Len(Sorted(GroupOf(k))) - 1 :
             ApInfo[Sorted(GroupOf(k))[n].ap].strength >= ApInfo[Sorted(GroupOf(k))[n + 1].ap].strength
      BY <1>2, RowShows
    <2> QED
      BY <2>2, <2>3
  <1>7. ASSUME NEW w \in rows, NEW p \in Profiles
        PROVE  p \in w.saved <=>
                  /\ p \in KnownWifi(w.ssid)
                  /\ p.dev = None \/ p.dev = w.dev
                  /\ p.ap = None \/ \E r \in ToSet(w.aps) : r.ap = p.ap
    <2>1. PICK k \in GroupKeys : w = RowOf(k)
      BY <1>1
    <2>2. /\ w.dev = k[1] /\ w.ssid = k[2] /\ ToSet(w.aps) = GroupOf(k)
          /\ w.saved = {q \in Profiles : ProfileMatches(q, k[1], k[2], GroupOf(k))}
      BY <1>3, <1>4, <2>1
    <2> QED
      BY <2>2 DEF ProfileMatches, KnownWifi
  <1>8. ASSUME NEW d \in Wifi
        PROVE  Cardinality({w \in rows : w.dev = d /\ w.active}) <= 1
    <2> DEFINE mine == {w \in rows : w.dev = d /\ w.active}
    <2>1. AtMostOne(mine)
      <3> SUFFICES ASSUME NEW v \in mine, NEW w \in mine PROVE v = w
        BY DEF AtMostOne
      <3>1. PICK j \in GroupKeys : v = RowOf(j)
        BY <1>1
      <3>2. PICK k \in GroupKeys : w = RowOf(k)
        BY <1>1
      <3>3. j[1] = k[1] /\ RowOf(j).active /\ RowOf(k).active
        BY <1>3, <3>1, <3>2
      <3>4. j = k
        BY <3>3, OneRowActive
      <3> QED
        BY <3>1, <3>2, <3>4
    <2> HIDE DEF mine
    <2>2. Cardinality(mine) <= 1
      BY <2>1, FewElements
    <2> QED
      BY <2>2 DEF mine
  <1> QED
    BY <1>5, <1>6, <1>7, <1>8

LEMMA EndOfWalkKeepsAir == Inv /\ ListsInv /\ AirInv /\ EndOfWalk => AirInv'
  <1> SUFFICES ASSUME Inv, ListsInv, AirInv, EndOfWalk PROVE AirInv'
    OBVIOUS
  <1>1. pc = "device" /\ phase = "walk" /\ UNCHANGED <<op, phase, cur, left, found, nets>>
    BY DEF EndOfWalk, Answer, Finish
  <1>2. CASE op.name = "networks" /\ todo' = found /\ pc' = "merge"
    <2>1. nets' = << >>
      BY <1>1, <1>2 DEF AirInv, Unmerged
    <2>2. found \in Seq(ToSet(found)) /\ IsInjective(found)
      BY <1>2, RowsShown DEF AirInv, ListsAps
    <2>3. MergedRows' = {}
      BY <1>1, <1>2 DEF MergedRows
    <2>4. DOMAIN nets' = {} /\ {KeyOf(q) : q \in MergedRows'} = {}
      BY <2>1, <2>3
    <2>5. Merging'
      BY <1>1, <1>2, <2>2, <2>4 DEF Merging
    <2> QED
      BY <1>1, <1>2, <2>5 DEF AirInv, Shown, ListsAps, Unmerged, MergedFaithful, RowsFaithful, Returned
  <1>3. CASE op.name \notin {"networks", "snapshot"} /\ pc' = "done"
    <2>1. Beside
      BY <1>1, <1>3 DEF Beside
    <2> QED
      BY <2>1, BesideKeeps
  <1>4. CASE op.name = "snapshot" /\ Answer(WifiGroups)
    <2>1. pc' = "done" /\ result'.value = WifiGroups
      BY <1>4 DEF Answer, Finish
    <2> DEFINE rows == result'.value
    <2>2. RowsFaithful'
      <3> HIDE DEF rows
      <3>1. rows = WifiGroups
        BY <2>1 DEF rows
      <3>2. /\ \A r \in ToSet(found) :
                 Cardinality({w \in rows : r \in ToSet(w.aps)})
                     = (IF ApInfo[r.ap].ssid = Hidden THEN 0 ELSE 1)
            /\ \A w \in rows : \A i \in 1..(Len(w.aps) - 1) :
                 ApInfo[w.aps[i].ap].strength >= ApInfo[w.aps[i + 1].ap].strength
            /\ \A w \in rows, p \in Profiles :
                 p \in w.saved <=>
                     /\ p \in KnownWifi(w.ssid)
                     /\ p.dev = None \/ p.dev = w.dev
                     /\ p.ap = None \/ \E r \in ToSet(w.aps) : r.ap = p.ap
            /\ \A d \in Wifi : Cardinality({w \in rows : w.dev = d /\ w.active}) <= 1
        BY <1>4, <3>1, GroupsAreFaithful DEF AirInv
      <3> QED
        BY <1>1, <3>2 DEF RowsFaithful, rows
    <2>3. Shown' /\ Unmerged' /\ Merging' /\ MergedFaithful'
      BY <1>1, <1>4, <2>1 DEF AirInv, Shown, ListsAps, Unmerged, Merging, MergedFaithful, Returned
    <2> QED
      BY <2>2, <2>3 DEF AirInv
  <1>5. \/ op.name = "networks" /\ todo' = found /\ pc' = "merge"
        \/ op.name \notin {"networks", "snapshot"} /\ pc' = "done"
        \/ op.name = "snapshot" /\ Answer(WifiGroups)
    BY DEF EndOfWalk, Answer, Finish
  <1> QED
    BY <1>2, <1>3, <1>4, <1>5

LEMMA AirKept == Inv /\ ListsInv /\ AirInv /\ [Next]_vars => AirInv'
  <1> SUFFICES ASSUME Inv, ListsInv, AirInv, [Next]_vars PROVE AirInv'
    OBVIOUS
  <1>1. CASE Network \/ UNCHANGED vars
    <2>1. UNCHANGED callVars
      BY <1>1 DEF Network, ApAppears, ApVanishes, Connects, Roams, Disconnects, VpnUp, VpnDown,
                  VpnForgotten, Unplugged, Changed, vars
    <2> QED
      BY <2>1, AirStays
  <1>2. ASSUME NEW o \in Ops, Begin(o) PROVE AirInv'
    BY <1>2, BeginKeepsAir
  <1>3. CASE \/ GetDevices
             \/ SsidAp \/ SsidNone \/ PickAp \/ PickAddress \/ PickNone \/ AddrNone
             \/ EndOfDevice
             \/ \E d \in ToSet(AllDevices) :
                   SsidDevice(d) \/ PickDevice(d) \/ AddrDevice(d) \/ WalkDevice(d)
    <2>1. Course /\ Unmerged /\ Purpose
      BY DEF Inv, AirInv, ListsInv
    <2> QED
      BY <1>3, <2>1, LookingIsBeside, BesideKeeps
  <1>4. CASE \/ GetPaths \/ ReadPath \/ PathGone \/ ReadPathDevice \/ EndOfPaths
             \/ ListSaved \/ ReadVpnPath \/ EndOfVpnPaths \/ EndOfProfiles
             \/ \E v \in Vpns : ReadProfile(v)
             \/ ReadInfoPath \/ ReadInfoSettings \/ ReadInfoDevice \/ EndOfInfo
    <2>1. Course /\ Unmerged /\ Purpose
      BY DEF Inv, AirInv, ListsInv
    <2> QED
      BY <1>4, <2>1, ListingIsBeside, BesideKeeps
  <1>5. CASE \E d \in ToSet(AllDevices) :
                ScanDevice(d) \/ ListDevice(d) \/ ListWifiDevice(d) \/ ListWiredDevice(d)
    BY <1>5, VisitKeepsAir
  <1>6. ASSUME NEW a \in Aps, ReadAp(a) PROVE AirInv'
    BY <1>6, ReadApKeepsAir
  <1>7. CASE ListAps \/ EndOfWalk \/ MergeNext \/ MarkKnown \/ Return
    BY <1>7, ListApsKeepsAir, EndOfWalkKeepsAir, MergeNextKeeps, MarkKnownKeeps, ReturnKeepsAir
  <1> QED
    BY <1>1, <1>2, <1>3, <1>4, <1>5, <1>6, <1>7 DEF Next, Caller

LEMMA AirInvariance == Spec => []AirInv
  BY InitInv, InvNext, InitLists, ListsKept, InitAir, AirKept, PTL DEF Spec

\* A merged network is what its access points are together, in whatever order they
\* were read: as strong as the strongest, which represents it and heads the list of
\* all BSSIDs; secured if any is; addresses only if one is active (Network::merge_ap,
\* list_networks).
THEOREM MergedIsFaithful == Spec => []MergedFaithful
  <1>1. AirInv => MergedFaithful
    BY DEF AirInv
  <1> QED
    BY <1>1, AirInvariance, PTL

\* The rows of a snapshot share out the access points that were read, the strongest
\* first; a profile of another radio or an absent BSSID is attached to none; at most
\* one row of a radio is active (NetworkSnapshot::wifi_groups).
THEOREM RowsAreFaithful == Spec => []RowsFaithful
  <1>1. AirInv => RowsFaithful
    BY DEF AirInv
  <1> QED
    BY <1>1, AirInvariance, PTL

=============================================================================
