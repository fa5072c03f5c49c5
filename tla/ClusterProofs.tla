----------------------------- MODULE ClusterProofs -----------------------------
(* Proofs about the instrument cluster and the sender of the ECU: for any       *)
(* number of status frames, any intervals and any melodies that the constants   *)
(* of the code allow.                                                           *)
EXTENDS MCCluster, Sequences, FiniteSetTheorems, TLAPS

--------------------------------------------------------------------------------
(* Least and greatest elements                                                  *)

LEMMA Least ==
  ASSUME NEW T \in SUBSET Nat, T # {}
  PROVE  \E x \in T : \A y \in T : x <= y
<1> DEFINE Below(t) == {u \in T : u < t}
           Family == {Below(t) : t \in T}
<1>1. \A t \in T : Below(t) \in FiniteSubsetsOf(Nat)
  <2> TAKE t \in T
  <2>1. T \subseteq Nat /\ t \in Nat /\ Below(t) \subseteq T
    OBVIOUS
  <2>2. \A u \in Below(t) : u <= t
    <3> TAKE u \in Below(t)
    <3>1. u \in Nat /\ u < t
      BY <2>1
    <3> QED BY <2>1, <3>1
  <2>3. IsFiniteSet(Below(t))
    <3> HIDE DEF Below
    <3> QED BY <2>1, <2>2, FS_BoundedSetOfNaturals
  <2> QED BY <2>3 DEF FiniteSubsetsOf
<1>2. Family \subseteq FiniteSubsetsOf(Nat) /\ Family # {}
  BY <1>1
<1> HIDE DEF Family
<1>3. PICK m \in Family : \A n \in Family : ~(<<n, m>> \in StrictSubsetOrdering(Nat))
  BY <1>2, WFMin, FS_StrictSubsetOrderingWellFounded
<1>4. PICK t \in T : m = Below(t)
  BY DEF Family
<1>5. ASSUME NEW u \in T, u < t PROVE FALSE
  <2>1. T \subseteq Nat /\ u \in Nat /\ t \in Nat
    OBVIOUS
  <2>2. Below(u) \subseteq Nat /\ Below(t) \subseteq Nat
    BY <2>1
  <2>3. Below(u) \subseteq Below(t)
    <3> SUFFICES ASSUME NEW v \in Below(u) PROVE v \in T /\ v < t
      OBVIOUS
    <3>1. v \in T /\ v \in Nat /\ v < u
      BY <2>1
    <3> QED BY <1>5, <2>1, <3>1
  <2>4. u \in Below(t) /\ u \notin Below(u)
    BY <1>5, <2>1
  <2>5. Below(u) \in Family
    BY DEF Family
  <2> HIDE DEF Below
  <2>6. <<Below(u), Below(t)>> \in StrictSubsetOrdering(Nat)
    BY <2>2, <2>3, <2>4 DEF StrictSubsetOrdering
  <2> QED BY <1>3, <1>4, <2>5, <2>6
<1> QED BY <1>5

LEMMA Greatest ==
  ASSUME NEW n \in Nat, NEW S \in SUBSET (1 .. n), S # {}
  PROVE  \E x \in S : \A y \in S : x >= y
<1> DEFINE T == {n - s : s \in S}
<1>0. \A s \in S : s \in 1 .. n /\ n - s \in Nat
  <2> TAKE s \in S
  <2>1. s \in 1 .. n
    OBVIOUS
  <2> QED BY <2>1
<1>1. T \in SUBSET Nat /\ T # {}
  BY <1>0
<1> HIDE DEF T
<1>2. PICK t \in T : \A y \in T : t <= y
  BY <1>1, Least
<1>3. PICK x \in S : t = n - x
  BY DEF T
<1>4. \A y \in S : n - x <= n - y
  BY <1>2, <1>3 DEF T
<1>5. \A y \in S : x >= y
  BY <1>0, <1>4
<1> QED BY <1>5

--------------------------------------------------------------------------------
(* Turns: how far slot s is from the slot x that is next, of n                  *)

TurnOf(n, x, s) == (s + n - x) % n

LEMMA TurnValue ==
  ASSUME NEW n \in Nat \ {0}, NEW x \in 0 .. n - 1, NEW s \in 0 .. n - 1
  PROVE  TurnOf(n, x, s) = IF s >= x THEN s - x ELSE s + n - x
BY DEF TurnOf

LEMMA NextSlot ==
  ASSUME NEW n \in Nat \ {0}, NEW t \in 0 .. n - 1
  PROVE  /\ (t + 1) % n \in 0 .. n - 1
         /\ (t + 1) % n = IF t + 1 = n THEN 0 ELSE t + 1
OBVIOUS

(* A slot that comes before another still does after a slot in front of it was  *)
(* served, and it comes before the slot that was.                               *)
LEMMA TurnsShift ==
  ASSUME NEW n \in Nat \ {0}, NEW x \in 0 .. n - 1, NEW t \in 0 .. n - 1,
         NEW s \in 0 .. n - 1, NEW r \in 0 .. n - 1,
         s # t, TurnOf(n, x, t) <= TurnOf(n, x, s)
  PROVE  LET y == (t + 1) % n IN
           /\ TurnOf(n, x, s) < TurnOf(n, x, r) => TurnOf(n, y, s) < TurnOf(n, y, r)
           /\ TurnOf(n, y, s) < TurnOf(n, y, t)
<1> DEFINE y == (t + 1) % n
<1>1. y \in 0 .. n - 1 /\ y = IF t + 1 = n THEN 0 ELSE t + 1
  BY NextSlot
<1> HIDE DEF y
<1>2. /\ TurnOf(n, x, s) = IF s >= x THEN s - x ELSE s + n - x
      /\ TurnOf(n, x, t) = IF t >= x THEN t - x ELSE t + n - x
      /\ TurnOf(n, x, r) = IF r >= x THEN r - x ELSE r + n - x
      /\ TurnOf(n, y, s) = IF s >= y THEN s - y ELSE s + n - y
      /\ TurnOf(n, y, t) = IF t >= y THEN t - y ELSE t + n - y
      /\ TurnOf(n, y, r) = IF r >= y THEN r - y ELSE r + n - y
  BY <1>1, TurnValue
<1>3. /\ TurnOf(n, x, s) < TurnOf(n, x, r) => TurnOf(n, y, s) < TurnOf(n, y, r)
      /\ TurnOf(n, y, s) < TurnOf(n, y, t)
  BY <1>1, <1>2
<1> QED BY <1>3 DEF y

LEMMA NearestExists ==
  ASSUME NEW n \in Nat \ {0}, NEW x \in 0 .. n - 1,
         NEW P \in SUBSET (0 .. n - 1), P # {}
  PROVE  \E s \in P : \A r \in P : TurnOf(n, x, s) <= TurnOf(n, x, r)
<1> DEFINE T == {TurnOf(n, x, s) : s \in P}
<1>1. \A s \in P : TurnOf(n, x, s) \in Nat
  BY TurnValue
<1>2. T \in SUBSET Nat /\ T # {}
  BY <1>1
<1> HIDE DEF T
<1>3. \E t \in T : \A y \in T : t <= y
  BY <1>2, Least
<1> QED BY <1>3 DEF T

--------------------------------------------------------------------------------
(* The sender alone: the status frames take turns                               *)

Overtaken ==
  /\ passed \in [Sender!Slot -> [Sender!Slot -> {0, 1}]]
  /\ \A s, r \in Sender!Slot :
       passed[s][r] = 1 => /\ s \in tx.pending
                           /\ TurnOf(MoreSlots, tx.next, s) < TurnOf(MoreSlots, tx.next, r)

(* A status frame that another one overtook waits in front of that one.         *)
SendInv == Sender!SenderTypeOK /\ Overtaken

LEMMA SlotFacts ==
  /\ MoreSlots \in Nat \ {0} /\ Sender!Slot = 0 .. MoreSlots - 1
  /\ Spacing \in Nat \ {0} /\ Retry \in Nat /\ Heartbeat \in Nat \ {0}
BY SenderAssumption DEF Sender!Slot

LEMMA SendStart == Sender!SendInit => SendInv
<1> SUFFICES ASSUME Sender!SendInit PROVE SendInv
  OBVIOUS
<1>1. Sender!SenderTypeOK
  BY SlotFacts DEF Sender!SendInit, Sender!SenderTypeOK, Sender!Silent, Sender!NeverSent
<1>2. \A s, r \in Sender!Slot : passed[s][r] = 0
  BY DEF Sender!SendInit, Sender!NonePassed
<1>3. passed \in [Sender!Slot -> [Sender!Slot -> {0, 1}]]
  BY DEF Sender!SendInit, Sender!NonePassed
<1> QED BY <1>1, <1>2, <1>3 DEF SendInv, Overtaken

(* A service of the queue, to which a frame may have been added.                *)
LEMMA ServiceKeepsTurns ==
  ASSUME SendInv, NEW pending \in SUBSET Sender!Slot, tx.pending \subseteq pending,
         NEW emits, Sender!Service(pending, emits)
  PROVE  /\ tx' \in [pending : SUBSET Sender!Slot, next : Sender!Slot, since : 0 .. Spacing]
         /\ Overtaken'
<1> DEFINE n == MoreSlots
           x == tx.next
<1>0. /\ tx \in [pending : SUBSET Sender!Slot, next : Sender!Slot, since : 0 .. Spacing]
      /\ x \in 0 .. n - 1
      /\ n \in Nat \ {0} /\ Sender!Slot = 0 .. n - 1 /\ Spacing \in Nat
      /\ passed \in [Sender!Slot -> [Sender!Slot -> {0, 1}]]
  BY SlotFacts DEF SendInv, Overtaken, Sender!SenderTypeOK
<1>1. CASE ~Sender!MayServe(pending)
  <2>1. tx' = [tx EXCEPT !.pending = pending] /\ passed' = passed
    BY <1>1 DEF Sender!Service
  <2>2. /\ tx' \in [pending : SUBSET Sender!Slot, next : Sender!Slot, since : 0 .. Spacing]
        /\ tx'.pending = pending /\ tx'.next = tx.next
    BY <1>0, <2>1
  <2> QED BY <2>1, <2>2 DEF SendInv, Overtaken
<1>2. CASE Sender!MayServe(pending)
  <2> DEFINE t == Sender!InTurn(pending)
  <2>1. Sender!Serve(pending) /\ pending # {}
    BY <1>2 DEF Sender!Service, Sender!MayServe
  <2>2. t \in pending /\ \A r \in pending : TurnOf(n, x, t) <= TurnOf(n, x, r)
    <3>1. \E s \in pending : \A r \in pending : TurnOf(n, x, s) <= TurnOf(n, x, r)
      BY <1>0, <2>1, NearestExists
    <3>2. \A s : Sender!Turn(s) = TurnOf(n, x, s)
      BY DEF Sender!Turn, TurnOf
    <3>3. \E s \in pending : \A r \in pending : Sender!Turn(s) <= Sender!Turn(r)
      BY <3>1, <3>2
    <3>4. t \in pending /\ \A r \in pending : Sender!Turn(t) <= Sender!Turn(r)
      BY <3>3 DEF Sender!InTurn
    <3> QED BY <3>2, <3>4
  <2>3. /\ tx' = [pending |-> pending \ {t}, next |-> (t + 1) % n, since |-> 0]
        /\ passed' = [r \in Sender!Slot |->
             IF r \in pending \ {t} THEN [passed[r] EXCEPT ![t] = Sender!Older(@, 2)]
                                    ELSE Sender!NonePassed]
    BY <2>1 DEF Sender!Serve
  <2> HIDE DEF t
  <2>4. t \in 0 .. n - 1
    BY <1>0, <2>2
  <2> DEFINE y == (t + 1) % n
  <2>5. y \in 0 .. n - 1
    BY <1>0, <2>4, NextSlot
  <2>6. tx'.pending = pending \ {t} /\ tx'.next = y
    BY <2>3
  <2>7. tx' \in [pending : SUBSET Sender!Slot, next : Sender!Slot, since : 0 .. Spacing]
    <3>1. pending \ {t} \in SUBSET Sender!Slot
      OBVIOUS
    <3>2. y \in Sender!Slot
      BY <1>0, <2>5
    <3>3. 0 \in 0 .. Spacing
      BY <1>0
    <3>4. tx' = [pending |-> pending \ {t}, next |-> y, since |-> 0]
      BY <2>3
    <3> HIDE DEF y
    <3> QED BY <3>1, <3>2, <3>3, <3>4
  <2>8. \A r \in pending \ {t} : passed[r][t] = 0
    <3> SUFFICES ASSUME NEW r \in pending \ {t}, passed[r][t] = 1 PROVE FALSE
      BY <1>0, <2>4
    <3>1. TurnOf(n, x, r) < TurnOf(n, x, t)
      BY <1>0, <2>4 DEF SendInv, Overtaken
    <3>2. TurnOf(n, x, t) <= TurnOf(n, x, r)
      BY <2>2
    <3>3. r \in 0 .. n - 1
      BY <1>0
    <3>4. TurnOf(n, x, t) = IF t >= x THEN t - x ELSE t + n - x
      BY <1>0, <2>4, TurnValue
    <3>5. TurnOf(n, x, r) = IF r >= x THEN r - x ELSE r + n - x
      BY <1>0, <3>3, TurnValue
    <3>6. TurnOf(n, x, t) \in Int /\ TurnOf(n, x, r) \in Int
      BY <1>0, <2>4, <3>3, <3>4, <3>5
    <3> QED BY <3>1, <3>2, <3>6
  <2>9. \A s, r \in Sender!Slot :
          passed'[s][r] = IF s \in pending \ {t} THEN IF r = t THEN 1 ELSE passed[s][r]
                                                 ELSE 0
    <3>1. Sender!Older(0, 2) = 1
      BY DEF Sender!Older
    <3>2. \A s \in Sender!Slot : passed'[s] =
            IF s \in pending \ {t} THEN [passed[s] EXCEPT ![t] = Sender!Older(@, 2)]
                                   ELSE Sender!NonePassed
      BY <2>3
    <3>3. \A s \in pending \ {t} : passed'[s] = [passed[s] EXCEPT ![t] = 1]
      BY <1>0, <2>8, <3>1, <3>2
    <3>4. \A s \in pending \ {t} : \A r \in Sender!Slot :
            passed'[s][r] = IF r = t THEN 1 ELSE passed[s][r]
      <4> TAKE s \in pending \ {t}
      <4> TAKE r \in Sender!Slot
      <4>1. passed[s] \in [Sender!Slot -> {0, 1}]
        BY <1>0
      <4> QED BY <3>3, <4>1
    <3>5. \A s \in Sender!Slot \ (pending \ {t}) : \A r \in Sender!Slot : passed'[s][r] = 0
      BY <3>2 DEF Sender!NonePassed
    <3> QED BY <3>4, <3>5
  <2>10. passed' \in [Sender!Slot -> [Sender!Slot -> {0, 1}]]
    <3>1. \A s \in Sender!Slot : DOMAIN passed'[s] = Sender!Slot
                                 /\ passed'[s] = [r \in Sender!Slot |-> passed'[s][r]]
      BY <1>0, <2>3 DEF Sender!NonePassed
    <3>2. passed' = [s \in Sender!Slot |-> passed'[s]]
      BY <2>3
    <3>3. \A s, r \in Sender!Slot : passed'[s][r] \in {0, 1}
      BY <1>0, <2>9
    <3> QED BY <3>1, <3>2, <3>3
  <2>11. ASSUME NEW s \in Sender!Slot, NEW r \in Sender!Slot, passed'[s][r] = 1
         PROVE  s \in tx'.pending /\ TurnOf(n, y, s) < TurnOf(n, y, r)
    <3>1. s \in pending \ {t} /\ (r = t \/ passed[s][r] = 1)
      BY <2>9, <2>11
    <3>2. TurnOf(n, x, t) <= TurnOf(n, x, s)
      BY <2>2, <3>1
    <3>3. /\ TurnOf(n, x, s) < TurnOf(n, x, r) => TurnOf(n, y, s) < TurnOf(n, y, r)
          /\ TurnOf(n, y, s) < TurnOf(n, y, t)
      BY <1>0, <2>4, <3>1, <3>2, TurnsShift
    <3>4. passed[s][r] = 1 => TurnOf(n, x, s) < TurnOf(n, x, r)
      BY DEF SendInv, Overtaken
    <3> QED BY <2>6, <3>1, <3>3, <3>4
  <2> QED BY <2>6, <2>7, <2>10, <2>11 DEF Overtaken
<1> QED BY <1>1, <1>2

LEMMA SendNext == SendInv /\ [Sender!SendNext]_sendVars => SendInv'
<1> SUFFICES ASSUME SendInv, [Sender!SendNext]_sendVars PROVE SendInv'
  OBVIOUS
<1>0. /\ engine \in Speeds /\ at \in {"publish", "work"}
      /\ tx \in [pending : SUBSET Sender!Slot, next : Sender!Slot, since : 0 .. Spacing]
      /\ pub \in [sent : BOOLEAN, speed : Speeds \cup {0}, sinceSent : 0 .. Heartbeat,
                  sinceTry : 0 .. Retry, retry : BOOLEAN]
      /\ tx.pending \in SUBSET Sender!Slot
  BY DEF SendInv, Sender!SenderTypeOK
<1>a. ASSUME engine' \in Speeds, at' \in {"publish", "work"},
             tx' \in [pending : SUBSET Sender!Slot, next : Sender!Slot, since : 0 .. Spacing],
             pub' \in [sent : BOOLEAN, speed : Speeds \cup {0}, sinceSent : 0 .. Heartbeat,
                       sinceTry : 0 .. Retry, retry : BOOLEAN],
             Overtaken'
      PROVE  SendInv'
  BY <1>a DEF SendInv, Sender!SenderTypeOK
<1>1. ASSUME NEW ok \in BOOLEAN, NEW emits \in BOOLEAN, Sender!Publish(ok, emits)
      PROVE  SendInv'
  <2>1. engine' \in Speeds /\ at' \in {"publish", "work"}
    BY <1>0, <1>1 DEF Sender!Publish
  <2>2. CASE Sender!SendSpeed(ok) /\ tx' = [tx EXCEPT !.since = 0] /\ UNCHANGED passed
    <3>1. pub' \in [sent : BOOLEAN, speed : Speeds \cup {0}, sinceSent : 0 .. Heartbeat,
                    sinceTry : 0 .. Retry, retry : BOOLEAN]
      <4>1. 0 \in 0 .. Heartbeat /\ 0 \in 0 .. Retry
        BY SlotFacts
      <4>2. CASE ok
        BY <1>0, <2>2, <4>1, <4>2 DEF Sender!SendSpeed
      <4>3. CASE ~ok
        BY <1>0, <2>2, <4>1, <4>3 DEF Sender!SendSpeed
      <4> QED BY <4>2, <4>3
    <3>2. /\ tx' \in [pending : SUBSET Sender!Slot, next : Sender!Slot, since : 0 .. Spacing]
          /\ tx'.pending = tx.pending /\ tx'.next = tx.next
      BY <1>0, <2>2, SlotFacts
    <3> QED BY <1>a, <2>1, <2>2, <3>1, <3>2 DEF SendInv, Overtaken
  <2>3. CASE Sender!Service(tx.pending, emits) /\ UNCHANGED pub
    BY <1>0, <1>a, <2>1, <2>3, ServiceKeepsTurns
  <2> QED BY <1>1, <2>2, <2>3 DEF Sender!Publish, Sender!SendOrServe
<1>2. ASSUME NEW s \in Sender!Slot, NEW emits \in BOOLEAN, Sender!Queue(s, emits)
      PROVE  SendInv'
  <2>1. tx.pending \cup {s} \in SUBSET Sender!Slot
    BY <1>0
  <2> QED BY <1>0, <1>2, <1>a, <2>1, ServiceKeepsTurns DEF Sender!Queue
<1>3. ASSUME NEW emits \in BOOLEAN, Sender!Work(emits) \/ Sender!Idle(emits)
      PROVE  SendInv'
  BY <1>0, <1>3, <1>a, ServiceKeepsTurns DEF Sender!Work, Sender!Idle
<1>4. ASSUME NEW v \in Speeds, Sender!Measure(v) PROVE SendInv'
  BY <1>4 DEF Sender!Measure, Sender!sender, SendInv, Overtaken, Sender!SenderTypeOK
<1>5. CASE Sender!SendTick
  <2>1. /\ tx' = [tx EXCEPT !.since = Sender!Older(@, Spacing), !.pending = @ \cup {}]
        /\ pub' = IF pub.retry THEN [pub EXCEPT !.sinceTry = Sender!Older(@, Retry)]
                               ELSE [pub EXCEPT !.sinceSent = Sender!Older(@, Heartbeat)]
        /\ UNCHANGED <<engine, at, passed>>
    BY <1>5 DEF Sender!SendTick, Sender!SenderAges
  <2>2. /\ tx' \in [pending : SUBSET Sender!Slot, next : Sender!Slot, since : 0 .. Spacing]
        /\ tx'.pending = tx.pending /\ tx'.next = tx.next
    <3>1. Sender!Older(tx.since, Spacing) \in 0 .. Spacing
      BY <1>0, SlotFacts DEF Sender!Older
    <3>2. tx' = [tx EXCEPT !.since = Sender!Older(tx.since, Spacing)]
      BY <1>0, <2>1
    <3> HIDE DEF Sender!Older
    <3> QED BY <1>0, <3>1, <3>2
  <2>3. pub' \in [sent : BOOLEAN, speed : Speeds \cup {0}, sinceSent : 0 .. Heartbeat,
                  sinceTry : 0 .. Retry, retry : BOOLEAN]
    BY <1>0, <2>1, SlotFacts DEF Sender!Older
  <2>4. engine' \in Speeds /\ at' \in {"publish", "work"}
    BY <1>0, <2>1
  <2>5. Overtaken'
    BY <2>1, <2>2 DEF SendInv, Overtaken
  <2> QED BY <1>a, <2>2, <2>3, <2>4, <2>5
<1>6. CASE UNCHANGED sendVars
  BY <1>6 DEF sendVars, SendInv, Overtaken, Sender!SenderTypeOK
<1> QED BY <1>1, <1>2, <1>3, <1>4, <1>5, <1>6 DEF Sender!SendNext

--------------------------------------------------------------------------------
(* The charge lamp: a failure shows                                             *)

(* How old the voltage is of which the lamp is dark: one not yet low is older   *)
(* than the failure or given up as too old, and a low one has been held since   *)
(* it was decoded.                                                              *)
Aged == failed > 0 => running /\ voltage = "low"
Stale == failed > 0 /\ seen.voltage # "low" =>
           seen.voltageAge >= failed \/ seen.voltageAge = DataTimeout
Dark == light = "dark" => lamp.charging
Settled == lamp.charging => lamp.started > Settle
LowHeld == lamp.charging /\ seen.voltage = "low" =>
             /\ lamp.low >= 1
             /\ lamp.low = Confirm + 1 \/ lamp.low - 1 + DataTimeout >= failed
             /\ judged => lamp.low <= Confirm
NotYetLow == lamp.charging /\ seen.voltage # "low" =>
               IF judged THEN failed < DataTimeout ELSE failed <= DataTimeout

LampInv ==
  Lamp!TypeOK /\ Aged /\ Stale /\ Dark /\ Settled /\ LowHeld /\ NotYetLow

LEMMA LampTimes ==
  Confirm \in Nat /\ Over \in Nat /\ Settle \in Nat /\ DataTimeout \in Nat
BY LampAssumption

LEMMA LampAges ==
  ASSUME NEW n \in Nat, NEW a \in 0 .. n
  PROVE  /\ Lamp!Older(a, n) \in 0 .. n
         /\ Lamp!Older(a, n) = IF a < n THEN a + 1 ELSE n
BY DEF Lamp!Older

LEMMA LampHoldAges ==
  ASSUME NEW n \in Nat, NEW a \in 0 .. n + 1
  PROVE  /\ Lamp!HeldOn(a, n) \in 0 .. n + 1
         /\ Lamp!HeldOn(a, n) >= a
         /\ a >= 1 /\ a <= n => Lamp!HeldOn(a, n) = a + 1
BY DEF Lamp!HeldOn, Lamp!Older, Lamp!NotHeld

LEMMA LampHolds ==
  ASSUME NEW n \in Nat, NEW a \in 0 .. n + 1, NEW c \in BOOLEAN
  PROVE  /\ Lamp!Held(a, c) \in 0 .. n + 1
         /\ c => Lamp!Held(a, c) = IF a > 1 THEN a ELSE 1
         /\ ~c => Lamp!Held(a, c) = 0
BY DEF Lamp!Held, Lamp!Larger, Lamp!NotHeld

LEMMA LampInitially == Lamp!Init => LampInv
<1> SUFFICES ASSUME Lamp!Init PROVE LampInv
  OBVIOUS
<1>1. /\ running \in BOOLEAN /\ voltage \in Lamp!Voltages /\ judged = FALSE
      /\ seen = [running |-> FALSE, voltage |-> "low",
                 speedAge |-> DataTimeout, voltageAge |-> DataTimeout]
      /\ lamp = [started |-> 0, charging |-> FALSE, low |-> 0, ok |-> 0, high |-> 0]
      /\ light = "lit" /\ failed = 0
  BY DEF Lamp!Init, Lamp!Unconfirmed, Lamp!NotHeld
<1>2. Lamp!TypeOK
  <2>1. seen \in [running : BOOLEAN, voltage : Lamp!Voltages,
                  speedAge : 0 .. DataTimeout, voltageAge : 0 .. DataTimeout]
    BY <1>1, LampTimes DEF Lamp!Voltages
  <2>2. lamp \in [started : 0 .. Settle + 1, charging : BOOLEAN, low : 0 .. Confirm + 1,
                  ok : 0 .. Confirm + 1, high : 0 .. Over + 1]
    BY <1>1, LampTimes
  <2>3. failed \in 0 .. DataTimeout + Confirm + 1
    BY <1>1, LampTimes
  <2> QED BY <1>1, <2>1, <2>2, <2>3 DEF Lamp!TypeOK
<1>3. lamp.charging = FALSE
  BY <1>1
<1> QED BY <1>1, <1>2, <1>3
        DEF LampInv, Aged, Stale, Dark, Settled, LowHeld, NotYetLow

LEMMA LampPass ==
  ASSUME LampInv, NEW arrived \in SUBSET {"speed", "voltage"}, NEW lost \in BOOLEAN,
         Lamp!Pass(arrived, lost)
  PROVE  LampInv'
<1>1. /\ running \in BOOLEAN /\ voltage \in Lamp!Voltages
      /\ seen \in [running : BOOLEAN, voltage : Lamp!Voltages,
                   speedAge : 0 .. DataTimeout, voltageAge : 0 .. DataTimeout]
      /\ lamp \in [started : 0 .. Settle + 1, charging : BOOLEAN, low : 0 .. Confirm + 1,
                   ok : 0 .. Confirm + 1, high : 0 .. Over + 1]
      /\ failed \in 0 .. DataTimeout + Confirm + 1
      /\ seen.voltageAge \in 0 .. DataTimeout /\ seen.speedAge \in 0 .. DataTimeout
      /\ lamp.started \in 0 .. Settle + 1 /\ lamp.low \in 0 .. Confirm + 1
      /\ lamp.ok \in 0 .. Confirm + 1 /\ lamp.high \in 0 .. Over + 1
  BY DEF LampInv, Lamp!TypeOK
<1> DEFINE heard == Lamp!Decoded(arrived)
           known == Lamp!Expired(heard)
<1>2. /\ seen' = IF lost THEN Lamp!Cleared(known) ELSE known
      /\ judged' = TRUE /\ UNCHANGED <<running, voltage, failed>>
  BY DEF Lamp!Pass
<1>a. /\ heard \in [running : BOOLEAN, voltage : Lamp!Voltages,
                    speedAge : 0 .. DataTimeout, voltageAge : 0 .. DataTimeout]
      /\ heard.voltage = IF "voltage" \in arrived THEN voltage ELSE seen.voltage
      /\ heard.voltageAge = IF "voltage" \in arrived THEN 0 ELSE seen.voltageAge
  <2>1. 0 \in 0 .. DataTimeout
    BY LampTimes
  <2> QED BY <1>1, <2>1 DEF Lamp!Decoded
<1>b. /\ known \in [running : BOOLEAN, voltage : Lamp!Voltages,
                    speedAge : 0 .. DataTimeout, voltageAge : 0 .. DataTimeout]
      /\ known.voltage = heard.voltage /\ known.voltageAge = heard.voltageAge
  <2> HIDE DEF heard
  <2> QED BY <1>a DEF Lamp!Expired
<1>3. seen' \in [running : BOOLEAN, voltage : Lamp!Voltages,
                 speedAge : 0 .. DataTimeout, voltageAge : 0 .. DataTimeout]
  <2> HIDE DEF known
  <2> QED BY <1>2, <1>b DEF Lamp!Cleared, Lamp!Voltages
<1>4. /\ seen'.voltage \in {"low", IF "voltage" \in arrived THEN voltage ELSE seen.voltage}
      /\ seen'.voltageAge = IF "voltage" \in arrived THEN 0 ELSE seen.voltageAge
  <2> HIDE DEF heard, known
  <2> QED BY <1>2, <1>a, <1>b DEF Lamp!Cleared
<1> HIDE DEF heard, known
<1>5. Stale' /\ Aged'
  BY <1>1, <1>2, <1>4 DEF LampInv, Stale, Aged
<1>6. ASSUME lamp' \in [started : 0 .. Settle + 1, charging : BOOLEAN,
                        low : 0 .. Confirm + 1, ok : 0 .. Confirm + 1, high : 0 .. Over + 1],
             light' \in {"lit", "dark", "blinking"},
             Dark', Settled', LowHeld', NotYetLow'
      PROVE  LampInv'
  BY <1>1, <1>2, <1>3, <1>5, <1>6 DEF LampInv, Lamp!TypeOK
<1>7. CASE ~(Lamp!IsFresh(seen') /\ seen'.running)
  <2>1. /\ lamp' = [started |-> 0, charging |-> FALSE, low |-> 0, ok |-> 0, high |-> 0]
        /\ light' = "lit"
    BY <1>7 DEF Lamp!Pass, Lamp!Unconfirmed, Lamp!NotHeld
  <2>2. lamp'.charging = FALSE
    BY <2>1
  <2>3. lamp' \in [started : 0 .. Settle + 1, charging : BOOLEAN,
                   low : 0 .. Confirm + 1, ok : 0 .. Confirm + 1, high : 0 .. Over + 1]
    BY <2>1, LampTimes
  <2> QED BY <1>6, <2>1, <2>2, <2>3 DEF Dark, Settled, LowHeld, NotYetLow
<1>8. CASE Lamp!IsFresh(seen') /\ seen'.running
  <2> DEFINE started == Lamp!Held(lamp.started, TRUE)
             low == Lamp!Held(lamp.low, seen'.voltage = "low")
             ok == Lamp!Held(lamp.ok, seen'.voltage \in {"charging", "over"})
             high == Lamp!Held(lamp.high, seen'.voltage = "over")
             charging == \/ Lamp!Confirmed(ok, Confirm)
                         \/ lamp.charging /\ ~Lamp!Confirmed(low, Confirm)
  <2>1. Lamp!Judge(seen')
    BY <1>8 DEF Lamp!Pass
  <2>2. started \in 0 .. Settle + 1 /\ started = IF lamp.started > 1 THEN lamp.started ELSE 1
    BY <1>1, LampTimes, LampHolds
  <2>3. CASE ~Lamp!Confirmed(started, Settle)
    <3>1. lamp' = [lamp EXCEPT !.started = started] /\ light' = "lit"
      BY <2>1, <2>3 DEF Lamp!Judge
    <3>2. ~(lamp.started > Settle)
      <4>1. ~(started > Settle)
        BY <2>3 DEF Lamp!Confirmed
      <4> HIDE DEF started
      <4> QED BY <1>1, <2>2, <4>1, LampTimes
    <3>3. lamp.charging = FALSE
      BY <1>1, <3>2 DEF LampInv, Settled
    <3> HIDE DEF started
    <3>4. lamp' \in [started : 0 .. Settle + 1, charging : BOOLEAN,
                     low : 0 .. Confirm + 1, ok : 0 .. Confirm + 1, high : 0 .. Over + 1]
      BY <1>1, <2>2, <3>1
    <3>5. lamp'.charging = FALSE
      BY <1>1, <3>1, <3>3
    <3> QED BY <1>6, <3>1, <3>4, <3>5 DEF Dark, Settled, LowHeld, NotYetLow
  <2>4. CASE Lamp!Confirmed(started, Settle)
    <3>1. /\ lamp' = [started |-> started, charging |-> charging,
                      low |-> low, ok |-> ok, high |-> high]
          /\ light' = IF Lamp!Confirmed(high, Over) THEN "blinking"
                      ELSE IF charging THEN "dark" ELSE "lit"
      BY <2>1, <2>4 DEF Lamp!Judge
    <3>2. low \in 0 .. Confirm + 1
      BY <1>1, LampTimes, LampHolds
    <3>3. ok \in 0 .. Confirm + 1
      <4> DEFINE is == seen'.voltage \in {"charging", "over"}
      <4>1. is \in BOOLEAN
        OBVIOUS
      <4> HIDE DEF is
      <4>2. Lamp!Held(lamp.ok, is) \in 0 .. Confirm + 1
        BY <1>1, <4>1, LampTimes, LampHolds
      <4> QED BY <4>2 DEF is
    <3>4. high \in 0 .. Over + 1
      BY <1>1, LampTimes, LampHolds
    <3>5. seen'.voltage = "low" => low = IF lamp.low > 1 THEN lamp.low ELSE 1
      <4> SUFFICES ASSUME seen'.voltage = "low"
                   PROVE  low = IF lamp.low > 1 THEN lamp.low ELSE 1
        OBVIOUS
      <4> DEFINE is == seen'.voltage = "low"
      <4>1. is \in BOOLEAN /\ is
        OBVIOUS
      <4> HIDE DEF is
      <4>2. Lamp!Held(lamp.low, is) = IF lamp.low > 1 THEN lamp.low ELSE 1
        BY <1>1, <4>1, LampTimes, LampHolds
      <4> QED BY <4>2 DEF is
    <3>6. seen'.voltage = "low" => ok = 0
      BY DEF Lamp!Held, Lamp!NotHeld
    <3>7. seen'.voltage = "low" /\ charging => lamp.charging = TRUE /\ low <= Confirm
      <4>1. seen'.voltage = "low" => ~Lamp!Confirmed(ok, Confirm)
        BY <3>6, LampTimes DEF Lamp!Confirmed
      <4>2. ~Lamp!Confirmed(low, Confirm) => low <= Confirm
        BY <3>2, LampTimes DEF Lamp!Confirmed
      <4>3. lamp.charging \in BOOLEAN
        BY <1>1
      <4> QED BY <4>1, <4>2, <4>3
    <3>8. charging \in BOOLEAN
      BY <1>1
    <3>9. /\ lamp'.charging = charging /\ lamp'.low = low /\ lamp'.started = started
          /\ light' = "dark" => charging /\ light' \in {"lit", "dark", "blinking"}
          /\ light' \in {"lit", "dark", "blinking"}
      BY <3>1
    <3>10. lamp' \in [started : 0 .. Settle + 1, charging : BOOLEAN,
                      low : 0 .. Confirm + 1, ok : 0 .. Confirm + 1, high : 0 .. Over + 1]
      <4> HIDE DEF started, low, ok, high, charging
      <4> QED BY <2>2, <3>1, <3>2, <3>3, <3>4, <3>8
    <3> HIDE DEF low, ok, high, charging
    <3>11. Settled'
      BY <2>2, <2>4, <3>9 DEF Settled, Lamp!Confirmed
    <3>12. LowHeld'
      <4> SUFFICES ASSUME charging, seen'.voltage = "low"
                   PROVE  low >= 1 /\ low - 1 + DataTimeout >= failed /\ low <= Confirm
        BY <1>2, <3>9 DEF LowHeld
      <4>1. low = IF lamp.low > 1 THEN lamp.low ELSE 1
        BY <3>5
      <4>2. lamp.charging = TRUE /\ low <= Confirm
        BY <3>7
      <4>3. CASE seen.voltage = "low"
        <5>1. /\ lamp.low >= 1
              /\ lamp.low = Confirm + 1 \/ lamp.low - 1 + DataTimeout >= failed
          BY <4>2, <4>3 DEF LampInv, LowHeld
        <5>2. low = lamp.low
          BY <1>1, <4>1, <5>1, LampTimes
        <5> QED BY <1>1, <4>2, <5>1, <5>2, LampTimes
      <4>4. CASE seen.voltage # "low"
        <5>1. failed <= DataTimeout
          BY <1>1, <4>2, <4>4, LampTimes DEF LampInv, NotYetLow
        <5> QED BY <1>1, <4>1, <4>2, <5>1, LampTimes
      <4> QED BY <4>3, <4>4
    <3>13. NotYetLow'
      <4> SUFFICES ASSUME seen'.voltage # "low" PROVE failed < DataTimeout
        BY <1>2 DEF NotYetLow
      <4>1. seen'.voltageAge < DataTimeout
        BY <1>8 DEF Lamp!IsFresh
      <4>2. seen'.voltageAge \in 0 .. DataTimeout
        BY <1>3
      <4>3. failed = 0 \/ seen'.voltageAge >= failed
        BY <1>1, <1>2, <1>5, <4>1, <4>2, LampTimes DEF Stale
      <4> QED BY <1>1, <4>1, <4>2, <4>3, LampTimes
    <3>14. Dark'
      BY <3>9 DEF Dark
    <3> QED BY <1>6, <3>9, <3>10, <3>11, <3>12, <3>13, <3>14
  <2> QED BY <2>3, <2>4
<1> QED BY <1>7, <1>8

LEMMA LampTick == LampInv /\ Lamp!Tick => LampInv'
<1> SUFFICES ASSUME LampInv, Lamp!Tick PROVE LampInv'
  OBVIOUS
<1>1. /\ running \in BOOLEAN /\ voltage \in Lamp!Voltages
      /\ seen \in [running : BOOLEAN, voltage : Lamp!Voltages,
                   speedAge : 0 .. DataTimeout, voltageAge : 0 .. DataTimeout]
      /\ lamp \in [started : 0 .. Settle + 1, charging : BOOLEAN, low : 0 .. Confirm + 1,
                   ok : 0 .. Confirm + 1, high : 0 .. Over + 1]
      /\ light \in {"lit", "dark", "blinking"}
      /\ failed \in 0 .. DataTimeout + Confirm + 1
      /\ seen.voltageAge \in 0 .. DataTimeout /\ seen.speedAge \in 0 .. DataTimeout
      /\ lamp.started \in 0 .. Settle + 1 /\ lamp.low \in 0 .. Confirm + 1
      /\ lamp.ok \in 0 .. Confirm + 1 /\ lamp.high \in 0 .. Over + 1
  BY DEF LampInv, Lamp!TypeOK
<1>2. /\ failed' = IF running /\ voltage = "low"
                     THEN Lamp!Older(failed, DataTimeout + Confirm + 1) ELSE 0
      /\ UNCHANGED <<running, voltage, light>>
  BY DEF Lamp!Tick
<1>3. /\ seen' = [seen EXCEPT !.speedAge = Lamp!Older(seen.speedAge, DataTimeout),
                              !.voltageAge = Lamp!Older(seen.voltageAge, DataTimeout)]
      /\ lamp' = [lamp EXCEPT !.started = Lamp!HeldOn(lamp.started, Settle),
                              !.low = Lamp!HeldOn(lamp.low, Confirm),
                              !.ok = Lamp!HeldOn(lamp.ok, Confirm),
                              !.high = Lamp!HeldOn(lamp.high, Over)]
  BY DEF Lamp!Tick
<1>4. /\ Lamp!Older(seen.speedAge, DataTimeout) \in 0 .. DataTimeout
      /\ Lamp!Older(seen.voltageAge, DataTimeout) \in 0 .. DataTimeout
      /\ Lamp!Older(seen.voltageAge, DataTimeout) =
           IF seen.voltageAge < DataTimeout THEN seen.voltageAge + 1 ELSE DataTimeout
  BY <1>1, LampTimes, LampAges
<1>5. /\ Lamp!HeldOn(lamp.started, Settle) \in 0 .. Settle + 1
      /\ Lamp!HeldOn(lamp.low, Confirm) \in 0 .. Confirm + 1
      /\ Lamp!HeldOn(lamp.ok, Confirm) \in 0 .. Confirm + 1
      /\ Lamp!HeldOn(lamp.high, Over) \in 0 .. Over + 1
  BY <1>1, LampTimes, LampHoldAges
<1>6. /\ Lamp!HeldOn(lamp.started, Settle) >= lamp.started
      /\ lamp.low >= 1 /\ lamp.low <= Confirm => Lamp!HeldOn(lamp.low, Confirm) = lamp.low + 1
  BY <1>1, LampTimes, LampHoldAges
<1>7. failed' = IF running /\ voltage = "low"
                  THEN IF failed < DataTimeout + Confirm + 1 THEN failed + 1
                                                             ELSE DataTimeout + Confirm + 1
                  ELSE 0
  BY <1>2 DEF Lamp!Older
<1>8. failed' \in 0 .. DataTimeout + Confirm + 1
  BY <1>1, <1>7, LampTimes
<1> HIDE DEF Lamp!Older, Lamp!HeldOn
<1>9. /\ seen' \in [running : BOOLEAN, voltage : Lamp!Voltages,
                    speedAge : 0 .. DataTimeout, voltageAge : 0 .. DataTimeout]
      /\ seen'.voltage = seen.voltage
      /\ seen'.voltageAge = Lamp!Older(seen.voltageAge, DataTimeout)
  BY <1>1, <1>3, <1>4
<1>10. /\ lamp' \in [started : 0 .. Settle + 1, charging : BOOLEAN, low : 0 .. Confirm + 1,
                     ok : 0 .. Confirm + 1, high : 0 .. Over + 1]
       /\ lamp'.charging = lamp.charging
       /\ lamp'.started = Lamp!HeldOn(lamp.started, Settle)
       /\ lamp'.low = Lamp!HeldOn(lamp.low, Confirm)
  BY <1>1, <1>3, <1>5
<1>11. judged /\ judged' = FALSE
  BY DEF Lamp!Tick
<1>12. Lamp!TypeOK'
  BY <1>1, <1>2, <1>8, <1>9, <1>10, <1>11 DEF Lamp!TypeOK
<1>13. Aged'
  BY <1>2, <1>7 DEF Aged
<1>14. Stale'
  BY <1>1, <1>4, <1>7, <1>8, <1>9, LampTimes DEF LampInv, Stale
<1>15. Dark' /\ Settled'
  BY <1>1, <1>2, <1>5, <1>6, <1>10, LampTimes DEF LampInv, Dark, Settled
<1>16. LowHeld'
  <2> SUFFICES ASSUME lamp.charging, seen.voltage = "low"
               PROVE  lamp'.low >= 1 /\ lamp'.low - 1 + DataTimeout >= failed'
    BY <1>9, <1>10, <1>11 DEF LowHeld
  <2>1. lamp.low >= 1 /\ lamp.low <= Confirm /\ lamp.low - 1 + DataTimeout >= failed
    BY <1>1, <1>11, LampTimes DEF LampInv, LowHeld
  <2> QED BY <1>1, <1>6, <1>7, <1>10, <2>1, LampTimes
<1>17. NotYetLow'
  <2> SUFFICES ASSUME lamp.charging, seen.voltage # "low" PROVE failed' <= DataTimeout
    BY <1>9, <1>10, <1>11 DEF NotYetLow
  <2>1. failed < DataTimeout
    BY <1>11 DEF LampInv, NotYetLow
  <2> QED BY <1>1, <1>7, <2>1, LampTimes
<1> QED BY <1>12, <1>13, <1>14, <1>15, <1>16, <1>17 DEF LampInv

LEMMA LampNext == LampInv /\ [Lamp!Next]_lampVars => LampInv'
<1> SUFFICES ASSUME LampInv, [Lamp!Next]_lampVars PROVE LampInv'
  OBVIOUS
<1>1. CASE Lamp!Changes
  <2>1. /\ running \in BOOLEAN /\ voltage \in Lamp!Voltages
        /\ failed' = 0 /\ UNCHANGED <<seen, lamp, light, judged>>
        /\ failed \in 0 .. DataTimeout + Confirm + 1
        /\ lamp \in [started : 0 .. Settle + 1, charging : BOOLEAN, low : 0 .. Confirm + 1,
                     ok : 0 .. Confirm + 1, high : 0 .. Over + 1]
    BY <1>1 DEF LampInv, Lamp!TypeOK, Lamp!Changes
  <2>2. running' \in BOOLEAN /\ voltage' \in Lamp!Voltages
    BY <1>1, <2>1 DEF Lamp!Changes
  <2>3. Lamp!TypeOK'
    BY <2>1, <2>2, LampTimes DEF LampInv, Lamp!TypeOK
  <2>4. Aged' /\ Stale' /\ Dark' /\ Settled'
    BY <2>1 DEF LampInv, Aged, Stale, Dark, Settled
  <2>5. LowHeld'
    BY <2>1, LampTimes DEF LampInv, LowHeld
  <2>6. NotYetLow'
    BY <2>1, LampTimes DEF LampInv, NotYetLow
  <2> QED BY <2>3, <2>4, <2>5, <2>6 DEF LampInv
<1>2. CASE UNCHANGED lampVars
  BY <1>2
     DEF lampVars, LampInv, Lamp!TypeOK, Aged, Stale, Dark, Settled, LowHeld, NotYetLow
<1> QED BY <1>1, <1>2, LampPass, LampTick DEF Lamp!Next

LEMMA LampShows == LampInv => Lamp!FailureShows
<1> SUFFICES ASSUME LampInv, judged, failed >= DataTimeout + Confirm, light = "dark"
             PROVE  FALSE
  BY DEF LampInv, Lamp!FailureShows
<1>1. failed \in Nat /\ lamp.low \in Nat
  BY LampTimes DEF LampInv, Lamp!TypeOK
<1>2. lamp.charging
  BY DEF LampInv, Dark
<1>3. CASE seen.voltage = "low"
  BY <1>1, <1>2, <1>3, LampTimes DEF LampInv, LowHeld
<1>4. CASE seen.voltage # "low"
  BY <1>1, <1>2, <1>4, LampTimes DEF LampInv, NotYetLow
<1> QED BY <1>3, <1>4

--------------------------------------------------------------------------------
(* The temperature alarms: no long silence                                      *)

(* An alarm comes due when its timer runs, not between two runs of it.          *)
Punctual ==
  \A k \in Alarm!Kinds : alarm[k].was =>
    /\ (alarm[k].since + alert) % Period = 0
    /\ alarm[k].since + alert <= Repeat[k]

(* The silence is not older than an alarm of which the buzzer took nothing, nor *)
(* will it be too long when the timer runs again.                               *)
Sounding ==
  /\ ~turning \/ hot = {} => silent = 0
  /\ melody # "none" /\ left = 0 => silent = 0
  /\ \A k \in Alarm!Kinds : alarm[k].was => left > 0 \/ silent <= alarm[k].since
  /\ left > 0 \/ silent + alert <= Repeat["coolant"]
  /\ silent <= Repeat["coolant"]

AlarmInv == Alarm!TypeOK /\ Punctual /\ Sounding

LEMMA AlarmTimes ==
  /\ Period \in Nat \ {0} /\ Alarm!Longest = Repeat["coolant"] + 1
  /\ Repeat["coolant"] \in Nat \ {0} /\ Repeat["egt"] \in Nat \ {0}
  /\ Repeat["egt"] <= Repeat["coolant"]
  /\ \A k \in Alarm!Kinds : /\ Repeat[k] \in Nat \ {0} /\ Repeat[k] % Period = 0
                            /\ Repeat[k] <= Repeat["coolant"]
  /\ \A m \in {"short", "middle", "long"} : Length[m] \in Nat \ {0}
BY AlarmAssumption DEF Alarm!Kinds, Alarm!Longest

(* Multiples of a period are a period apart.                                    *)
LEMMA NextPeriod ==
  ASSUME NEW p \in Nat \ {0}, NEW a \in Nat, NEW b \in Nat,
         a % p = 0, b % p = 0, a < b
  PROVE  a + p <= b /\ (a + p) % p = 0
<1> DEFINE i == a \div p
           j == b \div p
<1>1. i \in Nat /\ j \in Nat /\ a = p * i /\ b = p * j
  OBVIOUS
<1> HIDE DEF i, j
<1>2. i + 1 <= j
  <2> SUFFICES ASSUME j <= i PROVE FALSE
    BY <1>1
  <2>1. PICK d \in Nat : i = j + d
    <3>1. i - j \in Nat /\ i = j + (i - j)
      BY <1>1
    <3> QED BY <3>1
  <2>2. p * i = p * j + p * d /\ p * d \in Nat
    BY <1>1, <2>1
  <2> QED BY <1>1, <2>2
<1>3. PICK d \in Nat : j = i + 1 + d
  <2>1. j - (i + 1) \in Nat /\ j = i + 1 + (j - (i + 1))
    BY <1>1, <1>2
  <2> QED BY <2>1
<1>4. p * j = p * i + p + p * d /\ p * d \in Nat
  BY <1>1, <1>3
<1>5. a + p <= b
  BY <1>1, <1>4
<1>6. (a + p) % p = 0
  <2> DEFINE c == a + p
             q == c \div p
             m == c % p
  <2>1. c \in Nat /\ q \in Nat /\ m \in 0 .. p - 1 /\ c = p * q + m
    OBVIOUS
  <2>2. c = p * (i + 1)
    BY <1>1
  <2> HIDE DEF c, q, m
  <2>3. p * (i + 1 - q) = m
    BY <1>1, <2>1, <2>2
  <2>4. CASE q >= i + 1
    <3>1. p * (q - (i + 1)) >= 0
      BY <1>1, <2>1, <2>4
    <3> QED BY <1>1, <2>1, <2>3, <3>1 DEF c, m
  <2>5. CASE q < i + 1
    <3>1. p * (i + 1 - q) >= p
      BY <1>1, <2>1, <2>5
    <3> QED BY <2>1, <2>3, <3>1
  <2> QED BY <1>1, <2>1, <2>4, <2>5
<1> QED BY <1>5, <1>6

LEMMA AlarmInitially == Alarm!Init => AlarmInv
<1> SUFFICES ASSUME Alarm!Init PROVE AlarmInv
  OBVIOUS
<1>1. /\ turning = FALSE /\ hot = {} /\ melody = "none" /\ left = 0
      /\ alert = Period /\ beeped = FALSE /\ silent = 0
      /\ \A k \in Alarm!Kinds : alarm[k] = [was |-> FALSE, since |-> 0]
  BY DEF Alarm!Init, Alarm!Reset
<1>2. \A k \in Alarm!Kinds : alarm[k] \in [was : BOOLEAN, since : 0 .. Repeat[k]]
  <2> TAKE k \in Alarm!Kinds
  <2>1. 0 \in 0 .. Repeat[k]
    BY AlarmTimes
  <2>2. alarm[k] = [was |-> FALSE, since |-> 0]
    BY <1>1
  <2> HIDE DEF Alarm!Kinds
  <2> QED BY <2>1, <2>2
<1>3. alert \in 0 .. Period /\ silent \in 0 .. Alarm!Longest /\ left \in Nat
  BY <1>1, AlarmTimes
<1>4. Alarm!TypeOK
  BY <1>1, <1>2, <1>3 DEF Alarm!TypeOK
<1>5. Punctual
  BY <1>1 DEF Punctual
<1>6. Period <= Repeat["coolant"]
  BY NextPeriod, AlarmTimes, AlarmAssumption
<1>7. Sounding
  BY <1>1, <1>6, AlarmTimes DEF Sounding
<1> QED BY <1>4, <1>5, <1>7 DEF AlarmInv

(* What the buzzer does with a melody.                                          *)
LEMMA StartSounds ==
  ASSUME AlarmInv, NEW m \in {"none", "short", "middle", "long"}, Alarm!Start(m)
  PROVE  /\ melody' \in {"none", "short", "middle", "long"} /\ left' \in Nat
         /\ left > 0 => left' > 0
         /\ m # "none" => melody' # "none" /\ (left' > 0 \/ silent = 0)
         /\ melody' # "none" /\ left' = 0 => silent = 0
<1>1. /\ melody \in {"none", "short", "middle", "long"} /\ left \in Nat
      /\ melody # "none" /\ left = 0 => silent = 0
  BY DEF AlarmInv, Alarm!TypeOK, Sounding
<1>2. CASE m # "none" /\ melody = "none"
  <2>1. melody' = m /\ left' = Length[m] /\ m \in {"short", "middle", "long"}
    BY <1>2 DEF Alarm!Start
  <2> QED BY <1>2, <2>1, AlarmTimes
<1>3. CASE ~(m # "none" /\ melody = "none")
  <2>1. melody' = melody /\ left' = left
    BY <1>3 DEF Alarm!Start
  <2> QED BY <1>1, <1>3, <2>1
<1> QED BY <1>2, <1>3

LEMMA AlarmProcesses == AlarmInv /\ Alarm!ProcessAlerts => AlarmInv'
<1> SUFFICES ASSUME AlarmInv, Alarm!ProcessAlerts PROVE AlarmInv'
  OBVIOUS
<1>1. /\ turning \in BOOLEAN /\ hot \subseteq Alarm!Kinds /\ beeped \in BOOLEAN
      /\ \A k \in Alarm!Kinds : alarm[k] \in [was : BOOLEAN, since : 0 .. Repeat[k]]
      /\ silent \in 0 .. Alarm!Longest /\ left \in Nat
  BY DEF AlarmInv, Alarm!TypeOK
<1>2. /\ alert = 0 /\ alert' = Period /\ Alarm!Start(Alarm!Asked)
      /\ UNCHANGED <<turning, hot, beeped, silent>>
  BY DEF Alarm!ProcessAlerts
<1>3. \A k \in Alarm!Kinds : alarm'[k] =
        IF turning /\ k \in hot /\ ~Alarm!Fires(k) THEN alarm[k]
        ELSE [was |-> turning /\ Alarm!Fires(k), since |-> 0]
  BY <1>1 DEF Alarm!ProcessAlerts, Alarm!Reset, Alarm!Fires
<1>4. Alarm!Asked \in {"none", "short", "middle", "long"}
  BY DEF Alarm!Asked
<1>5. /\ melody' \in {"none", "short", "middle", "long"} /\ left' \in Nat
      /\ left > 0 => left' > 0
      /\ Alarm!Asked # "none" => left' > 0 \/ silent = 0
      /\ melody' # "none" /\ left' = 0 => silent = 0
  BY <1>2, <1>4, StartSounds
<1>6. \A k \in Alarm!Kinds : turning /\ Alarm!Fires(k) => left' > 0 \/ silent = 0
  BY <1>5 DEF Alarm!Asked, Alarm!Kinds
<1>7. \A k \in Alarm!Kinds : Period <= Repeat[k] /\ Period % Period = 0
  <2> TAKE k \in Alarm!Kinds
  <2>1. Repeat[k] \in Nat /\ Repeat[k] % Period = 0 /\ 0 < Repeat[k] /\ Period \in Nat \ {0}
    BY AlarmTimes
  <2>2. 0 + Period <= Repeat[k] /\ (0 + Period) % Period = 0
    BY <2>1, NextPeriod
  <2> QED BY <2>1, <2>2
<1>8. ASSUME NEW k \in Alarm!Kinds, turning, k \in hot, ~Alarm!Fires(k)
      PROVE  /\ alarm[k].was /\ alarm'[k] = alarm[k]
             /\ (alarm[k].since + Period) % Period = 0
             /\ alarm[k].since + Period <= Repeat[k]
             /\ left > 0 \/ silent <= alarm[k].since
  <2>1. alarm[k].was /\ ~(alarm[k].since >= Repeat[k]) /\ alarm'[k] = alarm[k]
    BY <1>3, <1>8 DEF Alarm!Fires
  <2>2. alarm[k].since \in 0 .. Repeat[k]
    BY <1>1
  <2>3. (alarm[k].since + alert) % Period = 0 /\ (left > 0 \/ silent <= alarm[k].since)
    BY <2>1 DEF AlarmInv, Punctual, Sounding
  <2>4. Period \in Nat \ {0} /\ Repeat[k] \in Nat /\ Repeat[k] % Period = 0
    BY AlarmTimes
  <2>5. /\ alarm[k].since \in Nat /\ alarm[k].since % Period = 0
        /\ alarm[k].since < Repeat[k]
    <3>1. alarm[k].since \in Nat /\ alert = 0
      BY <1>2, <2>2, <2>4
    <3>2. alarm[k].since + alert = alarm[k].since
      BY <3>1
    <3>3. alarm[k].since % Period = 0
      BY <2>3, <3>2
    <3>4. alarm[k].since < Repeat[k]
      BY <2>1, <2>4, <3>1
    <3> QED BY <3>1, <3>3, <3>4
  <2>6. /\ (alarm[k].since + Period) % Period = 0
        /\ alarm[k].since + Period <= Repeat[k]
    BY <2>4, <2>5, NextPeriod
  <2> QED BY <2>1, <2>3, <2>6
<1>9. ASSUME NEW k \in Alarm!Kinds, ~(turning /\ k \in hot /\ ~Alarm!Fires(k))
      PROVE  /\ alarm'[k].was => turning /\ Alarm!Fires(k)
             /\ alarm'[k].since = 0
             /\ alarm'[k] \in [was : BOOLEAN, since : 0 .. Repeat[k]]
  <2>1. alarm'[k] = [was |-> turning /\ Alarm!Fires(k), since |-> 0]
    BY <1>3, <1>9
  <2> DEFINE sounds == turning /\ Alarm!Fires(k)
  <2>2. 0 \in 0 .. Repeat[k]
    BY AlarmTimes
  <2>3. sounds \in BOOLEAN
    OBVIOUS
  <2>4. alarm'[k] = [was |-> sounds, since |-> 0]
    BY <2>1
  <2> HIDE DEF sounds
  <2>5. /\ alarm'[k].was = sounds /\ alarm'[k].since = 0
        /\ alarm'[k] \in [was : BOOLEAN, since : 0 .. Repeat[k]]
    BY <2>2, <2>3, <2>4
  <2> QED BY <2>5 DEF sounds
<1>10. Alarm!TypeOK'
  <2>1. \A k \in Alarm!Kinds : alarm'[k] \in [was : BOOLEAN, since : 0 .. Repeat[k]]
    BY <1>1, <1>8, <1>9
  <2>2. alert' \in 0 .. Period
    BY <1>2, AlarmTimes
  <2>3. /\ turning' \in BOOLEAN /\ hot' \subseteq Alarm!Kinds /\ beeped' \in BOOLEAN
        /\ silent' \in 0 .. Alarm!Longest
    BY <1>1, <1>2
  <2> QED BY <1>5, <2>1, <2>2, <2>3 DEF Alarm!TypeOK, Alarm!Longest
<1>11. Punctual'
  <2> SUFFICES ASSUME NEW k \in Alarm!Kinds, alarm'[k].was
               PROVE  /\ (alarm'[k].since + Period) % Period = 0
                      /\ alarm'[k].since + Period <= Repeat[k]
    BY <1>2 DEF Punctual
  <2>1. CASE turning /\ k \in hot /\ ~Alarm!Fires(k)
    BY <1>8, <2>1
  <2>2. CASE ~(turning /\ k \in hot /\ ~Alarm!Fires(k))
    BY <1>7, <1>9, <2>2, AlarmTimes
  <2> QED BY <2>1, <2>2
<1>12. \A k \in Alarm!Kinds : alarm'[k].was => left' > 0 \/ silent <= alarm'[k].since
  BY <1>1, <1>5, <1>6, <1>8, <1>9, AlarmTimes
<1>13. left' > 0 \/ silent + Period <= Repeat["coolant"]
  <2> SUFFICES ASSUME ~(left' > 0) PROVE silent + Period <= Repeat["coolant"]
    OBVIOUS
  <2>1. Period <= Repeat["coolant"]
    BY <1>7 DEF Alarm!Kinds
  <2>2. CASE silent = 0
    BY <2>1, <2>2, AlarmTimes
  <2>3. CASE silent # 0
    <3>1. turning /\ hot # {}
      BY <2>3 DEF AlarmInv, Sounding
    <3>2. PICK k \in hot : TRUE
      BY <3>1
    <3>3. k \in Alarm!Kinds /\ ~Alarm!Fires(k)
      BY <1>1, <1>6, <2>3, <3>1
    <3>4. /\ alarm[k].since + Period <= Repeat[k] /\ silent <= alarm[k].since
          /\ alarm[k].since \in 0 .. Repeat[k]
      BY <1>1, <1>5, <1>8, <3>1, <3>3
    <3>5. Repeat[k] \in Nat /\ Repeat[k] <= Repeat["coolant"]
      BY <3>3, AlarmTimes
    <3> QED BY <1>1, <3>4, <3>5, AlarmTimes
  <2> QED BY <2>2, <2>3
<1>14. Sounding'
  BY <1>2, <1>5, <1>12, <1>13 DEF AlarmInv, Sounding
<1> QED BY <1>10, <1>11, <1>14 DEF AlarmInv

LEMMA AlarmTicks == AlarmInv /\ Alarm!Tick => AlarmInv'
<1> SUFFICES ASSUME AlarmInv, Alarm!Tick PROVE AlarmInv'
  OBVIOUS
<1>1. /\ turning \in BOOLEAN /\ hot \subseteq Alarm!Kinds /\ beeped \in BOOLEAN
      /\ \A k \in Alarm!Kinds : alarm[k] \in [was : BOOLEAN, since : 0 .. Repeat[k]]
      /\ melody \in {"none", "short", "middle", "long"}
      /\ alert \in 0 .. Period /\ silent \in 0 .. Alarm!Longest /\ left \in Nat
  BY DEF AlarmInv, Alarm!TypeOK
<1>2. /\ alert > 0 /\ alert' = alert - 1 /\ ~(melody # "none" /\ left = 0)
      /\ left' = IF left > 0 THEN left - 1 ELSE 0
      /\ UNCHANGED <<turning, hot, melody, beeped>>
  BY DEF Alarm!Tick
<1>3. silent' = IF turning /\ hot # {} /\ left = 0
                  THEN IF silent < Repeat["coolant"] + 1 THEN silent + 1
                                                         ELSE Repeat["coolant"] + 1
                  ELSE 0
  BY DEF Alarm!Tick, Alarm!Older, Alarm!Longest
<1>4. \A k \in Alarm!Kinds : alarm'[k] =
        IF alarm[k].was THEN [alarm[k] EXCEPT !.since = Alarm!Older(@, Repeat[k])]
                        ELSE alarm[k]
  BY DEF Alarm!Tick
<1>5. ASSUME NEW k \in Alarm!Kinds, alarm[k].was
      PROVE  /\ alarm'[k] \in [was : BOOLEAN, since : 0 .. Repeat[k]]
             /\ alarm'[k].since = alarm[k].since + 1
             /\ (alarm'[k].since + alert') % Period = 0
             /\ alarm'[k].since + alert' <= Repeat[k]
             /\ left > 0 \/ silent <= alarm[k].since
  <2>1. /\ (alarm[k].since + alert) % Period = 0 /\ alarm[k].since + alert <= Repeat[k]
        /\ left > 0 \/ silent <= alarm[k].since
    BY <1>5 DEF AlarmInv, Punctual, Sounding
  <2>2. Repeat[k] \in Nat /\ Period \in Nat /\ alarm[k].since \in 0 .. Repeat[k]
    BY <1>1, AlarmTimes
  <2>3. alarm[k].since < Repeat[k] /\ alarm[k].since + 1 \in 0 .. Repeat[k]
    BY <1>1, <1>2, <2>1, <2>2
  <2>4. Alarm!Older(alarm[k].since, Repeat[k]) = alarm[k].since + 1
    BY <2>3 DEF Alarm!Older
  <2>5. alarm'[k] = [alarm[k] EXCEPT !.since = alarm[k].since + 1]
    BY <1>4, <1>5, <2>4
  <2>6. /\ alarm'[k] \in [was : BOOLEAN, since : 0 .. Repeat[k]]
        /\ alarm'[k].since = alarm[k].since + 1
    BY <1>1, <2>3, <2>5
  <2>7. alarm'[k].since + alert' = alarm[k].since + alert
    BY <1>1, <1>2, <2>2, <2>6
  <2> QED BY <2>1, <2>6, <2>7
<1>6. \A k \in Alarm!Kinds : ~alarm[k].was => alarm'[k] = alarm[k]
  BY <1>4
<1>7. silent' <= Repeat["coolant"] /\ silent' \in 0 .. Alarm!Longest
      /\ (left' > 0 \/ silent' + alert' <= Repeat["coolant"])
  <2>1. left > 0 \/ silent + alert <= Repeat["coolant"]
    BY DEF AlarmInv, Sounding
  <2>2. Period <= Repeat["coolant"]
    BY NextPeriod, AlarmTimes, AlarmAssumption
  <2>3. CASE left = 0
    BY <1>1, <1>2, <1>3, <2>1, <2>2, <2>3, AlarmTimes
  <2>4. CASE left > 0
    BY <1>1, <1>2, <1>3, <2>2, <2>4, AlarmTimes
  <2> QED BY <1>1, <2>3, <2>4
<1>8. Alarm!TypeOK'
  <2>1. \A k \in Alarm!Kinds : alarm'[k] \in [was : BOOLEAN, since : 0 .. Repeat[k]]
    BY <1>1, <1>5, <1>6
  <2>2. alert' \in 0 .. Period /\ left' \in Nat
    BY <1>1, <1>2, AlarmTimes
  <2> QED BY <1>1, <1>2, <1>7, <2>1, <2>2 DEF Alarm!TypeOK, Alarm!Longest
<1>9. ASSUME NEW k \in Alarm!Kinds, alarm'[k].was
      PROVE  /\ (alarm'[k].since + alert') % Period = 0
             /\ alarm'[k].since + alert' <= Repeat[k]
             /\ left' > 0 \/ silent' <= alarm'[k].since
  <2>1. alarm[k].was
    BY <1>6, <1>9
  <2>2. alarm[k].since \in 0 .. Repeat[k] /\ Repeat[k] \in Nat
    BY <1>1, AlarmTimes
  <2>3. left' > 0 \/ silent' <= alarm'[k].since
    <3>1. CASE left = 0
      BY <1>1, <1>3, <1>5, <2>1, <2>2, <3>1, AlarmTimes
    <3>2. CASE left > 0
      BY <1>3, <1>5, <2>1, <2>2, <3>2
    <3> QED BY <1>1, <3>1, <3>2
  <2> QED BY <1>5, <2>1, <2>3
<1>10. Punctual' /\ \A k \in Alarm!Kinds : alarm'[k].was => left' > 0 \/ silent' <= alarm'[k].since
  BY <1>9 DEF Punctual
<1>11. ~turning' \/ hot' = {} => silent' = 0
  BY <1>2, <1>3
<1>12. melody' # "none" /\ left' = 0 => silent' = 0
  BY <1>1, <1>2, <1>3
<1> QED BY <1>7, <1>8, <1>10, <1>11, <1>12 DEF AlarmInv, Sounding

LEMMA AlarmNext == AlarmInv /\ [Alarm!Next]_alarmVars => AlarmInv'
<1> SUFFICES ASSUME AlarmInv, [Alarm!Next]_alarmVars PROVE AlarmInv'
  OBVIOUS
<1>1. CASE Alarm!StartBeep
  <2>1. /\ UNCHANGED <<turning, hot, alarm, alert, silent>> /\ Alarm!Start("short")
        /\ beeped' = TRUE
    BY <1>1 DEF Alarm!StartBeep
  <2>2. /\ melody' \in {"none", "short", "middle", "long"} /\ left' \in Nat
        /\ left > 0 => left' > 0
        /\ melody' # "none" /\ left' = 0 => silent = 0
    BY <2>1, StartSounds
  <2>3. Alarm!TypeOK' /\ Punctual'
    BY <2>1, <2>2 DEF AlarmInv, Alarm!TypeOK, Alarm!Longest, Punctual
  <2>4. Sounding'
    BY <2>1, <2>2 DEF AlarmInv, Sounding
  <2> QED BY <2>3, <2>4 DEF AlarmInv
<1>2. CASE Alarm!MelodyEnds
  BY <1>2
     DEF Alarm!MelodyEnds, AlarmInv, Alarm!TypeOK, Alarm!Longest, Punctual, Sounding
<1>3. CASE Alarm!Changes
  <2>1. /\ UNCHANGED <<alarm, melody, left, alert, beeped>>
        /\ silent' = IF turning' /\ hot' # {} THEN silent ELSE 0
        /\ turning' \in BOOLEAN /\ hot' \subseteq Alarm!Kinds
        /\ silent \in 0 .. Alarm!Longest /\ alert \in 0 .. Period /\ left \in Nat
        /\ \A k \in Alarm!Kinds : alarm[k] \in [was : BOOLEAN, since : 0 .. Repeat[k]]
    BY <1>3 DEF AlarmInv, Alarm!TypeOK, Alarm!Changes
  <2>2. /\ silent' \in Nat /\ silent' <= silent /\ silent' \in 0 .. Alarm!Longest
        /\ silent = 0 => silent' = 0
    BY <2>1, AlarmTimes
  <2>3. Alarm!TypeOK' /\ Punctual'
    BY <2>1, <2>2 DEF AlarmInv, Alarm!TypeOK, Alarm!Longest, Punctual
  <2>4. \A k \in Alarm!Kinds : alarm'[k].was => left' > 0 \/ silent' <= alarm'[k].since
    <3> TAKE k \in Alarm!Kinds
    <3>1. alarm[k].was => left > 0 \/ silent <= alarm[k].since
      BY DEF AlarmInv, Sounding
    <3>2. alarm[k].since \in 0 .. Repeat[k]
      BY <2>1
    <3> QED BY <2>1, <2>2, <3>1, <3>2, AlarmTimes
  <2>5. /\ left' > 0 \/ silent' + alert' <= Repeat["coolant"]
        /\ silent' <= Repeat["coolant"]
    BY <2>1, <2>2, AlarmTimes DEF AlarmInv, Sounding
  <2>6. /\ ~turning' \/ hot' = {} => silent' = 0
        /\ melody' # "none" /\ left' = 0 => silent' = 0
    BY <2>1, <2>2 DEF AlarmInv, Sounding
  <2> QED BY <2>3, <2>4, <2>5, <2>6 DEF AlarmInv, Sounding
<1>4. CASE UNCHANGED alarmVars
  BY <1>4 DEF alarmVars, AlarmInv, Alarm!TypeOK, Alarm!Longest, Punctual, Sounding
<1> QED BY <1>1, <1>2, <1>3, <1>4, AlarmProcesses, AlarmTicks DEF Alarm!Next

LEMMA AlarmSounds == AlarmInv => Alarm!NoLongSilence
<1> SUFFICES ASSUME AlarmInv PROVE silent < Alarm!Longest
  BY DEF AlarmInv, Alarm!NoLongSilence
<1>1. silent \in 0 .. Alarm!Longest /\ silent <= Repeat["coolant"]
  BY DEF AlarmInv, Alarm!TypeOK, Sounding
<1> QED BY <1>1, AlarmTimes

--------------------------------------------------------------------------------
(* The speed on its way: it is recent, and a loss is tolerated                  *)

Numbers == Speeds \cup {0}   \* what a frame carries
Held == [rpm : Numbers, valid : BOOLEAN, age : 0 .. Timeout, status : BOOLEAN,
         got : BOOLEAN, connected : BOOLEAN, was : BOOLEAN, check : 0 .. Check]
Turns == [pending : SUBSET Link!Slot, next : Link!Slot, since : 0 .. Spacing]
Published == [sent : BOOLEAN, speed : Numbers, sinceSent : 0 .. Heartbeat,
              sinceTry : 0 .. Retry, retry : BOOLEAN]

SinceAttempt == IF pub.retry THEN pub.sinceTry ELSE pub.sinceSent
SpeedComing == \E i \in 1 .. Len(wire) : wire[i] # 0

Typed ==
  /\ engine \in Speeds /\ at \in {"publish", "work"} /\ tx \in Turns /\ pub \in Published
  /\ wire \in Seq(Numbers) /\ Len(wire) <= Ring /\ clk \in Held
  /\ power \in BOOLEAN /\ quiet \in BOOLEAN
  /\ had \in [Speeds -> 0 .. Timeout + 1] /\ missed \in 0 .. 2

(* The speed shown was the engine's no longer ago than it was decoded.          *)
Shown == IF clk.valid THEN clk.rpm \in Speeds /\ had[clk.rpm] <= clk.age ELSE clk.rpm = 0

(* A speed still in the receive buffers was the engine's in this very tick.     *)
Recent ==
  /\ had[engine] = 0
  /\ quiet => \A v \in Speeds : had[v] = 0
  /\ \A i \in 1 .. Len(wire) : wire[i] # 0 => had[wire[i]] = 0

(* Where nothing was heard since the check, the speed is older than the check.  *)
Heard == clk.valid /\ clk.got = FALSE => clk.age >= clk.check

(* Until two speed frames are missed the speed is as old as the last attempt to *)
(* send one, or a heartbeat older.                                              *)
Owed ==
  /\ quiet \/ ~power => missed = 2
  /\ missed < 2 /\ clk.valid /\ ~SpeedComing =>
       clk.age <= SinceAttempt + IF missed = 0 THEN 0 ELSE Heartbeat

LinkInv == Typed /\ Shown /\ Recent /\ Heard /\ Owed

LEMMA LinkTimes ==
  /\ Spacing \in Nat \ {0} /\ Retry \in Nat /\ Heartbeat \in Nat \ {0} /\ Retry <= Heartbeat
  /\ Ring \in Nat \ {0} /\ Timeout \in Nat /\ Timeout >= 3 * Heartbeat
  /\ Check \in Nat /\ Check >= Timeout
  /\ 0 \notin Speeds
BY SenderAssumption, LinkAssumption

LEMMA LinkSlots == Slots \in Nat \ {0} /\ Link!Slot = 0 .. Slots - 1
BY SenderAssumption DEF Link!Slot

LEMMA LinkAge ==
  ASSUME NEW n \in Nat, NEW a \in 0 .. n
  PROVE  Link!Older(a, n) \in 0 .. n /\ Link!Older(a, n) = IF a < n THEN a + 1 ELSE n
BY DEF Link!Older

(* The buffers as a sequence.                                                   *)
LEMMA BoundedBuffers ==
  ASSUME NEW w \in Seq(Numbers), Len(w) <= Ring
  PROVE  w \in Link!BoundedSeq(Numbers, Ring)
<1>1. Len(w) \in 0 .. Ring /\ w \in [1 .. Len(w) -> Numbers]
  BY LinkTimes
<1> QED BY <1>1 DEF Link!BoundedSeq, Link!SeqOf

LEMMA LinkTypes == LinkInv => Link!LinkTypeOK /\ Link!SpeedIsRecent
<1> SUFFICES ASSUME LinkInv PROVE Link!LinkTypeOK /\ Link!SpeedIsRecent
  OBVIOUS
<1>1. Link!SenderTypeOK
  BY DEF LinkInv, Typed, Turns, Published, Numbers, Link!SenderTypeOK
<1>2. wire \in Link!BoundedSeq(Numbers, Ring)
  BY BoundedBuffers DEF LinkInv, Typed
<1>3. Link!LinkTypeOK
  BY <1>1, <1>2 DEF LinkInv, Typed, Held, Numbers, Link!LinkTypeOK
<1>4. clk.valid => clk.rpm \in Speeds /\ had[clk.rpm] <= Timeout
  <2> SUFFICES ASSUME clk.valid PROVE clk.rpm \in Speeds /\ had[clk.rpm] <= Timeout
    OBVIOUS
  <2>1. clk.rpm \in Speeds /\ had[clk.rpm] <= clk.age
    BY DEF LinkInv, Shown
  <2>2. clk.age \in 0 .. Timeout /\ had[clk.rpm] \in 0 .. Timeout + 1
    BY <2>1 DEF LinkInv, Typed, Held
  <2> QED BY <2>1, <2>2, LinkTimes
<1> QED BY <1>3, <1>4 DEF LinkInv, Shown, Link!SpeedIsRecent

LEMMA LinkStart == Link!SendInit /\ Link!LinkInit => LinkInv
<1> SUFFICES ASSUME Link!SendInit, Link!LinkInit PROVE LinkInv
  OBVIOUS
<1>1. /\ engine \in Speeds /\ at = "publish"
      /\ tx = [pending |-> {}, next |-> 0, since |-> Spacing]
      /\ pub = [sent |-> FALSE, speed |-> 0, sinceSent |-> 0, sinceTry |-> 0,
                retry |-> FALSE]
      /\ wire = <<>> /\ power = TRUE /\ quiet = FALSE /\ missed = 2
      /\ clk = [rpm |-> 0, valid |-> FALSE, age |-> Timeout, status |-> FALSE,
                got |-> FALSE, connected |-> FALSE, was |-> FALSE, check |-> 0]
      /\ had = [v \in Speeds |-> IF v = engine THEN 0 ELSE Timeout + 1]
  BY DEF Link!SendInit, Link!LinkInit, Link!Silent, Link!NeverSent, Link!NoFrames
<1>2. tx \in Turns
  BY <1>1, LinkTimes, LinkSlots DEF Turns
<1>3. pub \in Published
  BY <1>1, LinkTimes DEF Published, Numbers
<1>4. clk \in Held /\ clk.valid = FALSE /\ clk.rpm = 0
  BY <1>1, LinkTimes DEF Held, Numbers
<1>5. had \in [Speeds -> 0 .. Timeout + 1] /\ had[engine] = 0
  BY <1>1, LinkTimes
<1>6. wire \in Seq(Numbers) /\ Len(wire) = 0
  BY <1>1
<1>7. Typed
  <2>1. Len(wire) <= Ring /\ missed \in 0 .. 2
    BY <1>1, <1>6, LinkTimes
  <2> QED BY <1>1, <1>2, <1>3, <1>4, <1>5, <1>6, <2>1 DEF Typed
<1>8. Recent
  BY <1>1, <1>5, <1>6 DEF Recent
<1> QED BY <1>1, <1>4, <1>7, <1>8 DEF LinkInv, Shown, Heard, Owed

(* The sender on this bus: its queue and its publisher keep their types.        *)
LEMMA LinkServes ==
  ASSUME Typed, NEW emits, Link!Service(tx.pending, emits)
  PROVE  tx' \in Turns
<1>1. tx \in Turns /\ tx.pending \in SUBSET Link!Slot /\ tx.next \in Link!Slot
  BY DEF Typed, Turns
<1>2. CASE ~Link!MayServe(tx.pending)
  <2>1. tx' = [tx EXCEPT !.pending = tx.pending]
    BY <1>2 DEF Link!Service
  <2> QED BY <1>1, <2>1 DEF Turns
<1>3. CASE Link!MayServe(tx.pending)
  <2> DEFINE t == Link!InTurn(tx.pending)
  <2>1. tx.pending # {} /\ Link!Serve(tx.pending)
    BY <1>3 DEF Link!Service, Link!MayServe
  <2>2. \E s \in tx.pending : \A r \in tx.pending :
          TurnOf(Slots, tx.next, s) <= TurnOf(Slots, tx.next, r)
    BY <1>1, <2>1, LinkSlots, NearestExists
  <2>3. \E s \in tx.pending : \A r \in tx.pending : Link!Turn(s) <= Link!Turn(r)
    BY <2>2 DEF TurnOf, Link!Turn
  <2>4. t \in tx.pending
    BY <2>3 DEF Link!InTurn
  <2>5. tx' = [pending |-> tx.pending \ {t}, next |-> (t + 1) % Slots, since |-> 0]
    BY <2>1 DEF Link!Serve
  <2> HIDE DEF t
  <2>6. t \in 0 .. Slots - 1
    BY <1>1, <2>4, LinkSlots
  <2>7. (t + 1) % Slots \in Link!Slot
    BY <2>6, LinkSlots, NextSlot
  <2>8. 0 \in 0 .. Spacing /\ tx.pending \ {t} \in SUBSET Link!Slot
    BY <1>1, LinkTimes
  <2> DEFINE y == (t + 1) % Slots
  <2>9. y \in Link!Slot /\ tx' = [pending |-> tx.pending \ {t}, next |-> y, since |-> 0]
    BY <2>5, <2>7
  <2> HIDE DEF y
  <2> QED BY <2>8, <2>9 DEF Turns
<1> QED BY <1>2, <1>3

LEMMA PublisherTyped ==
  ASSUME Typed, NEW ok \in BOOLEAN, Link!SendSpeed(ok)
  PROVE  /\ pub' \in Published
         /\ (IF pub'.retry THEN pub'.sinceTry ELSE pub'.sinceSent) = 0
<1>1. pub \in Published /\ engine \in Numbers /\ 0 \in 0 .. Heartbeat /\ 0 \in 0 .. Retry
  BY LinkTimes DEF Typed, Numbers
<1>2. CASE ok
  <2>1. pub' = [sent |-> TRUE, speed |-> engine, sinceSent |-> 0, sinceTry |-> 0,
                retry |-> FALSE]
    BY <1>2 DEF Link!SendSpeed
  <2> QED BY <1>1, <2>1 DEF Published
<1>3. CASE ~ok
  <2>1. pub' = [pub EXCEPT !.sinceSent = 0, !.sinceTry = 0, !.retry = TRUE]
    BY <1>3 DEF Link!SendSpeed
  <2> QED BY <1>1, <2>1 DEF Published
<1> QED BY <1>2, <1>3

(* A frame into the buffers.                                                    *)
LEMMA Buffered ==
  ASSUME Typed, NEW f \in Numbers, NEW arrives \in BOOLEAN, Link!Put(f, arrives)
  PROVE  /\ wire' \in Seq(Numbers) /\ Len(wire') <= Ring
         /\ wire' = wire \/ wire' = Append(wire, f)
         /\ \A i \in 1 .. Len(wire') : wire'[i] = f \/ (i \in 1 .. Len(wire) /\ wire'[i] = wire[i])
         /\ \A i \in 1 .. Len(wire) : i \in 1 .. Len(wire') /\ wire'[i] = wire[i]
         /\ wire' # wire => Len(wire') \in 1 .. Len(wire') /\ wire'[Len(wire')] = f
<1>1. wire \in Seq(Numbers) /\ Len(wire) <= Ring /\ Len(wire) \in Nat
  BY DEF Typed
<1>2. CASE arrives /\ Len(wire) < Ring
  <2>1. wire' = Append(wire, f)
    BY <1>2 DEF Link!Put
  <2>2. /\ Append(wire, f) \in Seq(Numbers) /\ Len(Append(wire, f)) = Len(wire) + 1
        /\ \A i \in 1 .. Len(wire) : Append(wire, f)[i] = wire[i]
        /\ Append(wire, f)[Len(wire) + 1] = f
    BY <1>1
  <2>3. Len(wire') <= Ring
    BY <1>1, <1>2, <2>1, <2>2, LinkTimes
  <2>4. \A i \in 1 .. Len(wire') : i = Len(wire) + 1 \/ i \in 1 .. Len(wire)
    BY <1>1, <2>1, <2>2
  <2>5. \A i \in 1 .. Len(wire) : i \in 1 .. Len(wire')
    BY <1>1, <2>1, <2>2
  <2>6. Len(wire') \in 1 .. Len(wire')
    BY <1>1, <2>1, <2>2
  <2>7. Len(wire') = Len(wire) + 1
    BY <2>1, <2>2
  <2>8. \A i \in 1 .. Len(wire') : wire'[i] = f \/ (i \in 1 .. Len(wire) /\ wire'[i] = wire[i])
    <3> TAKE i \in 1 .. Len(wire')
    <3>1. CASE i = Len(wire) + 1
      <4>1. Append(wire, f)[i] = f
        BY <2>2, <3>1
      <4> QED BY <2>1, <4>1
    <3>2. CASE i \in 1 .. Len(wire)
      BY <2>1, <2>2, <3>2
    <3> QED BY <2>4, <3>1, <3>2
  <2>9. wire'[Len(wire')] = f
    BY <2>1, <2>2, <2>7
  <2>10. \A i \in 1 .. Len(wire) : wire'[i] = wire[i]
    BY <2>1, <2>2
  <2> QED BY <2>1, <2>2, <2>3, <2>5, <2>6, <2>8, <2>9, <2>10
<1>3. CASE ~(arrives /\ Len(wire) < Ring)
  <2>1. wire' = wire
    BY <1>3 DEF Link!Put
  <2> QED BY <1>1, <2>1
<1> QED BY <1>2, <1>3

(* Reading the frames, the time-out and the check, one after the other.         *)
LEMMA Decodes ==
  ASSUME Typed, Recent
  PROVE  LET d == Link!Decoded IN
         /\ d \in Held /\ d.check = clk.check /\ d.was = clk.was
         /\ SpeedComing => /\ d.valid = TRUE /\ d.rpm \in Speeds /\ had[d.rpm] = 0
                           /\ d.age = 0 /\ d.got = TRUE
         /\ ~SpeedComing => d.valid = clk.valid /\ d.rpm = clk.rpm /\ d.age = clk.age
         /\ d.got = FALSE => wire = <<>> /\ d = clk
<1> DEFINE d == Link!Decoded
           speeds == {i \in 1 .. Len(wire) : wire[i] # 0}
           heard == IF wire = <<>> THEN clk
                   ELSE [clk EXCEPT !.got = TRUE, !.connected = TRUE,
                                    !.status = @ \/ 0 \in Link!ToSet(wire)]
           last == Link!Max(speeds)
<1>1. /\ wire \in Seq(Numbers) /\ clk \in Held /\ Len(wire) \in Nat
      /\ \A i \in 1 .. Len(wire) : wire[i] \in Numbers
      /\ wire = <<>> <=> Len(wire) = 0
  BY DEF Typed
<1>2. d = IF speeds = {} THEN heard
          ELSE [heard EXCEPT !.rpm = wire[last], !.valid = TRUE, !.age = 0]
  BY DEF Link!Decoded, Link!Status
<1>3. SpeedComing <=> speeds # {}
  BY DEF SpeedComing
<1>4. /\ heard \in Held /\ heard.check = clk.check /\ heard.was = clk.was
      /\ heard.valid = clk.valid /\ heard.rpm = clk.rpm /\ heard.age = clk.age
      /\ wire # <<>> => heard.got = TRUE
      /\ wire = <<>> => heard = clk
  <2> DEFINE status == clk.status \/ 0 \in Link!ToSet(wire)
  <2>1. status \in BOOLEAN
    OBVIOUS
  <2>2. heard = IF wire = <<>> THEN clk
               ELSE [clk EXCEPT !.got = TRUE, !.connected = TRUE, !.status = status]
    BY <1>1 DEF Held
  <2> HIDE DEF status, heard
  <2>3. CASE wire = <<>>
    BY <1>1, <2>2, <2>3
  <2>4. CASE wire # <<>>
    BY <1>1, <2>1, <2>2, <2>4 DEF Held
  <2> QED BY <2>3, <2>4
<1> HIDE DEF d, heard
<1>5. CASE speeds = {}
  <2>1. d = heard /\ ~SpeedComing
    BY <1>2, <1>3, <1>5
  <2>2. d.got = FALSE => wire = <<>>
    BY <1>4, <2>1
  <2> QED BY <1>4, <2>1, <2>2 DEF d
<1>6. CASE speeds # {}
  <2>1. last \in speeds
    <3>1. speeds \in SUBSET (1 .. Len(wire))
      OBVIOUS
    <3> HIDE DEF speeds
    <3>2. \E x \in speeds : \A y \in speeds : x >= y
      BY <1>1, <1>6, <3>1, Greatest
    <3> QED BY <3>2 DEF Link!Max
  <2> HIDE DEF last
  <2>2. last \in 1 .. Len(wire) /\ wire[last] # 0
    BY <2>1
  <2>3. wire[last] \in Speeds /\ had[wire[last]] = 0 /\ wire[last] \in Numbers
    BY <1>1, <2>2 DEF Recent, Numbers
  <2>4. d = [heard EXCEPT !.rpm = wire[last], !.valid = TRUE, !.age = 0]
    BY <1>2, <1>6
  <2>5. 0 \in 0 .. Timeout
    BY LinkTimes
  <2>6. /\ d \in Held /\ d.check = heard.check /\ d.was = heard.was /\ d.got = heard.got
        /\ d.valid = TRUE /\ d.rpm = wire[last] /\ d.age = 0
    BY <1>4, <2>3, <2>4, <2>5 DEF Held
  <2>7. wire # <<>>
    BY <1>1, <2>2
  <2> QED BY <1>3, <1>4, <1>6, <2>3, <2>6, <2>7 DEF d
<1> QED BY <1>5, <1>6

LEMMA Expires ==
  ASSUME NEW c \in Held
  PROVE  LET e == Link!Expired(c) IN
         /\ e \in Held /\ e.age = c.age /\ e.got = c.got /\ e.was = c.was /\ e.check = c.check
         /\ e.valid = TRUE => c.valid = TRUE /\ c.age < Timeout /\ e.rpm = c.rpm
         /\ c.valid = TRUE /\ e.valid = FALSE => c.age >= Timeout /\ e.rpm = 0
         /\ c.valid = FALSE => e = c
<1>1. c.valid \in BOOLEAN /\ c.age \in 0 .. Timeout
  BY DEF Held
<1>2. CASE c.valid /\ c.age >= Timeout
  <2>1. Link!Expired(c) = [c EXCEPT !.valid = FALSE, !.rpm = 0]
    BY <1>2 DEF Link!Expired
  <2>2. 0 \in Numbers
    BY DEF Numbers
  <2> QED BY <1>1, <1>2, <2>1, <2>2 DEF Held
<1>3. CASE ~(c.valid /\ c.age >= Timeout)
  <2>1. Link!Expired(c) = c
    BY <1>3 DEF Link!Expired
  <2>2. c.valid = TRUE => c.age < Timeout
    BY <1>1, <1>3, LinkTimes
  <2> QED BY <1>1, <2>1, <2>2
<1> QED BY <1>2, <1>3

LEMMA Checks ==
  ASSUME NEW e \in Held
  PROVE  LET c == Link!Checked(e) IN
         /\ c \in Held /\ c.age = e.age
         /\ c.valid = TRUE => e.valid = TRUE /\ c.rpm = e.rpm
         /\ c.valid = FALSE => c.rpm = 0 \/ (e.valid = FALSE /\ c.rpm = e.rpm)
         /\ e.valid = TRUE /\ c.valid = FALSE => e.got = FALSE /\ e.check >= Check
         /\ (c.check = e.check /\ c.got = e.got) \/ c.check = 0
<1> DEFINE c == Link!Checked(e)
<1>1. e.valid \in BOOLEAN /\ e.check \in 0 .. Check /\ e.got \in BOOLEAN /\ e.was \in BOOLEAN
  BY DEF Held
<1>2. CASE e.check < Check
  <2>1. c = e
    BY <1>2 DEF Link!Checked
  <2> QED BY <1>1, <2>1
<1>3. CASE ~(e.check < Check)
  <2> DEFINE heard == [e EXCEPT !.connected = e.got, !.got = FALSE, !.was = e.got, !.check = 0]
  <2>1. 0 \in 0 .. Check /\ 0 \in Numbers /\ e.check >= Check
    BY <1>1, <1>3, LinkTimes DEF Numbers
  <2>2. /\ heard \in Held /\ heard.check = 0 /\ heard.valid = e.valid /\ heard.rpm = e.rpm
        /\ heard.age = e.age
    BY <1>1, <2>1 DEF Held
  <2>3. c = IF e.was /\ ~e.got
              THEN [heard EXCEPT !.rpm = 0, !.valid = FALSE, !.status = FALSE] ELSE heard
    BY <1>3 DEF Link!Checked
  <2> HIDE DEF heard, c
  <2>4. CASE e.was /\ ~e.got
    <3>1. c = [heard EXCEPT !.rpm = 0, !.valid = FALSE, !.status = FALSE]
      BY <2>3, <2>4
    <3>2. c \in Held /\ c.age = e.age /\ c.valid = FALSE /\ c.rpm = 0 /\ c.check = 0
      BY <2>1, <2>2, <3>1 DEF Held
    <3>3. e.got = FALSE
      BY <1>1, <2>4
    <3>4. c.valid = TRUE => e.valid = TRUE /\ c.rpm = e.rpm
      BY <3>2
    <3>5. e.valid = TRUE /\ c.valid = FALSE => e.got = FALSE /\ e.check >= Check
      BY <2>1, <3>3
    <3> QED BY <3>2, <3>4, <3>5 DEF c
  <2>5. CASE ~(e.was /\ ~e.got)
    <3>1. c = heard
      BY <2>3, <2>5
    <3> QED BY <1>1, <2>2, <3>1 DEF c
  <2> QED BY <2>4, <2>5
<1> QED BY <1>2, <1>3

LEMMA LinkEcu ==
  ASSUME LinkInv, NEW ok \in BOOLEAN, NEW arrives \in BOOLEAN, Link!EcuPass(ok, arrives)
  PROVE  LinkInv'
<1>1. /\ power /\ UNCHANGED <<engine, at, clk, power, quiet, had>>
      /\ Typed
  BY DEF Link!EcuPass, LinkInv
<1>2. /\ engine \in Speeds /\ missed \in 0 .. 2 /\ quiet \in BOOLEAN /\ clk \in Held
      /\ clk.valid \in BOOLEAN /\ clk.age \in 0 .. Timeout /\ pub \in Published
      /\ tx \in Turns /\ had[engine] = 0
  BY <1>1 DEF LinkInv, Typed, Held, Recent
<1>3. SinceAttempt \in 0 .. Heartbeat
  <2>1. pub.sinceTry \in 0 .. Retry /\ pub.sinceSent \in 0 .. Heartbeat
    BY <1>2 DEF Published
  <2> QED BY <2>1, LinkTimes DEF SinceAttempt
<1>4. CASE Link!SpeedDue
  <2>1. /\ Link!SendOrServe(ok, FALSE) /\ Link!Put(engine, arrives)
        /\ missed' = IF wire' # wire /\ ~quiet THEN 0 ELSE Link!Older(missed, 2)
    BY <1>4 DEF Link!EcuPass
  <2>2. Link!SendSpeed(ok) /\ tx' = [tx EXCEPT !.since = 0]
    BY <1>4, <2>1 DEF Link!SendOrServe
  <2>3. pub' \in Published /\ SinceAttempt' = 0
    BY <1>1, <2>2, PublisherTyped DEF SinceAttempt
  <2>4. tx' \in Turns
    <3>1. 0 \in 0 .. Spacing
      BY LinkTimes
    <3> QED BY <1>2, <2>2, <3>1 DEF Turns
  <2>5. engine \in Numbers /\ engine # 0
    BY <1>2, LinkTimes DEF Numbers
  <2>6. /\ wire' \in Seq(Numbers) /\ Len(wire') <= Ring
        /\ \A i \in 1 .. Len(wire') : wire'[i] = engine \/ (i \in 1 .. Len(wire) /\ wire'[i] = wire[i])
        /\ \A i \in 1 .. Len(wire) : i \in 1 .. Len(wire') /\ wire'[i] = wire[i]
        /\ wire' # wire => Len(wire') \in 1 .. Len(wire') /\ wire'[Len(wire')] = engine
    BY <1>1, <2>1, <2>5, Buffered
  <2>7. missed' \in 0 .. 2 /\ (missed' = 0 \/ missed' = Link!Older(missed, 2))
        /\ Link!Older(missed, 2) = IF missed < 2 THEN missed + 1 ELSE 2
    BY <1>2, <2>1, LinkAge
  <2>8. Typed'
    BY <1>1, <2>3, <2>4, <2>6, <2>7 DEF Typed
  <2>9. Recent'
    <3>1. \A i \in 1 .. Len(wire') : wire'[i] # 0 => had[wire'[i]] = 0
      BY <1>2, <2>6 DEF LinkInv, Recent
    <3> QED BY <1>1, <3>1 DEF LinkInv, Recent
  <2>10. Owed'
    <3>1. quiet \/ ~power => missed' = 2
      <4>1. quiet \/ ~power => missed = 2
        BY DEF LinkInv, Owed
      <4> QED BY <1>1, <1>2, <2>1, <2>7, <4>1
    <3>2. ASSUME missed' < 2, clk.valid, ~SpeedComing'
          PROVE  clk.age <= IF missed' = 0 THEN 0 ELSE Heartbeat
      <4>1. wire' = wire /\ ~SpeedComing
        BY <2>5, <2>6, <3>2 DEF SpeedComing
      <4>2. missed = 0 /\ missed' = 1
        BY <1>2, <2>1, <2>7, <3>2, <4>1
      <4>3. clk.age <= SinceAttempt
        BY <1>2, <1>3, <3>2, <4>1, <4>2, LinkTimes DEF LinkInv, Owed
      <4> QED BY <1>2, <1>3, <4>2, <4>3, LinkTimes
    <3> QED BY <1>1, <1>2, <2>3, <2>7, <3>1, <3>2, LinkTimes DEF Owed
  <2> QED BY <1>1, <2>8, <2>9, <2>10 DEF LinkInv, Shown, Heard
<1>5. CASE ~Link!SpeedDue
  <2>1. /\ Link!SendOrServe(ok, TRUE) /\ Link!Put(0, arrives) /\ UNCHANGED missed
    BY <1>5 DEF Link!EcuPass, Link!Status
  <2>2. Link!Service(tx.pending, TRUE) /\ UNCHANGED pub
    BY <1>5, <2>1 DEF Link!SendOrServe
  <2>3. tx' \in Turns
    BY <1>1, <2>2, LinkServes
  <2>4. 0 \in Numbers
    BY DEF Numbers
  <2>5. /\ wire' \in Seq(Numbers) /\ Len(wire') <= Ring
        /\ \A i \in 1 .. Len(wire') : wire'[i] = 0 \/ (i \in 1 .. Len(wire) /\ wire'[i] = wire[i])
        /\ \A i \in 1 .. Len(wire) : i \in 1 .. Len(wire') /\ wire'[i] = wire[i]
    BY <1>1, <2>1, <2>4, Buffered
  <2>6. Typed'
    BY <1>1, <2>1, <2>2, <2>3, <2>5 DEF Typed
  <2>7. Recent'
    <3>1. \A i \in 1 .. Len(wire') : wire'[i] # 0 => had[wire'[i]] = 0
      BY <2>5 DEF LinkInv, Recent
    <3> QED BY <1>1, <3>1 DEF LinkInv, Recent
  <2>8. SpeedComing => SpeedComing'
    BY <2>5 DEF SpeedComing
  <2>9. Owed'
    BY <1>1, <2>1, <2>2, <2>8 DEF LinkInv, Owed, SinceAttempt
  <2> QED BY <1>1, <2>6, <2>7, <2>9 DEF LinkInv, Shown, Heard
<1> QED BY <1>4, <1>5

LEMMA LinkPass == LinkInv /\ Link!ClusterPass =>
  LinkInv' /\ (clk.valid /\ ~clk'.valid => missed = 2)
<1> SUFFICES ASSUME LinkInv, Link!ClusterPass
             PROVE  LinkInv' /\ (clk.valid /\ ~clk'.valid => missed = 2)
  OBVIOUS
<1> DEFINE d == Link!Decoded
           e == Link!Expired(d)
           c == Link!Checked(e)
<1>1. /\ clk' = c /\ wire' = <<>>
      /\ had' = [v \in Speeds |-> IF quiet \/ v \in {engine, clk'.rpm} THEN had[v]
                                  ELSE Timeout + 1]
      /\ missed' = IF clk'.valid THEN missed ELSE 2
      /\ UNCHANGED <<engine, tx, pub, at, passed, power, quiet>>
  BY DEF Link!ClusterPass, Link!sendVars, Link!sender
<1>2. Typed /\ Recent /\ Shown /\ Heard /\ Owed
  BY DEF LinkInv
<1>3. /\ d \in Held /\ d.check = clk.check
      /\ SpeedComing => /\ d.valid = TRUE /\ d.rpm \in Speeds /\ had[d.rpm] = 0
                        /\ d.age = 0 /\ d.got = TRUE
      /\ ~SpeedComing => d.valid = clk.valid /\ d.rpm = clk.rpm /\ d.age = clk.age
      /\ d.got = FALSE => wire = <<>> /\ d = clk
  BY <1>2, Decodes
<1> HIDE DEF d
<1>4. /\ e \in Held /\ e.age = d.age /\ e.got = d.got /\ e.check = d.check
      /\ e.valid = TRUE => d.valid = TRUE /\ d.age < Timeout /\ e.rpm = d.rpm
      /\ d.valid = TRUE /\ e.valid = FALSE => d.age >= Timeout /\ e.rpm = 0
      /\ d.valid = FALSE => e = d
  BY <1>3, Expires
<1> HIDE DEF e
<1>5. /\ c \in Held /\ c.age = e.age
      /\ c.valid = TRUE => e.valid = TRUE /\ c.rpm = e.rpm
      /\ c.valid = FALSE => c.rpm = 0 \/ (e.valid = FALSE /\ c.rpm = e.rpm)
      /\ e.valid = TRUE /\ c.valid = FALSE => e.got = FALSE /\ e.check >= Check
      /\ (c.check = e.check /\ c.got = e.got) \/ c.check = 0
  BY <1>4, Checks
<1> HIDE DEF c
<1>6. /\ clk.valid \in BOOLEAN /\ d.valid \in BOOLEAN /\ e.valid \in BOOLEAN
      /\ c.valid \in BOOLEAN /\ clk.got \in BOOLEAN /\ d.got \in BOOLEAN
      /\ clk.age \in 0 .. Timeout /\ clk.check \in 0 .. Check /\ d.age \in 0 .. Timeout
      /\ e.age \in 0 .. Timeout /\ e.check \in 0 .. Check /\ c.age \in 0 .. Timeout
      /\ missed \in 0 .. 2 /\ engine \in Speeds /\ had \in [Speeds -> 0 .. Timeout + 1]
  BY <1>2, <1>3, <1>4, <1>5 DEF Held, Typed
<1>7. d.valid = TRUE => d.rpm \in Speeds /\ had[d.rpm] <= d.age
  <2>1. CASE SpeedComing
    BY <1>3, <1>6, <2>1, LinkTimes
  <2>2. CASE ~SpeedComing
    BY <1>2, <1>3, <2>2 DEF Shown
  <2> QED BY <2>1, <2>2
<1>8. d.valid = FALSE => d.rpm = 0 /\ clk.valid = FALSE
  BY <1>2, <1>3, <1>6 DEF Shown
<1>9. c.valid = TRUE => /\ d.valid = TRUE /\ c.rpm = d.rpm /\ c.age = d.age
                        /\ c.rpm \in Speeds /\ had[c.rpm] <= c.age
  BY <1>4, <1>5, <1>7
<1>10. c.valid = FALSE => c.rpm = 0
  BY <1>4, <1>5, <1>6, <1>8
<1>11. Typed'
  <2>1. wire' \in Seq(Numbers) /\ Len(wire') <= Ring
    BY <1>1, LinkTimes
  <2>2. had' \in [Speeds -> 0 .. Timeout + 1]
    <3>1. Timeout + 1 \in 0 .. Timeout + 1
      BY LinkTimes
    <3> QED BY <1>1, <1>6, <3>1
  <2>3. missed' \in 0 .. 2
    BY <1>1, <1>6
  <2> QED BY <1>1, <1>2, <1>5, <2>1, <2>2, <2>3 DEF Typed
<1>12. Shown'
  <2>1. CASE c.valid = TRUE
    BY <1>1, <1>9, <2>1 DEF Shown
  <2>2. CASE c.valid = FALSE
    BY <1>1, <1>10, <2>2 DEF Shown
  <2> QED BY <1>6, <2>1, <2>2
<1>13. Recent'
  <2>1. had'[engine] = 0
    BY <1>1, <1>2, <1>6 DEF Recent
  <2>2. quiet => \A v \in Speeds : had'[v] = 0
    BY <1>1, <1>2 DEF Recent
  <2>3. Len(wire') = 0
    BY <1>1
  <2> QED BY <1>1, <2>1, <2>2, <2>3 DEF Recent
<1>14. Heard'
  <2> SUFFICES ASSUME c.valid = TRUE, c.got = FALSE PROVE c.age >= c.check
    BY <1>1, <1>6 DEF Heard
  <2>1. CASE c.check = 0
    BY <1>6, <2>1, LinkTimes
  <2>2. CASE c.check = e.check /\ c.got = e.got
    <3>1. d = clk
      BY <1>3, <1>4, <2>2
    <3>2. clk.age >= clk.check
      BY <1>2, <1>4, <1>9, <2>2, <3>1 DEF Heard
    <3> QED BY <1>4, <1>5, <2>2, <3>1, <3>2
  <2> QED BY <1>5, <2>1, <2>2
<1>15. clk.valid = TRUE /\ c.valid = FALSE => missed = 2
  <2> SUFFICES ASSUME clk.valid = TRUE, c.valid = FALSE, missed # 2 PROVE FALSE
    OBVIOUS
  <2>1. d.valid = TRUE
    BY <1>3
  <2>2. d = clk \/ d.got = TRUE
    BY <1>3, <1>6
  <2>3. d.age >= Timeout
    <3>1. CASE e.valid = FALSE
      BY <1>4, <2>1, <3>1
    <3>2. CASE e.valid = TRUE
      <4>1. d.got = FALSE /\ clk.check >= Check
        BY <1>3, <1>4, <1>5, <3>2
      <4>2. d = clk /\ clk.got = FALSE
        BY <1>3, <4>1
      <4>3. clk.age >= clk.check
        BY <1>2, <4>2 DEF Heard
      <4> QED BY <1>6, <4>1, <4>2, <4>3, LinkTimes
    <3> QED BY <1>6, <3>1, <3>2
  <2>4. ~SpeedComing
    BY <1>3, <2>3, LinkTimes
  <2>5. clk.age >= Timeout /\ missed < 2
    BY <1>3, <1>6, <2>3, <2>4
  <2>6. clk.age <= SinceAttempt + IF missed = 0 THEN 0 ELSE Heartbeat
    BY <1>2, <2>4, <2>5 DEF Owed
  <2>7. SinceAttempt \in 0 .. Heartbeat
    <3>1. pub.sinceTry \in 0 .. Retry /\ pub.sinceSent \in 0 .. Heartbeat
      BY <1>2 DEF Typed, Published
    <3> QED BY <3>1, LinkTimes DEF SinceAttempt
  <2> QED BY <1>6, <2>5, <2>6, <2>7, LinkTimes
<1>16. Owed'
  <2>1. quiet \/ ~power => missed' = 2
    BY <1>1, <1>2 DEF Owed
  <2>2. ASSUME missed' < 2, clk'.valid
        PROVE  clk'.age <= SinceAttempt + IF missed' = 0 THEN 0 ELSE Heartbeat
    <3>1. missed' = missed /\ c.valid = TRUE
      BY <1>1, <1>6, <2>2
    <3>2. SinceAttempt \in Nat
      <4>1. pub.sinceTry \in 0 .. Retry /\ pub.sinceSent \in 0 .. Heartbeat
        BY <1>2 DEF Typed, Published
      <4> QED BY <4>1, LinkTimes DEF SinceAttempt
    <3>3. CASE SpeedComing
      BY <1>1, <1>3, <1>9, <3>1, <3>2, <3>3, LinkTimes
    <3>4. CASE ~SpeedComing
      <4>1. clk.valid = TRUE /\ clk'.age = clk.age
        BY <1>1, <1>3, <1>9, <3>1, <3>4
      <4> QED BY <1>2, <2>2, <3>1, <3>4, <4>1 DEF Owed
    <3> QED BY <3>3, <3>4
  <2>3. SinceAttempt' = SinceAttempt
    BY <1>1 DEF SinceAttempt
  <2> QED BY <1>1, <2>1, <2>2, <2>3 DEF Owed
<1>17. LinkInv'
  BY <1>11, <1>12, <1>13, <1>14, <1>16 DEF LinkInv
<1>18. clk.valid /\ ~clk'.valid => missed = 2
  BY <1>1, <1>6, <1>15
<1> QED BY <1>17, <1>18

LEMMA LinkTick == LinkInv /\ Link!Tick => LinkInv'
<1> SUFFICES ASSUME LinkInv, Link!Tick PROVE LinkInv'
  OBVIOUS
<1>1. /\ Link!EcuIsDone /\ wire = <<>> /\ Link!Checked(Link!Expired(clk)) = clk
      /\ clk' = [clk EXCEPT !.age = Link!Older(clk.age, Timeout),
                            !.check = Link!Older(clk.check, Check)]
      /\ had' = [v \in Speeds |-> IF quiet \/ v = engine THEN 0
                                  ELSE Link!Older(had[v], Timeout + 1)]
      /\ UNCHANGED <<engine, at, passed, wire, power, quiet, missed>>
  BY DEF Link!Tick, Link!ClusterIsDone
<1>2. Typed /\ Recent /\ Shown /\ Heard /\ Owed
  BY DEF LinkInv
<1>3. /\ clk \in Held /\ clk.valid \in BOOLEAN /\ clk.age \in 0 .. Timeout
      /\ clk.check \in 0 .. Check /\ clk.got \in BOOLEAN
      /\ missed \in 0 .. 2 /\ engine \in Speeds /\ had \in [Speeds -> 0 .. Timeout + 1]
      /\ tx \in Turns /\ pub \in Published
      /\ pub.retry \in BOOLEAN /\ pub.sinceTry \in 0 .. Retry /\ pub.sinceSent \in 0 .. Heartbeat
  BY <1>2 DEF Typed, Held, Published
<1>4. /\ Link!Older(clk.age, Timeout) \in 0 .. Timeout
      /\ Link!Older(clk.age, Timeout) =
           IF clk.age < Timeout THEN clk.age + 1 ELSE Timeout
      /\ Link!Older(clk.check, Check) \in 0 .. Check
      /\ Link!Older(clk.check, Check) = IF clk.check < Check THEN clk.check + 1 ELSE Check
  BY <1>3, LinkAge, LinkTimes
<1>5. /\ clk' \in Held /\ clk'.valid = clk.valid /\ clk'.rpm = clk.rpm /\ clk'.got = clk.got
      /\ clk'.age = Link!Older(clk.age, Timeout) /\ clk'.check = Link!Older(clk.check, Check)
  <2> HIDE DEF Link!Older
  <2> QED BY <1>1, <1>3, <1>4 DEF Held
<1>6. clk.valid = TRUE => clk.age < Timeout
  <2> DEFINE e == Link!Expired(clk)
             c == Link!Checked(e)
  <2>1. e \in Held /\ (e.valid = TRUE => clk.age < Timeout)
    BY <1>3, Expires
  <2> HIDE DEF e
  <2>2. c.valid = TRUE => e.valid = TRUE
    BY <2>1, Checks
  <2>3. c = clk
    BY <1>1 DEF e
  <2> HIDE DEF c
  <2> QED BY <2>1, <2>2, <2>3
<1>7. \A v \in Speeds : /\ Link!Older(had[v], Timeout + 1) \in 0 .. Timeout + 1
                        /\ Link!Older(had[v], Timeout + 1) <= had[v] + 1
  <2> TAKE v \in Speeds
  <2>1. had[v] \in 0 .. Timeout + 1 /\ Timeout + 1 \in Nat
    BY <1>3, LinkTimes
  <2>2. /\ Link!Older(had[v], Timeout + 1) \in 0 .. Timeout + 1
        /\ Link!Older(had[v], Timeout + 1) =
             IF had[v] < Timeout + 1 THEN had[v] + 1 ELSE Timeout + 1
    BY <2>1, LinkAge
  <2> HIDE DEF Link!Older
  <2> QED BY <2>1, <2>2, LinkTimes
<1>8. /\ had' \in [Speeds -> 0 .. Timeout + 1]
      /\ \A v \in Speeds : had'[v] <= had[v] + 1
  <2>1. \A v \in Speeds : had[v] \in 0 .. Timeout + 1 /\ 0 \in 0 .. Timeout + 1
    BY <1>3, LinkTimes
  <2> HIDE DEF Link!Older
  <2>2. \A v \in Speeds : had'[v] = 0 \/ had'[v] = Link!Older(had[v], Timeout + 1)
    BY <1>1
  <2>3. had' \in [Speeds -> 0 .. Timeout + 1]
    BY <1>1, <1>7, <2>1
  <2>4. \A v \in Speeds : 0 <= had[v] + 1
    BY <2>1
  <2> QED BY <1>7, <2>2, <2>3, <2>4
<1>9. Shown'
  <2>1. CASE clk.valid = TRUE
    <3>1. clk.rpm \in Speeds /\ had[clk.rpm] <= clk.age
      BY <1>2, <2>1 DEF Shown
    <3>2. had[clk.rpm] \in 0 .. Timeout + 1 /\ had'[clk.rpm] \in 0 .. Timeout + 1
          /\ had'[clk.rpm] <= had[clk.rpm] + 1
      BY <1>3, <1>8, <3>1
    <3>3. clk'.age = clk.age + 1
      BY <1>4, <1>5, <1>6, <2>1
    <3>4. had'[clk.rpm] <= clk'.age
      BY <1>3, <3>1, <3>2, <3>3, LinkTimes
    <3> QED BY <1>5, <2>1, <3>1, <3>4 DEF Shown
  <2>2. CASE clk.valid = FALSE
    BY <1>2, <1>5, <2>2 DEF Shown
  <2> QED BY <1>3, <2>1, <2>2
<1>10. Recent'
  <2>1. had'[engine] = 0 /\ (quiet => \A v \in Speeds : had'[v] = 0)
    BY <1>1, <1>3
  <2>2. Len(wire') = 0
    BY <1>1
  <2> QED BY <1>1, <2>1, <2>2 DEF Recent
<1>11. Heard'
  <2> SUFFICES ASSUME clk.valid = TRUE, clk.got = FALSE PROVE clk'.age >= clk'.check
    BY <1>3, <1>5 DEF Heard
  <2>1. clk.age >= clk.check
    BY <1>2 DEF Heard
  <2> QED BY <1>3, <1>4, <1>5, <1>6, <2>1, LinkTimes
<1>12. /\ tx' \in Turns /\ pub' \in Published
       /\ missed < 2 => SinceAttempt' = SinceAttempt + 1
       /\ SinceAttempt \in Nat
  <2>1. SinceAttempt \in Nat
    BY <1>3, LinkTimes DEF SinceAttempt
  <2>2. CASE ~power
    <3>1. UNCHANGED <<tx, pub>> /\ missed = 2
      BY <1>2, <2>2 DEF Link!Tick, Owed
    <3> QED BY <1>3, <2>1, <3>1
  <2>3. CASE power
    <3>1. /\ tx' = [tx EXCEPT !.since = Link!Older(tx.since, Spacing),
                              !.pending = tx.pending \cup Link!Slot]
          /\ pub' = IF pub.retry THEN [pub EXCEPT !.sinceTry = Link!Older(pub.sinceTry, Retry)]
                    ELSE [pub EXCEPT !.sinceSent = Link!Older(pub.sinceSent, Heartbeat)]
      BY <2>3 DEF Link!Tick, Link!SenderAges
    <3>2. tx.since \in 0 .. Spacing /\ tx.pending \cup Link!Slot \in SUBSET Link!Slot
      BY <1>3 DEF Turns
    <3>3. /\ Link!Older(tx.since, Spacing) \in 0 .. Spacing
          /\ Link!Older(pub.sinceTry, Retry) \in 0 .. Retry
          /\ Link!Older(pub.sinceSent, Heartbeat) \in 0 .. Heartbeat
          /\ Link!Older(pub.sinceTry, Retry) =
               IF pub.sinceTry < Retry THEN pub.sinceTry + 1 ELSE Retry
          /\ Link!Older(pub.sinceSent, Heartbeat) =
               IF pub.sinceSent < Heartbeat THEN pub.sinceSent + 1 ELSE Heartbeat
      BY <1>3, <3>2, LinkAge, LinkTimes
    <3>4. ~Link!SpeedDue
      BY <1>1, <2>3 DEF Link!EcuIsDone
    <3> HIDE DEF Link!Older
    <3>5. tx' \in Turns
      BY <1>3, <3>1, <3>2, <3>3 DEF Turns
    <3>6. CASE pub.retry = TRUE
      <4>1. pub' = [pub EXCEPT !.sinceTry = Link!Older(pub.sinceTry, Retry)]
        BY <3>1, <3>6
      <4>2. /\ pub' \in Published /\ pub'.retry = TRUE
            /\ pub'.sinceTry = Link!Older(pub.sinceTry, Retry)
        BY <1>3, <3>3, <3>6, <4>1 DEF Published
      <4>3. pub.sinceTry < Retry
        BY <1>3, <3>4, <3>6, LinkTimes DEF Link!SpeedDue
      <4>4. SinceAttempt = pub.sinceTry /\ SinceAttempt' = pub'.sinceTry
        BY <3>6, <4>2 DEF SinceAttempt
      <4> QED BY <2>1, <3>3, <3>5, <4>2, <4>3, <4>4
    <3>7. CASE pub.retry = FALSE
      <4>1. pub' = [pub EXCEPT !.sinceSent = Link!Older(pub.sinceSent, Heartbeat)]
        BY <3>1, <3>7
      <4>2. /\ pub' \in Published /\ pub'.retry = FALSE
            /\ pub'.sinceSent = Link!Older(pub.sinceSent, Heartbeat)
        BY <1>3, <3>3, <3>7, <4>1 DEF Published
      <4>3. pub.sinceSent < Heartbeat
        BY <1>3, <3>4, <3>7, LinkTimes DEF Link!SpeedDue
      <4>4. SinceAttempt = pub.sinceSent /\ SinceAttempt' = pub'.sinceSent
        BY <3>7, <4>2 DEF SinceAttempt
      <4> QED BY <2>1, <3>3, <3>5, <4>2, <4>3, <4>4
    <3> QED BY <1>3, <3>6, <3>7
  <2> QED BY <2>2, <2>3
<1>13. Owed'
  <2>1. ASSUME missed < 2, clk.valid = TRUE, ~SpeedComing
        PROVE  clk'.age <= SinceAttempt' + IF missed = 0 THEN 0 ELSE Heartbeat
    <3>1. clk.age <= SinceAttempt + IF missed = 0 THEN 0 ELSE Heartbeat
      BY <1>2, <2>1 DEF Owed
    <3>2. clk'.age = clk.age + 1 /\ SinceAttempt' = SinceAttempt + 1
      BY <1>4, <1>5, <1>6, <1>12, <2>1
    <3> QED BY <1>3, <1>12, <3>1, <3>2, LinkTimes
  <2>2. SpeedComing' <=> SpeedComing
    BY <1>1 DEF SpeedComing
  <2>3. quiet \/ ~power => missed = 2
    BY <1>2 DEF Owed
  <2> QED BY <1>1, <1>3, <1>5, <2>1, <2>2, <2>3 DEF Owed
<1>14. Typed'
  BY <1>1, <1>2, <1>5, <1>8, <1>12 DEF Typed
<1> QED BY <1>9, <1>10, <1>11, <1>13, <1>14 DEF LinkInv

LEMMA LinkNext ==
  LinkInv /\ [Link!Next]_busVars => LinkInv' /\ (clk.valid /\ ~clk'.valid => missed = 2)
<1> SUFFICES ASSUME LinkInv, [Link!Next]_busVars
             PROVE  LinkInv' /\ (clk.valid /\ ~clk'.valid => missed = 2)
  OBVIOUS
<1>0. Typed /\ Shown /\ Recent /\ Heard /\ Owed
  BY DEF LinkInv
<1>1. CASE \E ok, arrives \in Link!Fates : Link!EcuPass(ok, arrives)
  <2>1. PICK ok \in Link!Fates, arrives \in Link!Fates : Link!EcuPass(ok, arrives)
    BY <1>1
  <2>2. ok \in BOOLEAN /\ arrives \in BOOLEAN
    BY DEF Link!Fates
  <2>3. clk' = clk
    BY <2>1 DEF Link!EcuPass
  <2> QED BY <2>1, <2>2, <2>3, LinkEcu
<1>2. CASE \E v \in Speeds : Link!EngineTurns(v)
  <2>1. PICK v \in Speeds : Link!EngineTurns(v)
    BY <1>2
  <2>2. /\ ~quiet /\ engine' = v /\ had' = [had EXCEPT ![v] = 0]
        /\ UNCHANGED <<tx, pub, at, wire, clk, power, quiet, missed>>
    BY <2>1 DEF Link!EngineTurns, Link!Measure, Link!sender, Link!cluster
  <2>3. /\ had' \in [Speeds -> 0 .. Timeout + 1] /\ had'[v] = 0
        /\ \A u \in Speeds : had'[u] = had[u] \/ had'[u] = 0
    <3>1. had \in [Speeds -> 0 .. Timeout + 1] /\ 0 \in 0 .. Timeout + 1
      BY <1>0, LinkTimes DEF Typed
    <3> QED BY <2>2, <3>1
  <2>4. Typed'
    BY <1>0, <2>2, <2>3 DEF Typed
  <2>5. Shown'
    <3>1. CASE clk.valid
      <4>1. clk.rpm \in Speeds /\ had[clk.rpm] <= clk.age /\ clk.age \in 0 .. Timeout
        BY <1>0, <3>1 DEF Shown, Typed, Held
      <4>2. had'[clk.rpm] <= clk.age
        BY <2>3, <4>1, LinkTimes
      <4> QED BY <2>2, <3>1, <4>1, <4>2 DEF Shown
    <3>2. CASE ~clk.valid
      BY <1>0, <2>2, <3>2 DEF Shown
    <3> QED BY <3>1, <3>2
  <2>6. \A i \in 1 .. Len(wire) : wire[i] # 0 => had'[wire[i]] = 0
    <3> SUFFICES ASSUME NEW i \in 1 .. Len(wire), wire[i] # 0 PROVE had'[wire[i]] = 0
      OBVIOUS
    <3>1. wire[i] \in Numbers
      BY <1>0 DEF Typed
    <3>2. wire[i] \in Speeds /\ had[wire[i]] = 0
      BY <1>0, <3>1 DEF Recent, Numbers
    <3> QED BY <2>3, <3>2
  <2>7. Recent'
    BY <2>2, <2>3, <2>6 DEF Recent
  <2>8. Heard' /\ Owed'
    BY <1>0, <2>2 DEF Heard, Owed, SinceAttempt, SpeedComing
  <2> QED BY <2>2, <2>4, <2>5, <2>7, <2>8 DEF LinkInv
<1>3. CASE Link!PowerLost
  <2>1. /\ power' = FALSE /\ missed' = 2
        /\ tx' = [pending |-> {}, next |-> 0, since |-> Spacing]
        /\ pub' = [sent |-> FALSE, speed |-> 0, sinceSent |-> 0, sinceTry |-> 0,
                   retry |-> FALSE]
        /\ UNCHANGED <<engine, at, wire, clk, quiet, had>>
    BY <1>3 DEF Link!PowerLost, Link!Silent, Link!NeverSent, Link!cluster
  <2>2. tx' \in Turns
    BY <2>1, LinkTimes, LinkSlots DEF Turns
  <2>3. pub' \in Published
    BY <2>1, LinkTimes DEF Published, Numbers
  <2>4. missed' \in 0 .. 2 /\ ~(missed' < 2)
    BY <2>1
  <2>5. Typed'
    BY <1>0, <2>1, <2>2, <2>3, <2>4 DEF Typed
  <2>6. Shown' /\ Recent' /\ Heard'
    BY <1>0, <2>1 DEF Shown, Recent, Heard
  <2>7. Owed'
    BY <2>1, <2>4 DEF Owed
  <2> QED BY <2>1, <2>5, <2>6, <2>7 DEF LinkInv
<1>4. CASE Link!PowerBack
  <2>1. /\ ~power /\ power' = TRUE
        /\ UNCHANGED <<engine, tx, pub, at, wire, clk, quiet, had, missed>>
    BY <1>4 DEF Link!PowerBack, Link!sendVars, Link!sender, Link!cluster
  <2>2. missed = 2
    BY <1>0, <2>1 DEF Owed
  <2>3. Typed' /\ Shown' /\ Recent' /\ Heard'
    BY <1>0, <2>1 DEF Typed, Shown, Recent, Heard
  <2>4. Owed'
    BY <2>1, <2>2 DEF Owed
  <2> QED BY <2>1, <2>3, <2>4 DEF LinkInv
<1>5. CASE Link!Calm
  <2>1. /\ quiet' = TRUE /\ had' = [v \in Speeds |-> 0] /\ missed' = 2
        /\ UNCHANGED <<engine, tx, pub, at, wire, clk, power>>
    BY <1>5 DEF Link!Calm, Link!sendVars, Link!sender, Link!cluster
  <2>2. had' \in [Speeds -> 0 .. Timeout + 1] /\ \A v \in Speeds : had'[v] = 0
    <3>1. 0 \in 0 .. Timeout + 1
      BY LinkTimes
    <3> QED BY <2>1, <3>1
  <2>3. missed' \in 0 .. 2 /\ ~(missed' < 2)
    BY <2>1
  <2>4. Typed'
    BY <1>0, <2>1, <2>2, <2>3 DEF Typed
  <2>5. Shown'
    <3>1. CASE clk.valid
      <4>1. clk.rpm \in Speeds /\ clk.age \in 0 .. Timeout
        BY <1>0, <3>1 DEF Shown, Typed, Held
      <4>2. had'[clk.rpm] <= clk.age
        BY <2>2, <4>1, LinkTimes
      <4> QED BY <2>1, <3>1, <4>1, <4>2 DEF Shown
    <3>2. CASE ~clk.valid
      BY <1>0, <2>1, <3>2 DEF Shown
    <3> QED BY <3>1, <3>2
  <2>6. \A i \in 1 .. Len(wire) : wire[i] # 0 => had'[wire[i]] = 0
    <3> SUFFICES ASSUME NEW i \in 1 .. Len(wire), wire[i] # 0 PROVE had'[wire[i]] = 0
      OBVIOUS
    <3>1. wire[i] \in Numbers
      BY <1>0 DEF Typed
    <3>2. wire[i] \in Speeds
      BY <3>1 DEF Numbers
    <3> QED BY <2>2, <3>2
  <2>7. Recent'
    <3>1. engine \in Speeds
      BY <1>0 DEF Typed
    <3> QED BY <2>1, <2>2, <2>6, <3>1 DEF Recent
  <2>8. Heard' /\ Owed'
    BY <1>0, <2>1, <2>3 DEF Heard, Owed
  <2> QED BY <2>1, <2>4, <2>5, <2>7, <2>8 DEF LinkInv
<1>6. CASE UNCHANGED busVars
  <2>1. UNCHANGED <<engine, tx, pub, at, wire, clk, power, quiet, had, missed>>
    BY <1>6 DEF busVars, sendVars, linkVars
  <2> QED BY <1>0, <2>1
     DEF LinkInv, Typed, Shown, Recent, Heard, Owed, SinceAttempt, SpeedComing
<1>7. CASE Link!ClusterPass
  BY <1>7, LinkPass
<1>8. CASE Link!Tick
  <2>1. clk' = [clk EXCEPT !.age = Link!Older(@, Timeout), !.check = Link!Older(@, Check)]
    BY <1>8 DEF Link!Tick
  <2>2. clk'.valid = clk.valid
    BY <1>0, <2>1 DEF Typed, Held
  <2> QED BY <1>8, <2>2, LinkTick
<1> QED BY <1>1, <1>2, <1>3, <1>4, <1>5, <1>6, <1>7, <1>8 DEF Link!Next

--------------------------------------------------------------------------------
(* All of them                                                                  *)

(* What one part keeps, the others leave alone.                                 *)
ClusterInv ==
  /\ part = "send" => SendInv
  /\ part # "send" => LinkInv
  /\ LampInv
  /\ AlarmInv

LEMMA ClusterInitially == MCInit => ClusterInv
<1> SUFFICES ASSUME MCInit PROVE ClusterInv
  OBVIOUS
<1>1. LampInv /\ AlarmInv
  BY LampInitially, AlarmInitially DEF MCInit
<1>2. part = "send" => SendInv
  BY SendStart DEF MCInit
<1>3. part # "send" => LinkInv
  BY LinkStart DEF MCInit
<1> QED BY <1>1, <1>2, <1>3 DEF ClusterInv

LEMMA ClusterNext ==
  ClusterInv /\ [MCNext]_mcVars => ClusterInv' /\ (clk.valid /\ ~clk'.valid => missed = 2)
<1> SUFFICES ASSUME ClusterInv, [MCNext]_mcVars
             PROVE  ClusterInv' /\ (clk.valid /\ ~clk'.valid => missed = 2)
  OBVIOUS
<1>0. part' = part
  BY DEF MCNext, SendSpeed, TakeTurns, JudgeCharge, SoundAlarms, mcVars
<1>1. LampInv'
  <2>1. [Lamp!Next]_lampVars
    BY DEF MCNext, SendSpeed, TakeTurns, JudgeCharge, SoundAlarms, mcVars
  <2> QED BY <2>1, LampNext DEF ClusterInv
<1>2. AlarmInv'
  <2>1. [Alarm!Next]_alarmVars
    BY DEF MCNext, SendSpeed, TakeTurns, JudgeCharge, SoundAlarms, mcVars
  <2> QED BY <2>1, AlarmNext DEF ClusterInv
<1>3. part = "send" => SendInv' /\ clk' = clk
  <2> SUFFICES ASSUME part = "send" PROVE SendInv' /\ clk' = clk
    OBVIOUS
  <2>1. [Sender!SendNext]_sendVars /\ UNCHANGED linkVars
    BY DEF MCNext, SendSpeed, TakeTurns, JudgeCharge, SoundAlarms, mcVars
  <2> QED BY <2>1, SendNext DEF ClusterInv, linkVars
<1>4. part # "send" => LinkInv' /\ (clk.valid /\ ~clk'.valid => missed = 2)
  <2> SUFFICES ASSUME part # "send"
               PROVE  LinkInv' /\ (clk.valid /\ ~clk'.valid => missed = 2)
    OBVIOUS
  <2>1. [Link!Next]_busVars
    BY DEF MCNext, SendSpeed, TakeTurns, JudgeCharge, SoundAlarms, mcVars, busVars
  <2> QED BY <2>1, LinkNext DEF ClusterInv
<1> QED BY <1>0, <1>1, <1>2, <1>3, <1>4 DEF ClusterInv

LEMMA ClusterAlways == MCSpec => []ClusterInv
<1>1. ClusterInv /\ [MCNext]_mcVars => ClusterInv'
  BY ClusterNext
<1> QED BY <1>1, ClusterInitially, PTL DEF MCSpec

(* A status frame that waits is not overtaken twice by another one, for any     *)
(* number of status frames (the round of canServicePeriodic).                   *)
THEOREM StatusTakesTurns == MCSpec => []TurnsAreKept
<1>1. ClusterInv => TurnsAreKept
  <2> SUFFICES ASSUME SendInv PROVE Sender!TurnsAreKept
    BY DEF ClusterInv, TurnsAreKept
  <2> SUFFICES ASSUME NEW s \in Sender!Slot, NEW r \in Sender!Slot PROVE passed[s][r] <= 1
    BY DEF SendInv, Sender!TurnsAreKept
  <2>1. passed[s][r] \in {0, 1}
    BY DEF SendInv, Overtaken
  <2> QED BY <2>1
<1> QED BY <1>1, ClusterAlways, PTL

(* A speed that is shown is one the engine had at most the time-out ago, for    *)
(* any loss of frames and of the ECU's power and any size of the buffers        *)
(* (canTickRpmTimeout).                                                         *)
THEOREM ShownSpeedIsRecent == MCSpec => []SpeedIsRecent
<1>1. ClusterInv => SpeedIsRecent
  BY LinkTypes DEF ClusterInv, SpeedIsRecent
<1> QED BY <1>1, ClusterAlways, PTL

(* One lost speed frame, or a send that had to be repeated, does not blank the  *)
(* gauge: what the static assertion of can.cpp:5 is for.                        *)
THEOREM OneLossIsTolerated == MCSpec => LossIsTolerated
<1>1. ClusterInv /\ [MCNext]_mcVars => [clk.valid /\ ~clk'.valid => missed = 2]_(Link!vars)
  BY ClusterNext
<1> QED BY <1>1, ClusterAlways, PTL DEF MCSpec, LossIsTolerated, Link!LossIsTolerated

(* A failed alternator is shown within the age a voltage may have and the time  *)
(* of the confirmation, for any intervals (updateChargeLamp).                   *)
THEOREM ChargeFailureShows == MCSpec => []FailureShows
<1>1. ClusterInv => FailureShows
  BY LampShows DEF ClusterInv, FailureShows
<1> QED BY <1>1, ClusterAlways, PTL

(* While the engine is too hot the buzzer is never silent for longer than the   *)
(* longer repeat interval, whatever it did not take while it played (Buzzer).   *)
THEOREM HotEngineIsHeard == MCSpec => []NoLongSilence
<1>1. ClusterInv => NoLongSilence
  BY AlarmSounds DEF ClusterInv, NoLongSilence
<1> QED BY <1>1, ClusterAlways, PTL
================================================================================
