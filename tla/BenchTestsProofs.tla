---------------------------- MODULE BenchTestsProofs ----------------------------
(* Proofs about the bench tests: a fixture is run at most once for each time it *)
(* was asked for, a test ends by its own reason, and the staircase moves only   *)
(* after its announcement.                                                      *)
EXTENDS MCBenchTests, TLAPS

(* The fixture publications one tick of core 1 can leave to make: at most one   *)
(* test ends in it, and after that at most one starts.                          *)
Publications == {<<>>, <<None>>, <<"kv">>, <<None, "kv">>}
Starting(p) == IF p \in {<<"kv">>, <<None, "kv">>} THEN 1 ELSE 0

(* What holds of the runner between two operations on it: a drive test stands   *)
(* where it was last asked to go, the staircase announced the step it is at, a  *)
(* sequence stands behind the test it started.                                  *)
Place(r) ==
  /\ r.active \in Drives => r.demand = r.applied
  /\ r.active = "top" => r.event.value = Setpoints[r.step]
  /\ r.sequence => r.index \in 2..4 /\ r.active = Suite[r.index - 1]

Sound(r) == r \in RunType /\ r.publish \in Publications /\ Place(r)

(* What an operation that turns the runner from r into q may do.                *)
Effect(r, q) ==
  /\ Sound(q)
  /\ q.requested = r.requested + Starting(q.publish)
  /\ q.event = r.event \/ q.event.sequence > r.event.sequence

(* A test that ends, ends with this result.                                     *)
EndsWith(q, result) == q.publish # <<>> /\ Head(q.publish) = None => q.result = result

(* The test that is active then is the one that was, or has these owners.       *)
OwnedBy(r, q, source, asked) ==
  \/ q.active = None
  \/ r.active # None /\ q.source = r.source /\ q.asked = r.asked
  \/ q.source = source /\ q.asked = asked

(* An active staircase is left where it stands, or not active any more.         *)
TopStays(r, q) == r.active = "top" /\ q.active = "top" => q.demand = r.demand

--------------------------------------------------------------------------------
(* The operations on the runner                                                 *)

LEMMA SuiteIs ==
  /\ Suite = <<"kv", "cyclic", "top">> /\ Len(Suite) = 3 /\ DOMAIN Suite = 1..3
  /\ Suite[1] = "kv" /\ Suite[2] = "cyclic" /\ Suite[3] = "top"
  /\ Test = {"kv", "cyclic", "top"}
<1>1. /\ Suite = <<"kv", "cyclic", "top">> /\ Len(Suite) = 3 /\ DOMAIN Suite = 1..3
      /\ Suite[1] = "kv" /\ Suite[2] = "cyclic" /\ Suite[3] = "top"
  BY DEF Suite
<1>2. Test = {Suite[i] : i \in 1..3}
  BY <1>1 DEF Test
<1> QED BY <1>1, <1>2

LEMMA PublicationsAre ==
  /\ Publications \subseteq Seq(Fixture \cup {None})
  /\ Head(<<None>>) = None /\ Head(<<None, "kv">>) = None /\ Head(<<"kv">>) = "kv"
  /\ Append(<<>>, None) = <<None>> /\ Append(<<>>, "kv") = <<"kv">>
  /\ Append(<<None>>, "kv") = <<None, "kv">>
  /\ Tail(<<None>>) = <<>> /\ Tail(<<"kv">>) = <<>> /\ Tail(<<None, "kv">>) = <<"kv">>
  /\ Starting(<<>>) = 0 /\ Starting(<<None>>) = 0
  /\ Starting(<<"kv">>) = 1 /\ Starting(<<None, "kv">>) = 1
<1>1. Publications \subseteq Seq(Fixture \cup {None})
  BY DEF Publications, Fixture
<1>2. Head(<<None>>) = None /\ Head(<<None, "kv">>) = None /\ Head(<<"kv">>) = "kv"
  OBVIOUS
<1>4. Append(<<>>, None) = <<None>> /\ Append(<<>>, "kv") = <<"kv">>
  OBVIOUS
<1>5. Append(<<None>>, "kv") = <<None, "kv">>
  <2> DEFINE two == Append(<<None>>, "kv")
  <2>1. <<None>> \in Seq({None, "kv"}) /\ Len(<<None>>) = 1
    OBVIOUS
  <2>2. two \in Seq({None, "kv"}) /\ Len(two) = 2 /\ two[1] = None /\ two[2] = "kv"
    BY <2>1
  <2> HIDE DEF two
  <2>3. two = <<None, "kv">>
    BY <2>2
  <2> QED BY <2>3 DEF two
<1>6. Tail(<<None>>) = <<>> /\ Tail(<<"kv">>) = <<>> /\ Tail(<<None, "kv">>) = <<"kv">>
  OBVIOUS
<1>3. /\ Starting(<<>>) = 0 /\ Starting(<<None>>) = 0
      /\ Starting(<<"kv">>) = 1 /\ Starting(<<None, "kv">>) = 1
  BY DEF Starting, None
<1> QED BY <1>1, <1>2, <1>3, <1>4, <1>5, <1>6

LEMMA StepsAreDemands ==
  ASSUME NEW i \in DOMAIN Setpoints
  PROVE  Setpoints[i] \in Demand /\ Demand \subseteq Nat
<1>2. \A k \in DOMAIN Setpoints : Setpoints[k] \in Nat
  BY TestsAssumption
<1>1. \A d \in Demand : d \in Nat
  <2> TAKE d \in Demand
  <2>1. CASE \E k \in DOMAIN Setpoints : d = Setpoints[k]
    BY <1>2, <2>1
  <2>2. CASE d \in {0, 1} \cup Driver
    BY <2>2, TestsAssumption
  <2> QED BY <2>1, <2>2 DEF Demand
<1> QED BY <1>1 DEF Demand

LEMMA FirstStep ==
  1 \in DOMAIN Setpoints /\ DOMAIN Setpoints = 1..Len(Setpoints) /\ Len(Setpoints) \in Nat
BY TestsAssumption

(* A step of the staircase is announced under the next number.                  *)
LEMMA AnnounceIs ==
  ASSUME NEW r \in RunType, NEW i \in DOMAIN Setpoints
  PROVE  LET q == Announce(r, i)
         IN /\ q \in RunType
            /\ q.step = i
            /\ q.event.sequence = r.event.sequence + 1 /\ q.event.value = Setpoints[i]
            /\ \A f \in DOMAIN r \ {"step", "event"} : q[f] = r[f]
<1> DEFINE e == [sequence |-> r.event.sequence + 1, value |-> Setpoints[i]]
           s == [r EXCEPT !.step = i]
<1>1. r.event \in [sequence : Nat, value : Demand]
  BY DEF RunType
<1>2. e \in [sequence : Nat, value : Demand]
  BY <1>1, StepsAreDemands
<1>3. s \in RunType
  BY DEF RunType
<1>4. Announce(r, i) = [s EXCEPT !.event = e]
  BY DEF Announce, RunType
<1>5. e.sequence = r.event.sequence + 1 /\ e.value = Setpoints[i]
  OBVIOUS
<1>6. s.step = i /\ \A f \in DOMAIN r \ {"step", "event"} : s[f] = r[f]
  BY DEF RunType
<1>7. DOMAIN s = DOMAIN r
  OBVIOUS
<1> HIDE DEF e, s
<1>8. [s EXCEPT !.event = e] \in RunType
  BY <1>2, <1>3 DEF RunType
<1>9. [s EXCEPT !.event = e].event = e /\ [s EXCEPT !.event = e].step = i
  BY <1>3, <1>6 DEF RunType
<1>10. \A f \in DOMAIN r \ {"step", "event"} : [s EXCEPT !.event = e][f] = r[f]
  BY <1>6, <1>7
<1> QED BY <1>4, <1>5, <1>8, <1>9, <1>10

(* The fields of the runner that an operation on tests changes are all but      *)
(* these.                                                                       *)
LEMMA ActivateIs ==
  ASSUME NEW r \in RunType, NEW t \in Test, NEW source \in {"console", "sc"},
         NEW asked \in Asked
  PROVE  LET q == Activate(r, t, source, asked)
         IN /\ q \in RunType
            /\ q.active = t /\ q.source = source /\ q.asked = asked
            /\ q.demand = r.demand /\ q.applied = r.demand
            /\ q.sequence = r.sequence /\ q.index = r.index /\ q.result = r.result
            /\ t = "top" => /\ q.event.sequence = r.event.sequence + 1
                           /\ q.event.value = Setpoints[q.step]
            /\ t # "top" => q.event = r.event
            /\ t = "kv" => /\ q.publish = Append(r.publish, "kv")
                          /\ q.requested = r.requested + 1
            /\ t # "kv" => q.publish = r.publish /\ q.requested = r.requested
<1> DEFINE a == [r EXCEPT !.active = t, !.source = source, !.asked = asked,
                          !.applied = r.demand, !.holding = "no"]
           k == [a EXCEPT !.publish = Append(@, t), !.requested = @ + 1]
<1>1. a \in RunType
  BY DEF RunType
<1>2. /\ a.active = t /\ a.source = source /\ a.asked = asked
      /\ a.demand = r.demand /\ a.applied = r.demand
      /\ a.sequence = r.sequence /\ a.index = r.index /\ a.result = r.result
      /\ a.event = r.event /\ a.publish = r.publish /\ a.requested = r.requested
  BY DEF RunType
<1>3. Activate(r, t, source, asked) =
        CASE t = "top" -> Announce(a, 1) [] t \in Fixture -> k [] OTHER -> a
  BY DEF Activate
<1> HIDE DEF a
<1>4. CASE t = "top"
  <2>1. Activate(r, t, source, asked) = Announce(a, 1)
    BY <1>3, <1>4 DEF Fixture
  <2>2. /\ Announce(a, 1) \in RunType
        /\ Announce(a, 1).step = 1
        /\ Announce(a, 1).event.sequence = a.event.sequence + 1
        /\ Announce(a, 1).event.value = Setpoints[1]
        /\ \A f \in DOMAIN a \ {"step", "event"} : Announce(a, 1)[f] = a[f]
    BY <1>1, AnnounceIs, FirstStep
  <2>3. DOMAIN a \ {"step", "event"} = {"active", "source", "asked", "sequence", "scOnly",
          "index", "demand", "applied", "holding", "publish", "requested", "result"}
    BY <1>1 DEF RunType
  <2> DEFINE q == Announce(a, 1)
  <2>4. /\ q.active = a.active /\ q.source = a.source /\ q.asked = a.asked
        /\ q.demand = a.demand /\ q.applied = a.applied
        /\ q.sequence = a.sequence /\ q.index = a.index /\ q.result = a.result
        /\ q.publish = a.publish /\ q.requested = a.requested
    BY <2>2, <2>3
  <2> QED
    BY <1>2, <1>4, <2>1, <2>2, <2>4
<1>5. CASE t = "kv"
  <2>1. Activate(r, t, source, asked) = k
    BY <1>3, <1>5 DEF Fixture
  <2>2. Append(a.publish, t) \in Seq(Fixture \cup {None}) /\ a.requested + 1 \in Nat
    BY <1>1, <1>5 DEF RunType, Fixture
  <2> DEFINE p == Append(a.publish, t)
             n == a.requested + 1
  <2>3. k = [a EXCEPT !.publish = p, !.requested = n]
    BY <1>1 DEF RunType
  <2> HIDE DEF p, n, k
  <2>4. k \in RunType
    BY <1>1, <2>2, <2>3 DEF RunType, p, n
  <2>5. k.publish = p /\ k.requested = n
    BY <1>1, <2>3 DEF RunType
  <2>6. /\ k.active = a.active /\ k.source = a.source /\ k.asked = a.asked
        /\ k.demand = a.demand /\ k.applied = a.applied
        /\ k.sequence = a.sequence /\ k.index = a.index /\ k.result = a.result
        /\ k.event = a.event
    BY <1>1, <2>3 DEF RunType
  <2> QED
    BY <1>2, <1>5, <2>1, <2>4, <2>5, <2>6 DEF p, n
<1>6. CASE t = "cyclic"
  <2>1. Activate(r, t, source, asked) = a
    BY <1>3, <1>6 DEF Fixture
  <2> QED
    BY <1>1, <1>2, <1>6, <2>1
<1> QED
  BY <1>4, <1>5, <1>6, SuiteIs

LEMMA DeactivateIs ==
  ASSUME NEW r \in RunType, r.publish = <<>>,
         NEW result \in {"stopped", "done", "ok", "session_end", "host_lost", "engine_running"}
  PROVE  LET q == Deactivate(r, result)
         IN /\ q \in RunType
            /\ q.active = None
            /\ q.sequence = r.sequence /\ q.index = r.index
            /\ q.event = r.event /\ q.requested = r.requested
            /\ r.active = None => q = r
            /\ r.active # None => q.publish = <<None>> /\ q.result = result
<1> DEFINE d == [r EXCEPT !.active = None, !.asked = "console", !.step = 1, !.result = result,
                          !.publish = Append(@, None)]
           s == [d EXCEPT !.demand = 0, !.applied = 0, !.holding = "no"]
<1>1. Append(r.publish, None) = <<None>>
  BY PublicationsAre
<1>2. <<None>> \in Seq(Fixture \cup {None}) /\ 1 \in DOMAIN Setpoints
  BY FirstStep
<1>3. d = [r EXCEPT !.active = None, !.asked = "console", !.step = 1, !.result = result,
                    !.publish = <<None>>]
  BY <1>1 DEF RunType
<1> HIDE DEF d
<1>4. d \in RunType
  BY <1>2, <1>3 DEF RunType, Asked
<1>5. /\ d.active = None /\ d.publish = <<None>> /\ d.result = result
      /\ d.sequence = r.sequence /\ d.index = r.index
      /\ d.event = r.event /\ d.requested = r.requested
  BY <1>3 DEF RunType
<1>6. s \in RunType
  BY <1>4 DEF RunType, Demand
<1>7. /\ s.active = None /\ s.publish = <<None>> /\ s.result = result
      /\ s.sequence = r.sequence /\ s.index = r.index
      /\ s.event = r.event /\ s.requested = r.requested
  BY <1>4, <1>5 DEF RunType
<1>8. Deactivate(r, result) =
        CASE r.active = None -> r [] r.active \in Drives -> s [] OTHER -> d
  BY DEF Deactivate, d
<1> HIDE DEF s
<1>9. CASE r.active = None
  BY <1>8, <1>9 DEF Drives, None
<1>10. CASE r.active # None
  <2>1. Deactivate(r, result) = IF r.active \in Drives THEN s ELSE d
    BY <1>8, <1>10
  <2> QED
    BY <1>4, <1>5, <1>6, <1>7, <1>10, <2>1
<1> QED
  BY <1>9, <1>10

LEMMA EndSequenceIs ==
  ASSUME NEW r \in RunType
  PROVE  LET q == EndSequence(r)
         IN /\ q \in RunType
            /\ ~q.sequence
            /\ q.active = r.active /\ q.source = r.source /\ q.asked = r.asked
            /\ q.demand = r.demand /\ q.applied = r.applied /\ q.step = r.step
            /\ q.event = r.event /\ q.publish = r.publish /\ q.requested = r.requested
            /\ q.result = r.result
BY DEF EndSequence, RunType

(* What is left of starting a test once the one before has ended.               *)
Starts(r, q, source, asked) ==
  /\ Effect(r, q)
  /\ q.demand = r.demand /\ q.result = r.result
  /\ q.publish \in {r.publish, Append(r.publish, "kv")}
  /\ q.active # None => q.source = source /\ q.asked = asked

LEMMA ActivateStarts ==
  ASSUME NEW r \in RunType, r.publish \in {<<>>, <<None>>}, NEW t \in Test,
         NEW source \in {"console", "sc"}, NEW asked \in Asked,
         r.sequence => r.index \in 2..4 /\ t = Suite[r.index - 1]
  PROVE  Starts(r, Activate(r, t, source, asked), source, asked)
<1> DEFINE q == Activate(r, t, source, asked)
<1>1. /\ q \in RunType
      /\ q.active = t /\ q.source = source /\ q.asked = asked
      /\ q.demand = r.demand /\ q.applied = r.demand
      /\ q.sequence = r.sequence /\ q.index = r.index /\ q.result = r.result
      /\ t = "top" => /\ q.event.sequence = r.event.sequence + 1
                     /\ q.event.value = Setpoints[q.step]
      /\ t # "top" => q.event = r.event
      /\ t = "kv" => /\ q.publish = Append(r.publish, "kv")
                    /\ q.requested = r.requested + 1
      /\ t # "kv" => q.publish = r.publish /\ q.requested = r.requested
  BY ActivateIs
<1> HIDE DEF q
<1>2. r.requested \in Nat /\ r.event.sequence \in Nat
  BY DEF RunType
<1>3. Place(q)
  BY <1>1 DEF Place
<1>4. q.publish \in Publications /\ q.requested = r.requested + Starting(q.publish)
  <2>1. CASE t = "kv" /\ r.publish = <<>>
    BY <1>1, <2>1, PublicationsAre DEF Publications
  <2>2. CASE t = "kv" /\ r.publish = <<None>>
    BY <1>1, <2>2, PublicationsAre DEF Publications
  <2>3. CASE t # "kv"
    BY <1>1, <1>2, <2>3, PublicationsAre DEF Publications
  <2> QED BY <2>1, <2>2, <2>3
<1>5. q.event = r.event \/ q.event.sequence > r.event.sequence
  BY <1>1, <1>2
<1>6. q.publish \in {r.publish, Append(r.publish, "kv")}
  BY <1>1
<1> QED BY <1>1, <1>3, <1>4, <1>5, <1>6 DEF Starts, Effect, Sound, q

LEMMA AdvanceStarts ==
  ASSUME NEW r \in RunType, r.publish \in {<<>>, <<None>>}, r.active = None,
         r.sequence, r.index \in 1..4,
         NEW source \in {"console", "sc"}, NEW asked \in Asked
  PROVE  LET q == AdvanceSequence(r, source, asked)
         IN /\ Starts(r, q, source, asked)
            /\ q.active # None => r.index \in 1..3
            /\ q.active = "top" => r.index # 1
<1> DEFINE left == {i \in r.index..Len(Suite) : InSequence(Suite[i], r.scOnly)}
           m == Min(left)
           s == [r EXCEPT !.index = m + 1]
           q == AdvanceSequence(r, source, asked)
<1>1. q = IF left = {} THEN EndSequence(r) ELSE Activate(s, Suite[m], source, asked)
  BY DEF AdvanceSequence
<1>2. left \subseteq 1..3
  BY SuiteIs
<1>3. r.index <= 2 => 2 \in left
  BY SuiteIs DEF InSequence, Sequenced, ScSupported
<1>4. CASE left = {}
  <2>1. q = EndSequence(r)
    BY <1>1, <1>4
  <2> HIDE DEF q
  <2>2. /\ q \in RunType /\ ~q.sequence /\ q.active = None
        /\ q.demand = r.demand /\ q.event = r.event /\ q.publish = r.publish
        /\ q.requested = r.requested /\ q.result = r.result
    BY <2>1, EndSequenceIs
  <2>3. Place(q)
    BY <2>2 DEF Place, Drives, None
  <2>4. q.publish \in Publications /\ q.requested = r.requested + Starting(q.publish)
    BY <2>2, PublicationsAre DEF Publications, RunType
  <2>5. Effect(r, q)
    BY <2>2, <2>3, <2>4 DEF Effect, Sound
  <2>6. Starts(r, q, source, asked)
    BY <2>2, <2>5 DEF Starts
  <2> QED
    BY <2>2, <2>6 DEF None, q
<1>5. CASE left # {}
  <2>1. \E x \in left : \A y \in left : x <= y
    <3>1. CASE 1 \in left
      BY <1>2, <3>1
    <3>2. CASE 1 \notin left /\ 2 \in left
      BY <1>2, <3>2
    <3>3. CASE 1 \notin left /\ 2 \notin left
      <4>1. left = {3}
        BY <1>2, <1>5, <3>3
      <4> QED BY <4>1
    <3> QED BY <3>1, <3>2, <3>3
  <2>2. m \in left /\ \A y \in left : m <= y
    BY <2>1 DEF Min
  <2>3. m \in 1..3 /\ (r.index <= 2 => m <= 2)
    BY <1>2, <1>3, <2>2
  <2>4. m >= r.index
    BY <2>2, SuiteIs
  <2> HIDE DEF m
  <2>14. m + 1 \in Nat
    BY <2>3
  <2>5. s \in RunType
    BY <2>14 DEF RunType
  <2>6. /\ s.index = m + 1 /\ s.publish = r.publish /\ s.demand = r.demand
        /\ s.result = r.result /\ s.event = r.event /\ s.requested = r.requested
    BY DEF RunType
  <2>7. Suite[m] \in Test /\ (Suite[m] = "top" => m = 3)
    BY <2>3, SuiteIs
  <2>8. s.index \in 2..4 /\ Suite[m] = Suite[s.index - 1]
    BY <2>3, <2>6
  <2> HIDE DEF s
  <2>9. Starts(s, Activate(s, Suite[m], source, asked), source, asked)
    BY <2>5, <2>6, <2>7, <2>8, ActivateStarts
  <2>10. q = Activate(s, Suite[m], source, asked)
    BY <1>1, <1>5
  <2>11. Activate(s, Suite[m], source, asked).active = Suite[m]
    BY <2>5, <2>7, ActivateIs
  <2> HIDE DEF q, left
  <2>12. Starts(r, q, source, asked)
    BY <2>6, <2>9, <2>10 DEF Starts, Effect
  <2>13. /\ q.active # None => r.index \in 1..3
         /\ q.active = "top" => r.index # 1
    BY <2>3, <2>4, <2>7, <2>10, <2>11
  <2> QED BY <2>12, <2>13 DEF q
<1> QED BY <1>4, <1>5

(* A request or a line on the runner: what was active is stopped, what starts   *)
(* belongs to who asked, and an active staircase is not moved.                  *)
Obeys(r, q, source, asked) ==
  /\ Effect(r, q)
  /\ EndsWith(q, "stopped")
  /\ OwnedBy(r, q, source, asked)
  /\ TopStays(r, q)

LEMMA BeginTestObeys ==
  ASSUME NEW r, Sound(r), r.publish = <<>>, NEW t \in Test,
         NEW source \in {"console", "sc"}, NEW asked \in Asked
  PROVE  Obeys(r, BeginTest(r, t, source, asked), source, asked)
<1> DEFINE d == IF r.active = t THEN r ELSE Deactivate(r, "stopped")
           e == EndSequence(d)
           q == Activate(e, t, source, asked)
<1>1. r \in RunType
  BY DEF Sound
<1>2. /\ d \in RunType /\ d.publish \in {<<>>, <<None>>}
      /\ d.event = r.event /\ d.requested = r.requested
      /\ d.publish # <<>> => d.result = "stopped"
      /\ r.active = t => d = r
      /\ r.active # t => d.active = None
  <2>1. CASE r.active = t
    BY <1>1, <2>1
  <2>2. CASE r.active # t
    <3> DEFINE k == Deactivate(r, "stopped")
    <3>1. /\ k \in RunType /\ k.active = None
          /\ k.event = r.event /\ k.requested = r.requested
          /\ r.active = None => k = r
          /\ r.active # None => k.publish = <<None>> /\ k.result = "stopped"
      BY <1>1, DeactivateIs
    <3>2. d = k
      BY <2>2
    <3> HIDE DEF k, d
    <3> QED BY <2>2, <3>1, <3>2
  <2> QED BY <2>1, <2>2
<1> HIDE DEF d
<1>3. /\ e \in RunType /\ ~e.sequence /\ e.publish = d.publish /\ e.event = d.event
      /\ e.requested = d.requested /\ e.result = d.result /\ e.demand = d.demand
  BY <1>2, EndSequenceIs
<1> HIDE DEF e
<1>4. Starts(e, q, source, asked) /\ q.active = t
  BY <1>2, <1>3, ActivateStarts, ActivateIs
<1>5. BeginTest(r, t, source, asked) = q
  BY DEF BeginTest, d, e
<1> HIDE DEF q
<1>6. Effect(r, q)
  BY <1>2, <1>3, <1>4 DEF Effect, Starts
<1>7. EndsWith(q, "stopped")
  <2>1. CASE d.publish = <<>>
    <3>1. q.publish \in {<<>>, <<"kv">>}
      BY <1>3, <1>4, <2>1, PublicationsAre DEF Starts
    <3> QED BY <3>1, PublicationsAre DEF EndsWith, None
  <2>2. CASE d.publish # <<>>
    BY <1>2, <1>3, <1>4, <2>2 DEF EndsWith, Starts
  <2> QED BY <2>1, <2>2
<1>8. TopStays(r, q)
  BY <1>2, <1>3, <1>4 DEF TopStays, Starts
<1> QED
  BY <1>4, <1>5, <1>6, <1>7, <1>8 DEF Obeys, OwnedBy, Starts

LEMMA BeginSequenceObeys ==
  ASSUME NEW r, Sound(r), r.publish = <<>>, NEW scOnly \in BOOLEAN,
         NEW source \in {"console", "sc"}, NEW asked \in Asked
  PROVE  Obeys(r, BeginSequence(r, scOnly, source, asked), source, asked)
<1> DEFINE d == Deactivate(r, "stopped")
           e == [d EXCEPT !.index = 1, !.sequence = TRUE, !.scOnly = scOnly]
           q == AdvanceSequence(e, source, asked)
<1>1. r \in RunType
  BY DEF Sound
<1>2. /\ d \in RunType /\ d.active = None
      /\ d.event = r.event /\ d.requested = r.requested
      /\ r.active = None => d = r
      /\ r.active # None => d.publish = <<None>> /\ d.result = "stopped"
  BY <1>1, DeactivateIs
<1> HIDE DEF d
<1>9. d.publish \in {<<>>, <<None>>} /\ (d.publish # <<>> => d.result = "stopped")
  BY <1>2
<1>3. e \in RunType
  BY <1>2 DEF RunType
<1>4. /\ e.sequence /\ e.index = 1 /\ e.publish = d.publish /\ e.event = d.event
      /\ e.requested = d.requested /\ e.result = d.result /\ e.active = None
  BY <1>2 DEF RunType
<1> HIDE DEF e
<1>5. Starts(e, q, source, asked) /\ q.active # "top"
  BY <1>9, <1>3, <1>4, AdvanceStarts
<1>6. BeginSequence(r, scOnly, source, asked) = q
  BY DEF BeginSequence, d, e
<1> HIDE DEF q
<1>7. Effect(r, q)
  BY <1>2, <1>4, <1>5 DEF Effect, Starts
<1>8. EndsWith(q, "stopped")
  <2>1. CASE d.publish = <<>>
    <3>1. q.publish \in {<<>>, <<"kv">>}
      BY <1>4, <1>5, <2>1, PublicationsAre DEF Starts
    <3> QED BY <3>1, PublicationsAre DEF EndsWith, None
  <2>2. CASE d.publish # <<>>
    BY <1>9, <1>4, <1>5, <2>2 DEF EndsWith, Starts
  <2> QED BY <2>1, <2>2
<1> QED
  BY <1>5, <1>6, <1>7, <1>8 DEF Obeys, OwnedBy, TopStays, Starts

(* What a test that ends by itself, is skipped or is stopped leaves behind.     *)
Ends(r, q, result) ==
  /\ Effect(r, q)
  /\ EndsWith(q, result)
  /\ q.active # None => r.active # None /\ q.source = r.source /\ q.asked = r.asked
  /\ r.active = "top" => q.active = None

LEMMA FinishEnds ==
  ASSUME NEW r \in RunType, r.publish = <<>>,
         r.sequence => r.index \in 2..4 /\ r.active = Suite[r.index - 1],
         NEW result \in {"stopped", "done", "ok"}
  PROVE  r.active # None => Ends(r, Finish(r, result), result)
<1> SUFFICES ASSUME r.active # None PROVE Ends(r, Finish(r, result), result)
  OBVIOUS
<1> DEFINE d == Deactivate(r, result)
           q == Finish(r, result)
<1>1. /\ d \in RunType /\ d.publish = <<None>> /\ d.active = None
      /\ d.event = r.event /\ d.requested = r.requested
      /\ d.result = result /\ d.sequence = r.sequence /\ d.index = r.index
  BY DeactivateIs
<1>2. q = IF r.sequence THEN AdvanceSequence(d, r.source, r.asked) ELSE d
  BY DEF Finish
<1>3. r.source \in {"console", "sc"} /\ r.asked \in Asked
  BY DEF RunType
<1> HIDE DEF d, q
<1>4. CASE r.sequence
  <2>5. d.publish \in {<<>>, <<None>>} /\ d.sequence /\ d.index \in 1..4
    BY <1>1, <1>4
  <2>6. q = AdvanceSequence(d, r.source, r.asked)
    BY <1>2, <1>4
  <2>1. /\ Starts(d, q, r.source, r.asked)
        /\ q.active # None => d.index \in 1..3
    BY <1>1, <1>3, <2>5, <2>6, AdvanceStarts
  <2>2. r.active = "top" => d.index = 4
    BY <1>1, <1>4, SuiteIs
  <2>3. r.active = "top" => q.active = None
    BY <2>1, <2>2
  <2>4. Effect(r, q) /\ EndsWith(q, result)
    BY <1>1, <2>1 DEF Effect, Starts, EndsWith
  <2> QED
    BY <2>1, <2>3, <2>4 DEF Ends, Starts, q
<1>5. CASE ~r.sequence
  <2>1. q = d
    BY <1>2, <1>5
  <2>2. Place(d)
    BY <1>1, <1>5 DEF Place, Drives, None
  <2>3. Effect(r, d) /\ EndsWith(d, result)
    BY <1>1, <2>2, PublicationsAre DEF Effect, Sound, EndsWith, Publications, RunType
  <2> QED
    BY <1>1, <2>1, <2>3 DEF Ends, q
<1> QED BY <1>4, <1>5

LEMMA SkipObeys ==
  ASSUME NEW r, Sound(r), r.publish = <<>>
  PROVE  LET q == SkipOne(r)
         IN /\ Effect(r, q) /\ EndsWith(q, "stopped") /\ TopStays(r, q)
            /\ q.active # None => r.active # None /\ q.source = r.source /\ q.asked = r.asked
<1>1. r \in RunType
  BY DEF Sound
<1>2. r.sequence => r.active # None /\ r.index \in 2..4 /\ r.active = Suite[r.index - 1]
  <2> SUFFICES ASSUME r.sequence PROVE r.active # None
    BY DEF Sound, Place
  <2>1. r.index \in 2..4 /\ r.active = Suite[r.index - 1]
    BY DEF Sound, Place
  <2> QED BY <2>1, SuiteIs DEF None
<1>3. CASE r.active # None
  <2>1. SkipOne(r) = Finish(r, "stopped")
    BY DEF SkipOne, Finish
  <2>2. Ends(r, SkipOne(r), "stopped")
    BY <1>1, <1>2, <1>3, <2>1, FinishEnds
  <2> QED
    BY <2>2 DEF Ends, TopStays, None
<1>4. CASE r.active = None
  <2>1. SkipOne(r) = r
    BY <1>1, <1>2, <1>4, DeactivateIs DEF SkipOne
  <2>2. Effect(r, r)
    BY <1>1, PublicationsAre DEF Effect, Sound, RunType
  <2> QED
    BY <1>4, <2>1, <2>2 DEF TopStays, EndsWith
<1> QED BY <1>3, <1>4

LEMMA StopAllEnds ==
  ASSUME NEW r, Sound(r), r.publish = <<>>,
         NEW result \in {"stopped", "session_end", "host_lost", "engine_running"}
  PROVE  LET q == StopAll(r, result)
         IN Effect(r, q) /\ EndsWith(q, result) /\ q.active = None
<1> DEFINE d == Deactivate(r, result)
           q == EndSequence(d)
<1>1. r \in RunType
  BY DEF Sound
<1>2. /\ d \in RunType /\ d.active = None
      /\ d.event = r.event /\ d.requested = r.requested
      /\ r.active = None => d = r
      /\ r.active # None => d.publish = <<None>> /\ d.result = result
  BY <1>1, DeactivateIs
<1> HIDE DEF d
<1>3. /\ q \in RunType /\ ~q.sequence /\ q.active = None
      /\ q.event = d.event /\ q.publish = d.publish /\ q.requested = d.requested
      /\ q.result = d.result
  BY <1>2, EndSequenceIs
<1>4. StopAll(r, result) = q
  BY DEF StopAll, d
<1> HIDE DEF q
<1>5. Place(q)
  BY <1>3 DEF Place, Drives, None
<1>6. q.publish \in {<<>>, <<None>>} /\ (q.publish # <<>> => q.result = result)
  BY <1>2, <1>3
<1>7. q.requested = r.requested + Starting(q.publish)
  BY <1>1, <1>2, <1>3, <1>6, PublicationsAre DEF RunType
<1>8. Effect(r, q)
  BY <1>2, <1>3, <1>5, <1>6, <1>7 DEF Effect, Sound, Publications
<1> QED BY <1>3, <1>4, <1>6, <1>8 DEF EndsWith

(* The requests and lines the two cores hand over.                              *)
Orders ==
  {[kind |-> "run", test |-> t, asked |-> a] : t \in Test, a \in Asked}
    \cup {[kind |-> k, asked |-> a] : k \in {"all", "stop", "skip"}, a \in Asked}

Starter(c) == c.kind \in {"run", "all"}

LEMMA OrderIs ==
  ASSUME NEW c \in Orders
  PROVE  /\ c.kind \in {"run", "all", "stop", "skip"} /\ c.asked \in Asked
         /\ c.kind = "run" => c.test \in Test
         /\ c # Nothing
<1>1. CASE \E t \in Test, a \in Asked : c = [kind |-> "run", test |-> t, asked |-> a]
  BY <1>1 DEF Nothing
<1>2. CASE \E k \in {"all", "stop", "skip"}, a \in Asked : c = [kind |-> k, asked |-> a]
  BY <1>2 DEF Nothing
<1> QED BY <1>1, <1>2 DEF Orders

(* An order that starts nothing leaves what is active to its owner.             *)
LEMMA ObeyObeys ==
  ASSUME NEW r, Sound(r), r.publish = <<>>, NEW c \in {Nothing} \cup Orders,
         NEW source \in {"console", "sc"}
  PROVE  LET q == Obey(r, c, source)
         IN /\ Effect(r, q)
            /\ EndsWith(q, "stopped")
            /\ TopStays(r, q)
            /\ \/ q.active = None
               \/ r.active # None /\ q.source = r.source /\ q.asked = r.asked
               \/ c # Nothing /\ Starter(c) /\ q.source = source /\ q.asked = c.asked
<1>1. r \in RunType
  BY DEF Sound
<1>2. CASE c = Nothing
  <2>1. Obey(r, c, source) = r
    BY <1>2 DEF Obey, Nothing
  <2>2. Effect(r, r)
    BY <1>1, PublicationsAre DEF Effect, Sound, RunType
  <2> QED
    BY <2>1, <2>2 DEF TopStays, EndsWith
<1>3. CASE c \in Orders
  <2>1. /\ c.kind \in {"run", "all", "stop", "skip"} /\ c.asked \in Asked
        /\ c.kind = "run" => c.test \in Test
        /\ c # Nothing
    BY <1>3, OrderIs
  <2>2. CASE c.kind = "run"
    <3>1. Obey(r, c, source) = BeginTest(r, c.test, source, c.asked)
      BY <2>2 DEF Obey
    <3>2. Obeys(r, Obey(r, c, source), source, c.asked)
      BY <2>1, <2>2, <3>1, BeginTestObeys
    <3> QED
      BY <2>1, <2>2, <3>2 DEF Obeys, OwnedBy, Starter
  <2>3. CASE c.kind = "all"
    <3>1. Obey(r, c, source) = BeginSequence(r, source = "sc", source, c.asked)
      BY <2>3 DEF Obey
    <3>2. (source = "sc") \in BOOLEAN
      OBVIOUS
    <3>3. Obeys(r, Obey(r, c, source), source, c.asked)
      BY <2>1, <2>3, <3>1, <3>2, BeginSequenceObeys
    <3> QED
      BY <2>1, <2>3, <3>3 DEF Obeys, OwnedBy, Starter
  <2>4. CASE c.kind = "stop"
    <3>1. Obey(r, c, source) = StopAll(r, "stopped")
      BY <2>4 DEF Obey
    <3> QED
      BY <3>1, StopAllEnds DEF TopStays, None
  <2>5. CASE c.kind = "skip"
    <3>1. Obey(r, c, source) = SkipOne(r)
      BY <2>5 DEF Obey
    <3> QED
      BY <3>1, SkipObeys
  <2> QED BY <2>1, <2>2, <2>3, <2>4, <2>5
<1> QED BY <1>2, <1>3

(* A drive test asks for a demand: it is applied when its announcement was      *)
(* printed or was held back long enough, and otherwise the last one stays.      *)
LEMMA DriveIs ==
  ASSUME NEW r \in RunType, NEW d \in Demand
  PROVE  LET q == Drive(r, d)
         IN /\ q \in RunType
            /\ q.demand = q.applied
            /\ \/ q.demand = r.applied
               \/ q.demand = d /\ (~EventPending(r) \/ r.holding = "long")
            /\ q.active = r.active /\ q.source = r.source /\ q.asked = r.asked
            /\ q.sequence = r.sequence /\ q.index = r.index /\ q.step = r.step
            /\ q.event = r.event /\ q.publish = r.publish /\ q.requested = r.requested
<1> DEFINE h == Hold(r, d)
           q == Drive(r, d)
<1>1. /\ h \in RunType
      /\ h.applied = r.applied
           \/ (h.applied = d /\ (~EventPending(r) \/ r.holding = "long"))
      /\ h.active = r.active /\ h.source = r.source /\ h.asked = r.asked
      /\ h.sequence = r.sequence /\ h.index = r.index /\ h.step = r.step
      /\ h.event = r.event /\ h.publish = r.publish /\ h.requested = r.requested
  <2>1. CASE d = r.applied
    BY <2>1 DEF Hold, RunType
  <2>2. CASE d # r.applied /\ (~EventPending(r) \/ r.holding = "long")
    <3>1. h = [r EXCEPT !.holding = "no", !.applied = d]
      BY <2>2 DEF Hold
    <3> HIDE DEF h
    <3> QED BY <2>2, <3>1 DEF RunType
  <2>3. CASE d # r.applied /\ ~(~EventPending(r) \/ r.holding = "long")
    <3>1. h = [r EXCEPT !.holding = IF @ = "no" THEN "yes" ELSE @]
      BY <2>3 DEF Hold
    <3> HIDE DEF h
    <3> QED BY <3>1 DEF RunType
  <2> QED BY <2>1, <2>2, <2>3
<1>2. q = [h EXCEPT !.demand = h.applied]
  BY DEF Drive
<1> HIDE DEF h, q
<1>3. /\ q \in RunType /\ q.demand = h.applied /\ q.applied = h.applied
      /\ q.active = h.active /\ q.source = h.source /\ q.asked = h.asked
      /\ q.sequence = h.sequence /\ q.index = h.index /\ q.step = h.step
      /\ q.event = h.event /\ q.publish = h.publish /\ q.requested = h.requested
  BY <1>1, <1>2 DEF RunType
<1> QED BY <1>1, <1>3 DEF q

LEMMA SoundDrive ==
  ASSUME NEW r \in RunType, r.publish = <<>>,
         r.sequence => r.index \in 2..4 /\ r.active = Suite[r.index - 1],
         r.active = "top" => r.event.value = Setpoints[r.step], NEW d \in Demand
  PROVE  Sound(Drive(r, d))
<1> DEFINE q == Drive(r, d)
<1>1. /\ q \in RunType
      /\ q.demand = q.applied
      /\ q.active = r.active /\ q.sequence = r.sequence /\ q.index = r.index
      /\ q.step = r.step /\ q.event = r.event /\ q.publish = r.publish
  BY DriveIs
<1> HIDE DEF q
<1> QED BY <1>1 DEF Sound, Place, Publications, q

(* A step of a test that drives the actuator and then ends is like its end.     *)
LEMMA DoneAtZero ==
  ASSUME NEW r, Sound(r), r.publish = <<>>, r.active # None
  PROVE  Ends(r, Finish(Drive(r, 0), "done"), "done")
<1> DEFINE h == Drive(r, 0)
<1>1. r \in RunType /\ (r.sequence => r.index \in 2..4 /\ r.active = Suite[r.index - 1])
  BY DEF Sound, Place
<1>2. /\ h \in RunType
      /\ h.active = r.active /\ h.source = r.source /\ h.asked = r.asked
      /\ h.sequence = r.sequence /\ h.index = r.index
      /\ h.event = r.event /\ h.publish = r.publish /\ h.requested = r.requested
  BY <1>1, DriveIs DEF Demand
<1> HIDE DEF h
<1>3. Ends(h, Finish(h, "done"), "done")
  BY <1>1, <1>2, FinishEnds
<1> QED BY <1>2, <1>3 DEF Ends, Effect, h

(* What one step of the test in force leaves behind.                            *)
LEMMA StepTestEffect ==
  ASSUME Sound(run), run.publish = <<>>, run.active # None, StepTest
  PROVE  /\ Effect(run, run')
         /\ run'.active # None => run'.source = run.source /\ run'.asked = run.asked
         /\ EndsWith(run', "ok") \/ EndsWith(run', "done")
<1>1. /\ run \in RunType
      /\ run.sequence => run.index \in 2..4 /\ run.active = Suite[run.index - 1]
      /\ run.active = "top" => run.event.value = Setpoints[run.step]
      /\ run.step \in DOMAIN Setpoints /\ run.event.sequence \in Nat
      /\ run.requested \in Nat
  BY DEF Sound, Place, RunType
<1>2. ASSUME NEW d \in Demand, run' = Drive(run, d)
      PROVE  /\ Effect(run, run') /\ run'.publish = <<>>
             /\ run'.source = run.source /\ run'.asked = run.asked
  <2>1. Sound(run')
    BY <1>1, <1>2, SoundDrive
  <2>2. /\ run'.event = run.event /\ run'.publish = <<>>
        /\ run'.requested = run.requested
        /\ run'.source = run.source /\ run'.asked = run.asked
    BY <1>1, <1>2, DriveIs
  <2> QED BY <1>1, <2>1, <2>2, PublicationsAre DEF Effect
<1>3. CASE run.active = "top"
  <2>1. CASE run' = Drive(run, Setpoints[run.step])
    BY <1>1, <1>2, <2>1, StepsAreDemands DEF EndsWith
  <2>2. CASE /\ run.step < Len(Setpoints)
             /\ run' = Drive(Announce(run, run.step + 1), Setpoints[run.step + 1])
    <3> DEFINE i == run.step + 1
               s == Announce(run, i)
    <3>1. i \in DOMAIN Setpoints /\ Setpoints[i] \in Demand
      <4>1. i \in DOMAIN Setpoints
        BY <1>1, <2>2, FirstStep
      <4> QED BY <4>1, StepsAreDemands
    <3> HIDE DEF i
    <3>2. /\ s \in RunType /\ s.step = i
          /\ s.event.sequence = run.event.sequence + 1 /\ s.event.value = Setpoints[i]
          /\ \A f \in DOMAIN run \ {"step", "event"} : s[f] = run[f]
      BY <1>1, <3>1, AnnounceIs
    <3>3. DOMAIN run \ {"step", "event"} = {"active", "source", "asked", "sequence", "scOnly",
            "index", "demand", "applied", "holding", "publish", "requested", "result"}
      BY <1>1 DEF RunType
    <3>4. /\ s.active = run.active /\ s.source = run.source /\ s.asked = run.asked
          /\ s.sequence = run.sequence /\ s.index = run.index
          /\ s.publish = <<>> /\ s.requested = run.requested
      BY <3>2, <3>3
    <3>5. run' = Drive(s, Setpoints[i])
      BY <2>2 DEF i
    <3> HIDE DEF s
    <3>6. Sound(run')
      BY <1>1, <3>1, <3>2, <3>4, <3>5, SoundDrive
    <3>7. /\ run'.event = s.event /\ run'.publish = <<>>
          /\ run'.requested = run.requested
          /\ run'.source = run.source /\ run'.asked = run.asked
      BY <3>1, <3>2, <3>4, <3>5, DriveIs
    <3>8. run'.event.sequence > run.event.sequence
      BY <1>1, <3>2, <3>7
    <3>9. Effect(run, run')
      BY <1>1, <3>6, <3>7, <3>8, PublicationsAre DEF Effect
    <3> QED BY <3>7, <3>9 DEF EndsWith
  <2>3. CASE run' = Finish(Drive(run, 0), "done")
    BY <2>3, DoneAtZero DEF Ends
  <2>4. StepTop
    BY <1>3 DEF StepTest, Fixture
  <2> QED BY <2>1, <2>2, <2>3, <2>4 DEF StepTop
<1>4. CASE run.active \in Fixture
  <2>1. run' = Finish(run, "ok")
    BY <1>4 DEF StepTest, Fixture
  <2>2. Ends(run, run', "ok")
    BY <1>1, <2>1, FinishEnds
  <2> QED BY <2>2 DEF Ends
<1>5. CASE run.active # "top" /\ run.active \notin Fixture
  <2>1. \/ \E d \in {0, 1} : run' = Drive(run, d)
        \/ run' = Finish(Drive(run, 0), "done")
    BY <1>5 DEF StepTest
  <2>2. CASE \E d \in {0, 1} : run' = Drive(run, d)
    BY <1>2, <2>2 DEF Demand, EndsWith
  <2>3. CASE run' = Finish(Drive(run, 0), "done")
    BY <2>3, DoneAtZero DEF Ends
  <2> QED BY <2>1, <2>2, <2>3
<1> QED BY <1>3, <1>4, <1>5

--------------------------------------------------------------------------------
(* The inductive invariant                                                      *)

Typed ==
  /\ pc1 \in {"request", "line", "supervise", "step"}
  /\ writing \in BOOLEAN /\ ended \in BOOLEAN
  /\ Sound(run)
  /\ scRequest \in {Nothing} \cup Orders /\ line \in {Nothing} \cup Orders
  /\ fixture \in [sequence : Nat, entry : Fixture \cup {None}]
  /\ completed \in Nat /\ printed \in Nat /\ ran \in Nat /\ runs \in Nat
  /\ shown \in [sequence : Nat, value : Demand]
  /\ pc0 \in {"session", "clear", "queue", "fixture", "check", "running", "event", "printed"}
  /\ pc0 \in {"clear", "queue"} => got \in Orders /\ got.asked = "session"
  /\ pc0 \in {"check", "running"} => got \in [kind : {"read"}, attempt : Nat, sequence : Nat]

(* The entry published last names a fixture that core 0 has not run yet.        *)
Unclaimed == IF ~writing /\ fixture.entry # None /\ fixture.sequence # ran THEN 1 ELSE 0

(* Every fixture started is to be published, published and unclaimed, or run.   *)
Counted ==
  /\ fixture.sequence % 2 = IF writing THEN 1 ELSE 0
  /\ runs + Starting(run.publish) + Unclaimed <= run.requested
  /\ completed <= ran /\ ran <= fixture.sequence
  /\ pc0 = "running" => ran = got.sequence
  /\ pc0 # "running" => ran = completed

(* Core 0 has printed what it acknowledged last, or is about to acknowledge it. *)
Announced ==
  /\ printed <= shown.sequence /\ shown.sequence <= run.event.sequence
  /\ pc0 # "printed" => printed = shown.sequence
  /\ shown.sequence = run.event.sequence => shown = run.event

(* When the end of a session is to be told, what the session left behind is     *)
(* known to be its own.                                                         *)
Owned ==
  /\ pc0 = "queue" => ~ended
  /\ ScRuns => run.asked # "console"
  /\ scRequest # Nothing => scRequest.asked # "console"
  /\ ended /\ ScRuns => run.asked = "ended session"
  /\ ended /\ scRequest # Nothing /\ Starter(scRequest) => scRequest.asked = "ended session"

TInv == Typed /\ Counted /\ Announced /\ Owned

LEMMA TestsStart == Init => TInv
<1> SUFFICES ASSUME Init PROVE TInv
  OBVIOUS
<1>1. 0 \in Demand /\ 1 \in DOMAIN Setpoints
  BY FirstStep DEF Demand
<1>2. /\ run.active = None /\ ~run.sequence /\ run.publish = <<>> /\ run.requested = 0
      /\ run.event = [sequence |-> 0, value |-> 0]
  BY DEF Init
<1>3. <<>> \in Seq(Fixture \cup {None})
  OBVIOUS
<1>4. run \in RunType
  <2>1. [sequence |-> 0, value |-> 0] \in [sequence : Nat, value : Demand]
    BY <1>1
  <2> QED BY <1>1, <1>3, <2>1 DEF Init, RunType, Asked
<1>5. Sound(run)
  BY <1>2, <1>4 DEF Sound, Place, Publications, Drives, None
<1>6. Typed
  <2>1. shown \in [sequence : Nat, value : Demand]
    BY <1>1, <1>2 DEF Init
  <2>2. fixture \in [sequence : Nat, entry : Fixture \cup {None}]
    BY DEF Init
  <2> QED BY <1>5, <2>1, <2>2 DEF Init, Typed
<1>7. Counted
  BY <1>2, PublicationsAre DEF Init, Counted, Unclaimed
<1>8. Announced
  BY <1>2 DEF Init, Announced
<1>9. Owned
  BY <1>2 DEF Init, Owned, ScRuns
<1> QED BY <1>6, <1>7, <1>8, <1>9 DEF TInv

LEMMA SameTests == TInv /\ UNCHANGED vars => TInv'
<1> SUFFICES ASSUME TInv, UNCHANGED vars PROVE TInv'
  OBVIOUS
<1>1. UNCHANGED <<pc1, run, writing, scRequest, line, ended, quiet, fixture,
                  completed, printed, pc0, got, open, ran, runs, shown, commands>>
  BY DEF vars, core1, shared, core0
<1>2. Typed'
  BY <1>1 DEF TInv, Typed
<1>3. Counted'
  BY <1>1 DEF TInv, Counted, Unclaimed
<1>4. Announced' /\ Owned'
  BY <1>1 DEF TInv, Announced, Owned, ScRuns
<1> QED BY <1>2, <1>3, <1>4 DEF TInv

(* A turn of the runner keeps what is counted and what is announced.            *)
LEMMA RunnerKeeps ==
  ASSUME Typed, Counted, Announced, run.publish = <<>>, Effect(run, run'),
         UNCHANGED <<writing, fixture, completed, printed, core0>>
  PROVE  Counted' /\ Announced'
<1>1. /\ run.requested \in Nat /\ run.event.sequence \in Nat /\ run'.event.sequence \in Nat
      /\ shown.sequence \in Nat
  BY DEF Typed, Sound, RunType, Effect
<1>2. run'.requested = run.requested + Starting(run'.publish)
  BY DEF Effect
<1>3. run'.publish \in Publications
  BY DEF Effect, Sound
<1>4. Starting(run'.publish) \in Nat
  BY DEF Starting
<1>5. Unclaimed' = Unclaimed /\ Unclaimed \in Nat
  BY DEF Unclaimed, core0
<1>6. runs + Starting(run'.publish) + Unclaimed <= run'.requested
  <2>1. runs + Unclaimed <= run.requested /\ runs \in Nat
    BY <1>5, PublicationsAre DEF Typed, Counted
  <2> QED BY <1>1, <1>2, <1>4, <1>5, <2>1
<1>7. Counted'
  BY <1>5, <1>6 DEF Counted, core0
<1>8. Announced'
  <2>1. run'.event = run.event \/ run'.event.sequence > run.event.sequence
    BY DEF Effect
  <2>2. CASE run'.event = run.event
    BY <2>2 DEF Announced, core0
  <2>3. CASE run'.event.sequence > run.event.sequence
    BY <1>1, <2>3 DEF Announced, core0
  <2> QED BY <2>1, <2>2, <2>3
<1> QED BY <1>7, <1>8

LEMMA TakeRequestKeeps == TInv /\ TakeRequest => TInv'
<1> SUFFICES ASSUME TInv, TakeRequest PROVE TInv'
  OBVIOUS
<1>0. Typed /\ Counted /\ Announced /\ Owned
  BY DEF TInv
<1>1. /\ pc1' = "line" /\ run.publish = <<>> /\ run' = Obey(run, scRequest, "sc")
      /\ scRequest' = Nothing
      /\ UNCHANGED <<writing, line, ended, quiet, fixture, completed, printed, core0>>
  BY DEF TakeRequest, At1
<1>2. /\ Effect(run, run')
      /\ \/ run'.active = None
         \/ run.active # None /\ run'.source = run.source /\ run'.asked = run.asked
         \/ /\ scRequest # Nothing /\ Starter(scRequest)
            /\ run'.source = "sc" /\ run'.asked = scRequest.asked
  BY <1>0, <1>1, ObeyObeys DEF Typed
<1>3. Typed'
  BY <1>0, <1>1, <1>2 DEF Typed, Effect, core0
<1>4. Counted' /\ Announced'
  BY <1>0, <1>1, <1>2, RunnerKeeps
<1>5. Owned'
  BY <1>0, <1>1, <1>2 DEF Owned, ScRuns, core0
<1> QED BY <1>3, <1>4, <1>5 DEF TInv

LEMMA TakeLineKeeps == TInv /\ TakeLine => TInv'
<1> SUFFICES ASSUME TInv, TakeLine PROVE TInv'
  OBVIOUS
<1>0. Typed /\ Counted /\ Announced /\ Owned
  BY DEF TInv
<1>1. /\ pc1' = "supervise" /\ run.publish = <<>> /\ run' = Obey(run, line, "console")
      /\ line' = Nothing
      /\ UNCHANGED <<writing, scRequest, ended, quiet, fixture, completed, printed, core0>>
  BY DEF TakeLine, At1
<1>2. /\ Effect(run, run')
      /\ \/ run'.active = None
         \/ run.active # None /\ run'.source = run.source /\ run'.asked = run.asked
         \/ run'.source = "console"
  BY <1>0, <1>1, ObeyObeys DEF Typed
<1>3. Typed'
  BY <1>0, <1>1, <1>2 DEF Typed, Effect, core0
<1>4. Counted' /\ Announced'
  BY <1>0, <1>1, <1>2, RunnerKeeps
<1>5. Owned'
  BY <1>0, <1>1, <1>2 DEF Owned, ScRuns, core0
<1> QED BY <1>3, <1>4, <1>5 DEF TInv

LEMMA SuperviseKeeps ==
  ASSUME TInv, NEW engineRuns \in BOOLEAN, Supervise(engineRuns)
  PROVE  TInv'
<1>0. Typed /\ Counted /\ Announced /\ Owned
  BY DEF TInv
<1>1. /\ pc1' = "step" /\ run.publish = <<>>
      /\ UNCHANGED <<writing, scRequest, line, quiet, fixture, completed, printed, core0>>
  BY DEF Supervise, At1
<1>2. CASE UNCHANGED run
  <2>1. ended' = FALSE \/ ended' = ended
    BY DEF Supervise
  <2>2. Typed'
    BY <1>0, <1>1, <1>2, <2>1 DEF Typed, core0
  <2>3. Counted' /\ Announced'
    BY <1>0, <1>1, <1>2 DEF Counted, Unclaimed, Announced, core0
  <2>4. Owned'
    <3>1. CASE ended' = FALSE
      BY <1>0, <1>1, <1>2, <3>1 DEF Owned, ScRuns, core0
    <3>2. CASE ended' = ended
      BY <1>0, <1>1, <1>2, <3>2 DEF Owned, ScRuns, core0
    <3> QED BY <2>1, <3>1, <3>2
  <2> QED BY <2>2, <2>3, <2>4 DEF TInv
<1>3. CASE ScRuns /\ ended' = FALSE /\ run' = StopAll(run, Reason(engineRuns))
               /\ Reason(engineRuns) # "none"
  <2>1. Reason(engineRuns) \in {"session_end", "host_lost", "engine_running"}
    BY <1>3 DEF Reason
  <2>2. Effect(run, run')
    BY <1>0, <1>1, <1>3, <2>1, StopAllEnds DEF Typed
  <2>3. Typed'
    BY <1>0, <1>1, <1>3, <2>2 DEF Typed, Effect, core0
  <2>4. Counted' /\ Announced'
    BY <1>0, <1>1, <2>2, RunnerKeeps
  <2>6. run'.active = None
    BY <1>0, <1>1, <1>3, <2>1, StopAllEnds DEF Typed
  <2>5. Owned'
    BY <1>0, <1>1, <1>3, <2>6 DEF Owned, ScRuns
  <2> QED BY <2>3, <2>4, <2>5 DEF TInv
<1> QED BY <1>2, <1>3 DEF Supervise

LEMMA StepKeeps == TInv /\ Step => TInv'
<1> SUFFICES ASSUME TInv, Step PROVE TInv'
  OBVIOUS
<1>0. Typed /\ Counted /\ Announced /\ Owned
  BY DEF TInv
<1>1. /\ pc1' = "request" /\ run.publish = <<>>
      /\ UNCHANGED <<writing, scRequest, line, ended, quiet, fixture, completed, printed, core0>>
  BY DEF Step, At1
<1>2. Effect(run, run') /\ (run'.active # None =>
        run.active # None /\ run'.source = run.source /\ run'.asked = run.asked)
  <2>1. CASE run.active = None \/ FixtureRuns
    <3>1. PICK d \in Driver : run' = [run EXCEPT !.demand = d]
      BY <2>1 DEF Step
    <3>2. run \in RunType /\ d \in Demand
      BY <1>0 DEF Typed, Sound, Demand
    <3>3. run' \in RunType
      BY <3>1, <3>2 DEF RunType
    <3>4. /\ run'.active = run.active /\ run'.source = run.source /\ run'.asked = run.asked
          /\ run'.sequence = run.sequence /\ run'.index = run.index
          /\ run'.event = run.event /\ run'.publish = run.publish
          /\ run'.requested = run.requested /\ run.requested \in Nat
      BY <3>1, <3>2 DEF RunType
    <3>5. run.active \notin Drives
      BY <2>1 DEF FixtureRuns, Fixture, Drives, None
    <3>6. Place(run')
      BY <1>0, <3>4, <3>5 DEF Typed, Sound, Place, Drives
    <3>7. Effect(run, run')
      BY <1>0, <1>1, <3>3, <3>4, <3>6, PublicationsAre DEF Typed, Sound, Effect
    <3> QED BY <3>4, <3>7
  <2>2. CASE run.active # None /\ ~FixtureRuns
    BY <1>0, <1>1, <2>2, StepTestEffect DEF Step, Typed
  <2> QED BY <2>1, <2>2
<1>3. Typed'
  BY <1>0, <1>1, <1>2 DEF Typed, Effect, core0
<1>4. Counted' /\ Announced'
  BY <1>0, <1>1, <1>2, RunnerKeeps
<1>5. Owned'
  BY <1>0, <1>1, <1>2 DEF Owned, ScRuns, core0
<1> QED BY <1>3, <1>4, <1>5 DEF TInv

(* Publishing: the count moves from the entry still to be published to the one  *)
(* that core 0 may claim.                                                       *)
LEMMA PublishKeeps == TInv /\ PublishFixture => TInv'
<1> SUFFICES ASSUME TInv, PublishFixture PROVE TInv'
  OBVIOUS
<1>0. Typed /\ Counted /\ Announced /\ Owned
  BY DEF TInv
<1>1. /\ run.publish # <<>>
      /\ UNCHANGED <<pc1, scRequest, line, ended, quiet, completed, printed, core0>>
  BY DEF PublishFixture
<1>2. /\ fixture \in [sequence : Nat, entry : Fixture \cup {None}]
      /\ fixture.sequence \in Nat /\ run \in RunType
      /\ ran \in Nat /\ completed \in Nat /\ runs \in Nat /\ run.requested \in Nat
  BY <1>0 DEF Typed, Sound, RunType
<1>3. run.publish \in {<<None>>, <<"kv">>, <<None, "kv">>}
  BY <1>0, <1>1 DEF Typed, Sound, Publications
<1>4. \A n \in Nat : n % 2 = 0 => (n + 1) % 2 = 1
  OBVIOUS
<1>5. \A n \in Nat : n % 2 = 1 => (n + 1) % 2 = 0
  OBVIOUS
<1>6. CASE /\ ~writing /\ writing' = TRUE
           /\ fixture' = [fixture EXCEPT !.sequence = @ + 1]
           /\ UNCHANGED run
  <2>1. fixture'.sequence = fixture.sequence + 1 /\ fixture'.entry = fixture.entry
    BY <1>2, <1>6
  <2>2. fixture' \in [sequence : Nat, entry : Fixture \cup {None}]
    BY <1>2, <1>6
  <2>3. Typed'
    BY <1>0, <1>1, <1>6, <2>2 DEF Typed, core0
  <2>4. Unclaimed' = 0 /\ Unclaimed \in Nat /\ Starting(run.publish) \in Nat
    BY <1>6 DEF Unclaimed, Starting
  <2>5. runs + Starting(run.publish) + Unclaimed <= run.requested
    BY <1>0 DEF Counted
  <2>6. runs + Starting(run.publish) + 0 <= run.requested
    BY <1>2, <2>4, <2>5
  <2>7. fixture'.sequence % 2 = 1
    BY <1>0, <1>2, <1>4, <1>6, <2>1 DEF Counted
  <2>8. ran <= fixture'.sequence
    BY <1>0, <1>2, <2>1 DEF Counted
  <2>9. Counted'
    BY <1>0, <1>1, <1>6, <2>4, <2>6, <2>7, <2>8 DEF Counted, core0
  <2>10. Announced' /\ Owned'
    BY <1>0, <1>1, <1>6 DEF Announced, Owned, ScRuns, core0
  <2> QED BY <2>3, <2>9, <2>10 DEF TInv
<1>7. CASE /\ writing /\ fixture' = [fixture EXCEPT !.entry = Head(run.publish)]
           /\ UNCHANGED <<writing, run>>
  <2>1. Head(run.publish) \in Fixture \cup {None}
    BY <1>3, PublicationsAre DEF Fixture
  <2>2. fixture' \in [sequence : Nat, entry : Fixture \cup {None}]
        /\ fixture'.sequence = fixture.sequence
    BY <1>2, <1>7, <2>1
  <2>3. Typed'
    BY <1>0, <1>1, <1>7, <2>2 DEF Typed, core0
  <2>4. Unclaimed' = Unclaimed
    BY <1>7 DEF Unclaimed
  <2>5. Counted'
    BY <1>0, <1>1, <1>7, <2>2, <2>4 DEF Counted, core0
  <2>6. Announced' /\ Owned'
    BY <1>0, <1>1, <1>7 DEF Announced, Owned, ScRuns, core0
  <2> QED BY <2>3, <2>5, <2>6 DEF TInv
<1>8. CASE /\ writing /\ fixture.entry = Head(run.publish)
           /\ fixture' = [fixture EXCEPT !.sequence = @ + 1]
           /\ writing' = FALSE
           /\ run' = [run EXCEPT !.publish = Tail(@)]
  <2>1. fixture'.sequence = fixture.sequence + 1 /\ fixture'.entry = Head(run.publish)
    BY <1>2, <1>8
  <2>2. fixture' \in [sequence : Nat, entry : Fixture \cup {None}]
    BY <1>2, <1>8
  <2>3. Tail(run.publish) \in Publications
    BY <1>3, PublicationsAre DEF Publications
  <2>4. /\ run' = [run EXCEPT !.publish = Tail(run.publish)]
        /\ Tail(run.publish) \in Seq(Fixture \cup {None})
    BY <1>2, <1>8, <2>3, PublicationsAre DEF RunType
  <2>5. run' \in RunType
    BY <1>2, <2>4 DEF RunType
  <2>6. /\ run'.publish = Tail(run.publish)
        /\ run'.active = run.active /\ run'.source = run.source /\ run'.asked = run.asked
        /\ run'.demand = run.demand /\ run'.applied = run.applied /\ run'.step = run.step
        /\ run'.sequence = run.sequence /\ run'.index = run.index
        /\ run'.event = run.event /\ run'.requested = run.requested
    BY <1>2, <2>4 DEF RunType
  <2>7. Sound(run')
    BY <1>0, <2>3, <2>5, <2>6 DEF Typed, Sound, Place
  <2>8. Typed'
    BY <1>0, <1>1, <1>8, <2>2, <2>7 DEF Typed, core0
  <2>9. Starting(run'.publish) + Unclaimed' <= Starting(run.publish)
        /\ Starting(run'.publish) + Unclaimed' \in Nat
    <3>1. Unclaimed' \in {0, 1}
      BY DEF Unclaimed
    <3>2. CASE run.publish = <<None>>
      <4>1. Unclaimed' = 0
        BY <2>1, <3>2, PublicationsAre DEF Unclaimed
      <4> QED BY <2>6, <3>2, <4>1, PublicationsAre
    <3>3. CASE run.publish = <<"kv">>
      BY <2>6, <3>1, <3>3, PublicationsAre
    <3>4. CASE run.publish = <<None, "kv">>
      <4>1. Unclaimed' = 0
        BY <2>1, <3>4, PublicationsAre DEF Unclaimed
      <4> QED BY <2>6, <3>4, <4>1, PublicationsAre
    <3> QED BY <1>3, <3>2, <3>3, <3>4
  <2>10. Unclaimed = 0 /\ Starting(run.publish) \in Nat
         /\ Starting(run'.publish) \in Nat /\ Unclaimed' \in Nat
    BY <1>8 DEF Unclaimed, Starting
  <2>11. runs + Starting(run.publish) + 0 <= run.requested
    BY <1>0, <2>10 DEF Counted
  <2>12. runs + Starting(run'.publish) + Unclaimed' <= run.requested
    BY <1>2, <2>9, <2>10, <2>11
  <2>13. fixture'.sequence % 2 = 0
    BY <1>0, <1>2, <1>5, <1>8, <2>1 DEF Counted
  <2>14. ran <= fixture'.sequence
    BY <1>0, <1>2, <2>1 DEF Counted
  <2>15. Counted'
    BY <1>0, <1>1, <1>8, <2>6, <2>12, <2>13, <2>14 DEF Counted, core0
  <2>16. Announced' /\ Owned'
    BY <1>0, <1>1, <2>6 DEF Announced, Owned, ScRuns, core0
  <2> QED BY <2>8, <2>15, <2>16 DEF TInv
<1> QED BY <1>6, <1>7, <1>8 DEF PublishFixture

LEMMA TimeKeeps == TInv /\ (HoldElapses \/ GoesQuiet) => TInv'
<1> SUFFICES ASSUME TInv, HoldElapses \/ GoesQuiet PROVE TInv'
  OBVIOUS
<1>0. Typed /\ Counted /\ Announced /\ Owned
  BY DEF TInv
<1>1. CASE HoldElapses
  <2>1. run \in RunType
    BY <1>0 DEF Typed, Sound
  <2>2. run' = [run EXCEPT !.holding = "long"] /\ UNCHANGED <<pc1, writing, shared, core0>>
    BY <1>1 DEF HoldElapses
  <2>3. /\ run' \in RunType
        /\ run'.publish = run.publish
        /\ run'.active = run.active /\ run'.source = run.source /\ run'.asked = run.asked
        /\ run'.demand = run.demand /\ run'.applied = run.applied /\ run'.step = run.step
        /\ run'.sequence = run.sequence /\ run'.index = run.index
        /\ run'.event = run.event /\ run'.requested = run.requested
    BY <2>1, <2>2 DEF RunType
  <2>4. Sound(run')
    BY <1>0, <2>3 DEF Typed, Sound, Place
  <2>5. Typed'
    BY <1>0, <2>2, <2>4 DEF Typed, shared, core0
  <2>6. Counted'
    BY <1>0, <2>2, <2>3 DEF Counted, Unclaimed, shared, core0
  <2>7. Announced' /\ Owned'
    BY <1>0, <2>2, <2>3 DEF Announced, Owned, ScRuns, shared, core0
  <2> QED BY <2>5, <2>6, <2>7 DEF TInv
<1>2. CASE GoesQuiet
  <2>1. UNCHANGED <<core1, scRequest, line, ended, fixture, completed, printed, core0>>
    BY <1>2 DEF GoesQuiet
  <2>2. Typed'
    BY <1>0, <2>1 DEF Typed, core1, core0
  <2>3. Counted'
    BY <1>0, <2>1 DEF Counted, Unclaimed, core1, core0
  <2>4. Announced' /\ Owned'
    BY <1>0, <2>1 DEF Announced, Owned, ScRuns, core1, core0
  <2> QED BY <2>2, <2>3, <2>4 DEF TInv
<1> QED BY <1>1, <1>2

LEMMA OrdersAre ==
  ASSUME NEW a \in Asked
  PROVE  /\ \A t \in Test : [kind |-> "run", test |-> t, asked |-> a] \in Orders
         /\ \A k \in {"all", "stop", "skip"} : [kind |-> k, asked |-> a] \in Orders
<1>1. ASSUME NEW t \in Test PROVE [kind |-> "run", test |-> t, asked |-> a] \in Orders
  BY DEF Orders
<1>2. ASSUME NEW k \in {"all", "stop", "skip"} PROVE [kind |-> k, asked |-> a] \in Orders
  BY DEF Orders
<1> QED BY <1>1, <1>2

LEMMA RequestsAreOrders ==
  /\ \A c \in Request : c \in Orders /\ c.asked = "session"
  /\ Line \subseteq Orders
<1>1. Named \subseteq Test
  BY TestsAssumption, SuiteIs
<1>2. \A tests \in SUBSET Test, a \in Asked :
        \A c \in Command(tests, a) : c \in Orders /\ c.asked = a
  <2> TAKE tests \in SUBSET Test, a \in Asked
  <2> TAKE c \in Command(tests, a)
  <2>1. CASE \E t \in tests : c = [kind |-> "run", test |-> t, asked |-> a]
    BY <2>1 DEF Orders
  <2>2. CASE \E k \in {"all", "stop", "skip"} : c = [kind |-> k, asked |-> a]
    BY <2>2 DEF Orders
  <2> QED BY <2>1, <2>2 DEF Command
<1>3. "session" \in Asked /\ "console" \in Asked
  BY DEF Asked
<1> QED BY <1>1, <1>2, <1>3 DEF Request, Line

(* What a session leaves behind when it ends is known to be its own.            *)
LEMMA OrphanIs ==
  /\ \A r \in RunType :
       /\ Orphan(r) \in RunType
       /\ Orphan(r).asked = IF r.asked = "session" THEN "ended session" ELSE r.asked
       /\ Orphan(r).publish = r.publish /\ Orphan(r).active = r.active
       /\ Orphan(r).demand = r.demand /\ Orphan(r).applied = r.applied
       /\ Orphan(r).step = r.step /\ Orphan(r).event = r.event
       /\ Orphan(r).sequence = r.sequence /\ Orphan(r).index = r.index
       /\ Orphan(r).requested = r.requested
  /\ Orphan(Nothing) = Nothing
  /\ \A c \in Orders :
       /\ Orphan(c) \in Orders
       /\ Orphan(c).asked = IF c.asked = "session" THEN "ended session" ELSE c.asked
       /\ Orphan(c).kind = c.kind
<1>1. ASSUME NEW r \in RunType
      PROVE  /\ Orphan(r) \in RunType
             /\ Orphan(r).asked = IF r.asked = "session" THEN "ended session" ELSE r.asked
             /\ Orphan(r).publish = r.publish /\ Orphan(r).active = r.active
             /\ Orphan(r).demand = r.demand /\ Orphan(r).applied = r.applied
             /\ Orphan(r).step = r.step /\ Orphan(r).event = r.event
             /\ Orphan(r).sequence = r.sequence /\ Orphan(r).index = r.index
             /\ Orphan(r).requested = r.requested
  <2>1. "asked" \in DOMAIN r
    BY DEF RunType
  <2>2. CASE r.asked = "session"
    <3>1. Orphan(r) = [r EXCEPT !.asked = "ended session"]
      BY <2>1, <2>2 DEF Orphan
    <3> QED BY <2>2, <3>1 DEF RunType, Asked
  <2>3. CASE r.asked # "session"
    <3>1. Orphan(r) = r
      BY <2>3 DEF Orphan
    <3> QED BY <2>3, <3>1
  <2> QED BY <2>2, <2>3
<1>2. Orphan(Nothing) = Nothing
  BY DEF Orphan, Nothing
<1>3. ASSUME NEW c \in Orders
      PROVE  /\ Orphan(c) \in Orders
             /\ Orphan(c).asked = IF c.asked = "session" THEN "ended session" ELSE c.asked
             /\ Orphan(c).kind = c.kind
  <2>1. CASE \E t \in Test, a \in Asked : c = [kind |-> "run", test |-> t, asked |-> a]
    <3>1. PICK t \in Test, a \in Asked : c = [kind |-> "run", test |-> t, asked |-> a]
      BY <2>1
    <3>2. CASE a = "session"
      <4> DEFINE o == Orphan(c)
      <4>1. o = [kind |-> "run", test |-> t, asked |-> "ended session"]
        BY <3>1, <3>2 DEF Orphan
      <4> HIDE DEF o
      <4>4. "ended session" \in Asked
        BY DEF Asked
      <4>2. o \in Orders
        BY <3>1, <4>1, <4>4, OrdersAre
      <4>3. o.asked = "ended session" /\ o.kind = c.kind /\ c.asked = "session"
        BY <3>1, <3>2, <4>1
      <4> QED BY <4>2, <4>3 DEF o
    <3>3. CASE a # "session"
      BY <3>1, <3>3 DEF Orphan
    <3> QED BY <3>2, <3>3
  <2>2. CASE \E k \in {"all", "stop", "skip"}, a \in Asked : c = [kind |-> k, asked |-> a]
    <3>1. PICK k \in {"all", "stop", "skip"}, a \in Asked : c = [kind |-> k, asked |-> a]
      BY <2>2
    <3>2. CASE a = "session"
      <4> DEFINE o == Orphan(c)
      <4>1. o = [kind |-> k, asked |-> "ended session"]
        BY <3>1, <3>2 DEF Orphan
      <4> HIDE DEF o
      <4>4. "ended session" \in Asked
        BY DEF Asked
      <4>2. o \in Orders
        BY <3>1, <4>1, <4>4, OrdersAre
      <4>3. o.asked = "ended session" /\ o.kind = c.kind /\ c.asked = "session"
        BY <3>1, <3>2, <4>1
      <4> QED BY <4>2, <4>3 DEF o
    <3>3. CASE a # "session"
      BY <3>1, <3>3 DEF Orphan
    <3> QED BY <3>2, <3>3
  <2>3. \/ \E t \in Test, a \in Asked : c = [kind |-> "run", test |-> t, asked |-> a]
        \/ \E k \in {"all", "stop", "skip"}, a \in Asked : c = [kind |-> k, asked |-> a]
    BY DEF Orders
  <2> QED BY <2>1, <2>2, <2>3
<1> QED BY <1>1, <1>2, <1>3

LEMMA ClosesKeeps == TInv /\ Closes => TInv'
<1> SUFFICES ASSUME TInv, Closes PROVE TInv'
  OBVIOUS
<1>0. Typed /\ Counted /\ Announced /\ Owned
  BY DEF TInv
<1>1. /\ pc0 = "session" /\ pc0' = "fixture"
      /\ ended' = TRUE /\ run' = Orphan(run) /\ scRequest' = Orphan(scRequest)
      /\ UNCHANGED <<pc1, writing, line, quiet, fixture, completed, printed,
                     got, ran, runs, shown, commands>>
  BY DEF Closes, At0
<1>2. run \in RunType
  BY <1>0 DEF Typed, Sound
<1>3. /\ run' \in RunType
      /\ run'.asked = IF run.asked = "session" THEN "ended session" ELSE run.asked
      /\ run'.publish = run.publish /\ run'.active = run.active
      /\ run'.demand = run.demand /\ run'.applied = run.applied
      /\ run'.step = run.step /\ run'.event = run.event
      /\ run'.sequence = run.sequence /\ run'.index = run.index
      /\ run'.requested = run.requested
  BY <1>1, <1>2, OrphanIs
<1>4. Sound(run')
  BY <1>0, <1>3 DEF Typed, Sound, Place
<1>5. scRequest' \in {Nothing} \cup Orders
  BY <1>0, <1>1, OrphanIs DEF Typed
<1>6. Typed'
  BY <1>0, <1>1, <1>4, <1>5 DEF Typed
<1>7. Counted'
  BY <1>0, <1>1, <1>3 DEF Counted, Unclaimed
<1>8. Announced'
  BY <1>0, <1>1, <1>3 DEF Announced
<1>9. Owned'
  <2>1. ScRuns' => run'.asked = "ended session"
    <3>1. ScRuns' => ScRuns
      BY <1>1, <1>2 DEF ScRuns, Orphan, RunType
    <3> QED BY <1>0, <1>2, <1>3, <3>1 DEF Owned, RunType, Asked
  <2>2. scRequest' # Nothing => scRequest'.asked = "ended session"
    <3>1. CASE scRequest = Nothing
      BY <1>1, <3>1, OrphanIs
    <3>2. CASE scRequest \in Orders
      <4>1. scRequest.asked \in Asked /\ scRequest # Nothing
        BY <3>2, OrderIs
      <4> QED BY <1>0, <1>1, <3>2, <4>1, OrphanIs DEF Owned, Asked
    <3> QED BY <1>0, <3>1, <3>2 DEF Typed
  <2> QED BY <1>1, <2>1, <2>2 DEF Owned
<1> QED BY <1>6, <1>7, <1>8, <1>9 DEF TInv

(* The session and the console, without the end of a session.                   *)
LEMMA SessionKeeps ==
  ASSUME TInv,
         \/ Opens \/ Polls \/ Idles \/ ClearEnded \/ QueueRun
         \/ \E c \in Request : Asks(c)
         \/ \E c \in Line : Types(c)
  PROVE  TInv'
<1>0. Typed /\ Counted /\ Announced /\ Owned
  BY DEF TInv
<1>1. /\ UNCHANGED <<core1, fixture, completed, printed, ran, runs, shown>>
      /\ pc0 \in {"session", "clear", "queue"}
      /\ pc0' \in {"fixture", "clear", "queue"}
  BY RequestsAreOrders
     DEF Opens, Polls, Idles, ClearEnded, QueueRun, Asks, Types, At0, Queue, shared
<1>2. /\ pc0' \in {"clear", "queue"} => got' \in Orders /\ got'.asked = "session"
      /\ ended' \in {ended, FALSE}
      /\ pc0' = "queue" => ended' = FALSE
  <2>1. CASE Opens \/ Polls \/ Idles \/ QueueRun \/ \E c \in Line : Types(c)
    BY <2>1 DEF Opens, Polls, Idles, QueueRun, Types, At0, shared
  <2>2. CASE ClearEnded
    BY <1>0, <2>2 DEF ClearEnded, At0, Typed
  <2>3. CASE \E c \in Request : Asks(c)
    BY <2>3, RequestsAreOrders DEF Asks
  <2> QED BY <2>1, <2>2, <2>3
<1>3. \/ scRequest' = scRequest
      \/ scRequest' \in Orders /\ scRequest'.asked = "session"
           /\ (Starter(scRequest') => ended' = FALSE)
  <2>1. CASE Opens \/ Polls \/ Idles \/ ClearEnded \/ \E c \in Line : Types(c)
    BY <2>1 DEF Opens, Polls, Idles, ClearEnded, Types, At0, shared
  <2>2. CASE QueueRun
    BY <1>0, <2>2 DEF QueueRun, At0, Queue, Typed, Owned
  <2>3. CASE \E c \in Request : Asks(c)
    <3>1. PICK c \in Request : Asks(c)
      BY <2>3
    <3>2. c \in Orders /\ c.asked = "session"
      BY RequestsAreOrders
    <3>3. CASE c.kind \in {"stop", "skip"}
      BY <3>1, <3>2, <3>3 DEF Asks, Queue, Starter
    <3>4. CASE c.kind \notin {"stop", "skip"}
      BY <3>1, <3>4 DEF Asks
    <3> QED BY <3>3, <3>4
  <2> QED BY <2>1, <2>2, <2>3
<1>4. line' = line \/ line' \in Orders
  <2>1. CASE \E c \in Line : Types(c)
    BY <2>1, RequestsAreOrders DEF Types
  <2>2. CASE Opens \/ Polls \/ Idles \/ ClearEnded \/ QueueRun \/ \E c \in Request : Asks(c)
    BY <2>2 DEF Opens, Polls, Idles, ClearEnded, QueueRun, Asks, Queue, shared
  <2> QED BY <2>1, <2>2
<1>5. Typed'
  BY <1>0, <1>1, <1>2, <1>3, <1>4 DEF Typed, core1
<1>6. Counted'
  BY <1>0, <1>1 DEF Counted, Unclaimed, core1
<1>7. Announced'
  BY <1>0, <1>1 DEF Announced, core1
<1>8. Owned'
  <2>1. UNCHANGED run /\ (ScRuns' => ScRuns)
    BY <1>1 DEF core1, ScRuns
  <2>2. pc0' = "queue" => ~ended'
    BY <1>2
  <2>3. ended' => ended
    BY <1>2
  <2>4. scRequest' # Nothing => scRequest'.asked # "console"
    BY <1>0, <1>3 DEF Owned
  <2>5. ended' /\ scRequest' # Nothing /\ Starter(scRequest') =>
          scRequest'.asked = "ended session"
    BY <1>0, <1>3, <2>3 DEF Owned
  <2> QED BY <1>0, <2>1, <2>2, <2>3, <2>4, <2>5 DEF Owned
<1> QED BY <1>5, <1>6, <1>7, <1>8 DEF TInv

(* Core 0 reads, claims and completes a fixture.                                *)
LEMMA FixtureKeeps ==
  ASSUME TInv, ReadSequence \/ ReadAgain \/ NothingToRun \/ StartFixture \/ CompleteFixture
  PROVE  TInv'
<1>0. Typed /\ Counted /\ Announced /\ Owned
  BY DEF TInv
<1>1. fixture.sequence \in Nat /\ ran \in Nat /\ completed \in Nat /\ runs \in Nat
  BY <1>0 DEF Typed
<1>2. CASE ReadSequence
  <2>1. /\ pc0 = "fixture" /\ pc0' = "check"
        /\ got' = [kind |-> "read", attempt |-> 1, sequence |-> fixture.sequence]
        /\ UNCHANGED <<core1, shared, ran, runs, shown>>
    BY <1>2 DEF ReadSequence, At0
  <2>2. Typed'
    BY <1>0, <1>1, <2>1 DEF Typed, core1, shared
  <2>3. Counted'
    BY <1>0, <2>1 DEF Counted, Unclaimed, core1, shared
  <2>4. Announced' /\ Owned'
    BY <1>0, <2>1 DEF Announced, Owned, ScRuns, core1, shared
  <2> QED BY <2>2, <2>3, <2>4 DEF TInv
<1>3. CASE ReadAgain
  <2>1. /\ pc0 = "check" /\ UNCHANGED <<core1, shared, ran, runs, shown>>
        /\ \/ pc0' = "event"
           \/ /\ pc0' = "check"
              /\ got' = [got EXCEPT !.attempt = @ + 1, !.sequence = fixture.sequence]
    BY <1>3 DEF ReadAgain
  <2>2. Typed'
    <3>1. got \in [kind : {"read"}, attempt : Nat, sequence : Nat]
      BY <1>0, <2>1 DEF Typed
    <3> DEFINE n == got.attempt + 1
    <3>3. n \in Nat
      BY <3>1
    <3>4. pc0' = "check" => got' = [got EXCEPT !.attempt = n, !.sequence = fixture.sequence]
      BY <2>1, <3>1
    <3> HIDE DEF n
    <3>2. pc0' = "check" => got' \in [kind : {"read"}, attempt : Nat, sequence : Nat]
      BY <1>1, <3>1, <3>3, <3>4
    <3> QED BY <1>0, <2>1, <3>2 DEF Typed, core1, shared
  <2>3. Counted'
    BY <1>0, <2>1 DEF Counted, Unclaimed, core1, shared
  <2>4. Announced' /\ Owned'
    BY <1>0, <2>1 DEF Announced, Owned, ScRuns, core1, shared
  <2> QED BY <2>2, <2>3, <2>4 DEF TInv
<1>4. CASE NothingToRun
  <2>1. /\ pc0 = "check" /\ pc0' = "event" /\ UNCHANGED <<core1, shared, ran, runs, shown>>
    BY <1>4 DEF NothingToRun, At0
  <2>2. Typed'
    BY <1>0, <2>1 DEF Typed, core1, shared
  <2>3. Counted'
    BY <1>0, <2>1 DEF Counted, Unclaimed, core1, shared
  <2>4. Announced' /\ Owned'
    BY <1>0, <2>1 DEF Announced, Owned, ScRuns, core1, shared
  <2> QED BY <2>2, <2>3, <2>4 DEF TInv
<1>5. CASE StartFixture
  <2>1. /\ pc0 = "check" /\ pc0' = "running" /\ ran' = got.sequence /\ runs' = runs + 1
        /\ got.sequence % 2 = 0 /\ fixture.sequence = got.sequence
        /\ fixture.entry # None /\ got.sequence # completed
        /\ UNCHANGED <<core1, shared, got, shown>>
    BY <1>5 DEF StartFixture, At0, Consistent, Claims
  <2>2. Typed'
    BY <1>0, <1>1, <2>1 DEF Typed, core1, shared
  <2>3. ~writing /\ fixture.sequence # ran /\ ran = completed
    BY <1>0, <2>1 DEF Counted, Typed
  <2>4. Unclaimed = 1
    BY <2>1, <2>3 DEF Unclaimed
  <2>5. Unclaimed' = 0
    BY <2>1 DEF Unclaimed, core1, shared
  <2>6. Starting(run.publish) \in Nat /\ run.requested \in Nat
    BY <1>0 DEF Starting, Typed, Sound, RunType
  <2>7. runs + Starting(run.publish) + 1 <= run.requested
    BY <1>0, <2>4 DEF Counted
  <2>8. runs' + Starting(run.publish) + 0 <= run.requested
    BY <1>1, <2>1, <2>6, <2>7
  <2>9. completed <= fixture.sequence
    BY <1>0, <1>1 DEF Counted
  <2>10. Counted'
    BY <1>0, <1>1, <2>1, <2>5, <2>8, <2>9 DEF Counted, core1, shared
  <2>11. Announced' /\ Owned'
    BY <1>0, <2>1 DEF Announced, Owned, ScRuns, core1, shared
  <2> QED BY <2>2, <2>10, <2>11 DEF TInv
<1>6. CASE CompleteFixture
  <2>1. /\ pc0 = "running" /\ pc0' = "event" /\ completed' = got.sequence
        /\ UNCHANGED <<core1, scRequest, line, ended, quiet, fixture, printed, ran, runs, shown>>
    BY <1>6 DEF CompleteFixture, At0
  <2>2. completed' = ran
    BY <1>0, <2>1 DEF Counted
  <2>3. Typed'
    BY <1>0, <1>1, <2>1, <2>2 DEF Typed, core1
  <2>4. Counted'
    BY <1>0, <1>1, <2>1, <2>2 DEF Counted, Unclaimed, core1
  <2>5. Announced' /\ Owned'
    BY <1>0, <2>1 DEF Announced, Owned, ScRuns, core1
  <2> QED BY <2>3, <2>4, <2>5 DEF TInv
<1> QED BY <1>2, <1>3, <1>4, <1>5, <1>6

(* Core 0 prints an announcement and acknowledges the one it printed.           *)
LEMMA PrintKeeps == TInv /\ (PrintEvent \/ AckEvent) => TInv'
<1> SUFFICES ASSUME TInv, PrintEvent \/ AckEvent PROVE TInv'
  OBVIOUS
<1>0. Typed /\ Counted /\ Announced /\ Owned
  BY DEF TInv
<1>1. run.event \in [sequence : Nat, value : Demand] /\ printed \in Nat
  BY <1>0 DEF Typed, Sound, RunType
<1>2. CASE PrintEvent
  <2>1. /\ pc0 = "event" /\ UNCHANGED <<core1, shared, got, ran, runs>>
        /\ \/ pc0' = "printed" /\ shown' = run.event
           \/ pc0' = "session" /\ shown' = shown
    BY <1>2 DEF PrintEvent
  <2>2. Typed'
    BY <1>0, <1>1, <2>1 DEF Typed, core1, shared
  <2>3. Counted'
    BY <1>0, <2>1 DEF Counted, Unclaimed, core1, shared
  <2>4. printed <= run.event.sequence /\ run.event.sequence <= run.event.sequence
    BY <1>0, <1>1 DEF Announced, Typed
  <2>5. Announced'
    BY <1>0, <2>1, <2>4 DEF Announced, core1, shared
  <2>6. Owned'
    BY <1>0, <2>1 DEF Owned, ScRuns, core1, shared
  <2> QED BY <2>2, <2>3, <2>5, <2>6 DEF TInv
<1>3. CASE AckEvent
  <2>1. /\ pc0 = "printed" /\ pc0' = "session" /\ printed' = shown.sequence
        /\ UNCHANGED <<core1, scRequest, line, ended, quiet, fixture, completed, got, ran,
                       runs, shown>>
    BY <1>3 DEF AckEvent, At0
  <2>2. Typed'
    BY <1>0, <2>1 DEF Typed, core1
  <2>3. Counted'
    BY <1>0, <2>1 DEF Counted, Unclaimed, core1
  <2>4. shown.sequence <= shown.sequence
    BY <1>0 DEF Typed
  <2>5. Announced'
    BY <1>0, <2>1, <2>4 DEF Announced, core1
  <2>6. Owned'
    BY <1>0, <2>1 DEF Owned, ScRuns, core1
  <2> QED BY <2>2, <2>3, <2>5, <2>6 DEF TInv
<1> QED BY <1>2, <1>3

LEMMA TestsStep == TInv /\ [Next]_vars => TInv'
<1> SUFFICES ASSUME TInv, [Next]_vars PROVE TInv'
  OBVIOUS
<1>1. CASE UNCHANGED vars
  BY <1>1, SameTests
<1>2. CASE Core1
  BY <1>2, PublishKeeps, TakeRequestKeeps, TakeLineKeeps, StepKeeps, SuperviseKeeps
     DEF Core1
<1>3. CASE Core0
  BY <1>3, ClosesKeeps, SessionKeeps, FixtureKeeps, PrintKeeps DEF Core0
<1>4. CASE HoldElapses \/ GoesQuiet
  BY <1>4, TimeKeeps
<1> QED BY <1>1, <1>2, <1>3, <1>4 DEF Next

(* The inductive invariant of the bench tests.                                  *)
THEOREM TestsInvariant == Init /\ [][Next]_vars => []TInv
BY TestsStart, TestsStep, PTL

--------------------------------------------------------------------------------
(* What the runs check                                                          *)

(* A fixture is run at most once for each time it was asked for, for every      *)
(* staircase, every number of attempts to read the entry, and every order of    *)
(* the two cores.                                                               *)
THEOREM FixturesRunOnce == Init /\ [][Next]_vars => []FixtureRunsOnce
<1>1. TInv => FixtureRunsOnce
  <2> SUFFICES ASSUME TInv PROVE FixtureRunsOnce
    OBVIOUS
  <2>1. Typed /\ Counted /\ Announced
    BY DEF TInv
  <2>2. run \in RunType /\ (run.sequence => run.active # None)
    <3>1. /\ run \in RunType
          /\ run.sequence => run.index \in 2..4 /\ run.active = Suite[run.index - 1]
      BY <2>1 DEF Typed, Sound, Place
    <3> QED BY <3>1, SuiteIs DEF None
  <2>3. printed <= run.event.sequence
    <3>1. run.event.sequence \in Nat /\ printed \in Nat /\ shown.sequence \in Nat
      BY <2>1, <2>2 DEF Typed, RunType
    <3> QED BY <2>1, <3>1 DEF Announced
  <2>4. TTypeOK
    BY <2>1, <2>2, <2>3 DEF TTypeOK, Typed, Counted
  <2>5. Starting(run.publish) \in Nat /\ Unclaimed \in Nat /\ runs \in Nat /\ run.requested \in Nat
    BY <2>1, <2>2 DEF Starting, Unclaimed, Typed, RunType
  <2>6. runs <= run.requested
    BY <2>1, <2>5 DEF Counted
  <2> QED BY <2>4, <2>6 DEF FixtureRunsOnce
<1> QED BY <1>1, TestsInvariant, PTL

(* Whatever stops a test by a request or a line, it is reported as stopped.     *)
LEMMA StoppedIsOwn ==
  ASSUME TInv, TakeRequest \/ TakeLine, Stops
  PROVE  run'.result = "stopped"
<1>1. Sound(run) /\ run.publish = <<>>
  BY DEF TInv, Typed, Stops
<1>2. CASE TakeRequest
  <2>1. EndsWith(run', "stopped")
    BY <1>1, <1>2, ObeyObeys DEF TakeRequest, TInv, Typed
  <2> QED BY <2>1 DEF EndsWith, Stops
<1>3. CASE TakeLine
  <2>1. EndsWith(run', "stopped")
    BY <1>1, <1>3, ObeyObeys DEF TakeLine, TInv, Typed
  <2> QED BY <2>1 DEF EndsWith, Stops
<1> QED BY <1>2, <1>3

(* The rest of the two cores publishes what was to be published, and no more.   *)
LEMMA OthersStopNothing ==
  ASSUME TInv, UNCHANGED vars \/ PublishFixture \/ Core0 \/ HoldElapses \/ GoesQuiet
  PROVE  ~Stops /\ run'.demand = run.demand
<1>1. run \in RunType
  BY DEF TInv, Typed, Sound
<1>2. CASE PublishFixture
  BY <1>1, <1>2 DEF PublishFixture, Stops, RunType
<1>3. CASE HoldElapses
  BY <1>1, <1>3 DEF HoldElapses, Stops, RunType
<1>4. CASE Closes
  <2>1. run' = Orphan(run)
    BY <1>4 DEF Closes
  <2> QED BY <1>1, <2>1, OrphanIs DEF Stops
<1>5. CASE Core0 /\ ~Closes
  <2>1. UNCHANGED run
    BY <1>5
       DEF Core0, Opens, Polls, Idles, ClearEnded, QueueRun, Asks, Types,
           ReadSequence, ReadAgain, NothingToRun, StartFixture, CompleteFixture,
           PrintEvent, AckEvent, core1
  <2> QED BY <2>1 DEF Stops
<1>6. CASE UNCHANGED vars \/ GoesQuiet
  BY <1>6 DEF GoesQuiet, vars, core1, Stops
<1> QED BY <1>2, <1>3, <1>4, <1>5, <1>6

(* A fixture that ends by itself was run for its own publication; a test is     *)
(* stopped for the end of a session only if that session asked for it.          *)
THEOREM EndsAreOwn == Init /\ [][Next]_vars => ResultsAreOwn
<1> DEFINE Own == /\ run.active \in Fixture /\ run'.result = "ok" => ran = fixture.sequence
                  /\ run'.result = "session_end" => run.asked = "ended session"
<1>1. TInv /\ [Next]_vars => [Stops => Own]_vars
  <2> SUFFICES ASSUME TInv, [Next]_vars, Stops PROVE Own
    OBVIOUS
  <2>0. Typed /\ Counted /\ Owned /\ Sound(run) /\ run.publish = <<>>
    BY DEF TInv, Typed, Stops
  <2>1. CASE TakeRequest \/ TakeLine
    BY <2>1, StoppedIsOwn
  <2>2. ASSUME NEW engineRuns \in BOOLEAN, Supervise(engineRuns) PROVE Own
    <3>1. run' # run
      BY <2>0 DEF Stops
    <3>2. ScRuns /\ run' = StopAll(run, Reason(engineRuns)) /\ Reason(engineRuns) # "none"
      BY <2>2, <3>1 DEF Supervise
    <3>3. /\ Reason(engineRuns) \in {"session_end", "host_lost", "engine_running"}
          /\ Reason(engineRuns) = "session_end" => ended
      BY <3>2 DEF Reason
    <3>4. EndsWith(run', Reason(engineRuns))
      BY <2>0, <3>2, <3>3, StopAllEnds
    <3>5. run'.result = Reason(engineRuns)
      BY <3>4 DEF EndsWith, Stops
    <3> QED BY <2>0, <3>2, <3>3, <3>5 DEF Owned
  <2>3. CASE Step
    <3>1. run.active # None /\ ~FixtureRuns
      <4> SUFFICES ASSUME run.active = None \/ FixtureRuns PROVE FALSE
        OBVIOUS
      <4>1. run'.publish = run.publish
        BY <2>0, <2>3 DEF Step, Sound, RunType
      <4> QED BY <2>0, <4>1 DEF Stops
    <3>2. EndsWith(run', "ok") \/ EndsWith(run', "done")
      BY <2>0, <2>3, <3>1, StepTestEffect DEF Step
    <3>3. run'.result \in {"ok", "done"}
      BY <3>2 DEF EndsWith, Stops
    <3>4. run.active \in Fixture => completed = fixture.sequence
      BY <3>1 DEF FixtureRuns
    <3>5. completed = fixture.sequence => ran = fixture.sequence
      BY <2>0 DEF Typed, Counted
    <3> QED BY <3>3, <3>4, <3>5
  <2>4. CASE UNCHANGED vars \/ PublishFixture \/ Core0 \/ HoldElapses \/ GoesQuiet
    BY <2>4, OthersStopNothing
  <2> QED BY <2>1, <2>2, <2>3, <2>4 DEF Next, Core1
<1> QED BY <1>1, TestsInvariant, PTL DEF ResultsAreOwn

(* The staircase moves the actuator to a setpoint only after the announcement   *)
(* of that setpoint was printed, or after it had waited for 50 ms.              *)
THEOREM MovesAreAnnounced == Init /\ [][Next]_vars => MoveIsAnnounced
<1> DEFINE Moves == run'.active = "top" /\ run.active = "top" /\ run'.demand # run.demand
           Told == shown.value = run'.demand \/ run.holding = "long"
<1>1. TInv /\ [Next]_vars => [Moves => Told]_vars
  <2> SUFFICES ASSUME TInv, [Next]_vars, Moves PROVE Told
    OBVIOUS
  <2>0. Typed /\ Announced /\ Sound(run) /\ run \in RunType
    BY DEF TInv, Typed, Sound
  <2>1. CASE TakeRequest
    BY <2>0, <2>1, ObeyObeys DEF TakeRequest, At1, Typed, TopStays
  <2>2. CASE TakeLine
    BY <2>0, <2>2, ObeyObeys DEF TakeLine, At1, Typed, TopStays
  <2>3. ASSUME NEW engineRuns \in BOOLEAN, Supervise(engineRuns) PROVE Told
    <3>1. run.publish = <<>>
      BY <2>3 DEF Supervise, At1
    <3>2. run' # run
      OBVIOUS
    <3>3. run' = StopAll(run, Reason(engineRuns)) /\ Reason(engineRuns) # "none"
      BY <2>3, <3>2 DEF Supervise
    <3>4. Reason(engineRuns) \in {"session_end", "host_lost", "engine_running"}
      BY <3>3 DEF Reason
    <3>5. run'.active = None
      BY <2>0, <3>1, <3>3, <3>4, StopAllEnds
    <3> QED BY <3>5 DEF None
  <2>4. CASE Step
    <3>1. run.publish = <<>> /\ StepTest
      BY <2>4 DEF Step, At1, FixtureRuns, Fixture, None
    <3>2. StepTop
      BY <3>1 DEF StepTest, Fixture
    <3>3. /\ run.demand = run.applied /\ run.event.value = Setpoints[run.step]
          /\ run.step \in DOMAIN Setpoints
          /\ run.event \in [sequence : Nat, value : Demand]
      BY <2>0 DEF Sound, Place, Drives, RunType
    <3>4. CASE run' = Drive(run, Setpoints[run.step])
      <4>1. run'.demand = Setpoints[run.step] /\ (~EventPending(run) \/ run.holding = "long")
        BY <2>0, <3>3, <3>4, DriveIs, StepsAreDemands
      <4>2. ~EventPending(run) => shown = run.event
        BY <2>0, <3>3 DEF EventPending, Typed, Announced
      <4> QED BY <3>3, <4>1, <4>2
    <3>5. CASE /\ run.step < Len(Setpoints)
               /\ run' = Drive(Announce(run, run.step + 1), Setpoints[run.step + 1])
      <4> DEFINE i == run.step + 1
                 s == Announce(run, i)
      <4>1. i \in DOMAIN Setpoints
        BY <3>3, <3>5, FirstStep
      <4> HIDE DEF i
      <4>2. /\ s \in RunType
            /\ s.event.sequence = run.event.sequence + 1
            /\ \A f \in DOMAIN run \ {"step", "event"} : s[f] = run[f]
        BY <2>0, <4>1, AnnounceIs
      <4>3. s.applied = run.applied /\ s.holding = run.holding
        BY <2>0, <4>2 DEF RunType
      <4>4. run' = Drive(s, Setpoints[i])
        BY <3>5 DEF i
      <4> HIDE DEF s
      <4>5. \/ run'.demand = s.applied
            \/ ~EventPending(s) \/ s.holding = "long"
        BY <4>1, <4>2, <4>4, DriveIs, StepsAreDemands
      <4>6. printed < s.event.sequence
        <5>1. printed \in Nat /\ shown.sequence \in Nat /\ run.event.sequence \in Nat
          BY <2>0, <3>3 DEF Typed
        <5> QED BY <2>0, <4>2, <5>1 DEF Announced
      <4>7. EventPending(s)
        <5>1. printed \in Nat
          BY <2>0 DEF Typed
        <5> QED BY <4>6, <5>1 DEF EventPending
      <4> QED BY <3>3, <4>3, <4>5, <4>7
    <3>6. CASE run' = Finish(Drive(run, 0), "done")
      <4>1. Ends(run, run', "done")
        BY <2>0, <3>1, <3>6, DoneAtZero DEF None
      <4> QED BY <4>1 DEF Ends, None
    <3> QED BY <3>2, <3>4, <3>5, <3>6 DEF StepTop
  <2>5. CASE UNCHANGED vars \/ PublishFixture \/ Core0 \/ HoldElapses \/ GoesQuiet
    BY <2>5, OthersStopNothing
  <2> QED BY <2>1, <2>2, <2>3, <2>4, <2>5 DEF Next, Core1
<1> QED BY <1>1, TestsInvariant, PTL DEF MoveIsAnnounced
================================================================================
