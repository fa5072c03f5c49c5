-------------------------- MODULE FeedbackReaderProofs --------------------------
(* The feedback reader for every maximum age, number of attempts and width of   *)
(* the Adjustometer's clock.                                                    *)
EXTENDS FeedbackReader, TLAPS

(* When a frame was published.                                                  *)
Published(f) == f.at + f.ageUs

(* Newer windows are seen later, and no frame is older than what it carries.    *)
Ordered ==
  /\ window.at <= now
  /\ frame.published => frame.at <= window.at /\ Published(frame) <= now
  /\ fetched.published =>
       /\ fetched.at <= window.at /\ Published(fetched) <= now
       /\ frame.published => fetched.at <= frame.at
  /\ pc = "decide" => fetched.published

(* Reads follow each other, and a frame that was not the one fetched has been   *)
(* published after the read began.                                              *)
Reads ==
  /\ startedUs <= now /\ last.startedUs <= now
  /\ pc # "idle" => last.startedUs <= startedUs
  /\ seenBefore <= firstSeen /\ firstSeen <= now
  /\ frame.published /\ frame.number # last.number => Published(frame) >= last.startedUs
  /\ pc = "decide" =>
       /\ fetched.number # last.number => Published(fetched) >= last.startedUs
       /\ frame.published => frame = fetched \/ Published(frame) >= startedUs
  /\ ~sampleTracked => last.startedUs = 0

(* The budget of the window read last was opened by its first read, and no      *)
(* window to come is older than that one by more than nobody looked.            *)
Budget ==
  sampleTracked =>
    LET gap == firstSeen - seenBefore
    IN /\ sampleAgeOriginUs <= firstSeen
       /\ sampleAgeOriginUs - window.at <= gap
       /\ frame.published => sampleAgeOriginUs - frame.at <= gap
       /\ pc = "decide" => sampleAgeOriginUs - fetched.at <= gap

(* A stamp is what the clock showed, of the run of the Adjustometer it is from. *)
Stamps ==
  /\ frame.published => frame.boot = boots /\ frame.measuredUs = Clock(frame.at)
  /\ fetched.published => fetched.boot <= boots
  /\ fetched.published /\ fetched.boot = boots => fetched.measuredUs = Clock(fetched.at)
  /\ sampleTracked => last.boot <= boots
  /\ ~sampleTracked => last.boot = 0
  /\ sampleTracked /\ last.boot = boots =>
       \E t \in Time :
         /\ last.measuredUs = Clock(t) /\ t <= window.at
         /\ frame.published => t <= frame.at
  /\ sampleTracked /\ pc = "decide" /\ fetched.boot = last.boot => ~ClockBackwards

IInv == FrozenFeedbackExpires /\ AgeIsRight /\ Ordered /\ Reads /\ Budget /\ Stamps

--------------------------------------------------------------------------------
LEMMA ModRange ==
  ASSUME NEW n \in Int PROVE n % Width \in 0 .. Width - 1
  BY ReaderAssumption

(* Two instants of one run of the clock are as far apart as their stamps, also  *)
(* when it wraps between them.                                                  *)
LEMMA StampsApart ==
  ASSUME NEW p \in 0 .. Width - 1, NEW s \in Time, NEW t \in Time, s <= t
  PROVE  2 * ((((p + t) % Width) - ((p + s) % Width)) % Width) < Width
  BY ReaderAssumption DEF Time

--------------------------------------------------------------------------------
LEMMA TypeInit == Init => TypeOK
<1> SUFFICES ASSUME Init PROVE TypeOK
  OBVIOUS
<1>1. 0 \in Time /\ 0 \in Number /\ 1 \in Number /\ 0 \in 0 .. Width - 1
      /\ 0 \in 0 .. Attempts /\ 0 \in 0 .. 1 /\ 0 \in -Horizon .. Horizon
      /\ phase \in 0 .. Width - 1
  BY ReaderAssumption DEF Number, Time, Init
<1>2. window \in [number : Number, at : Time]
  <2>1. PICK n \in 0 .. 1 : window = [number |-> n, at |-> 0]
    BY DEF Init
  <2>2. n \in Number
    BY <1>1
  <2> QED
    BY <1>1, <2>1, <2>2
<1>3. last \in [number : Number, measuredUs : 0 .. Width - 1, boot : 0 .. 1, startedUs : Time]
  BY <1>1 DEF Init
<1> QED
  BY <1>1, <1>2, <1>3 DEF Init, TypeOK

LEMMA TypeStep ==
  ASSUME TypeOK, Ordered, [Next]_vars PROVE TypeOK'
<1> USE DEF TypeOK
<1>1. CASE Measure
  <2>1. window' \in [number : Number, at : Time]
    BY <1>1, ReaderAssumption DEF Measure, Number
  <2> QED
    BY <1>1, <2>1 DEF Measure, reader, tracking
<1>2. CASE Publish
  <2>1. window.at \in Time /\ window.number \in Number
    OBVIOUS
  <2>2. AgeUs \in Time
    BY <1>2, <2>1, ReaderAssumption DEF Publish, AgeUs, Time, Ordered
  <2>3. Clock(window.at) \in 0 .. Width - 1
    <3>1. phase + window.at \in Int
      BY <2>1, ReaderAssumption DEF Time
    <3> QED
      BY <3>1, ModRange DEF Clock
  <2>4. frame' \in Frame
    BY <1>2, <2>1, <2>2, <2>3 DEF Publish, Frame
  <2> QED
    BY <1>2, <2>4 DEF Publish, reader, tracking
<1>3. CASE Restart
  <2>1. -now \in Int /\ 0 \in Number
    BY ReaderAssumption DEF Time, Number
  <2>2. phase' \in 0 .. Width - 1
    BY <1>3, <2>1, ModRange DEF Restart
  <2>3. window' \in [number : Number, at : Time]
    BY <1>3, <2>1 DEF Restart
  <2>4. boots' \in 0 .. 1 /\ frame' \in Frame \cup {None}
    BY <1>3 DEF Restart
  <2> QED
    BY <1>3, <2>2, <2>3, <2>4 DEF Restart, reader, tracking
<1>4. CASE Begin
  BY <1>4 DEF Begin, adjustometer, tracking
<1>5. CASE Transfer
  <2>1. 0 \in Time /\ 0 \in 0 .. Attempts
    BY ReaderAssumption DEF Time
  <2>2. attempt + 1 < Attempts => attempt + 1 \in 0 .. Attempts
    BY ReaderAssumption
  <2>3. fetched' \in Frame \cup {None} /\ startedUs' \in Time /\ attempt' \in 0 .. Attempts
        /\ pc' \in {"idle", "transfer", "decide"}
    BY <1>5, <2>1, <2>2 DEF Transfer, Fail
  <2> QED
    BY <1>5, <2>3 DEF Transfer, adjustometer, tracking
<1>6. CASE Decide
  <2>1. fetched \in Frame
    BY <1>6 DEF Decide, Ordered, None
  <2>2. /\ fetched.number \in Number /\ fetched.at \in Time /\ fetched.boot \in 0 .. 1
        /\ fetched.measuredUs \in 0 .. Width - 1 /\ fetched.ageUs \in Time
    BY <2>1 DEF Frame
  <2>3. ChargedOrigin \in -Horizon .. Horizon
    BY <2>2, ReaderAssumption DEF ChargedOrigin, Time
  <2>4. last' \in [number : Number, measuredUs : 0 .. Width - 1, boot : 0 .. 1,
                   startedUs : Time]
    BY <1>6, <2>2 DEF Decide
  <2>5. FeedbackFresh \in BOOLEAN /\ Advanced \in BOOLEAN
    BY DEF FeedbackFresh, Advanced
  <2>6. reading' \in [commOk : {TRUE}, fresh : BOOLEAN, at : Time, readAt : Time,
                      startedAt : Time, new : BOOLEAN]
    BY <1>6, <2>2, <2>5 DEF Decide
  <2>7. firstSeen' \in Time /\ seenBefore' \in Time
    BY <1>6 DEF Decide
  <2>8. 0 \in Time /\ 0 \in 0 .. Attempts
    BY ReaderAssumption DEF Time
  <2> QED
    BY <1>6, <2>3, <2>4, <2>6, <2>7, <2>8 DEF Decide, adjustometer
<1>7. CASE Tick
  <2>1. now' \in Time
    BY <1>7, ReaderAssumption DEF Tick, Time
  <2> QED
    BY <1>7, <2>1 DEF Tick, adjustometer, reader, tracking
<1>8. CASE UNCHANGED vars
  BY <1>8 DEF vars, adjustometer, reader, tracking
<1> QED
  BY <1>1, <1>2, <1>3, <1>4, <1>5, <1>6, <1>7, <1>8 DEF Next
LEMMA Typed ==
  ASSUME TypeOK
  PROVE  /\ now \in Int /\ now >= 0 /\ startedUs \in Int /\ last.startedUs \in Int
         /\ window.at \in Int /\ firstSeen \in Int /\ seenBefore \in Int
         /\ sampleAgeOriginUs \in Int
         /\ \A f \in {frame, fetched} : f.published =>
              f.at \in Int /\ f.ageUs \in Int /\ f.ageUs >= 0 /\ f.at >= 0
<1>1. Time \subseteq Int /\ \A t \in Time : t >= 0
  BY ReaderAssumption DEF Time
<1>2. -Horizon .. Horizon \subseteq Int
  BY ReaderAssumption
<1>3. \A f \in Frame \cup {None} : f.published => f.at \in Time /\ f.ageUs \in Time
  <2>1. \A f \in Frame : f.at \in Time /\ f.ageUs \in Time
    BY DEF Frame
  <2>2. ~None.published
    BY DEF None
  <2> QED
    BY <2>1, <2>2
<1>4. /\ now \in Time /\ startedUs \in Time /\ last.startedUs \in Time
      /\ window.at \in Time /\ firstSeen \in Time /\ seenBefore \in Time
      /\ sampleAgeOriginUs \in -Horizon .. Horizon
      /\ frame \in Frame \cup {None} /\ fetched \in Frame \cup {None}
  BY DEF TypeOK
<1> QED
  BY <1>1, <1>2, <1>3, <1>4

LEMMA OrderedStep ==
  ASSUME IInv, [Next]_vars PROVE Ordered'
<1> USE Typed DEF IInv, FrozenFeedbackExpires, Ordered, Published
<1>1. CASE Measure
  BY <1>1 DEF Measure, reader, tracking
<1>2. CASE Publish
  BY <1>2 DEF Publish, AgeUs, reader, tracking
<1>3. CASE Restart
  BY <1>3 DEF Restart, None, reader, tracking
<1>4. CASE Begin
  BY <1>4 DEF Begin, adjustometer, tracking
<1>5. CASE Transfer
  BY <1>5 DEF Transfer, Fail, adjustometer, tracking
<1>6. CASE Decide
  BY <1>6 DEF Decide, adjustometer, None
<1>7. CASE Tick
  BY <1>7 DEF Tick, adjustometer, reader, tracking
<1>8. CASE UNCHANGED vars
  BY <1>8 DEF vars, adjustometer, reader, tracking
<1> QED
  BY <1>1, <1>2, <1>3, <1>4, <1>5, <1>6, <1>7, <1>8 DEF Next

LEMMA ReadsStep ==
  ASSUME IInv, [Next]_vars PROVE Reads'
<1> USE Typed DEF IInv, FrozenFeedbackExpires, Ordered, Reads, Published
<1>1. CASE Measure
  BY <1>1 DEF Measure, reader, tracking
<1>2. CASE Publish
  BY <1>2 DEF Publish, AgeUs, reader, tracking
<1>3. CASE Restart
  BY <1>3 DEF Restart, None, reader, tracking
<1>4. CASE Begin
  BY <1>4 DEF Begin, adjustometer, tracking
<1>5. CASE Transfer
  BY <1>5 DEF Transfer, Fail, adjustometer, tracking
<1>6. CASE Decide
  BY <1>6 DEF Decide, adjustometer, None, Advanced
<1>7. CASE Tick
  BY <1>7 DEF Tick, adjustometer, reader, tracking
<1>8. CASE UNCHANGED vars
  BY <1>8 DEF vars, adjustometer, reader, tracking
<1> QED
  BY <1>1, <1>2, <1>3, <1>4, <1>5, <1>6, <1>7, <1>8 DEF Next

LEMMA BudgetStep ==
  ASSUME IInv, [Next]_vars PROVE Budget'
<1> USE Typed DEF IInv, FrozenFeedbackExpires, Ordered, Reads, Budget, Published
<1>1. CASE Measure
  BY <1>1 DEF Measure, reader, tracking
<1>2. CASE Publish
  BY <1>2 DEF Publish, AgeUs, reader, tracking
<1>3. CASE Restart
  BY <1>3 DEF Restart, None, reader, tracking
<1>4. CASE Begin
  BY <1>4 DEF Begin, adjustometer, tracking
<1>5. CASE Transfer
  BY <1>5 DEF Transfer, Fail, adjustometer, tracking
<1>6. CASE Decide
  <2>1. CASE Advanced
    BY <1>6, <2>1 DEF Decide, adjustometer, None, Advanced, ChargedOrigin
  <2>2. CASE ~Advanced
    BY <1>6, <2>2 DEF Decide, adjustometer, None, Advanced, ChargedOrigin, Elapsed
  <2> QED
    BY <2>1, <2>2
<1>7. CASE Tick
  BY <1>7 DEF Tick, adjustometer, reader, tracking
<1>8. CASE UNCHANGED vars
  BY <1>8 DEF vars, adjustometer, reader, tracking
<1> QED
  BY <1>1, <1>2, <1>3, <1>4, <1>5, <1>6, <1>7, <1>8 DEF Next
LEMMA StampsStep ==
  ASSUME IInv, [Next]_vars PROVE Stamps'
<1> USE DEF IInv, FrozenFeedbackExpires, Stamps
<1>1. CASE Measure
  <2>1. window'.at = now /\ window.at <= now /\ now \in Int /\ window.at \in Int
    BY <1>1, Typed DEF Measure, Ordered
  <2>2. UNCHANGED <<phase, boots, frame, reader>> /\ Time \subseteq Int
    BY <1>1, ReaderAssumption DEF Measure, Time
  <2>3. \A t \in Time : t <= window.at => t <= window'.at
    BY <2>1, <2>2
  <2> QED
    BY <2>2, <2>3 DEF reader, tracking, Clock, ClockBackwards
<1>2. CASE Publish
  BY <1>2, Typed DEF Publish, reader, tracking, Clock, ClockBackwards, Ordered
<1>3. CASE Restart
  <2>1. boots = 0 /\ boots' = 1 /\ ~frame'.published /\ UNCHANGED reader
    BY <1>3 DEF Restart, None
  <2>2. /\ fetched.published => fetched.boot <= 1 /\ fetched.boot # 1
        /\ sampleTracked => last.boot <= 1 /\ last.boot # 1
    <3>1. fetched.published => fetched.boot \in 0 .. 1
      <4>1. \A f \in Frame : f.boot \in 0 .. 1
        BY DEF Frame
      <4> QED
        BY <4>1 DEF TypeOK, None
    <3>2. last.boot \in 0 .. 1
      BY DEF TypeOK
    <3> QED
      BY <2>1, <3>1, <3>2
  <2> QED
    BY <2>1, <2>2 DEF reader, tracking, ClockBackwards
<1>4. CASE Begin
  BY <1>4 DEF Begin, adjustometer, tracking, Clock, ClockBackwards
<1>5. CASE Transfer
  <2>1. CASE fetched' = frame /\ frame.published /\ UNCHANGED <<boots, phase, frame, window, tracking>>
    <3>1. ASSUME sampleTracked, frame.boot = last.boot
          PROVE  ~ClockBackwards'
      <4>1. PICK t \in Time : last.measuredUs = Clock(t) /\ t <= frame.at
        BY <2>1, <3>1
      <4>2. frame.at \in Time /\ phase \in 0 .. Width - 1
        <5>1. \A f \in Frame : f.at \in Time
          BY DEF Frame
        <5> QED
          BY <2>1, <5>1 DEF TypeOK, None
      <4>3. 2 * ((frame.measuredUs - last.measuredUs) % Width) < Width
        BY <2>1, <4>1, <4>2, StampsApart DEF Clock
      <4>4. frame.measuredUs \in Int /\ last.measuredUs \in Int
        BY <2>1, <4>1, <4>2, ReaderAssumption DEF Clock, Time
      <4>5. (frame.measuredUs - last.measuredUs) % Width \in Int /\ Width \in Int
        BY <4>4, ModRange, ReaderAssumption
      <4> QED
        BY <2>1, <4>3, <4>5 DEF ClockBackwards, tracking
    <3> QED
      BY <2>1, <3>1 DEF tracking, Clock, TypeOK
  <2>2. CASE UNCHANGED <<fetched, boots, phase, frame, window, tracking>> /\ pc' # "decide"
    BY <2>2 DEF tracking, Clock
  <2> QED
    BY <1>5, <2>1, <2>2 DEF Transfer, Fail, adjustometer
<1>6. CASE Decide
  <2>1. fetched.published /\ fetched \in Frame
    BY <1>6 DEF Decide, Ordered, TypeOK, None
  <2>2. fetched.at \in Time
    BY <2>1 DEF Frame
  <2> QED
    BY <1>6, <2>1, <2>2 DEF Decide, adjustometer, None, Clock, Ordered
<1>7. CASE Tick
  BY <1>7 DEF Tick, adjustometer, reader, tracking, Clock, ClockBackwards
<1>8. CASE UNCHANGED vars
  BY <1>8 DEF vars, adjustometer, reader, tracking, Clock, ClockBackwards
<1> QED
  BY <1>1, <1>2, <1>3, <1>4, <1>5, <1>6, <1>7, <1>8 DEF Next

--------------------------------------------------------------------------------
(* The decision is the only step that makes a reading.                          *)
LEMMA ReadingKept ==
  ASSUME [Next]_vars, ~Decide
  PROVE  UNCHANGED <<firstSeen, seenBefore>> /\ reading' \in {reading, NoReading}
  BY DEF Next, Measure, Publish, Restart, Begin, Transfer, Tick, vars, adjustometer,
         reader, tracking

LEMMA DecideIsRight ==
  ASSUME IInv, Decide
  PROVE  /\ reading'.fresh => reading'.readAt - firstSeen' < MaxAge
         /\ reading'.fresh =>
              reading'.readAt - reading'.at < MaxAge + (firstSeen' - seenBefore')
         /\ (reading'.commOk /\ reading'.new /\ ~reading'.fresh) =>
              (reading'.readAt - reading'.at) + (reading'.readAt - reading'.startedAt) >= MaxAge
<1> USE Typed, ReaderAssumption DEF IInv, FrozenFeedbackExpires, Ordered
<1>1. /\ fetched.published /\ pc = "decide"
      /\ reading'.fresh = FeedbackFresh /\ reading'.at = fetched.at
      /\ reading'.startedAt = startedUs /\ reading'.readAt = now
      /\ reading'.new = (Advanced /\ fetched.boot = last.boot)
  BY DEF Decide
<1>2. ASSUME FeedbackFresh
      PROVE  now - firstSeen' < MaxAge /\ now - fetched.at < MaxAge + (firstSeen' - seenBefore')
  <2>1. now - ChargedOrigin < MaxAge
    BY <1>1, <1>2 DEF FeedbackFresh, Elapsed, ChargedOrigin
  <2>2. CASE Advanced
    BY <1>1, <2>1, <2>2 DEF Decide, Advanced, ChargedOrigin, Reads, Published
  <2>3. CASE ~Advanced
    BY <1>1, <2>1, <2>3 DEF Decide, Advanced, ChargedOrigin, Elapsed, Budget
  <2> QED
    BY <2>2, <2>3
<1>3. ASSUME Advanced, fetched.boot = last.boot, ~FeedbackFresh
      PROVE  (now - fetched.at) + (now - startedUs) >= MaxAge
  <2>1. ~ClockBackwards
    BY <1>1, <1>3 DEF Stamps, ClockBackwards
  <2>2. fetched.ageUs > MaxAge \/ now - (startedUs - fetched.ageUs) >= MaxAge
    BY <1>1, <1>3, <2>1 DEF FeedbackFresh, ChargedOrigin, Elapsed
  <2> QED
    BY <1>1, <2>2 DEF Published, Reads
<1> QED
  BY <1>1, <1>2, <1>3

LEMMA InitIInv == Init => IInv
<1> SUFFICES ASSUME Init PROVE IInv
  OBVIOUS
<1>1. window.at = 0
  BY DEF Init
<1> QED
  BY <1>1, TypeInit DEF Init, IInv, FrozenFeedbackExpires, AgeIsRight, Ordered, Reads,
     Budget, Stamps, None, NoReading

LEMMA NextKeeps == ASSUME IInv, [Next]_vars PROVE IInv'
<1>1. TypeOK'
  BY TypeStep DEF IInv, FrozenFeedbackExpires
<1>2. FrozenFeedbackExpires' /\ AgeIsRight'
  <2>1. CASE Decide
    BY <1>1, <2>1, DecideIsRight DEF FrozenFeedbackExpires, AgeIsRight
  <2>2. CASE ~Decide
    <3>1. CASE reading' = reading
      BY <1>1, <2>2, <3>1, ReadingKept DEF IInv, FrozenFeedbackExpires, AgeIsRight
    <3>2. CASE reading' = NoReading
      BY <1>1, <3>2 DEF FrozenFeedbackExpires, AgeIsRight, NoReading
    <3> QED
      BY <2>2, <3>1, <3>2, ReadingKept
  <2> QED
    BY <2>1, <2>2
<1> QED
  BY <1>2, OrderedStep, ReadsStep, BudgetStep, StampsStep DEF IInv

(* The invariant of the reader and the Adjustometer it reads.                   *)
THEOREM Invariant == Spec => []IInv
  BY InitIInv, NextKeeps, PTL DEF Spec

(* VP37_readAdjustometer: a window that is published again and again is fresh   *)
(* for less than the maximum age after its first read.                          *)
THEOREM FrozenExpires == Spec => []FrozenFeedbackExpires
<1>1. IInv => FrozenFeedbackExpires
  BY DEF IInv
<1> QED
  BY <1>1, Invariant, PTL

(* VP37_readAdjustometer: a fresh reading is as young as the time nobody looked *)
(* allows, and a new young window is not refused.                               *)
THEOREM AgesAreRight == Spec => []AgeIsRight
<1>1. IInv => AgeIsRight
  BY DEF IInv
<1> QED
  BY <1>1, Invariant, PTL
================================================================================
