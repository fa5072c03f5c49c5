--------------------------- MODULE AdjustometerProofs ---------------------------
(* Proofs about the Adjustometer: what core 0 makes of the captured blocks, and *)
(* what core 1 copies of it, for any frequencies, intervals and number of       *)
(* windows that the constants of the code allow.                                *)
EXTENDS MCAdjustometer, TLAPS

(* What the measurement rests on: the blocks of the window being filled follow  *)
(* each other, and with a final baseline every block ends a window.             *)
Whole ==
  /\ captureFilled <= unbroken
  /\ captureHealthy => unbroken = Blocks
  /\ baselineReady /\ captureHealthy => captureFilled = Blocks /\ windowAge <= edgeAge

(* A verification lasts as long as nothing disturbed it, near its candidate.    *)
Near ==
  verifying /\ ~baselineReady =>
    verifyAge <= calmAge /\ Abs(estimate - baseline) <= VerifyDrift

(* The candidate for a release is a run of windows on its side.                 *)
Runs ==
  /\ ~baselineReady => candidateSign = 0
  /\ candidateSign = 0 => candidateWindows = 0
  /\ zeroHold /\ candidateSign = 1 => candidateWindows <= signRun
  /\ zeroHold /\ candidateSign = -1 => candidateWindows <= -signRun

MeasureInv == TypeOK /\ Whole /\ Near /\ Runs

LEMMA Settings ==
  /\ \A f \in Hz : f \in Nat
  /\ Track \in Nat \ {0} /\ Tolerance \in Nat /\ LockWindows \in Nat
  /\ MinTime \in Nat /\ MaxTime \in Nat
  /\ VerifyTime \in Nat /\ VerifyDrift \in Nat
  /\ ZeroEnter \in Nat /\ ZeroExit \in Nat /\ ZeroEnter < ZeroExit
  /\ ReleaseWindows \in Nat \ {0} /\ Loss \in Nat
BY AdjustometerAssumption

LEMMA CappedAge ==
  ASSUME NEW n \in Nat, NEW most \in Nat
  PROVE  /\ Capped(n, most) \in 0 .. most
         /\ Capped(n, most) = IF n > most THEN most ELSE n
BY DEF Capped

(* Equal numbers are no distance apart.                                         *)
LEMMA NoDistance ==
  ASSUME NEW n \in Int, NEW m \in Int, m = n
  PROVE  Abs(n - m) = 0
BY DEF Abs

(* A quotient lies between zero and the number that is divided.                 *)
LEMMA QuotientBetween ==
  ASSUME NEW n \in Int, NEW d \in Nat \ {0}
  PROVE  /\ n \div d \in Int
         /\ n >= 0 => 0 <= n \div d /\ n \div d <= n
         /\ n <= 0 => n <= n \div d /\ n \div d <= 0
<1> DEFINE q == n \div d
           m == n % d
<1>1. q \in Int /\ m \in 0 .. d - 1 /\ n = d * q + m
  OBVIOUS
<1> HIDE DEF q, m
<1>2. q < 0 => d * q <= -d /\ d * q <= q
  BY <1>1
<1>3. q >= 0 => d * q >= q
  BY <1>1
<1>4. q >= 1 => d * q >= d
  BY <1>1
<1>5. n >= 0 => 0 <= q /\ q <= n
  BY <1>1, <1>2, <1>3
<1>6. n <= 0 => n <= q /\ q <= 0
  <2>1. n <= 0 => q <= 0
    BY <1>1, <1>4
  <2>2. CASE q = 0
    BY <2>2
  <2>3. CASE q < 0
    <3>1. PICK k \in Nat : q = -1 - k
      <4>1. -1 - q \in Nat /\ q = -1 - (-1 - q)
        BY <1>1, <2>3
      <4> QED BY <4>1
    <3>2. PICK j \in Nat : d = j + 1
      <4>1. d - 1 \in Nat /\ d = (d - 1) + 1
        OBVIOUS
      <4> QED BY <4>1
    <3>3. d * q = q + j * q
      BY <1>1, <3>2
    <3>4. j * q = -j - j * k /\ j * k \in Nat
      BY <3>1, <3>2
    <3>5. n = q - j - j * k + m
      BY <1>1, <3>3, <3>4
    <3> QED BY <1>1, <2>3, <3>2, <3>4, <3>5
  <2> QED BY <1>1, <2>1, <2>2, <2>3
<1> QED BY <1>1, <1>5, <1>6 DEF q

(* The estimate moves towards the frequency and not beyond it.                  *)
LEMMA Tracking ==
  ASSUME NEW f \in Nat, estimate \in Nat
  PROVE  /\ TrackedEstimate(f) \in Nat
         /\ \A b, d \in Nat : Abs(f - b) <= d /\ Abs(estimate - b) <= d =>
              Abs(TrackedEstimate(f) - b) <= d
<1> DEFINE q == (f - estimate) \div Track
<1>1. /\ q \in Int
      /\ f - estimate >= 0 => 0 <= q /\ q <= f - estimate
      /\ f - estimate <= 0 => f - estimate <= q /\ q <= 0
  <2>1. f - estimate \in Int
    OBVIOUS
  <2> QED BY <2>1, Settings, QuotientBetween
<1>2. TrackedEstimate(f) = estimate + q
  BY DEF TrackedEstimate
<1> HIDE DEF q
<1>3. TrackedEstimate(f) \in Nat
  BY <1>1, <1>2
<1>4. ASSUME NEW b \in Nat, NEW d \in Nat, Abs(f - b) <= d, Abs(estimate - b) <= d
      PROVE  Abs(TrackedEstimate(f) - b) <= d
  BY <1>1, <1>2, <1>4 DEF Abs
<1> QED BY <1>3, <1>4

LEMMA MeasureInitially == Init => MeasureInv
<1> SUFFICES ASSUME Init PROVE MeasureInv
  OBVIOUS
<1>1. /\ captureFilled = 0 /\ edgeAge = 0 /\ windowAge = 0 /\ unbroken = 0
      /\ filtered = 0 /\ pulse = 0 /\ estimate = 0 /\ baseline = 0 /\ startAge = 0
      /\ stableWindows = 0 /\ verifyAge = 0 /\ calmAge = 0
      /\ candidateSign = 0 /\ candidateWindows = 0 /\ signRun = 0
  BY DEF Init
<1>2. /\ captureStarted \in BOOLEAN /\ retryDue \in BOOLEAN /\ captureHealthy \in BOOLEAN
      /\ started \in BOOLEAN /\ verifying \in BOOLEAN /\ baselineReady \in BOOLEAN
      /\ zeroHold \in BOOLEAN
  BY DEF Init
<1>3. /\ 0 \in 0 .. Blocks /\ 0 \in 0 .. Loss + 1 /\ 0 \in 0 .. MaxTime
      /\ 0 \in 0 .. LockWindows /\ 0 \in 0 .. VerifyTime /\ 0 \in -1 .. 1
      /\ 0 \in 0 .. ReleaseWindows - 1 /\ 0 \in -ReleaseWindows .. ReleaseWindows
  BY Settings DEF Blocks
<1>4. TypeOK
  BY <1>1, <1>2, <1>3 DEF TypeOK
<1>5. Whole /\ Near /\ Runs
  BY DEF Init, Whole, Near, Runs, Blocks
<1> QED BY <1>4, <1>5 DEF MeasureInv

--------------------------------------------------------------------------------
(* The zero hold                                                                *)

LEMMA Signs ==
  ASSUME NEW n \in Int, Abs(n) >= ZeroExit
  PROVE  /\ Sign(n) \in {-1, 1} /\ n # 0
         /\ Sign(n) = 1 => n > 0
         /\ Sign(n) = -1 => n < 0
<1>1. ZeroExit > 0 /\ ZeroExit \in Nat
  BY Settings
<1> QED BY <1>1 DEF Abs, Sign

LEMMA SignRuns ==
  ASSUME TypeOK, NEW n \in Int
  PROVE  /\ SignRun(n) \in -ReleaseWindows .. ReleaseWindows
         /\ Abs(n) >= ZeroExit /\ Sign(n) = 1 =>
              SignRun(n) = IF signRun <= 0 THEN 1
                           ELSE IF signRun < ReleaseWindows THEN signRun + 1
                           ELSE ReleaseWindows
         /\ Abs(n) >= ZeroExit /\ Sign(n) = -1 =>
              SignRun(n) = IF signRun >= 0 THEN -1
                           ELSE IF -signRun < ReleaseWindows THEN signRun - 1
                           ELSE -ReleaseWindows
<1>1. signRun \in -ReleaseWindows .. ReleaseWindows /\ ReleaseWindows \in Nat \ {0}
  BY Settings DEF TypeOK
<1>2. CASE Abs(n) < ZeroExit
  <2>1. SignRun(n) = 0 /\ ~(Abs(n) >= ZeroExit)
    BY <1>2, Settings DEF SignRun, Abs
  <2> QED BY <1>1, <2>1
<1>3. CASE Abs(n) >= ZeroExit
  <2>1. SignRun(n) = Sign(n) * Capped(IF Sign(n) * signRun > 0 THEN Abs(signRun) + 1 ELSE 1,
                                      ReleaseWindows)
    BY <1>3, Settings DEF SignRun, Abs
  <2>2. CASE Sign(n) = 1
    <3>1. Sign(n) * signRun = signRun
      BY <1>1, <2>2
    <3>2. SignRun(n) = 1 * Capped(IF signRun > 0 THEN Abs(signRun) + 1 ELSE 1, ReleaseWindows)
      BY <2>1, <2>2, <3>1
    <3> QED BY <1>1, <2>2, <3>2 DEF Capped, Abs
  <2>3. CASE Sign(n) = -1
    <3>1. Sign(n) * signRun = -signRun
      BY <1>1, <2>3
    <3>2. SignRun(n) =
            (-1) * Capped(IF -signRun > 0 THEN Abs(signRun) + 1 ELSE 1, ReleaseWindows)
      BY <2>1, <2>3, <3>1
    <3> QED BY <1>1, <2>3, <3>2 DEF Capped, Abs
  <2> QED BY <1>3, <2>2, <2>3, Signs
<1>4. Abs(n) < ZeroExit \/ Abs(n) >= ZeroExit
  BY Settings DEF Abs
<1> QED BY <1>2, <1>3, <1>4

(* A final window: the hold, the candidate and the run of its side.             *)
LEMMA HoldKeeps ==
  ASSUME TypeOK, Runs, NEW n \in Int, HoldOrPass(n), signRun' = SignRun(n),
         baselineReady, baselineReady'
  PROVE  /\ pulse' \in Int /\ zeroHold' \in BOOLEAN /\ candidateSign' \in -1 .. 1
         /\ candidateWindows' \in 0 .. ReleaseWindows - 1
         /\ signRun' \in -ReleaseWindows .. ReleaseWindows
         /\ Runs'
         /\ zeroHold /\ ~zeroHold' => Abs(signRun') = ReleaseWindows /\ signRun' * pulse' > 0
<1>1. /\ zeroHold \in BOOLEAN /\ candidateSign \in -1 .. 1
      /\ candidateWindows \in 0 .. ReleaseWindows - 1
      /\ signRun \in -ReleaseWindows .. ReleaseWindows /\ ReleaseWindows \in Nat \ {0}
  BY Settings DEF TypeOK
<1>2. signRun' \in -ReleaseWindows .. ReleaseWindows
  BY SignRuns
<1>3. CASE zeroHold' /\ pulse' = 0 /\ ClearCandidate
  <2>1. candidateSign' = 0 /\ candidateWindows' = 0
    BY <1>3 DEF ClearCandidate
  <2>2. candidateSign' \in -1 .. 1 /\ candidateWindows' \in 0 .. ReleaseWindows - 1
        /\ pulse' \in Int
    BY <1>1, <1>3, <2>1
  <2>3. zeroHold' \in BOOLEAN
    BY <1>1, <1>3 DEF HoldOrPass
  <2>4. Runs'
    BY <2>1 DEF Runs
  <2> QED BY <1>2, <1>3, <2>2, <2>3, <2>4
<1>4. CASE zeroHold /\ Abs(n) >= ZeroExit /\ HoldOrPass(n)
  <2>1. IF Count(n) < ReleaseWindows
        THEN /\ pulse' = 0 /\ zeroHold' = zeroHold
             /\ candidateSign' = Sign(n) /\ candidateWindows' = Count(n)
        ELSE pulse' = n /\ zeroHold' = FALSE /\ candidateSign' = 0 /\ candidateWindows' = 0
    <3>1. ~(Abs(n) <= ZeroEnter) /\ ~(Abs(n) < ZeroExit)
      BY <1>4, Settings DEF Abs
    <3> QED BY <1>4, <3>1 DEF HoldOrPass, ClearCandidate
  <2>2. Sign(n) \in {-1, 1} /\ n # 0 /\ (Sign(n) = 1 => n > 0) /\ (Sign(n) = -1 => n < 0)
    BY <1>4, Signs
  <2>3. /\ Count(n) = IF Sign(n) = candidateSign THEN candidateWindows + 1 ELSE 1
        /\ Count(n) \in 1 .. ReleaseWindows
    BY <1>1 DEF Count
  <2>4. Sign(n) = 1 => signRun' >= Count(n)
    <3> SUFFICES ASSUME Sign(n) = 1 PROVE signRun' >= Count(n)
      OBVIOUS
    <3>1. signRun' = IF signRun <= 0 THEN 1
                     ELSE IF signRun < ReleaseWindows THEN signRun + 1 ELSE ReleaseWindows
      BY <1>4, SignRuns
    <3>2. candidateSign = 1 => candidateWindows <= signRun
      BY <1>4 DEF Runs
    <3> QED BY <1>1, <2>3, <3>1, <3>2
  <2>5. Sign(n) = -1 => -signRun' >= Count(n)
    <3> SUFFICES ASSUME Sign(n) = -1 PROVE -signRun' >= Count(n)
      OBVIOUS
    <3>1. signRun' = IF signRun >= 0 THEN -1
                     ELSE IF -signRun < ReleaseWindows THEN signRun - 1 ELSE -ReleaseWindows
      BY <1>4, SignRuns
    <3>2. candidateSign = -1 => candidateWindows <= -signRun
      BY <1>4 DEF Runs
    <3> QED BY <1>1, <2>3, <3>1, <3>2
  <2>6. CASE Count(n) < ReleaseWindows
    <3>1. /\ pulse' = 0 /\ zeroHold' = zeroHold
          /\ candidateSign' = Sign(n) /\ candidateWindows' = Count(n)
      BY <2>1, <2>6
    <3>2. candidateSign' \in -1 .. 1 /\ candidateWindows' \in 0 .. ReleaseWindows - 1
          /\ pulse' \in Int
      BY <1>1, <2>2, <2>3, <2>6, <3>1
    <3>3. Runs'
      BY <2>2, <2>4, <2>5, <3>1 DEF Runs
    <3> QED BY <1>1, <1>2, <3>1, <3>2, <3>3
  <2>7. CASE ~(Count(n) < ReleaseWindows)
    <3>1. /\ pulse' = n /\ zeroHold' = FALSE
          /\ candidateSign' = 0 /\ candidateWindows' = 0
      BY <2>1, <2>7
    <3>2. candidateSign' \in -1 .. 1 /\ candidateWindows' \in 0 .. ReleaseWindows - 1
      BY <1>1, <3>1
    <3>3. Runs'
      BY <3>1 DEF Runs
    <3>4. Count(n) = ReleaseWindows
      BY <1>1, <2>3, <2>7
    <3>5. Sign(n) = 1 => signRun' = ReleaseWindows /\ n > 0
      BY <1>1, <1>2, <2>2, <2>4, <3>4
    <3>6. Sign(n) = -1 => signRun' = -ReleaseWindows /\ n < 0
      BY <1>1, <1>2, <2>2, <2>5, <3>4
    <3>7. Abs(signRun') = ReleaseWindows
      BY <1>1, <2>2, <3>5, <3>6 DEF Abs
    <3>8. signRun' * n > 0
      <4>1. \A a, b \in Int : a > 0 /\ b > 0 => a * b > 0
        OBVIOUS
      <4>2. \A a, b \in Int : a < 0 /\ b < 0 => a * b > 0
        OBVIOUS
      <4>3. CASE Sign(n) = 1
        BY <1>1, <3>5, <4>1, <4>3
      <4>4. CASE Sign(n) = -1
        BY <1>1, <3>6, <4>2, <4>4
      <4> QED BY <2>2, <4>3, <4>4
    <3> QED BY <1>2, <3>1, <3>2, <3>3, <3>7, <3>8
  <2> QED BY <2>6, <2>7
<1>5. CASE ~zeroHold /\ zeroHold' = zeroHold /\ pulse' = n
           /\ UNCHANGED <<candidateSign, candidateWindows>>
  <2>1. Runs'
    BY <1>5 DEF Runs
  <2> QED BY <1>1, <1>2, <1>5, <2>1
<1>6. CASE Abs(n) <= ZeroEnter /\ pulse' = 0 /\ zeroHold' = TRUE /\ ClearCandidate
  BY <1>3, <1>6
<1>7. CASE zeroHold /\ pulse' = 0 /\ ClearCandidate /\ UNCHANGED zeroHold
  BY <1>3, <1>7
<1>8. CASE zeroHold /\ Abs(n) >= ZeroExit
  BY <1>4, <1>8
<1> QED BY <1>5, <1>6, <1>7, <1>8 DEF HoldOrPass

--------------------------------------------------------------------------------
(* A window before the baseline is final                                        *)

LockTyped ==
  /\ started \in BOOLEAN /\ startAge \in 0 .. MaxTime /\ stableWindows \in 0 .. LockWindows
  /\ estimate \in Nat /\ baseline \in Nat /\ filtered \in Nat
  /\ verifying \in BOOLEAN /\ verifyAge \in 0 .. VerifyTime
  /\ baselineReady \in BOOLEAN /\ calmAge \in 0 .. VerifyTime

LEMMA ConvergeKeeps ==
  ASSUME TypeOK, NEW f \in Nat, ~verifying, ~baselineReady, Converge(f)
  PROVE  LockTyped' /\ Near' /\ ~baselineReady'
<1>1. LockTyped
  BY DEF TypeOK, LockTyped
<1>2. /\ startAge' \in 0 .. MaxTime /\ stableWindows' \in 0 .. LockWindows
      /\ estimate' \in Nat /\ started' \in BOOLEAN
  <2>1. CASE ~started
    <3>1. started' = TRUE /\ startAge' = 0 /\ estimate' = f /\ stableWindows' = 0
      BY <2>1 DEF Converge, StartConverging
    <3>2. 0 \in 0 .. MaxTime /\ 0 \in 0 .. LockWindows
      BY Settings
    <3> QED BY <3>1, <3>2
  <2>2. CASE started
    <3>1. /\ estimate' = TrackedEstimate(f)
          /\ stableWindows' = IF Abs(f - estimate') <= Tolerance
                              THEN Capped(stableWindows + 1, LockWindows) ELSE 0
          /\ UNCHANGED <<started, startAge>>
      BY <2>2 DEF Converge
    <3>2. TrackedEstimate(f) \in Nat
      BY <1>1, Tracking DEF LockTyped
    <3>3. Capped(stableWindows + 1, LockWindows) \in 0 .. LockWindows /\ 0 \in 0 .. LockWindows
      <4>1. stableWindows + 1 \in Nat
        BY <1>1, Settings DEF LockTyped
      <4>2. LockWindows \in Nat
        BY Settings
      <4>3. Capped(stableWindows + 1, LockWindows) \in 0 .. LockWindows
        BY <4>1, <4>2, CappedAge
      <4> QED BY <4>2, <4>3
    <3> QED BY <1>1, <3>1, <3>2, <3>3 DEF LockTyped
  <2> QED BY <2>1, <2>2
<1>3. baselineReady' = baselineReady
  BY DEF Converge
<1>4. CASE Locks(startAge', stableWindows')
  <2>1. /\ baseline' = estimate' /\ filtered' = estimate'
        /\ verifying' = TRUE /\ verifyAge' = 0 /\ calmAge' = 0
    BY <1>4 DEF Converge
  <2>2. 0 \in 0 .. VerifyTime
    BY Settings
  <2>3. LockTyped'
    BY <1>1, <1>2, <1>3, <2>1, <2>2 DEF LockTyped
  <2>4. Abs(estimate' - baseline') <= VerifyDrift
    <3>1. VerifyDrift \in Nat
      BY Settings
    <3>2. /\ estimate' \in Int /\ baseline' \in Int
          /\ baseline' = estimate'
      BY <1>2, <2>1
    <3>3. Abs(estimate' - baseline') = 0
      BY <3>2, NoDistance
    <3> QED BY <3>1, <3>3
  <2> QED BY <1>3, <2>1, <2>3, <2>4 DEF Near
<1>5. CASE ~Locks(startAge', stableWindows')
  <2>1. filtered' = f /\ UNCHANGED <<baseline, verifying, verifyAge, calmAge>>
    BY <1>5 DEF Converge
  <2>2. LockTyped'
    BY <1>1, <1>2, <1>3, <2>1 DEF LockTyped
  <2> QED BY <1>3, <2>1, <2>2 DEF Near
<1> QED BY <1>4, <1>5

LEMMA VerifyKeeps ==
  ASSUME TypeOK, Near, NEW f \in Nat, verifying, ~baselineReady, Verify(f)
  PROVE  LockTyped' /\ Near' /\ (baselineReady' => calmAge >= VerifyTime)
<1>1. /\ LockTyped /\ verifyAge <= calmAge /\ Abs(estimate - baseline) <= VerifyDrift
      /\ estimate \in Nat /\ baseline \in Nat
      /\ verifyAge \in 0 .. VerifyTime /\ calmAge \in 0 .. VerifyTime
  BY DEF TypeOK, LockTyped, Near
<1>2. /\ 0 \in 0 .. MaxTime /\ 0 \in 0 .. LockWindows /\ 0 \in 0 .. VerifyTime
      /\ VerifyTime \in Nat /\ VerifyDrift \in Nat
  BY Settings
<1>3. CASE Drifts(f) /\ StartConverging(f) /\ filtered' = f /\ verifying' = FALSE
           /\ calmAge' = 0 /\ UNCHANGED <<verifyAge, baseline, baselineReady>>
  <2>1. started' = TRUE /\ startAge' = 0 /\ estimate' = f /\ stableWindows' = 0
    BY <1>3 DEF StartConverging
  <2>2. LockTyped'
    BY <1>1, <1>2, <1>3, <2>1 DEF LockTyped
  <2> QED BY <1>3, <2>2 DEF Near
<1>4. CASE /\ ~Drifts(f) /\ verifyAge >= VerifyTime
           /\ baseline' = estimate /\ filtered' = estimate /\ baselineReady' = TRUE
           /\ UNCHANGED <<started, startAge, estimate, stableWindows, verifying, verifyAge,
                          calmAge>>
  <2>1. LockTyped'
    BY <1>1, <1>4 DEF LockTyped
  <2>2. calmAge >= VerifyTime
    BY <1>1, <1>2, <1>4
  <2> QED BY <1>4, <2>1, <2>2 DEF Near
<1>5. CASE /\ ~Drifts(f) /\ verifyAge < VerifyTime
           /\ estimate' = TrackedEstimate(f) /\ filtered' = f
           /\ UNCHANGED <<started, startAge, stableWindows, verifying, verifyAge, baseline,
                          baselineReady, calmAge>>
  <2>1. TrackedEstimate(f) \in Nat
    BY <1>1, Tracking
  <2>2. LockTyped'
    BY <1>1, <1>5, <2>1 DEF LockTyped
  <2>3. Abs(f - baseline) <= VerifyDrift
    BY <1>1, <1>2, <1>5 DEF Drifts, Abs
  <2>4. Abs(estimate' - baseline) <= VerifyDrift
    BY <1>1, <1>2, <1>5, <2>3, Tracking
  <2> QED BY <1>1, <1>5, <2>2, <2>4 DEF Near
<1> QED BY <1>3, <1>4, <1>5 DEF Verify

--------------------------------------------------------------------------------
(* Any window                                                                   *)

ZeroTyped ==
  /\ pulse \in Int /\ zeroHold \in BOOLEAN /\ candidateSign \in -1 .. 1
  /\ candidateWindows \in 0 .. ReleaseWindows - 1
  /\ signRun \in -ReleaseWindows .. ReleaseWindows

(* What a step may not do: end a verification early, or the hold without a run. *)
StepIsSound ==
  /\ ~baselineReady /\ baselineReady' => calmAge >= VerifyTime
  /\ zeroHold /\ ~zeroHold' => Abs(signRun') = ReleaseWindows /\ signRun' * pulse' > 0

LEMMA WindowKeeps ==
  ASSUME TypeOK, Near, Runs, NEW f \in Hz, ProcessWindow(f)
  PROVE  /\ LockTyped' /\ ZeroTyped' /\ Near' /\ Runs' /\ windowAge' = 0
         /\ baselineReady => baselineReady'
         /\ StepIsSound
<1>1. LockTyped /\ ZeroTyped /\ f \in Nat /\ windowAge' = 0
  BY Settings DEF TypeOK, LockTyped, ZeroTyped, ProcessWindow
<1>2. CASE baselineReady
  <2>1. /\ filtered' = f /\ HoldOrPass(f - baseline) /\ signRun' = SignRun(f - baseline)
        /\ UNCHANGED <<started, startAge, estimate, stableWindows, verifying, verifyAge,
                       baseline, baselineReady, calmAge>>
    BY <1>2 DEF ProcessWindow, locking
  <2>2. f - baseline \in Int /\ baselineReady'
    BY <1>1, <1>2, <2>1 DEF LockTyped
  <2>3. /\ ZeroTyped' /\ Runs'
        /\ zeroHold /\ ~zeroHold' => Abs(signRun') = ReleaseWindows /\ signRun' * pulse' > 0
    BY <1>2, <2>1, <2>2, HoldKeeps DEF ZeroTyped
  <2>4. LockTyped' /\ Near'
    BY <1>1, <1>2, <2>1, <2>2 DEF LockTyped, Near
  <2> QED BY <1>1, <1>2, <2>2, <2>3, <2>4 DEF StepIsSound
<1>3. CASE ~baselineReady
  <2>1. /\ IF verifying THEN Verify(f) ELSE Converge(f)
        /\ pulse' = 0 /\ signRun' = 0
        /\ IF baselineReady' THEN zeroHold' = TRUE /\ ClearCandidate
           ELSE UNCHANGED <<zeroHold, candidateSign, candidateWindows>>
    BY <1>3 DEF ProcessWindow
  <2>2. LockTyped' /\ Near' /\ (baselineReady' => calmAge >= VerifyTime)
    <3>1. CASE verifying
      BY <1>1, <1>3, <2>1, <3>1, VerifyKeeps
    <3>2. CASE ~verifying
      BY <1>1, <1>3, <2>1, <3>2, ConvergeKeeps
    <3> QED BY <3>1, <3>2
  <2>3. candidateSign = 0 /\ candidateWindows = 0
    BY <1>3 DEF Runs
  <2>4. candidateSign' = 0 /\ candidateWindows' = 0 /\ zeroHold' \in BOOLEAN
        /\ (zeroHold => zeroHold')
    BY <1>1, <2>1, <2>3 DEF ClearCandidate, ZeroTyped
  <2>5. ZeroTyped' /\ Runs'
    <3>1. 0 \in -1 .. 1 /\ 0 \in 0 .. ReleaseWindows - 1
          /\ 0 \in -ReleaseWindows .. ReleaseWindows /\ 0 \in Int
      BY Settings
    <3>2. ZeroTyped'
      BY <2>1, <2>4, <3>1 DEF ZeroTyped
    <3>3. Runs'
      BY <2>4 DEF Runs
    <3> QED BY <3>2, <3>3
  <2> QED BY <1>1, <1>3, <2>2, <2>4, <2>5 DEF StepIsSound
<1> QED BY <1>2, <1>3

LEMMA MeasureBlock == MeasureInv /\ Block => MeasureInv' /\ StepIsSound
<1> SUFFICES ASSUME MeasureInv, Block PROVE MeasureInv' /\ StepIsSound
  OBVIOUS
<1>0. TypeOK /\ Whole /\ Near /\ Runs
  BY DEF MeasureInv
<1>1. /\ edgeAge' = 0 /\ unbroken' = Capped(unbroken + 1, Blocks)
      /\ UNCHANGED <<captureStarted, retryDue>>
  BY DEF Block
<1>2. /\ captureFilled \in 0 .. Blocks /\ unbroken \in 0 .. Blocks /\ captureHealthy \in BOOLEAN
      /\ windowAge \in 0 .. Loss + 1 /\ Blocks = 4 /\ LockTyped /\ ZeroTyped
      /\ captureFilled <= unbroken /\ (captureHealthy => unbroken = Blocks)
      /\ captureStarted \in BOOLEAN /\ retryDue \in BOOLEAN
  BY <1>0 DEF TypeOK, Whole, Blocks, LockTyped, ZeroTyped
<1>3. unbroken' \in 0 .. Blocks /\ unbroken' = IF unbroken + 1 > Blocks THEN Blocks ELSE unbroken + 1
  <2>1. unbroken + 1 \in Nat /\ Blocks \in Nat
    BY <1>2
  <2> QED BY <1>1, <2>1, CappedAge
<1>4. edgeAge' \in 0 .. Loss + 1 /\ 0 \in 0 .. Loss + 1
  BY <1>1, Settings
<1>5. ASSUME captureFilled' \in 0 .. Blocks, captureHealthy' \in BOOLEAN,
             windowAge' \in 0 .. Loss + 1, LockTyped', ZeroTyped'
      PROVE  TypeOK'
  BY <1>1, <1>2, <1>3, <1>4, <1>5 DEF TypeOK, LockTyped, ZeroTyped
<1>6. CASE captureFilled + 1 < Blocks
  <2>1. /\ captureFilled' = captureFilled + 1
        /\ UNCHANGED <<captureHealthy, windowAge, pulse, zeroHold, candidateSign,
                       candidateWindows, signRun, started, startAge, estimate,
                       stableWindows, verifying, verifyAge, baseline, baselineReady,
                       calmAge, filtered>>
    BY <1>6 DEF Block, locking, zero
  <2>2. TypeOK'
    <3>1. captureFilled' \in 0 .. Blocks
      BY <1>2, <1>6, <2>1
    <3>2. LockTyped' /\ ZeroTyped'
      BY <1>2, <2>1 DEF LockTyped, ZeroTyped
    <3> QED BY <1>2, <1>5, <2>1, <3>1, <3>2
  <2>3. Whole'
    <3>1. captureFilled' <= unbroken'
      BY <1>2, <1>3, <1>6, <2>1
    <3>2. captureHealthy => unbroken' = Blocks
      BY <1>2, <1>3
    <3>3. ~(baselineReady /\ captureHealthy)
      BY <1>0, <1>2, <1>6 DEF Whole
    <3> QED BY <2>1, <3>1, <3>2, <3>3 DEF Whole
  <2>4. Near' /\ Runs' /\ StepIsSound
    BY <1>0, <2>1 DEF Near, Runs, StepIsSound
  <2> QED BY <2>2, <2>3, <2>4 DEF MeasureInv
<1>7. CASE ~(captureFilled + 1 < Blocks)
  <2>1. /\ captureHealthy' = TRUE /\ \E f \in Hz : ProcessWindow(f)
        /\ captureFilled' = IF baselineReady' THEN Blocks ELSE 0
    BY <1>7 DEF Block, FilledAfterWindow
  <2>2. PICK f \in Hz : ProcessWindow(f)
    BY <2>1
  <2>3. /\ LockTyped' /\ ZeroTyped' /\ Near' /\ Runs' /\ windowAge' = 0
        /\ StepIsSound
    BY <1>0, <2>2, WindowKeeps
  <2>4. captureFilled' \in 0 .. Blocks /\ captureHealthy' \in BOOLEAN
    BY <1>2, <2>1
  <2>5. TypeOK'
    BY <1>4, <1>5, <2>3, <2>4
  <2>6. unbroken' = Blocks
    BY <1>2, <1>3, <1>7
  <2>7. Whole'
    BY <1>1, <1>2, <2>1, <2>3, <2>6 DEF Whole
  <2> QED BY <2>3, <2>5, <2>7 DEF MeasureInv
<1> QED BY <1>6, <1>7

LEMMA MeasureLoses == MeasureInv /\ LoseCapture => MeasureInv' /\ StepIsSound
<1> SUFFICES ASSUME MeasureInv, LoseCapture PROVE MeasureInv' /\ StepIsSound
  OBVIOUS
<1>0. TypeOK /\ Whole /\ Near /\ Runs /\ LockTyped /\ ZeroTyped
  BY DEF MeasureInv, TypeOK, LockTyped, ZeroTyped
<1>1. /\ captureFilled' = 0 /\ captureHealthy' = FALSE /\ unbroken' = 0
      /\ UNCHANGED <<edgeAge, pulse, zeroHold, candidateSign, candidateWindows, signRun,
                     filtered, windowAge>>
      /\ captureStarted' \in BOOLEAN /\ retryDue' \in BOOLEAN
  BY <1>0
     DEF LoseCapture, DiscardCaptureWindow, FilledAfterLoss, HealthAfterLoss, zero,
         TypeOK
<1>2. LockTyped' /\ Near' /\ baselineReady' = baselineReady
  <2>1. CASE baselineReady
    <3>1. UNCHANGED <<started, startAge, estimate, stableWindows, verifying, verifyAge,
                      baseline, baselineReady, calmAge>>
      BY <2>1 DEF LoseCapture, DiscardCaptureWindow, locking
    <3> QED BY <1>0, <1>1, <3>1 DEF LockTyped, Near
  <2>2. CASE ~baselineReady
    <3>1. /\ started' = FALSE /\ startAge' = 0 /\ stableWindows' = 0
          /\ verifying' = FALSE /\ calmAge' = 0
          /\ UNCHANGED <<estimate, verifyAge, baseline, baselineReady>>
      BY <2>2 DEF LoseCapture, DiscardCaptureWindow, VerifyingAfterLoss
    <3>2. 0 \in 0 .. MaxTime /\ 0 \in 0 .. LockWindows /\ 0 \in 0 .. VerifyTime
      BY Settings
    <3> QED BY <1>0, <1>1, <3>1, <3>2 DEF LockTyped, Near
  <2> QED BY <2>1, <2>2
<1>3. TypeOK'
  <2>1. captureFilled' \in 0 .. Blocks /\ unbroken' \in 0 .. Blocks
    BY <1>1 DEF Blocks
  <2> QED BY <1>0, <1>1, <1>2, <2>1 DEF TypeOK, LockTyped
<1>4. Whole'
  BY <1>1 DEF Whole
<1>5. Runs' /\ StepIsSound
  BY <1>0, <1>1, <1>2 DEF Runs, StepIsSound
<1> QED BY <1>2, <1>3, <1>4, <1>5 DEF MeasureInv

LEMMA MeasureTick == MeasureInv /\ Tick => MeasureInv' /\ StepIsSound
<1> SUFFICES ASSUME MeasureInv, Tick PROVE MeasureInv' /\ StepIsSound
  OBVIOUS
<1>0. TypeOK /\ Whole /\ Near /\ Runs
  BY DEF MeasureInv
<1>1. /\ edgeAge' = Capped(edgeAge + 1, Loss + 1)
      /\ windowAge' = Capped(windowAge + 1, Loss + 1)
      /\ startAge' = IF started THEN Capped(startAge + 1, MaxTime) ELSE startAge
      /\ verifyAge' = IF verifying THEN Capped(verifyAge + 1, VerifyTime) ELSE verifyAge
      /\ calmAge' = IF baselineReady THEN calmAge ELSE Capped(calmAge + 1, VerifyTime)
      /\ UNCHANGED <<captureStarted, captureFilled, captureHealthy, unbroken, pulse,
                     zeroHold, candidateSign, candidateWindows, signRun, filtered,
                     started, estimate, stableWindows, verifying, baseline, baselineReady>>
      /\ retryDue' \in BOOLEAN
  BY DEF Tick, zero
<1>2. /\ edgeAge \in 0 .. Loss + 1 /\ windowAge \in 0 .. Loss + 1
      /\ startAge \in 0 .. MaxTime /\ verifyAge \in 0 .. VerifyTime
      /\ calmAge \in 0 .. VerifyTime
      /\ Loss \in Nat /\ MaxTime \in Nat /\ VerifyTime \in Nat
  BY <1>0, Settings DEF TypeOK
<1>3. /\ edgeAge' = IF edgeAge < Loss + 1 THEN edgeAge + 1 ELSE Loss + 1
      /\ windowAge' = IF windowAge < Loss + 1 THEN windowAge + 1 ELSE Loss + 1
  BY <1>1, <1>2 DEF Capped
<1>4. /\ startAge' \in 0 .. MaxTime
      /\ verifyAge' \in 0 .. VerifyTime /\ calmAge' \in 0 .. VerifyTime
      /\ verifying /\ ~baselineReady /\ verifyAge <= calmAge => verifyAge' <= calmAge'
  <2>1. startAge' \in 0 .. MaxTime
    BY <1>1, <1>2 DEF Capped
  <2>2. verifyAge' \in 0 .. VerifyTime /\ calmAge' \in 0 .. VerifyTime
    BY <1>1, <1>2 DEF Capped
  <2>3. verifying /\ ~baselineReady /\ verifyAge <= calmAge => verifyAge' <= calmAge'
    BY <1>1, <1>2 DEF Capped
  <2> QED BY <2>1, <2>2, <2>3
<1>5. edgeAge' \in 0 .. Loss + 1 /\ windowAge' \in 0 .. Loss + 1
  BY <1>2, <1>3
<1>6. TypeOK'
  BY <1>0, <1>1, <1>4, <1>5 DEF TypeOK
<1>7. Whole'
  <2>1. windowAge <= edgeAge => windowAge' <= edgeAge'
    BY <1>2, <1>3
  <2> QED BY <1>0, <1>1, <2>1 DEF Whole
<1>8. Near' /\ Runs' /\ StepIsSound
  BY <1>0, <1>1, <1>4 DEF Near, Runs, StepIsSound
<1> QED BY <1>6, <1>7, <1>8 DEF MeasureInv

LEMMA MeasureNext == MeasureInv /\ [Next]_vars => MeasureInv' /\ StepIsSound
<1> SUFFICES ASSUME MeasureInv, [Next]_vars PROVE MeasureInv' /\ StepIsSound
  OBVIOUS
<1>1. CASE \E ok \in BOOLEAN : Retry(ok)
  <2>1. /\ captureStarted' \in BOOLEAN /\ retryDue' = FALSE
        /\ UNCHANGED <<captureFilled, captureHealthy, edgeAge, unbroken, filtered, windowAge>>
        /\ UNCHANGED <<pulse, zeroHold, candidateSign, candidateWindows, signRun>>
        /\ UNCHANGED <<started, startAge, estimate, stableWindows, verifying, verifyAge,
                       baseline, baselineReady, calmAge>>
    BY <1>1 DEF Retry, zero, locking
  <2>2. TypeOK'
    BY <2>1 DEF MeasureInv, TypeOK
  <2> QED BY <2>1, <2>2 DEF MeasureInv, Whole, Near, Runs, StepIsSound
<1>2. CASE UNCHANGED vars
  <2>1. /\ UNCHANGED <<captureStarted, retryDue, captureFilled, captureHealthy, edgeAge,
                       unbroken, filtered, windowAge>>
        /\ UNCHANGED <<pulse, zeroHold, candidateSign, candidateWindows, signRun>>
        /\ UNCHANGED <<started, startAge, estimate, stableWindows, verifying, verifyAge,
                       baseline, baselineReady, calmAge>>
    BY <1>2 DEF vars, capture, zero, locking
  <2>2. TypeOK'
    BY <2>1 DEF MeasureInv, TypeOK
  <2> QED BY <2>1, <2>2 DEF MeasureInv, Whole, Near, Runs, StepIsSound
<1> QED BY <1>1, <1>2, MeasureBlock, MeasureLoses, MeasureTick DEF Next

--------------------------------------------------------------------------------
(* The copy of core 1                                                           *)

Even(n) == n % 2 = 0

(* What is not yet to be stored is of the window that is being stored, the rest *)
(* of the one before; between two windows all is stored.                        *)
Stored ==
  /\ toStore # {} => Copy!Odd(sequence)
  /\ \A w \in Copy!Words :
       word[w] = IF w \in toStore THEN Copy!Number - 1 ELSE Copy!Number
  /\ adjustometerPulse = IF "pulse" \in toStore THEN Copy!Number - 1 ELSE Copy!Number

(* As long as the sequence is the one before the copy, what is loaded is of the *)
(* window before it.                                                            *)
Loaded ==
  /\ pc \in {"copy", "status", "end"} =>
       /\ Even(before) /\ before <= sequence /\ 2 * sample.number = before
       /\ sequence = before =>
            /\ \A w \in Copy!Words \ toLoad : sample.words[w] = sample.number
            /\ pc # "copy" => sample.pulse \in {0, sample.number}
  /\ status = "OK" =>
       /\ pc = "idle"
       /\ \A w \in Copy!Words : sample.words[w] = sample.number
       /\ sample.pulse \in {0, sample.number}

CopyInv == Copy!TypeOK /\ Stored /\ Loaded

LEMMA WindowNumbers ==
  ASSUME NEW n \in Nat
  PROVE  /\ (n + 1) \div 2 \in Nat
         /\ Copy!Odd(n) <=> ~Even(n)
         /\ Copy!Odd(n) => Even(n + 1) /\ (n + 2) \div 2 = (n + 1) \div 2
                           /\ 2 * ((n + 1) \div 2) = n + 1
         /\ Even(n) => Copy!Odd(n + 1) /\ (n + 2) \div 2 = (n + 1) \div 2 + 1
                       /\ 2 * ((n + 1) \div 2) = n /\ n \div 2 = (n + 1) \div 2
BY DEF Copy!Odd, Even

LEMMA CopyInitially == Copy!Init => CopyInv
<1> SUFFICES ASSUME Copy!Init PROVE CopyInv
  OBVIOUS
<1>1. /\ sequence = 0 /\ toStore = {} /\ word = [w \in Copy!Words |-> 0]
      /\ adjustometerPulse = 0 /\ copied = FALSE /\ edgesStopped \in BOOLEAN
      /\ pc = "idle" /\ attempt = 0 /\ before = 0 /\ toLoad = {} /\ status = "none"
      /\ sample = [number |-> 0, words |-> [w \in Copy!Words |-> 0], pulse |-> 0,
                   lost |-> TRUE]
  BY DEF Copy!Init, Copy!NoSample
<1>2. /\ 0 \in 0 .. 2 * Windows /\ 0 \in 0 .. Windows /\ 0 \in 0 .. Copy!Attempts
      /\ (0 + 1) \div 2 = 0
  BY WindowsAssumption DEF Copy!Attempts
<1>3. Copy!TypeOK
  <2>1. [w \in Copy!Words |-> 0] \in [Copy!Words -> 0 .. Windows]
    BY <1>2
  <2>2. sample \in [number : 0 .. Windows, words : [Copy!Words -> 0 .. Windows],
                    pulse : 0 .. Windows, lost : BOOLEAN]
    BY <1>1, <1>2, <2>1
  <2> QED BY <1>1, <1>2, <2>1, <2>2 DEF Copy!TypeOK
<1>4. Stored
  BY <1>1, <1>2 DEF Stored, Copy!Number
<1>5. Loaded
  BY <1>1 DEF Loaded
<1> QED BY <1>3, <1>4, <1>5 DEF CopyInv

(* The writer of core 0.                                                        *)
LEMMA WriterKeeps ==
  ASSUME CopyInv,
         \/ Copy!Edge \/ Copy!BeginWindow \/ Copy!StoreWord \/ Copy!EndWindow
         \/ Copy!Discard \/ Copy!EdgesStop
  PROVE  CopyInv'
<1>0. /\ Copy!TypeOK /\ Stored /\ Loaded
      /\ sequence \in 0 .. 2 * Windows /\ toStore \subseteq Copy!Words \cup {"pulse"}
      /\ word \in [Copy!Words -> 0 .. Windows] /\ adjustometerPulse \in 0 .. Windows
      /\ before \in 0 .. 2 * Windows /\ Windows \in Nat
  BY WindowsAssumption DEF CopyInv, Copy!TypeOK
<1>1. UNCHANGED <<pc, attempt, before, toLoad, sample, status>>
  BY DEF Copy!Edge, Copy!BeginWindow, Copy!StoreWord, Copy!EndWindow, Copy!Discard,
         Copy!EdgesStop, Copy!reader
<1>2. ASSUME sequence' \in 0 .. 2 * Windows, toStore' \subseteq Copy!Words \cup {"pulse"},
             word' \in [Copy!Words -> 0 .. Windows], adjustometerPulse' \in 0 .. Windows,
             copied' \in BOOLEAN, edgesStopped' \in BOOLEAN
      PROVE  Copy!TypeOK'
  BY <1>0, <1>1, <1>2 DEF Copy!TypeOK
<1>3. ASSUME sequence' = sequence \/ sequence' = sequence + 1 PROVE Loaded'
  <2>1. before <= sequence => before <= sequence'
    BY <1>0, <1>3
  <2>2. before <= sequence /\ sequence' = before => sequence = before
    BY <1>0, <1>3
  <2> QED BY <1>0, <1>1, <2>1, <2>2 DEF Loaded
<1>4. /\ (sequence + 1) \div 2 \in Nat
      /\ Copy!Odd(sequence) <=> ~Even(sequence)
      /\ Copy!Odd(sequence) => /\ Even(sequence + 1)
                               /\ (sequence + 2) \div 2 = (sequence + 1) \div 2
                               /\ 2 * ((sequence + 1) \div 2) = sequence + 1
      /\ Even(sequence) => /\ Copy!Odd(sequence + 1)
                           /\ (sequence + 2) \div 2 = (sequence + 1) \div 2 + 1
                           /\ 2 * ((sequence + 1) \div 2) = sequence
                           /\ sequence \div 2 = (sequence + 1) \div 2
  <2>1. sequence \in Nat
    BY <1>0
  <2> QED BY <2>1, WindowNumbers
<1>5. CASE Copy!Edge \/ Copy!Discard \/ Copy!EdgesStop
  <2>1. UNCHANGED <<sequence, toStore, word, adjustometerPulse>>
    BY <1>5 DEF Copy!Edge, Copy!Discard, Copy!EdgesStop
  <2>2. copied' \in BOOLEAN /\ edgesStopped' \in BOOLEAN
    BY <1>0, <1>5 DEF Copy!Edge, Copy!Discard, Copy!EdgesStop, Copy!TypeOK
  <2>3. Stored'
    BY <1>0, <2>1 DEF Stored, Copy!Number
  <2> QED BY <1>0, <1>2, <1>3, <2>1, <2>2, <2>3 DEF CopyInv
<1>6. CASE Copy!BeginWindow
  <2>1. /\ ~Copy!Odd(sequence) /\ sequence < 2 * Windows /\ sequence' = sequence + 1
        /\ copied' = TRUE /\ toStore' = Copy!Words \cup {"pulse"}
        /\ UNCHANGED <<word, adjustometerPulse, edgesStopped>>
    BY <1>6 DEF Copy!BeginWindow
  <2>2. toStore = {} /\ Copy!Number = (sequence + 1) \div 2 /\ Copy!Number' = Copy!Number + 1
        /\ Copy!Odd(sequence')
    <3>1. toStore = {}
      BY <1>0, <2>1 DEF Stored
    <3>2. Even(sequence)
      BY <1>4, <2>1
    <3>3. sequence' + 1 = sequence + 2
      BY <1>0, <2>1
    <3> QED BY <1>4, <2>1, <3>1, <3>2, <3>3 DEF Copy!Number
  <2>3. Stored'
    <3>1. Copy!Number' - 1 = Copy!Number
      BY <1>4, <2>2
    <3> QED BY <1>0, <2>1, <2>2, <3>1 DEF Stored
  <2>4. sequence' \in 0 .. 2 * Windows
    BY <1>0, <2>1
  <2>5. copied' \in BOOLEAN /\ edgesStopped' \in BOOLEAN
    BY <1>0, <2>1 DEF Copy!TypeOK
  <2> QED BY <1>0, <1>2, <1>3, <2>1, <2>3, <2>4, <2>5 DEF CopyInv
<1>7. CASE Copy!StoreWord
  <2>1. PICK w \in toStore :
          /\ toStore' = toStore \ {w}
          /\ IF w = "pulse"
             THEN adjustometerPulse' = Copy!Number /\ UNCHANGED word
             ELSE word' = [word EXCEPT ![w] = Copy!Number] /\ UNCHANGED adjustometerPulse
    BY <1>7 DEF Copy!StoreWord
  <2>2. UNCHANGED <<sequence, copied, edgesStopped>>
    BY <1>7 DEF Copy!StoreWord
  <2>3. Copy!Odd(sequence) /\ Copy!Number \in 0 .. Windows
    <3>1. Copy!Odd(sequence)
      BY <1>0, <2>1 DEF Stored
    <3>2. 2 * Copy!Number = sequence + 1 /\ Copy!Number \in Nat /\ Even(sequence + 1)
      BY <1>4, <3>1 DEF Copy!Number
    <3>3. sequence # 2 * Windows
      BY <1>0, <3>1 DEF Copy!Odd
    <3> QED BY <1>0, <3>1, <3>2, <3>3
  <2>4. Copy!Number' = Copy!Number
    BY <2>2 DEF Copy!Number
  <2>5. CASE w = "pulse"
    <3>1. adjustometerPulse' = Copy!Number /\ word' = word
      BY <2>1, <2>5
    <3>2. Stored'
      BY <1>0, <2>1, <2>2, <2>3, <2>4, <2>5, <3>1 DEF Stored, Copy!Words
    <3> QED BY <1>0, <1>2, <1>3, <2>1, <2>2, <2>3, <3>1, <3>2 DEF CopyInv, Copy!TypeOK
  <2>6. CASE w # "pulse"
    <3>1. word' = [word EXCEPT ![w] = Copy!Number] /\ adjustometerPulse' = adjustometerPulse
          /\ w \in Copy!Words
      BY <1>0, <2>1, <2>6
    <3>2. word' \in [Copy!Words -> 0 .. Windows]
      BY <1>0, <2>3, <3>1
    <3>3. Stored'
      <4>1. \A v \in Copy!Words : word'[v] = IF v = w THEN Copy!Number ELSE word[v]
        BY <1>0, <3>1
      <4> QED BY <1>0, <2>1, <2>2, <2>3, <2>4, <2>6, <3>1, <4>1 DEF Stored
    <3> QED BY <1>0, <1>2, <1>3, <2>1, <2>2, <3>1, <3>2, <3>3 DEF CopyInv, Copy!TypeOK
  <2> QED BY <2>5, <2>6
<1>8. CASE Copy!EndWindow
  <2>1. /\ Copy!Odd(sequence) /\ toStore = {} /\ sequence' = sequence + 1
        /\ UNCHANGED <<toStore, word, adjustometerPulse, copied, edgesStopped>>
    BY <1>8 DEF Copy!EndWindow
  <2>2. Copy!Number' = Copy!Number
    <3>1. sequence' + 1 = sequence + 2
      BY <1>0, <2>1
    <3> QED BY <1>4, <2>1, <3>1 DEF Copy!Number
  <2>3. Stored'
    BY <1>0, <2>1, <2>2 DEF Stored
  <2>4. sequence' \in 0 .. 2 * Windows
    <3>1. sequence # 2 * Windows
      BY <1>0, <2>1 DEF Copy!Odd
    <3> QED BY <1>0, <2>1, <3>1
  <2> QED BY <1>0, <1>2, <1>3, <2>1, <2>3, <2>4 DEF CopyInv, Copy!TypeOK
<1> QED BY <1>5, <1>6, <1>7, <1>8

(* The reader of core 1.                                                        *)
LEMMA ReaderKeeps ==
  ASSUME CopyInv,
         \/ Copy!Call \/ Copy!BeginCopy \/ Copy!LoadWord \/ Copy!LoadPulse
         \/ Copy!LoadStatus \/ Copy!EndCopy
  PROVE  CopyInv'
<1> DEFINE Samples == [number : 0 .. Windows, words : [Copy!Words -> 0 .. Windows],
                       pulse : 0 .. Windows, lost : BOOLEAN]
<1>0. /\ Copy!TypeOK /\ Stored /\ Loaded
      /\ sequence \in 0 .. 2 * Windows
      /\ word \in [Copy!Words -> 0 .. Windows] /\ adjustometerPulse \in 0 .. Windows
      /\ pc \in {"idle", "begin", "copy", "status", "end"} /\ attempt \in 0 .. Copy!Attempts
      /\ before \in 0 .. 2 * Windows /\ toLoad \subseteq Copy!Words /\ sample \in Samples
      /\ status \in {"none", "OK", "EAGAIN"} /\ Windows \in Nat
  BY WindowsAssumption DEF CopyInv, Copy!TypeOK
<1>1. /\ UNCHANGED <<sequence, toStore, word, adjustometerPulse, copied, edgesStopped>>
      /\ Stored' /\ Copy!SignalLost \in BOOLEAN
  <2>1. UNCHANGED <<sequence, toStore, word, adjustometerPulse, copied, edgesStopped>>
    BY DEF Copy!Call, Copy!BeginCopy, Copy!LoadWord, Copy!LoadPulse, Copy!LoadStatus,
           Copy!EndCopy, Copy!writer
  <2>2. Stored'
    BY <1>0, <2>1 DEF Stored, Copy!Number
  <2>3. Copy!SignalLost \in BOOLEAN
    BY DEF Copy!SignalLost
  <2> QED BY <2>1, <2>2, <2>3
<1>2. ASSUME pc' \in {"idle", "begin", "copy", "status", "end"},
             attempt' \in 0 .. Copy!Attempts,
             before' \in 0 .. 2 * Windows, toLoad' \subseteq Copy!Words, sample' \in Samples,
             status' \in {"none", "OK", "EAGAIN"}, Loaded'
      PROVE  CopyInv'
  BY <1>0, <1>1, <1>2 DEF CopyInv, Copy!TypeOK
<1>3. Even(sequence) => \A w \in Copy!Words : 2 * word[w] = sequence
  <2> SUFFICES ASSUME Even(sequence), NEW w \in Copy!Words PROVE 2 * word[w] = sequence
    OBVIOUS
  <2>1. sequence \in Nat
    BY <1>0
  <2>2. ~Copy!Odd(sequence) /\ 2 * ((sequence + 1) \div 2) = sequence
    BY <2>1, WindowNumbers
  <2>3. word[w] = (sequence + 1) \div 2
    BY <1>0, <2>2 DEF Stored, Copy!Number
  <2> QED BY <2>2, <2>3
<1>4. Even(sequence) => 2 * adjustometerPulse = sequence
  <2> SUFFICES ASSUME Even(sequence) PROVE 2 * adjustometerPulse = sequence
    OBVIOUS
  <2>1. sequence \in Nat
    BY <1>0
  <2>2. ~Copy!Odd(sequence) /\ 2 * ((sequence + 1) \div 2) = sequence
    BY <2>1, WindowNumbers
  <2>3. adjustometerPulse = (sequence + 1) \div 2
    BY <1>0, <2>2 DEF Stored, Copy!Number
  <2> QED BY <2>2, <2>3
<1>5. ASSUME pc' \in {"idle", "begin"}, attempt' \in 0 .. Copy!Attempts,
             status' # "OK", status' \in {"none", "OK", "EAGAIN"},
             UNCHANGED <<before, toLoad>>, sample' \in Samples
      PROVE  CopyInv'
  <2>1. Loaded'
    BY <1>5 DEF Loaded
  <2> QED BY <1>0, <1>2, <1>5, <2>1
<1>6. ASSUME Copy!Continue, pc # "idle"
      PROVE  /\ pc' \in {"idle", "begin"} /\ attempt' \in 0 .. Copy!Attempts
             /\ status' # "OK" /\ status' \in {"none", "OK", "EAGAIN"}
  <2>1. status # "OK"
    BY <1>0, <1>6 DEF Loaded
  <2>2. CASE Copy!AttemptsLeft
    BY <1>0, <1>6, <2>1, <2>2 DEF Copy!Continue, Copy!AttemptsLeft, Copy!Attempts
  <2>3. CASE ~Copy!AttemptsLeft
    BY <1>0, <1>6, <2>3 DEF Copy!Continue, Copy!Attempts
  <2> QED BY <2>2, <2>3
<1>7. CASE Copy!Call
  <2>1. /\ pc' = "begin" /\ attempt' = 1 /\ status' = "none" /\ UNCHANGED <<before, toLoad>>
        /\ sample' = [number |-> 0, words |-> [w \in Copy!Words |-> 0], pulse |-> 0,
                      lost |-> TRUE]
    BY <1>7 DEF Copy!Call, Copy!NoSample
  <2>2. sample' \in Samples
    <3>1. 0 \in 0 .. Windows
      BY <1>0
    <3>2. [w \in Copy!Words |-> 0] \in [Copy!Words -> 0 .. Windows]
      BY <3>1
    <3> QED BY <2>1, <3>1, <3>2
  <2>3. attempt' \in 0 .. Copy!Attempts
    BY <2>1 DEF Copy!Attempts
  <2> QED BY <1>5, <2>1, <2>2, <2>3
<1>8. CASE Copy!BeginCopy
  <2>1. CASE Copy!Odd(sequence)
    <3>1. Copy!Continue /\ UNCHANGED <<before, toLoad, sample>> /\ pc = "begin"
      BY <1>8, <2>1 DEF Copy!BeginCopy
    <3> QED BY <1>0, <1>5, <1>6, <3>1
  <2>2. CASE ~Copy!Odd(sequence)
    <3>1. /\ pc = "begin" /\ pc' = "copy" /\ before' = sequence /\ toLoad' = Copy!Words
          /\ sample' = [sample EXCEPT !.number = sequence \div 2]
          /\ UNCHANGED <<attempt, status>>
      BY <1>8, <2>2 DEF Copy!BeginCopy
    <3>2. Even(sequence) /\ 2 * (sequence \div 2) = sequence /\ sequence \div 2 \in 0 .. Windows
      <4>1. sequence \in Nat
        BY <1>0
      <4>2. Even(sequence) /\ 2 * ((sequence + 1) \div 2) = sequence
            /\ sequence \div 2 = (sequence + 1) \div 2 /\ (sequence + 1) \div 2 \in Nat
        BY <2>2, <4>1, WindowNumbers
      <4> QED BY <1>0, <4>2
    <3> DEFINE n == sequence \div 2
    <3>3. n \in 0 .. Windows /\ sample' = [sample EXCEPT !.number = n]
      BY <3>1, <3>2
    <3> HIDE DEF n
    <3>4. sample' \in Samples /\ sample'.number = n
      BY <1>0, <3>3
    <3>5. status # "OK"
      BY <1>0, <3>1 DEF Loaded
    <3>6. 2 * sample'.number = before'
      BY <3>1, <3>2, <3>4 DEF n
    <3>7. before' <= sequence'
      BY <1>0, <1>1, <3>1
    <3>8. Loaded'
      BY <3>1, <3>2, <3>5, <3>6, <3>7 DEF Loaded
    <3> QED BY <1>0, <1>2, <3>1, <3>4, <3>8
  <2> QED BY <2>1, <2>2
<1>9. CASE Copy!LoadWord
  <2>1. PICK w \in toLoad : /\ sample' = [sample EXCEPT !.words[w] = word[w]]
                            /\ toLoad' = toLoad \ {w}
    BY <1>9 DEF Copy!LoadWord
  <2>2. pc \in {"copy", "status", "end"} /\ UNCHANGED <<pc, attempt, before, status>>
    BY <1>9 DEF Copy!LoadWord
  <2>3. w \in Copy!Words /\ word[w] \in 0 .. Windows
        /\ sample.words \in [Copy!Words -> 0 .. Windows]
    BY <1>0
  <2>4. /\ sample' \in Samples /\ sample'.number = sample.number
        /\ sample'.pulse = sample.pulse
        /\ \A v \in Copy!Words : sample'.words[v] = IF v = w THEN word[w] ELSE sample.words[v]
    <3> DEFINE words == [sample.words EXCEPT ![w] = word[w]]
    <3>1. words \in [Copy!Words -> 0 .. Windows]
          /\ \A v \in Copy!Words : words[v] = IF v = w THEN word[w] ELSE sample.words[v]
      BY <2>3
    <3>2. sample' = [sample EXCEPT !.words = words]
      BY <1>0, <2>1
    <3> HIDE DEF words
    <3> QED BY <1>0, <3>1, <3>2
  <2>5. status # "OK"
    BY <1>0, <2>2 DEF Loaded
  <2>6. sequence = before => word[w] = sample.number
    <3>1. sequence = before => 2 * word[w] = sequence /\ 2 * sample.number = before
      BY <1>0, <1>3, <2>2, <2>3 DEF Loaded
    <3>2. sample.number \in 0 .. Windows
      BY <1>0
    <3> QED BY <1>0, <2>3, <3>1, <3>2
  <2>7. sequence = before =>
          \A v \in Copy!Words \ toLoad' : sample'.words[v] = sample'.number
    BY <1>0, <2>1, <2>2, <2>4, <2>6 DEF Loaded
  <2>8. Loaded'
    BY <1>0, <1>1, <2>2, <2>4, <2>5, <2>7 DEF Loaded
  <2> QED BY <1>0, <1>2, <2>1, <2>2, <2>4, <2>8
<1>10. CASE Copy!LoadPulse
  <2> DEFINE p == IF Copy!SignalLost THEN 0 ELSE adjustometerPulse
  <2>1. /\ pc = "copy" /\ pc' = "status" /\ UNCHANGED <<attempt, before, toLoad, status>>
        /\ sample' = [sample EXCEPT !.pulse = p]
    BY <1>10 DEF Copy!LoadPulse
  <2>2. p \in 0 .. Windows
    BY <1>0
  <2>3. sequence = before => p \in {0, sample.number}
    <3>1. sequence = before => 2 * adjustometerPulse = sequence /\ 2 * sample.number = before
      BY <1>0, <1>4, <2>1 DEF Loaded
    <3>2. sample.number \in 0 .. Windows
      BY <1>0
    <3>3. sequence = before => adjustometerPulse = sample.number
      BY <1>0, <3>1, <3>2
    <3> QED BY <3>3
  <2> HIDE DEF p
  <2>4. /\ sample' \in Samples /\ sample'.number = sample.number
        /\ sample'.pulse = p /\ sample'.words = sample.words
    BY <1>0, <2>1, <2>2
  <2>5. status # "OK"
    BY <1>0, <2>1 DEF Loaded
  <2>6. Loaded'
    BY <1>0, <1>1, <2>1, <2>3, <2>4, <2>5 DEF Loaded
  <2> QED BY <1>0, <1>2, <2>1, <2>4, <2>6
<1>11. CASE Copy!LoadStatus
  <2>1. /\ pc = "status" /\ pc' = "end" /\ UNCHANGED <<attempt, before, toLoad, status>>
        /\ sample' = [sample EXCEPT !.lost = Copy!SignalLost]
    BY <1>11 DEF Copy!LoadStatus
  <2> DEFINE lost == Copy!SignalLost
  <2>2. lost \in BOOLEAN /\ sample' = [sample EXCEPT !.lost = lost]
    BY <1>1, <2>1
  <2> HIDE DEF lost
  <2>3. /\ sample' \in Samples /\ sample'.number = sample.number
        /\ sample'.pulse = sample.pulse /\ sample'.words = sample.words
    BY <1>0, <2>2
  <2>4. status # "OK"
    BY <1>0, <2>1 DEF Loaded
  <2>5. Loaded'
    BY <1>0, <1>1, <2>1, <2>3, <2>4 DEF Loaded
  <2> QED BY <1>0, <1>2, <2>1, <2>3, <2>5
<1>12. CASE Copy!EndCopy
  <2>1. pc = "end" /\ toLoad = {} /\ UNCHANGED <<before, toLoad, sample>>
    BY <1>12 DEF Copy!EndCopy
  <2>2. CASE sequence = before
    <3>1. pc' = "idle" /\ attempt' = 0 /\ status' = "OK"
      BY <1>12, <2>2 DEF Copy!EndCopy, Copy!StillTheSame
    <3>2. /\ \A w \in Copy!Words : sample.words[w] = sample.number
          /\ sample.pulse \in {0, sample.number}
      BY <1>0, <2>1, <2>2 DEF Loaded
    <3>3. Loaded'
      BY <2>1, <3>1, <3>2 DEF Loaded
    <3>4. attempt' \in 0 .. Copy!Attempts
      BY <3>1 DEF Copy!Attempts
    <3> QED BY <1>0, <1>2, <2>1, <3>1, <3>3, <3>4
  <2>3. CASE sequence # before
    <3>1. Copy!Continue
      BY <1>12, <2>3 DEF Copy!EndCopy, Copy!StillTheSame
    <3> QED BY <1>0, <1>5, <1>6, <2>1, <3>1
  <2> QED BY <2>2, <2>3
<1> QED BY <1>7, <1>8, <1>9, <1>10, <1>11, <1>12

LEMMA CopyNext == CopyInv /\ [Copy!Next]_copyVars => CopyInv'
<1> SUFFICES ASSUME CopyInv, [Copy!Next]_copyVars PROVE CopyInv'
  OBVIOUS
<1>1. CASE UNCHANGED copyVars
  BY <1>1 DEF copyVars, CopyInv, Copy!TypeOK, Stored, Loaded, Copy!Number
<1> QED BY <1>1, WriterKeeps, ReaderKeeps DEF Copy!Next

LEMMA CopyIsOneWindow == CopyInv => Copy!SampleIsOneWindow
<1> SUFFICES ASSUME CopyInv, status = "OK"
             PROVE  sample.words = [w \in Copy!Words |-> sample.number]
  BY DEF CopyInv, Loaded, Copy!SampleIsOneWindow
<1>1. sample.words \in [Copy!Words -> 0 .. Windows]
  BY DEF CopyInv, Copy!TypeOK
<1>2. \A w \in Copy!Words : sample.words[w] = sample.number
  BY DEF CopyInv, Loaded
<1> QED BY <1>1, <1>2

--------------------------------------------------------------------------------
(* Both cores                                                                   *)

AdjustometerInv == MeasureInv /\ CopyInv

LEMMA AdjustometerNext ==
  AdjustometerInv /\ [Measure \/ CopySample]_mcVars => AdjustometerInv' /\ StepIsSound
<1> SUFFICES ASSUME AdjustometerInv, [Measure \/ CopySample]_mcVars
             PROVE  AdjustometerInv' /\ StepIsSound
  OBVIOUS
<1>1. [Next]_vars /\ [Copy!Next]_copyVars
  BY DEF Measure, CopySample, mcVars
<1> QED BY <1>1, MeasureNext, CopyNext DEF AdjustometerInv

LEMMA AdjustometerAlways == MCSpec => []AdjustometerInv
<1>1. MCInit => AdjustometerInv
  BY MeasureInitially, CopyInitially DEF MCInit, AdjustometerInv
<1>2. AdjustometerInv /\ [Measure \/ CopySample]_mcVars => AdjustometerInv'
  BY AdjustometerNext
<1> QED BY <1>1, <1>2, PTL DEF MCSpec

(* The estimate that becomes the baseline never left the drift allowed around   *)
(* the verified candidate, for any frequencies and any filter                   *)
(* (updateAdjustometerBaseline).                                                *)
THEOREM EstimateStaysNear == MCSpec => []EstimateNearCandidate
<1>1. AdjustometerInv => EstimateNearCandidate
  BY DEF AdjustometerInv, MeasureInv, Near, EstimateNearCandidate
<1> QED BY <1>1, AdjustometerAlways, PTL

(* A measurement that is not flagged as lost is no older than the signal-loss   *)
(* time-out, and a healthy window has no gap in it (updateAdjustometerCapture). *)
THEOREM NoOldWindow == MCSpec => []WindowIsCurrent
<1>1. AdjustometerInv => WindowIsCurrent
  <2> SUFFICES ASSUME TypeOK, Whole, baselineReady, ~SignalLost PROVE windowAge <= Loss
    BY DEF AdjustometerInv, MeasureInv, Whole, WindowIsCurrent
  <2>1. captureHealthy /\ ~(edgeAge > Loss)
    BY DEF SignalLost
  <2>2. windowAge <= edgeAge /\ edgeAge \in 0 .. Loss + 1 /\ windowAge \in 0 .. Loss + 1
    BY <2>1 DEF Whole, TypeOK
  <2> QED BY <2>1, <2>2, Settings
<1> QED BY <1>1, AdjustometerAlways, PTL

(* A baseline is final only after a whole verification that nothing disturbed.  *)
THEOREM VerificationIsWhole == MCSpec => VerifiedInOnePiece
<1>1. AdjustometerInv /\ [Measure \/ CopySample]_mcVars =>
        [(~baselineReady /\ baselineReady') => calmAge >= VerifyTime]_vars
  BY AdjustometerNext DEF StepIsSound
<1> QED BY <1>1, AdjustometerAlways, PTL DEF MCSpec, VerifiedInOnePiece

(* A displacement gets through the hold only after as many windows in a row on  *)
(* its side as the release asks for (applyZeroHold).                            *)
THEOREM HoldNeedsARun == MCSpec => SpikesHeld
<1>1. AdjustometerInv /\ [Measure \/ CopySample]_mcVars =>
        [(zeroHold /\ ~zeroHold') =>
           (Abs(signRun') = ReleaseWindows /\ signRun' * pulse' > 0)]_vars
  BY AdjustometerNext DEF StepIsSound
<1> QED BY <1>1, AdjustometerAlways, PTL DEF MCSpec, SpikesHeld

(* What core 1 copies is one window, in whatever order the relaxed loads and    *)
(* stores take effect (getAdjustometerFeedback).                                *)
THEOREM CopyIsConsistent == MCSpec => []SampleIsOneWindow
<1>1. AdjustometerInv => SampleIsOneWindow
  BY CopyIsOneWindow DEF AdjustometerInv, SampleIsOneWindow
<1> QED BY <1>1, AdjustometerAlways, PTL
================================================================================
