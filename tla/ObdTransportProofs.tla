--------------------------- MODULE ObdTransportProofs ---------------------------
(* The sender of obd-2.c and its tester for answers of any length, any index    *)
(* width, any buffers and any block sizes: the sender implements WholeAnswers.  *)
EXTENDS ObdTransport, SequenceTheorems, FiniteSetTheorems, TLAPS

Kinds == {"short", "long"}
Piece == [of : 1..MaxRequests, part : 1..Frames + 1]
Grant == Nat \cup {Unlimited}
Received ==
  [type : {"request"}, of : 1..MaxRequests]
    \cup [type : {"continue", "wait", "abort"}, size : {0} \cup Blocks, apart : BOOLEAN]
TesterType ==
  [awaits : 0..MaxRequests, parts : Seq(Piece), next : 0..Wrap - 1, left : Grant,
   owes : BOOLEAN, granted : Grant, received : Seq(Piece)]

(* What a part of a pass works on.                                              *)
State == [tp : TransferType, rx : Seq(Received), tester : TesterType]

LastOf(h) == IF h.received = <<>> THEN 0 ELSE h.received[1].of

--------------------------------------------------------------------------------
(* The parts of the invariant, of a transfer t, the frames q received and a     *)
(* tester h                                                                     *)

(* A transfer is of a long answer, and its index belongs to its next part.      *)
Underway(t) ==
  t.state # "idle" =>
    /\ t.of \in 1..Len(asked) /\ asked[t.of] = "long"
    /\ t.offset <= Frames + 1 /\ t.index = (t.offset - 1) % Wrap

(* What the tester has assembled are the first parts of one long answer, newer  *)
(* than the one it took last, while it awaits a long answer.                    *)
Assembled(h) ==
  /\ h.awaits <= Len(asked) /\ LastOf(h) <= Len(asked)
  /\ h.parts # <<>> =>
       /\ h.awaits # 0 /\ asked[h.awaits] = "long"
       /\ Len(h.parts) <= Frames /\ h.next = Len(h.parts) % Wrap
       /\ \A i \in 1..Len(h.parts) : h.parts[i] = [of |-> h.parts[1].of, part |-> i]
       /\ LastOf(h) < h.parts[1].of /\ h.parts[1].of <= Len(asked)
       /\ asked[h.parts[1].of] = "long"

(* It assembles the answer that is sent, and is at most one part ahead of the   *)
(* sender: the one whose send was reported as failed.                           *)
InStep(t, h) ==
  t.state # "idle" /\ h.parts # <<>> =>
    h.parts[1].of = t.of /\ Len(h.parts) \in {t.offset - 1, t.offset}

(* Requests wait in their order, and are newer than n.                          *)
NewerThan(q, n) == \A i \in 1..Len(q) : q[i].type = "request" => n < q[i].of
InOrder(q) ==
  \A i \in 1..Len(q) : q[i].type = "request" =>
    /\ q[i].of <= Len(asked)
    /\ \A j \in 1..i - 1 : q[j].type = "request" => q[j].of < q[i].of
Waiting(q, h) ==
  /\ InOrder(q) /\ NewerThan(q, LastOf(h))
  /\ h.parts # <<>> => NewerThan(q, h.parts[1].of)

Whole(t, q, h) == Underway(t) /\ Assembled(h) /\ InStep(t, h) /\ Waiting(q, h)

(* What the sender may still send of its block and the tester would take, and   *)
(* what the flow controls that wait will allow it, is no more than the tester   *)
(* has granted and not yet received.  The sum of what waits is a function f of  *)
(* the place from which on it counts.                                           *)
Size(f) == IF f.type = "continue" THEN f.size ELSE 0
Rest(t, h) ==
  IF t.state = "send" /\ h.parts # <<>> /\ Len(h.parts) = t.offset - 1
  THEN t.blockSize - t.blockSent ELSE 0
Sums(q, f) ==
  /\ f \in [1..Len(q) + 1 -> Nat]
  /\ \A i, j \in 1..Len(q) + 1 : i < j => f[i] >= f[j] + Size(q[i])
Fits(q, most) == \E f : Sums(q, f) /\ f[1] <= most
Limited(q) == \A i \in 1..Len(q) : q[i].type = "continue" => q[i].size # 0
Allowed(t, q, h) ==
  h.granted # Unlimited =>
    /\ Limited(q) /\ (t.state = "send" => t.blockSent < t.blockSize)
    /\ Fits(q, h.granted - Rest(t, h))

Good(s) ==
  /\ s \in State /\ Len(s.rx) <= Buffers
  /\ Whole(s.tp, s.rx, s.tester) /\ Allowed(s.tp, s.rx, s.tester)

Now == [tp |-> tp, rx |-> rx, tester |-> tester]

IInv ==
  /\ asked \in Seq(Kinds) /\ Len(asked) <= MaxRequests /\ waits \in Nat
  /\ Good(Now)

--------------------------------------------------------------------------------
(* Numbers                                                                      *)

LEMMA Settings ==
  /\ Frames \in Nat /\ Frames > 0 /\ Wrap \in Nat /\ Wrap > 1
  /\ Buffers \in Nat /\ Buffers > 0
  /\ Blocks \subseteq Nat /\ MaxRequests \in Nat
BY ObdAssumption

LEMMA BlockIsNat ==
  ASSUME NEW b \in {0} \cup Blocks
  PROVE  b \in Nat
<1>1. CASE b = 0
  BY <1>1
<1>2. CASE b \in Blocks
  BY <1>2, ObdAssumption
<1> QED BY <1>1, <1>2

(* Division leaves one remainder.                                               *)
LEMMA Remainder ==
  ASSUME NEW n \in Nat, NEW d \in Int, NEW r \in 0..Wrap - 1, n = Wrap * d + r
  PROVE  n % Wrap = r
<1> DEFINE e == n \div Wrap
           q == n % Wrap
<1>1. e \in Int /\ q \in 0..Wrap - 1 /\ n = Wrap * e + q
  BY Settings
<1> HIDE DEF e, q
<1>2. e > d => Wrap * e >= Wrap * d + Wrap
  BY <1>1, Settings
<1>3. e < d => Wrap * d >= Wrap * e + Wrap
  BY <1>1, Settings
<1>4. e = d
  BY <1>1, <1>2, <1>3, Settings
<1>5. q = r
  <2> DEFINE w == Wrap * d
  <2>1. w \in Int /\ n = w + r /\ n = w + q
    BY <1>1, <1>4, Settings
  <2> HIDE DEF w
  <2> QED BY <1>1, <2>1
<1> QED BY <1>5 DEF q

(* Indices of neighbours differ, and follow each other when they wrap.          *)
LEMMA NextIndex ==
  ASSUME NEW n \in Nat
  PROVE  /\ n % Wrap \in 0..Wrap - 1
         /\ ((n % Wrap) + 1) % Wrap = (n + 1) % Wrap
         /\ n % Wrap # (n + 1) % Wrap
<1> DEFINE r == n % Wrap
           d == n \div Wrap
<1>1. d \in Int /\ r \in 0..Wrap - 1 /\ n = Wrap * d + r
  BY Settings
<1>2. n + 1 \in Nat
  OBVIOUS
<1> HIDE DEF d, r
<1>3. CASE r + 1 < Wrap
  <2>1. r + 1 \in 0..Wrap - 1 /\ n + 1 = Wrap * d + (r + 1) /\ r + 1 \in Nat
    BY <1>1, <1>3, Settings
  <2>2. r + 1 = Wrap * 0 + (r + 1)
    BY <2>1, Settings
  <2>3. (r + 1) % Wrap = r + 1
    BY <2>1, <2>2, Remainder
  <2>4. (n + 1) % Wrap = r + 1
    BY <1>1, <1>2, <2>1, Remainder
  <2> QED BY <1>1, <2>3, <2>4 DEF r
<1>4. CASE r + 1 = Wrap
  <2>1. Wrap * (d + 1) = Wrap * d + Wrap
    BY <1>1, Settings
  <2>2. n + 1 = Wrap * (d + 1) + 0 /\ d + 1 \in Int /\ 0 \in 0..Wrap - 1
    BY <1>1, <1>4, <2>1, Settings
  <2>3. Wrap = Wrap * 1 + 0
    BY Settings
  <2>4. Wrap % Wrap = 0
    BY <2>2, <2>3, Remainder, Settings
  <2>5. (n + 1) % Wrap = 0
    BY <1>2, <2>2, Remainder
  <2>6. r # 0
    BY <1>1, <1>4, Settings
  <2> QED BY <1>1, <1>4, <2>4, <2>5, <2>6 DEF r
<1> QED BY <1>1, <1>3, <1>4, Settings

(* A set of numbers that is not empty has a least one.                          *)
LEMMA Least ==
  ASSUME NEW T \in SUBSET Nat, T # {}
  PROVE  \E x \in T : \A y \in T : x <= y
<1> DEFINE Below(t) == {u \in T : u < t}
           Family == {Below(t) : t \in T}
<1>1. \A t \in T : Below(t) \in FiniteSubsetsOf(Nat)
  <2> TAKE t \in T
  <2>1. T \subseteq Nat /\ t \in Nat /\ Below(t) \subseteq T
    OBVIOUS
  <2>2. \A u \in Below(t) : u <= t
    <3> TAKE u \in Below(t)
    <3>1. u \in Nat /\ u < t
      BY <2>1
    <3> QED BY <2>1, <3>1
  <2>3. IsFiniteSet(Below(t))
    <3> HIDE DEF Below
    <3> QED BY <2>1, <2>2, FS_BoundedSetOfNaturals
  <2> QED BY <2>3 DEF FiniteSubsetsOf
<1>2. Family \subseteq FiniteSubsetsOf(Nat) /\ Family # {}
  BY <1>1
<1> HIDE DEF Family
<1>3. PICK m \in Family : \A n \in Family : ~(<<n, m>> \in StrictSubsetOrdering(Nat))
  BY <1>2, WFMin, FS_StrictSubsetOrderingWellFounded
<1>4. PICK t \in T : m = Below(t)
  BY DEF Family
<1>5. ASSUME NEW u \in T, u < t PROVE FALSE
  <2>1. T \subseteq Nat /\ u \in Nat /\ t \in Nat
    OBVIOUS
  <2>2. Below(u) \subseteq Nat /\ Below(t) \subseteq Nat
    BY <2>1
  <2>3. Below(u) \subseteq Below(t)
    <3> SUFFICES ASSUME NEW v \in Below(u) PROVE v \in T /\ v < t
      OBVIOUS
    <3>1. v \in T /\ v \in Nat /\ v < u
      BY <2>1
    <3> QED BY <1>5, <2>1, <3>1
  <2>4. u \in Below(t) /\ u \notin Below(u)
    BY <1>5, <2>1
  <2>5. Below(u) \in Family
    BY DEF Family
  <2> HIDE DEF Below
  <2>6. <<Below(u), Below(t)>> \in StrictSubsetOrdering(Nat)
    BY <2>2, <2>3, <2>4 DEF StrictSubsetOrdering
  <2> QED BY <1>3, <1>4, <2>5, <2>6
<1> QED BY <1>5

(* A grant is used up one by one, and grows by what is added.                   *)
LEMMA GrantTyped ==
  ASSUME NEW n \in Grant
  PROVE  /\ Less(n) \in Grant
         /\ n = Unlimited <=> Less(n) = Unlimited
         /\ n \in Nat /\ n # 0 => Less(n) = n - 1
         /\ \A m \in Grant : More(n, m) \in Grant
BY DEF Grant, Less, More, Unlimited

--------------------------------------------------------------------------------
(* What the tester makes of a frame                                             *)

LEMMA QuitTyped ==
  ASSUME NEW h \in TesterType
  PROVE  /\ Quit(h) \in TesterType /\ Quit(h).awaits = 0 /\ Quit(h).parts = <<>>
         /\ Quit(h).granted = h.granted /\ Quit(h).received = h.received
<1>1. 0 \in 0..MaxRequests /\ 0 \in 0..Wrap - 1 /\ 0 \in Grant
  BY Settings DEF Grant
<1>2. <<>> \in Seq(Piece)
  OBVIOUS
<1> QED BY <1>1, <1>2 DEF Quit, TesterType

(* Whoever gave up or has what it asked for assembles nothing.                  *)
LEMMA QuitKeeps ==
  ASSUME NEW h \in TesterType, Assembled(h), asked \in Seq(Kinds)
  PROVE  Assembled(Quit(h)) /\ LastOf(Quit(h)) = LastOf(h)
<1>1. /\ Quit(h).awaits = 0 /\ Quit(h).parts = <<>> /\ Quit(h).received = h.received
  BY QuitTyped
<1>2. LastOf(Quit(h)) = LastOf(h)
  BY <1>1 DEF LastOf
<1>3. 0 <= Len(asked)
  BY LenProperties
<1> QED BY <1>1, <1>2, <1>3 DEF Assembled

(* A single frame is the whole answer, if it is taken.                          *)
LEMMA HearSingle ==
  ASSUME NEW h \in TesterType, Assembled(h), asked \in Seq(Kinds),
         Len(asked) <= MaxRequests,
         NEW r \in 1..Len(asked), asked[r] = "short", NEW k, k = Hear(h, Single(r))
  PROVE  \/ k = h
         \/ /\ h.parts = <<>> /\ h.awaits # 0
            /\ k \in TesterType /\ k.awaits = 0 /\ k.parts = <<>>
            /\ k.granted = h.granted
            /\ k.received = <<[of |-> r, part |-> 1]>>
<1> DEFINE f == Single(r)
<1>1. f.type = "single" /\ f.of = r /\ Part(f) = [of |-> r, part |-> 1]
  BY DEF Single, Part
<1>2. Part(f) \in Piece
  BY <1>1, Settings DEF Piece
<1>3. CASE ~Awaited(h, f)
  BY <1>1, <1>3 DEF Hear
<1>4. CASE Awaited(h, f)
  <2> DEFINE g == [h EXCEPT !.received = <<Part(f)>>]
  <2>1. <<Part(f)>> \in Seq(Piece)
    BY <1>2
  <2>2. g \in TesterType /\ g.received = <<Part(f)>> /\ g.granted = h.granted
    BY <2>1 DEF TesterType
  <2>3. k = Quit(g)
    BY <1>1, <1>4 DEF Hear
  <2>4. h.awaits # 0 /\ asked[h.awaits] = "short"
    BY <1>1, <1>4 DEF Awaited
  <2>5. h.parts = <<>>
    BY <2>4 DEF Assembled
  <2> HIDE DEF g
  <2> QED BY <1>1, <2>2, <2>3, <2>4, <2>5, QuitTyped
<1> QED BY <1>3, <1>4

(* A first frame begins an answer, if it is taken; who assembles a long answer  *)
(* takes it.                                                                    *)
LEMMA HearFirst ==
  ASSUME NEW h \in TesterType, Assembled(h), asked \in Seq(Kinds),
         Len(asked) <= MaxRequests,
         NEW r \in 1..Len(asked), asked[r] = "long", NEW k, k = Hear(h, First(r))
  PROVE  \/ k = h /\ h.parts = <<>>
         \/ /\ h.awaits # 0 /\ asked[h.awaits] = "long"
            /\ k \in TesterType /\ k.awaits = h.awaits
            /\ k.parts = <<[of |-> r, part |-> 1]>> /\ k.next = 1
            /\ k.granted = h.granted /\ k.received = h.received
<1> DEFINE f == First(r)
<1>1. f.type = "first" /\ f.of = r /\ Part(f) = [of |-> r, part |-> 1]
  BY DEF First, Part
<1>2. Part(f) \in Piece
  BY <1>1, Settings DEF Piece
<1>3. CASE ~Awaited(h, f)
  <2>1. k = h
    BY <1>1, <1>3 DEF Hear
  <2>2. h.parts = <<>>
    BY <1>1, <1>3 DEF Awaited, Assembled
  <2> QED BY <2>1, <2>2
<1>4. CASE Awaited(h, f)
  <2>1. <<Part(f)>> \in Seq(Piece) /\ 1 \in 0..Wrap - 1 /\ 0 \in Grant
    BY <1>2, Settings DEF Grant
  <2>2. k = [h EXCEPT !.parts = <<Part(f)>>, !.next = 1, !.left = 0, !.owes = TRUE]
    BY <1>1, <1>4 DEF Hear
  <2>3. h.awaits # 0 /\ asked[h.awaits] = "long"
    BY <1>1, <1>4 DEF Awaited
  <2> DEFINE parts == <<Part(f)>>
  <2>4. parts = <<[of |-> r, part |-> 1]>>
    BY <1>1
  <2> HIDE DEF f, parts
  <2>5. /\ k \in TesterType /\ k.awaits = h.awaits /\ k.parts = parts /\ k.next = 1
        /\ k.granted = h.granted /\ k.received = h.received
    BY <2>1, <2>2 DEF TesterType, parts
  <2> QED BY <2>3, <2>4, <2>5
<1> QED BY <1>3, <1>4

(* A consecutive frame is taken only as the part that comes next, and the last  *)
(* one completes the answer.                                                    *)
LEMMA HearNext ==
  ASSUME NEW t \in TransferType, Underway(t), t.state # "idle",
         NEW h \in TesterType, Assembled(h), InStep(t, h), asked \in Seq(Kinds),
         Len(asked) <= MaxRequests,
         NEW k, k = Hear(h, Consecutive(t))
  PROVE  \/ k = h /\ h.parts = <<>>
         \/ k = Quit(h) /\ h.parts # <<>>
         \/ /\ h.parts # <<>> /\ h.parts[1].of = t.of /\ Len(h.parts) = t.offset - 1
            /\ k \in TesterType
            /\ \/ /\ t.offset <= Frames
                  /\ k.awaits = h.awaits /\ k.received = h.received
                  /\ k.parts = Append(h.parts, [of |-> t.of, part |-> t.offset])
                  /\ k.next = t.offset % Wrap /\ k.granted = Less(h.granted)
               \/ /\ t.offset = Frames + 1
                  /\ k.awaits = 0 /\ k.parts = <<>> /\ k.granted = h.granted
                  /\ k.received = Append(h.parts, [of |-> t.of, part |-> t.offset])
<1> DEFINE f == Consecutive(t)
           p == [of |-> t.of, part |-> t.offset]
<1>1. f.type = "next" /\ f.index = t.index /\ Part(f) = p
  BY DEF Consecutive, Part
<1>2. /\ t.of \in 1..Len(asked) /\ t.offset \in 2..Frames + 1
      /\ t.index = (t.offset - 1) % Wrap
  BY Settings DEF Underway, TransferType
<1>3. p \in Piece
  <2>1. Len(asked) \in Nat
    BY LenProperties
  <2>2. t.of \in 1..MaxRequests /\ t.offset \in 1..Frames + 1
    BY <1>2, <2>1, Settings
  <2> QED BY <2>2 DEF Piece
<1> HIDE DEF p
<1>4. CASE h.parts = <<>>
  BY <1>1, <1>4 DEF Hear
<1>5. CASE h.parts # <<>> /\ t.index # h.next
  BY <1>1, <1>5 DEF Hear
<1>6. CASE h.parts # <<>> /\ t.index = h.next
  <2>1. k = Take(h, f)
    BY <1>1, <1>6 DEF Hear
  <2>2. /\ h.parts[1].of = t.of /\ Len(h.parts) \in {t.offset - 1, t.offset}
        /\ h.next = Len(h.parts) % Wrap
    BY <1>6 DEF InStep, Assembled
  <2>3. t.offset - 1 \in Nat /\ t.offset \in Nat /\ (t.offset - 1) + 1 = t.offset
    BY <1>2
  <2>4. (t.offset - 1) % Wrap # t.offset % Wrap
    BY <2>3, NextIndex
  <2>5. Len(h.parts) = t.offset - 1
    BY <1>2, <1>6, <2>2, <2>4
  <2> DEFINE parts == Append(h.parts, p)
  <2>6. h.parts \in Seq(Piece)
    BY DEF TesterType
  <2>7. parts \in Seq(Piece) /\ Len(parts) = t.offset
    BY <1>3, <2>3, <2>5, <2>6
  <2> HIDE DEF parts
  <2>8. CASE t.offset = Frames + 1
    <3> DEFINE g == [h EXCEPT !.received = parts]
    <3>1. g \in TesterType /\ g.received = parts /\ g.granted = h.granted
      BY <2>7 DEF TesterType
    <3>2. k = Quit(g)
      BY <1>1, <2>1, <2>7, <2>8 DEF Take, parts
    <3> HIDE DEF g
    <3> QED BY <1>6, <2>2, <2>5, <2>8, <3>1, <3>2, QuitTyped DEF parts, p
  <2>9. CASE t.offset <= Frames
    <3>1. Len(parts) # Frames + 1
      BY <2>3, <2>7, <2>9, Settings
    <3>2. k = [h EXCEPT !.parts = parts, !.next = (@ + 1) % Wrap, !.left = Less(@),
                        !.granted = Less(@), !.owes = @ \/ h.left = 1]
      BY <1>1, <2>1, <3>1 DEF Take, parts
    <3>3. h.left \in Grant /\ h.granted \in Grant
      BY DEF TesterType
    <3>4. (h.next + 1) % Wrap = t.offset % Wrap /\ t.offset % Wrap \in 0..Wrap - 1
      BY <2>2, <2>3, <2>5, NextIndex
    <3>5. Less(h.left) \in Grant /\ Less(h.granted) \in Grant
      BY <3>3, GrantTyped
    <3> DEFINE owes == h.owes \/ h.left = 1
    <3>6. owes \in BOOLEAN
      BY DEF TesterType
    <3> HIDE DEF owes
    <3>7. k = [h EXCEPT !.parts = parts, !.next = t.offset % Wrap, !.left = Less(h.left),
                        !.granted = Less(h.granted), !.owes = owes]
      BY <3>2, <3>4 DEF owes, TesterType
    <3>8. /\ k \in TesterType /\ k.awaits = h.awaits /\ k.received = h.received
          /\ k.parts = parts /\ k.next = t.offset % Wrap /\ k.granted = Less(h.granted)
      BY <2>7, <3>4, <3>5, <3>6, <3>7 DEF TesterType
    <3> QED BY <1>6, <2>2, <2>5, <2>9, <3>8 DEF parts, p
  <2> QED BY <1>2, <2>8, <2>9, Settings
<1> QED BY <1>4, <1>5, <1>6

(* The parts of a long answer in their order are that answer.                   *)
LEMMA AllParts ==
  ASSUME NEW h \in TesterType, Assembled(h), h.parts # <<>>, Len(h.parts) = Frames,
         NEW r, r = h.parts[1].of
  PROVE  Append(h.parts, [of |-> r, part |-> Frames + 1]) = Delivery!Answer(r)
<1> DEFINE p == [of |-> r, part |-> Frames + 1]
           a == Append(h.parts, p)
<1>1. h.parts \in Seq(Piece)
  BY DEF TesterType
<1>2. /\ asked[r] = "long"
      /\ \A i \in 1..Frames : h.parts[i] = [of |-> r, part |-> i]
  BY DEF Assembled
<1>3. Delivery!Answer(r) = [i \in 1..Frames + 1 |-> [of |-> r, part |-> i]]
  BY <1>2 DEF Delivery!Answer, Delivery!Parts
<1>4. a = [i \in 1..Len(h.parts) + 1 |-> IF i <= Len(h.parts) THEN h.parts[i] ELSE p]
  BY <1>1
<1>5. \A i \in 1..Frames + 1 : a[i] = [of |-> r, part |-> i]
  BY <1>2, <1>4, Settings
<1> HIDE DEF a
<1> QED BY <1>3, <1>4, <1>5 DEF a

--------------------------------------------------------------------------------
(* The frames that wait                                                         *)

LEMMA SizeTyped ==
  ASSUME NEW x \in Received
  PROVE  /\ Size(x) \in Nat
         /\ x.type # "continue" => Size(x) = 0
<1>1. CASE x \in [type : {"request"}, of : 1..MaxRequests]
  BY <1>1 DEF Size
<1>2. CASE x \in [type : {"continue", "wait", "abort"}, size : {0} \cup Blocks,
                  apart : BOOLEAN]
  <2>1. x.size \in {0} \cup Blocks
    BY <1>2
  <2>2. x.size \in Nat
    BY <2>1, BlockIsNat
  <2> QED BY <2>2 DEF Size
<1> QED BY <1>1, <1>2 DEF Received

(* What is left when the first n frames have been read.                         *)
Dropped(q, n, p) ==
  Len(p) = Len(q) - n /\ \A i \in 1..Len(p) : p[i] = q[i + n]

LEMMA DropOrder ==
  ASSUME NEW q \in Seq(Received), NEW p \in Seq(Received), NEW n \in 0..Len(q),
         Dropped(q, n, p)
  PROVE  /\ InOrder(q) => InOrder(p)
         /\ Limited(q) => Limited(p)
         /\ \A m : NewerThan(q, m) => NewerThan(p, m)
<1>0. Len(q) \in Nat /\ Len(p) \in Nat /\ Len(p) = Len(q) - n
  BY DEF Dropped
<1>1. \A i \in 1..Len(p) : i + n \in 1..Len(q) /\ p[i] = q[i + n]
  BY <1>0 DEF Dropped
<1>2. InOrder(q) => InOrder(p)
  <2> SUFFICES ASSUME InOrder(q), NEW i \in 1..Len(p), p[i].type = "request"
               PROVE  /\ p[i].of <= Len(asked)
                      /\ \A j \in 1..i - 1 : p[j].type = "request" => p[j].of < p[i].of
    BY DEF InOrder
  <2>1. i + n \in 1..Len(q) /\ q[i + n].type = "request"
    BY <1>1
  <2>2. ASSUME NEW j \in 1..i - 1, p[j].type = "request"
        PROVE  p[j].of < p[i].of
    <3>1. j \in 1..Len(p) /\ j + n \in 1..(i + n) - 1
      BY <1>0, <2>1
    <3> QED BY <1>1, <2>1, <2>2, <3>1 DEF InOrder
  <2> QED BY <1>1, <2>1, <2>2 DEF InOrder
<1>3. Limited(q) => Limited(p)
  BY <1>1 DEF Limited
<1>4. ASSUME NEW m, NewerThan(q, m)
      PROVE  NewerThan(p, m)
  BY <1>1, <1>4 DEF NewerThan
<1> QED BY <1>2, <1>3, <1>4

(* What waits behind the n-th frame fits beside that frame.                     *)
LEMMA DropFits ==
  ASSUME NEW q \in Seq(Received), NEW p \in Seq(Received), NEW n \in 0..Len(q),
         Dropped(q, n, p), NEW most \in Int, Fits(q, most)
  PROVE  /\ Fits(p, most)
         /\ n > 0 => Fits(p, most - Size(q[n]))
<1>0. Len(q) \in Nat /\ Len(p) \in Nat /\ Len(p) = Len(q) - n
  BY DEF Dropped
<1>1. PICK f : Sums(q, f) /\ f[1] <= most
  BY DEF Fits
<1> DEFINE g == [i \in 1..Len(p) + 1 |-> f[i + n]]
<1>2. \A i \in 1..Len(p) + 1 : i + n \in 1..Len(q) + 1 /\ f[i + n] \in Nat
  BY <1>0, <1>1 DEF Sums
<1>3. Sums(p, g)
  <2>1. g \in [1..Len(p) + 1 -> Nat]
    BY <1>2
  <2>2. ASSUME NEW i \in 1..Len(p) + 1, NEW j \in 1..Len(p) + 1, i < j
        PROVE  g[i] >= g[j] + Size(p[i])
    <3>0. i \in 1..Len(p)
      BY <1>0, <2>2
    <3>1. i \in 1..Len(p) /\ p[i] = q[i + n]
      BY <3>0 DEF Dropped
    <3>2. i + n < j + n
      BY <1>0, <2>2
    <3>3. f[i + n] >= f[j + n] + Size(q[i + n])
      BY <1>1, <1>2, <3>2 DEF Sums
    <3> QED BY <3>1, <3>3
  <2> QED BY <2>1, <2>2 DEF Sums
<1>4. g[1] = f[n + 1] /\ 1 \in 1..Len(p) + 1 /\ g[1] \in Nat
  BY <1>0, <1>2
<1>5. CASE n = 0
  BY <1>1, <1>3, <1>4, <1>5 DEF Fits
<1>6. CASE n > 0
  <2>1. n \in 1..Len(q) + 1 /\ n + 1 \in 1..Len(q) + 1 /\ 1 \in 1..Len(q) + 1 /\ n < n + 1
    BY <1>0, <1>6
  <2>2. f[n] \in Nat /\ f[n + 1] \in Nat /\ f[1] \in Nat
    BY <1>1, <2>1 DEF Sums
  <2>3. f[n] >= f[n + 1] + Size(q[n])
    BY <1>1, <2>1 DEF Sums
  <2>4. Size(q[n]) \in Nat /\ Size(q[1]) \in Nat
    <3>1. q[n] \in Received /\ q[1] \in Received
      BY <1>0, <1>6
    <3> QED BY <3>1, SizeTyped
  <2>5. f[1] >= f[n]
    <3>1. CASE n = 1
      BY <2>2, <3>1
    <3>2. CASE n > 1
      <4>1. f[1] >= f[n] + Size(q[1])
        BY <1>1, <2>1, <3>2 DEF Sums
      <4> QED BY <2>2, <2>4, <4>1
    <3> QED BY <2>1, <3>1, <3>2
  <2>6. g[1] <= most /\ g[1] <= most - Size(q[n])
    <3> DEFINE z == Size(q[n])
    <3>1. z \in Nat /\ f[n] >= g[1] + z /\ f[1] >= f[n] /\ f[1] <= most
      BY <1>1, <1>4, <2>3, <2>4, <2>5
    <3> HIDE DEF z, g
    <3>2. g[1] \in Nat /\ f[1] \in Nat /\ f[n] \in Nat
      BY <1>4, <2>2
    <3>3. g[1] <= most /\ g[1] <= most - z
      BY <3>1, <3>2
    <3> QED BY <3>3 DEF z
  <2> HIDE DEF g
  <2> QED BY <1>3, <2>6 DEF Fits
<1> QED BY <1>0, <1>5, <1>6

LEMMA MoreFits ==
  ASSUME NEW q \in Seq(Received), NEW m \in Int, NEW n \in Int, m <= n, Fits(q, m)
  PROVE  Fits(q, n)
<1>1. PICK f : Sums(q, f) /\ f[1] <= m
  BY DEF Fits
<1>2. f[1] \in Nat
  BY <1>1 DEF Sums
<1>3. f[1] <= n
  BY <1>1, <1>2
<1> QED BY <1>1, <1>3 DEF Fits

LEMMA AppendFits ==
  ASSUME NEW q \in Seq(Received), NEW x \in Received, NEW most \in Int, Fits(q, most)
  PROVE  Fits(Append(q, x), most + Size(x))
<1>1. PICK f : Sums(q, f) /\ f[1] <= most
  BY DEF Fits
<1>2. Len(q) \in Nat /\ Size(x) \in Nat
  BY SizeTyped
<1> DEFINE p == Append(q, x)
           n == Len(q)
           z == Size(x)
           g == [i \in 1..n + 2 |-> IF i = n + 2 THEN 0 ELSE f[i] + z]
<1>3. /\ p \in Seq(Received) /\ Len(p) = n + 1
      /\ \A i \in 1..n : p[i] = q[i]
      /\ p[n + 1] = x
  OBVIOUS
<1> HIDE DEF p, n, z
<1>4. n \in Nat /\ z \in Nat /\ \A i \in 1..n + 1 : f[i] \in Nat
  BY <1>1, <1>2 DEF Sums, n, z
<1>5. g \in [1..n + 2 -> Nat]
  BY <1>4
<1>6. ASSUME NEW i \in 1..n + 2, NEW j \in 1..n + 2, i < j
      PROVE  g[i] >= g[j] + Size(p[i])
  <2>0. i \in 1..n + 1 /\ i # n + 2 /\ g[i] = f[i] + z /\ f[i] \in Nat
    BY <1>4, <1>6
  <2>1. CASE j = n + 2 /\ i = n + 1
    BY <1>3, <1>4, <2>0, <2>1 DEF z
  <2>2. CASE j = n + 2 /\ i < n + 1
    <3>1. i \in 1..n /\ p[i] = q[i] /\ n + 1 \in 1..n + 1
      BY <1>3, <1>4, <2>0, <2>2
    <3>2. f[i] >= f[n + 1] + Size(q[i])
      BY <1>1, <1>4, <2>0, <2>2, <3>1 DEF Sums, n
    <3>3. Size(q[i]) \in Nat /\ f[n + 1] \in Nat
      BY <1>4, <3>1, SizeTyped DEF n
    <3> QED BY <1>4, <2>0, <2>2, <3>1, <3>2, <3>3
  <2>3. CASE j < n + 2
    <3>1. j \in 1..n + 1 /\ i \in 1..n /\ p[i] = q[i] /\ g[j] = f[j] + z /\ f[j] \in Nat
      BY <1>3, <1>4, <1>6, <2>0, <2>3
    <3>2. f[i] >= f[j] + Size(q[i])
      BY <1>1, <1>6, <2>0, <3>1 DEF Sums, n
    <3>3. Size(q[i]) \in Nat
      BY <3>1, SizeTyped DEF n
    <3> QED BY <1>4, <2>0, <3>1, <3>2, <3>3
  <2> QED BY <1>4, <1>6, <2>0, <2>1, <2>2, <2>3
<1>7. Sums(p, g)
  BY <1>3, <1>4, <1>5, <1>6 DEF Sums
<1>8. g[1] = f[1] + z /\ g[1] <= most + z
  BY <1>1, <1>4
<1> HIDE DEF g
<1> QED BY <1>7, <1>8 DEF Fits, p, z
--------------------------------------------------------------------------------
(* A pass                                                                       *)

LEMMA RestTyped ==
  ASSUME NEW t \in TransferType, NEW h \in TesterType
  PROVE  /\ Rest(t, h) \in Int
         /\ t.state # "send" \/ h.parts = <<>> => Rest(t, h) = 0
         /\ (t.state = "send" => t.blockSent < t.blockSize) => Rest(t, h) >= 0
<1>1. t.blockSent \in Nat /\ t.blockSize \in {0} \cup Blocks
  BY DEF TransferType
<1>2. t.blockSize \in Nat
  BY <1>1, BlockIsNat
<1> QED BY <1>1, <1>2 DEF Rest

(* A step that reads nothing keeps what is good when the transfer and the       *)
(* tester agree afterwards and nothing was taken beyond the grant.              *)
LEMMA Kept ==
  ASSUME NEW s, Good(s), NEW u \in TransferType, NEW k \in TesterType,
         Underway(u), Assembled(k), InStep(u, k), Waiting(s.rx, k),
         s.tester.granted = Unlimited => k.granted = Unlimited,
         s.tester.granted # Unlimited =>
           /\ u.state = "send" => u.blockSent < u.blockSize
           /\ k.granted - Rest(u, k) >= s.tester.granted - Rest(s.tp, s.tester)
  PROVE  Good([tp |-> u, rx |-> s.rx, tester |-> k])
<1> DEFINE d == [tp |-> u, rx |-> s.rx, tester |-> k]
<1>1. /\ s.tp \in TransferType /\ s.rx \in Seq(Received) /\ s.tester \in TesterType
  BY DEF Good, State
<1>2. d \in State /\ d.tp = u /\ d.rx = s.rx /\ d.tester = k
  BY <1>1 DEF State
<1>3. ASSUME k.granted # Unlimited
      PROVE  /\ Limited(s.rx) /\ (u.state = "send" => u.blockSent < u.blockSize)
             /\ Fits(s.rx, k.granted - Rest(u, k))
  <2>1. /\ s.tester.granted # Unlimited /\ Limited(s.rx)
        /\ Fits(s.rx, s.tester.granted - Rest(s.tp, s.tester))
    BY <1>3 DEF Good, Allowed
  <2>2. k.granted \in Int /\ s.tester.granted \in Int
    BY <1>1 DEF TesterType, Grant, Unlimited
  <2>3. Rest(u, k) \in Int /\ Rest(s.tp, s.tester) \in Int
    BY <1>1, RestTyped
  <2>4. /\ k.granted - Rest(u, k) \in Int
        /\ s.tester.granted - Rest(s.tp, s.tester) \in Int
    BY <2>2, <2>3
  <2>5. Fits(s.rx, k.granted - Rest(u, k))
    BY <1>1, <2>1, <2>4, MoreFits
  <2> QED BY <2>1, <2>5
<1> HIDE DEF d
<1>4. Allowed(u, s.rx, k)
  BY <1>3 DEF Allowed
<1>5. Whole(u, s.rx, k) /\ Len(s.rx) <= Buffers
  BY DEF Whole, Good
<1>6. Good(d)
  BY <1>2, <1>4, <1>5 DEF Good
<1> QED BY <1>6 DEF d

(* The sender after a frame it takes for sent.                                  *)
LEMMA AdvancedTyped ==
  ASSUME NEW t \in TransferType, Underway(t), t.state = "send", NEW u, u = Advanced(t)
  PROVE  /\ u \in TransferType /\ Underway(u)
         /\ u.of = t.of /\ u.offset = t.offset + 1
         /\ t.offset = Frames + 1 => u.state = "idle"
         /\ t.offset # Frames + 1 =>
              \/ u.state = "wait" /\ t.blockSent + 1 >= t.blockSize
              \/ /\ u.state = "send" /\ u.blockSize = t.blockSize
                 /\ t.blockSize # 0 =>
                      u.blockSent = t.blockSent + 1 /\ u.blockSent < u.blockSize
<1> DEFINE sent == IF t.blockSize = 0 THEN t.blockSent ELSE t.blockSent + 1
           a == [t EXCEPT !.offset = t.offset + 1, !.index = t.offset % Wrap,
                          !.resting = t.stMin, !.late = FALSE, !.blockSent = sent]
<1>1. /\ t.offset \in 2..Frames + 1 /\ t.index = (t.offset - 1) % Wrap
      /\ t.of \in 1..Len(asked) /\ asked[t.of] = "long"
  BY Settings DEF Underway, TransferType
<1>2. t.offset - 1 \in Nat /\ t.offset \in Nat /\ (t.offset - 1) + 1 = t.offset
  BY <1>1
<1>3. /\ (t.index + 1) % Wrap = t.offset % Wrap
      /\ t.offset % Wrap \in 0..Wrap - 1
  BY <1>1, <1>2, NextIndex
<1>4. t.blockSent \in Nat /\ t.blockSize \in {0} \cup Blocks /\ t.stMin \in BOOLEAN
  BY DEF TransferType
<1>5. t.blockSize \in Nat
  BY <1>4, BlockIsNat
<1>6. sent \in Nat
  BY <1>4
<1>7. t.offset + 1 \in 2..Frames + 2
  BY <1>1, Settings
<1>8. u = IF t.offset + 1 > Frames + 1 THEN Stopped(a)
          ELSE IF BlockDone(a) THEN [a EXCEPT !.state = "wait", !.blockSent = 0] ELSE a
  <2> DEFINE b == [t EXCEPT !.offset = @ + 1, !.index = (@ + 1) % Wrap, !.resting = t.stMin,
                            !.late = FALSE,
                            !.blockSent = IF t.blockSize = 0 THEN @ ELSE @ + 1]
  <2>1. a = b
    BY <1>3 DEF TransferType
  <2>2. a.offset = t.offset + 1 /\ t.offset + 1 \in Int /\ Frames + 1 \in Int
    BY <1>7, Settings DEF TransferType
  <2>3. u = CASE b.offset > Frames + 1 -> Stopped(b)
              [] b.offset <= Frames + 1 /\ BlockDone(b) ->
                   [b EXCEPT !.state = "wait", !.blockSent = 0]
              [] OTHER -> b
    BY DEF Advanced
  <2> HIDE DEF a, b
  <2>4. /\ b.offset > Frames + 1 <=> ~(b.offset <= Frames + 1)
        /\ b.offset = t.offset + 1
    BY <2>1, <2>2
  <2>5. u = IF b.offset > Frames + 1 THEN Stopped(b)
            ELSE IF BlockDone(b) THEN [b EXCEPT !.state = "wait", !.blockSent = 0] ELSE b
    BY <2>3, <2>4
  <2> QED BY <2>1, <2>4, <2>5
<1> HIDE DEF sent
<1>9. /\ a \in TransferType /\ a.state = "send" /\ a.of = t.of
      /\ a.offset = t.offset + 1 /\ a.index = t.offset % Wrap
      /\ a.blockSize = t.blockSize /\ a.blockSent = sent
  BY <1>3, <1>4, <1>6, <1>7 DEF TransferType
<1> HIDE DEF a
<1>10. CASE t.offset = Frames + 1
  <2>1. u = [a EXCEPT !.state = "idle"]
    BY <1>1, <1>8, <1>10, Settings DEF Stopped
  <2> QED BY <1>9, <1>10, <2>1 DEF TransferType, Underway
<1>11. CASE t.offset # Frames + 1
  <2>1. t.offset + 1 <= Frames + 1 /\ (t.offset + 1) - 1 = t.offset
    BY <1>1, <1>11, Settings
  <2>2. u = IF BlockDone(a) THEN [a EXCEPT !.state = "wait", !.blockSent = 0] ELSE a
    BY <1>7, <1>8, <2>1, Settings
  <2>3. CASE BlockDone(a)
    <3>1. t.blockSent + 1 >= t.blockSize
      BY <1>4, <1>5, <1>9, <2>3 DEF BlockDone, sent
    <3>2. u = [a EXCEPT !.state = "wait", !.blockSent = 0]
      BY <2>2, <2>3
    <3> DEFINE c == [a EXCEPT !.blockSent = 0]
    <3>5. /\ c \in TransferType /\ c.of = t.of
          /\ c.offset = t.offset + 1 /\ c.index = t.offset % Wrap
      BY <1>9 DEF TransferType
    <3>6. u = [c EXCEPT !.state = "wait"]
      BY <1>9, <3>2 DEF TransferType
    <3> HIDE DEF c
    <3>3. /\ u \in TransferType /\ u.state = "wait" /\ u.of = t.of
          /\ u.offset = t.offset + 1 /\ u.index = t.offset % Wrap
      BY <3>5, <3>6 DEF TransferType
    <3>4. Underway(u)
      BY <1>1, <2>1, <3>3 DEF Underway
    <3> QED BY <1>11, <3>1, <3>3, <3>4
  <2>4. CASE ~BlockDone(a)
    <3>1. t.blockSize # 0 => sent = t.blockSent + 1 /\ sent < t.blockSize
      BY <1>4, <1>5, <1>6, <1>9, <2>4 DEF BlockDone, sent
    <3>2. u = a
      BY <2>2, <2>4
    <3>3. Underway(u)
      BY <1>1, <1>9, <2>1, <3>2 DEF Underway
    <3> QED BY <1>9, <1>11, <3>1, <3>2, <3>3
  <2> QED BY <2>3, <2>4
<1> QED BY <1>10, <1>11

(* What a good state is made of.                                                *)
LEMMA GoodParts ==
  ASSUME NEW s, Good(s)
  PROVE  /\ s \in State
         /\ s.tp \in TransferType /\ s.rx \in Seq(Received) /\ s.tester \in TesterType
         /\ Len(s.rx) <= Buffers
         /\ Underway(s.tp) /\ Assembled(s.tester) /\ InStep(s.tp, s.tester)
         /\ Waiting(s.rx, s.tester) /\ Allowed(s.tp, s.rx, s.tester)
         /\ s = [tp |-> s.tp, rx |-> s.rx, tester |-> s.tester]
BY DEF Good, State, Whole

LEMMA GrantIsNumber ==
  ASSUME NEW h \in TesterType
  PROVE  h.granted \in Int /\ (h.granted # Unlimited => h.granted \in Nat)
BY DEF TesterType, Grant, Unlimited

(* A tester that assembles nothing has granted what it had granted.             *)
LEMMA Emptied ==
  ASSUME NEW s, Good(s), NEW u \in TransferType, NEW k \in TesterType,
         Underway(u), Assembled(k), k.parts = <<>>, k.granted = s.tester.granted,
         NewerThan(s.rx, LastOf(k)),
         s.tester.granted # Unlimited /\ u.state = "send" => u.blockSent < u.blockSize
  PROVE  Good([tp |-> u, rx |-> s.rx, tester |-> k])
<1> DEFINE t == s.tp
           h == s.tester
<1>1. t \in TransferType /\ h \in TesterType /\ Waiting(s.rx, h) /\ Allowed(t, s.rx, h)
  BY GoodParts
<1>2. InStep(u, k) /\ Waiting(s.rx, k)
  BY <1>1 DEF InStep, Waiting
<1>3. ASSUME h.granted # Unlimited
      PROVE  k.granted - Rest(u, k) >= h.granted - Rest(t, h)
  <2>1. t.state = "send" => t.blockSent < t.blockSize
    BY <1>1, <1>3 DEF Allowed
  <2>2. Rest(t, h) \in Int /\ Rest(t, h) >= 0
    BY <1>1, <2>1, RestTyped
  <2>3. Rest(u, k) = 0
    BY RestTyped
  <2>4. h.granted \in Int
    BY <1>1, GrantIsNumber
  <2> QED BY <2>2, <2>3, <2>4
<1> QED BY <1>2, <1>3, Kept

(* A part of the pass does to the tester one of these things: nothing, end its  *)
(* reception, hand it a part within the grant, or complete an answer newer than *)
(* the last one.                                                                *)
Completes(h, k) ==
  /\ k.awaits = 0 /\ k.parts = <<>>
  /\ \E r \in LastOf(h) + 1..Len(asked) : k.received = Delivery!Answer(r)
Takes(h, k) ==
  \/ k = h
  \/ k.awaits = 0 /\ k.parts = <<>> /\ k.received = h.received
  \/ h.granted # 0 /\ (k.received = h.received \/ Completes(h, k))
Begins(h, k) ==
  \/ k = h
  \/ h.awaits # 0 /\ h.parts = <<>> /\ Completes(h, k)
  \/ h.awaits # 0 /\ k.received = h.received /\ Len(k.parts) = 1

(* A frame that is taken was granted.                                           *)
LEMMA WasGranted ==
  ASSUME NEW s, Good(s), s.tp.state = "send", s.tester.parts # <<>>,
         Len(s.tester.parts) = s.tp.offset - 1
  PROVE  /\ s.tester.granted # 0
         /\ s.tester.granted # Unlimited =>
              /\ Rest(s.tp, s.tester) = s.tp.blockSize - s.tp.blockSent
              /\ Rest(s.tp, s.tester) \in Nat /\ Rest(s.tp, s.tester) >= 1
<1> DEFINE t == s.tp
           h == s.tester
<1>1. t \in TransferType /\ h \in TesterType /\ Allowed(t, s.rx, h)
  BY GoodParts
<1>2. t.blockSent \in Nat /\ t.blockSize \in {0} \cup Blocks
  BY <1>1 DEF TransferType
<1>3. t.blockSize \in Nat
  BY <1>2, BlockIsNat
<1>4. Rest(t, h) = t.blockSize - t.blockSent
  BY DEF Rest
<1>5. ASSUME h.granted = 0
      PROVE  FALSE
  <2>1. t.blockSent < t.blockSize /\ Fits(s.rx, h.granted - Rest(t, h))
    BY <1>1, <1>5 DEF Allowed, Unlimited
  <2>2. PICK f : Sums(s.rx, f) /\ f[1] <= h.granted - Rest(t, h)
    BY <2>1 DEF Fits
  <2>3. f[1] \in Nat
    <3>1. Len(s.rx) \in Nat
      BY GoodParts
    <3> QED BY <2>2, <3>1 DEF Sums
  <2> QED BY <1>2, <1>3, <1>4, <1>5, <2>1, <2>2, <2>3
<1>6. h.granted # Unlimited => t.blockSent < t.blockSize
  BY <1>1 DEF Allowed
<1>7. t.blockSent < t.blockSize => Rest(t, h) \in Nat /\ Rest(t, h) >= 1
  BY <1>2, <1>3, <1>4
<1> QED BY <1>4, <1>5, <1>6, <1>7

(* The sends of SendConsecutive, one by one: the frame goes out and the send    *)
(* succeeds or not, or it does not go out.                                      *)
LEMMA SendCases ==
  ASSUME NEW s \in State, NEW d \in SendConsecutive(s)
  PROVE  \/ d = s
         \/ \E u, k :
              /\ d = [tp |-> u, rx |-> s.rx, tester |-> k]
              /\ \/ u = Advanced(s.tp) /\ k = Hear(s.tester, Consecutive(s.tp))
                 \/ /\ u \in {s.tp, Stopped(s.tp)}
                    /\ k \in {s.tester, Hear(s.tester, Consecutive(s.tp))}
<1> DEFINE g == Hear(s.tester, Consecutive(s.tp))
<1>1. CASE s.tp.resting
  BY <1>1 DEF SendConsecutive
<1>2. CASE ~s.tp.resting
  <2>1. PICK x \in Sends(s, Consecutive(s.tp)) :
          d = [x.s EXCEPT !.tp = IF x.ok THEN Advanced(@) ELSE AfterFailure(@)]
    BY <1>2 DEF SendConsecutive
  <2>2. /\ x.s \in {s, [s EXCEPT !.tester = g]}
        /\ x.ok => x.s = [s EXCEPT !.tester = g]
    BY <2>1 DEF Sends
  <2>3. PICK k : x.s = [tp |-> s.tp, rx |-> s.rx, tester |-> k]
                 /\ k \in {s.tester, g} /\ (x.ok => k = g)
    BY <2>2 DEF State
  <2>4. d = [tp |-> IF x.ok THEN Advanced(s.tp) ELSE AfterFailure(s.tp),
             rx |-> s.rx, tester |-> k]
    BY <2>1, <2>3
  <2>5. AfterFailure(s.tp) \in {s.tp, Stopped(s.tp)}
    BY DEF AfterFailure
  <2> HIDE DEF g
  <2> QED BY <2>3, <2>4, <2>5 DEF g
<1> QED BY <1>1, <1>2

LEMMA Appended ==
  ASSUME NEW q \in Seq(Piece), NEW x
  PROVE  /\ Len(Append(q, x)) = Len(q) + 1
         /\ \A i \in 1..Len(q) : Append(q, x)[i] = q[i]
         /\ Append(q, x)[Len(q) + 1] = x
OBVIOUS

(* A transfer that goes on as it is, or stops.                                  *)
LEMMA StoppedTyped ==
  ASSUME NEW t \in TransferType, Underway(t), NEW u, u \in {t, Stopped(t)}
  PROVE  /\ u \in TransferType /\ Underway(u) /\ (u = t \/ u.state = "idle")
         /\ u.of = t.of /\ u.offset = t.offset /\ u.blockSent = t.blockSent
         /\ u.blockSize = t.blockSize
BY DEF Stopped, Underway, TransferType

(* The sender stops, or goes on, and the tester heard nothing.                  *)
LEMMA StopKeeps ==
  ASSUME NEW s, Good(s), NEW u, u \in {s.tp, Stopped(s.tp)}
  PROVE  Good([tp |-> u, rx |-> s.rx, tester |-> s.tester])
<1> DEFINE t == s.tp
           h == s.tester
<1>1. /\ t \in TransferType /\ h \in TesterType /\ Underway(t) /\ Assembled(h)
      /\ InStep(t, h) /\ Waiting(s.rx, h) /\ Allowed(t, s.rx, h)
  BY GoodParts
<1>2. CASE u = t
  BY <1>2, GoodParts
<1>3. CASE u # t
  <2>1. u \in TransferType /\ Underway(u) /\ u.state = "idle"
    BY <1>1, <1>3, StoppedTyped
  <2>2. InStep(u, h)
    BY <2>1 DEF InStep
  <2>3. ASSUME h.granted # Unlimited
        PROVE  h.granted - Rest(u, h) >= h.granted - Rest(t, h)
    <3>1. t.state = "send" => t.blockSent < t.blockSize
      BY <1>1, <2>3 DEF Allowed
    <3>2. Rest(t, h) \in Int /\ Rest(t, h) >= 0
      BY <1>1, <3>1, RestTyped
    <3>3. Rest(u, h) = 0
      BY <1>1, <2>1, RestTyped
    <3>4. h.granted \in Int
      BY <1>1, GrantIsNumber
    <3> QED BY <3>2, <3>3, <3>4
  <2> QED BY <1>1, <2>1, <2>2, <2>3, Kept
<1> QED BY <1>2, <1>3

(* The tester took the part, and it is not the last.                            *)
LEMMA PartKeeps ==
  ASSUME NEW s, Good(s), asked \in Seq(Kinds),
         s.tp.state = "send", s.tester.parts # <<>>, s.tester.parts[1].of = s.tp.of,
         Len(s.tester.parts) = s.tp.offset - 1, s.tp.offset <= Frames,
         NEW k \in TesterType, k.awaits = s.tester.awaits,
         k.received = s.tester.received, k.granted = Less(s.tester.granted),
         k.parts = Append(s.tester.parts, [of |-> s.tp.of, part |-> s.tp.offset]),
         k.next = s.tp.offset % Wrap,
         NEW u \in TransferType, Underway(u), u.of = s.tp.of,
         \/ u = s.tp \/ u.state = "idle"
         \/ /\ u.offset = s.tp.offset + 1
            /\ \/ u.state = "wait" /\ s.tp.blockSent + 1 >= s.tp.blockSize
               \/ /\ u.state = "send" /\ u.blockSize = s.tp.blockSize
                  /\ s.tp.blockSize # 0 =>
                       u.blockSent = s.tp.blockSent + 1 /\ u.blockSent < u.blockSize
  PROVE  Good([tp |-> u, rx |-> s.rx, tester |-> k])
<1> DEFINE t == s.tp
           h == s.tester
           n == Len(h.parts)
           p == [of |-> t.of, part |-> t.offset]
<1>1. /\ t \in TransferType /\ h \in TesterType /\ Underway(t) /\ Assembled(h)
      /\ InStep(t, h) /\ Waiting(s.rx, h) /\ Allowed(t, s.rx, h)
  BY GoodParts
<1>2. h.parts \in Seq(Piece) /\ n \in Nat /\ n >= 1
  BY <1>1 DEF TesterType
<1>3. t.offset \in Int /\ n + 1 = t.offset /\ t.blockSent \in Nat /\ t.blockSize \in Nat
  <2>1. t.offset \in 2..Frames + 2 /\ t.blockSize \in {0} \cup Blocks /\ t.blockSent \in Nat
    BY <1>1 DEF TransferType
  <2>2. t.blockSize \in Nat
    BY <2>1, BlockIsNat
  <2> QED BY <2>1, <2>2, Settings
<1>4. /\ Len(k.parts) = t.offset /\ k.parts # <<>>
      /\ \A i \in 1..n : k.parts[i] = h.parts[i]
      /\ k.parts[t.offset] = p
  <2>1. /\ Len(k.parts) = n + 1
        /\ \A i \in 1..n : k.parts[i] = h.parts[i]
        /\ k.parts[n + 1] = p
    BY <1>2, Appended
  <2>2. k.parts # <<>>
    BY <1>2, <2>1
  <2> QED BY <1>3, <2>1, <2>2
<1>5. k.parts[1] = h.parts[1] /\ k.parts[1].of = t.of
  BY <1>2, <1>4
<1>6. LastOf(k) = LastOf(h)
  BY DEF LastOf
<1>7. Assembled(k)
  <2>1. \A i \in 1..Len(k.parts) : k.parts[i] = [of |-> k.parts[1].of, part |-> i]
    <3> SUFFICES ASSUME NEW i \in 1..Len(k.parts)
                 PROVE  k.parts[i] = [of |-> k.parts[1].of, part |-> i]
      OBVIOUS
    <3>1. CASE i \in 1..n
      BY <1>1, <1>4, <1>5, <3>1 DEF Assembled
    <3>2. CASE i = t.offset
      BY <1>4, <1>5, <3>2
    <3>3. i \in 1..n \/ i = t.offset
      BY <1>2, <1>3, <1>4
    <3> QED BY <3>1, <3>2, <3>3
  <2>2. /\ h.awaits # 0 /\ asked[h.awaits] = "long" /\ LastOf(h) < h.parts[1].of
        /\ h.parts[1].of <= Len(asked) /\ asked[h.parts[1].of] = "long"
        /\ h.awaits <= Len(asked) /\ LastOf(h) <= Len(asked)
    BY <1>1 DEF Assembled
  <2> QED BY <1>4, <1>5, <1>6, <2>1, <2>2 DEF Assembled
<1>8. Waiting(s.rx, k)
  BY <1>1, <1>5, <1>6 DEF Waiting
<1>9. InStep(u, k)
  <2>1. u = t \/ u.state = "idle" \/ u.offset = t.offset + 1
    OBVIOUS
  <2>2. Len(k.parts) \in {t.offset - 1, t.offset}
    BY <1>3, <1>4
  <2>3. u.offset = t.offset + 1 => Len(k.parts) \in {u.offset - 1, u.offset}
    BY <1>3, <1>4
  <2> QED BY <1>5, <2>1, <2>2, <2>3 DEF InStep
<1>10. h.granted \in Grant /\ h.granted # 0
  BY <1>1, WasGranted DEF TesterType
<1>11. h.granted = Unlimited => k.granted = Unlimited
  BY <1>10, GrantTyped
<1>12. ASSUME h.granted # Unlimited
       PROVE  /\ u.state = "send" => u.blockSent < u.blockSize
              /\ k.granted - Rest(u, k) >= h.granted - Rest(t, h)
  <2>1. h.granted \in Nat /\ k.granted = h.granted - 1
    BY <1>10, <1>12, GrantTyped DEF Grant
  <2>2. t.blockSent < t.blockSize
    BY <1>1, <1>12 DEF Allowed
  <2>3. Rest(t, h) = t.blockSize - t.blockSent
    BY <1>12, WasGranted
  <2>4. Rest(t, h) \in Int /\ Rest(t, h) >= 1
    BY <1>12, WasGranted
  <2>5. CASE u = t
    <3>1. Len(k.parts) # u.offset - 1
      BY <1>3, <1>4, <2>5
    <3>2. Rest(u, k) = 0
      BY <3>1 DEF Rest
    <3> QED BY <2>1, <2>2, <2>4, <2>5, <3>2
  <2>6. CASE u.state \in {"idle", "wait"}
    <3>1. Rest(u, k) = 0
      BY <2>6 DEF Rest
    <3> QED BY <2>1, <2>4, <2>6, <3>1
  <2>7. CASE /\ u.offset = t.offset + 1 /\ u.state = "send" /\ u.blockSize = t.blockSize
             /\ t.blockSize # 0 =>
                  u.blockSent = t.blockSent + 1 /\ u.blockSent < u.blockSize
    <3>1. t.blockSize # 0
      BY <1>3, <2>2
    <3>2. Len(k.parts) = u.offset - 1
      BY <1>3, <1>4, <2>7
    <3>3. Rest(u, k) = u.blockSize - u.blockSent
      BY <1>4, <2>7, <3>2 DEF Rest
    <3>4. Rest(u, k) = t.blockSize - (t.blockSent + 1)
      BY <2>7, <3>1, <3>3
    <3>5. \A a, b \in Nat : a - (b + 1) = (a - b) - 1
      OBVIOUS
    <3>6. t.blockSize \in Nat /\ t.blockSent \in Nat
      BY <1>3
    <3>7. t.blockSize - (t.blockSent + 1) = (t.blockSize - t.blockSent) - 1
      BY <3>5, <3>6
    <3>8. Rest(u, k) = Rest(t, h) - 1
      BY <2>3, <3>4, <3>7
    <3> QED BY <2>1, <2>4, <2>7, <3>1, <3>8
  <2> QED BY <2>5, <2>6, <2>7
<1> QED BY <1>7, <1>8, <1>9, <1>11, <1>12, Kept

(* What SendConsecutive does keeps the invariant, and takes nothing that was    *)
(* not granted.                                                                 *)
LEMMA SendKeeps ==
  ASSUME NEW s, Good(s), asked \in Seq(Kinds), Len(asked) <= MaxRequests,
         s.tp.state = "send", NEW d \in SendConsecutive(s)
  PROVE  Good(d) /\ Takes(s.tester, d.tester)
<1> DEFINE t == s.tp
           h == s.tester
           g == Hear(h, Consecutive(t))
           p == [of |-> t.of, part |-> t.offset]
<1>1. /\ s \in State /\ t \in TransferType /\ h \in TesterType /\ Underway(t)
      /\ Assembled(h) /\ InStep(t, h) /\ Waiting(s.rx, h) /\ Allowed(t, s.rx, h)
  BY GoodParts
<1>2. CASE d = s
  BY <1>2 DEF Takes
<1>3. ASSUME NEW u, NEW k, d = [tp |-> u, rx |-> s.rx, tester |-> k],
             \/ u = Advanced(t) /\ k = g
             \/ u \in {t, Stopped(t)} /\ k \in {h, g}
      PROVE  Good(d) /\ Takes(h, d.tester)
  <2>1. /\ u \in TransferType /\ Underway(u) /\ u.of = t.of
        /\ \/ u = t \/ u.state = "idle"
           \/ /\ t.offset # Frames + 1 /\ u.offset = t.offset + 1
              /\ \/ u.state = "wait" /\ t.blockSent + 1 >= t.blockSize
                 \/ /\ u.state = "send" /\ u.blockSize = t.blockSize
                    /\ t.blockSize # 0 =>
                         u.blockSent = t.blockSent + 1 /\ u.blockSent < u.blockSize
    <3>1. CASE u = Advanced(t)
      BY <1>1, <3>1, AdvancedTyped
    <3>2. CASE u \in {t, Stopped(t)}
      BY <1>1, <3>2, StoppedTyped
    <3> QED BY <1>3, <3>1, <3>2
  <2>2. ASSUME h.granted # Unlimited, u.state = "send"
        PROVE  u.blockSent < u.blockSize
    <3>1. t.blockSent < t.blockSize /\ t.blockSent \in Nat
      BY <1>1, <2>2 DEF Allowed, TransferType
    <3>2. t.blockSize # 0
      BY <3>1
    <3> QED BY <2>1, <2>2, <3>1, <3>2
  <2>3. CASE k = h /\ u \in {t, Stopped(t)}
    BY <1>3, <2>3, StopKeeps DEF Takes
  <2>4. CASE k = g
    <3>1. CASE k = h /\ h.parts = <<>>
      <4>1. NewerThan(s.rx, LastOf(k))
        BY <1>1, <3>1 DEF Waiting
      <4>2. Good([tp |-> u, rx |-> s.rx, tester |-> k])
        BY <1>1, <2>1, <2>2, <3>1, <4>1, Emptied
      <4> QED BY <1>3, <3>1, <4>2 DEF Takes
    <3>2. CASE k = Quit(h) /\ h.parts # <<>>
      <4>1. /\ k \in TesterType /\ k.awaits = 0 /\ k.parts = <<>>
            /\ k.granted = h.granted /\ k.received = h.received
        BY <1>1, <3>2, QuitTyped
      <4>2. Assembled(k) /\ LastOf(k) = LastOf(h)
        BY <1>1, <3>2, QuitKeeps
      <4>3. NewerThan(s.rx, LastOf(k))
        BY <1>1, <4>2 DEF Waiting
      <4>4. Good([tp |-> u, rx |-> s.rx, tester |-> k])
        BY <2>1, <2>2, <4>1, <4>2, <4>3, Emptied
      <4> QED BY <1>3, <4>1, <4>4 DEF Takes
    <3>3. CASE /\ h.parts # <<>> /\ h.parts[1].of = t.of /\ Len(h.parts) = t.offset - 1
               /\ k \in TesterType
               /\ t.offset <= Frames
               /\ k.awaits = h.awaits /\ k.received = h.received
               /\ k.parts = Append(h.parts, p)
               /\ k.next = t.offset % Wrap /\ k.granted = Less(h.granted)
      <4>1. Good([tp |-> u, rx |-> s.rx, tester |-> k])
        BY <2>1, <3>3, PartKeeps
      <4>2. h.granted # 0
        BY <3>3, WasGranted
      <4> QED BY <1>3, <3>3, <4>1, <4>2 DEF Takes
    <3>4. CASE /\ h.parts # <<>> /\ h.parts[1].of = t.of /\ Len(h.parts) = t.offset - 1
               /\ k \in TesterType
               /\ t.offset = Frames + 1
               /\ k.awaits = 0 /\ k.parts = <<>> /\ k.granted = h.granted
               /\ k.received = Append(h.parts, p)
      <4>1. Len(h.parts) = Frames
        BY <3>4, Settings
      <4>2. k.received = Delivery!Answer(t.of)
        BY <1>1, <3>4, <4>1, AllParts
      <4>3. /\ t.of \in Int /\ LastOf(h) < t.of /\ t.of <= Len(asked)
            /\ NewerThan(s.rx, t.of)
        <5>1. t.of \in Int
          BY <1>1 DEF TransferType
        <5> QED BY <1>1, <3>4, <5>1 DEF Assembled, Waiting
      <4>4. LastOf(k) = t.of
        <5>1. h.parts \in Seq(Piece)
          BY <1>1 DEF TesterType
        <5>2. /\ Len(k.received) = Len(h.parts) + 1
              /\ \A i \in 1..Len(h.parts) : k.received[i] = h.parts[i]
          BY <3>4, <5>1, Appended
        <5>3. Frames \in Nat /\ Frames >= 1
          BY Settings
        <5>4. 1 \in 1..Len(h.parts) /\ Len(k.received) # 0
          BY <4>1, <5>2, <5>3
        <5>5. k.received # <<>> /\ k.received[1] = h.parts[1]
          BY <5>2, <5>4
        <5> QED BY <3>4, <5>5 DEF LastOf
      <4>5. Assembled(k)
        <5>1. 0 <= Len(asked)
          BY LenProperties
        <5> QED BY <3>4, <4>3, <4>4, <5>1 DEF Assembled
      <4>6. Good([tp |-> u, rx |-> s.rx, tester |-> k])
        BY <2>1, <2>2, <3>4, <4>3, <4>4, <4>5, Emptied
      <4>7. h.granted # 0
        BY <3>4, WasGranted
      <4>8. Completes(h, k)
        <5>1. LastOf(h) \in Int /\ Len(asked) \in Int
          <6>1. h.received \in Seq(Piece)
            BY <1>1 DEF TesterType
          <6>2. h.received # <<>> => h.received[1] \in Piece
            BY <6>1
          <6> QED BY <6>2 DEF LastOf, Piece
        <5>2. t.of \in LastOf(h) + 1..Len(asked)
          BY <4>3, <5>1
        <5> QED BY <3>4, <4>2, <5>2 DEF Completes
      <4> QED BY <1>3, <4>6, <4>7, <4>8 DEF Takes
    <3>5. t.state # "idle" /\ k = Hear(h, Consecutive(t))
      BY <2>4
    <3> HIDE DEF g, p, t, h
    <3>6. \/ k = h /\ h.parts = <<>>
          \/ k = Quit(h) /\ h.parts # <<>>
          \/ /\ h.parts # <<>> /\ h.parts[1].of = t.of /\ Len(h.parts) = t.offset - 1
             /\ k \in TesterType
             /\ \/ /\ t.offset <= Frames
                   /\ k.awaits = h.awaits /\ k.received = h.received
                   /\ k.parts = Append(h.parts, [of |-> t.of, part |-> t.offset])
                   /\ k.next = t.offset % Wrap /\ k.granted = Less(h.granted)
                \/ /\ t.offset = Frames + 1
                   /\ k.awaits = 0 /\ k.parts = <<>> /\ k.granted = h.granted
                   /\ k.received = Append(h.parts, [of |-> t.of, part |-> t.offset])
      BY <1>1, <3>5, HearNext
    <3> QED BY <3>1, <3>2, <3>3, <3>4, <3>6 DEF p
  <2> QED BY <1>3, <2>3, <2>4
<1> QED BY <1>1, <1>2, <1>3, SendCases

--------------------------------------------------------------------------------
(* What has been read                                                           *)

(* Reading the first n frames leaves the others in their order.                 *)
LEMMA ReadLeaves ==
  ASSUME NEW s, Good(s), NEW n \in 0..Len(s.rx), NEW p, p = SubSeq(s.rx, n + 1, Len(s.rx))
  PROVE  /\ p \in Seq(Received) /\ Len(p) <= Buffers /\ Dropped(s.rx, n, p)
         /\ Waiting(p, s.tester)
         /\ \A m : NewerThan(s.rx, m) => NewerThan(p, m)
         /\ Limited(s.rx) => Limited(p)
<1> DEFINE q == s.rx
           l == Len(q)
<1>1. q \in Seq(Received) /\ l \in Nat /\ l <= Buffers /\ Waiting(q, s.tester)
  BY GoodParts
<1>2. n \in Nat /\ n <= l
  BY <1>1
<1>3. n + 1 \in Int /\ \A i \in n + 1..l : q[i] \in Received
  BY <1>1, <1>2
<1>4. /\ p \in Seq(Received)
      /\ Len(p) = IF n + 1 <= l THEN l - (n + 1) + 1 ELSE 0
      /\ \A i \in 1..l - (n + 1) + 1 : p[i] = q[n + 1 + i - 1]
  BY <1>1, <1>3, SubSeqProperties
<1>5. Len(p) = l - n
  BY <1>1, <1>2, <1>4
<1>6. ASSUME NEW i \in 1..Len(p)
      PROVE  p[i] = q[i + n]
  <2>1. i \in 1..l - (n + 1) + 1 /\ n + 1 + i - 1 = i + n
    BY <1>1, <1>2, <1>5
  <2> QED BY <1>4, <2>1
<1>7. Dropped(q, n, p)
  BY <1>5, <1>6 DEF Dropped
<1>8. /\ InOrder(q) => InOrder(p)
      /\ Limited(q) => Limited(p)
      /\ \A m : NewerThan(q, m) => NewerThan(p, m)
  BY <1>1, <1>4, <1>7, DropOrder
<1>9. Waiting(p, s.tester)
  BY <1>1, <1>8 DEF Waiting
<1>10. Len(p) <= Buffers
  BY <1>1, <1>2, <1>5, Settings
<1> QED BY <1>4, <1>7, <1>8, <1>9, <1>10

(* A drain that finds no flow control loses what it read.                       *)
LEMMA ReadKeeps ==
  ASSUME NEW s, Good(s), NEW n \in 0..Len(s.rx), NEW p, p = SubSeq(s.rx, n + 1, Len(s.rx))
  PROVE  Good([tp |-> s.tp, rx |-> p, tester |-> s.tester])
<1> DEFINE t == s.tp
           h == s.tester
           d == [tp |-> t, rx |-> p, tester |-> h]
<1>1. /\ t \in TransferType /\ h \in TesterType /\ s.rx \in Seq(Received)
      /\ Underway(t) /\ Assembled(h) /\ InStep(t, h) /\ Allowed(t, s.rx, h)
  BY GoodParts
<1>2. /\ p \in Seq(Received) /\ Len(p) <= Buffers /\ Dropped(s.rx, n, p)
      /\ Waiting(p, h) /\ (Limited(s.rx) => Limited(p))
  BY ReadLeaves
<1>3. ASSUME h.granted # Unlimited
      PROVE  Fits(p, h.granted - Rest(t, h))
  <2>1. Fits(s.rx, h.granted - Rest(t, h))
    BY <1>1, <1>3 DEF Allowed
  <2>2. h.granted - Rest(t, h) \in Int
    BY <1>1, GrantIsNumber, RestTyped
  <2> QED BY <1>1, <1>2, <2>1, <2>2, DropFits
<1>4. Allowed(t, p, h)
  BY <1>1, <1>2, <1>3 DEF Allowed
<1>5. d \in State /\ d.tp = t /\ d.rx = p /\ d.tester = h
  BY <1>1, <1>2 DEF State
<1> HIDE DEF d
<1>6. Good(d)
  BY <1>1, <1>2, <1>4, <1>5 DEF Good, Whole
<1> QED BY <1>6 DEF d

(* What a flow control makes of the waiting sender.                             *)
LEMMA ObeyTyped ==
  ASSUME NEW t \in TransferType, Underway(t), t.state = "wait", NEW x \in Received,
         NEW u, u = Obey(t, x)
  PROVE  /\ u \in TransferType /\ Underway(u)
         /\ u.of = t.of /\ u.offset = t.offset
         /\ \/ u.state \in {"idle", "wait"}
            \/ /\ x.type = "continue" /\ u.state = "send"
               /\ u.blockSize = x.size /\ u.blockSent = 0
<1>1. CASE x.type = "continue"
  <2>1. x \in [type : {"continue", "wait", "abort"}, size : {0} \cup Blocks,
               apart : BOOLEAN]
    BY <1>1 DEF Received
  <2>2. x.size \in {0} \cup Blocks /\ x.apart \in BOOLEAN
    BY <2>1
  <2>3. u = [t EXCEPT !.state = "send", !.blockSize = x.size, !.blockSent = 0,
                      !.stMin = x.apart, !.resting = FALSE, !.late = FALSE]
    BY <1>1 DEF Obey, Granted
  <2> DEFINE c == [t EXCEPT !.stMin = x.apart, !.resting = FALSE, !.late = FALSE]
  <2>4. /\ c \in TransferType /\ c.of = t.of /\ c.offset = t.offset /\ c.index = t.index
    BY <2>2 DEF TransferType
  <2> DEFINE e == [c EXCEPT !.blockSize = x.size, !.blockSent = 0]
  <2>5. u = [e EXCEPT !.state = "send"]
    BY <2>3 DEF TransferType
  <2> HIDE DEF c
  <2>7. /\ e \in TransferType /\ e.of = t.of /\ e.offset = t.offset
        /\ e.index = t.index /\ e.blockSize = x.size /\ e.blockSent = 0
    BY <2>2, <2>4 DEF TransferType
  <2> HIDE DEF e
  <2>6. /\ u \in TransferType /\ u.of = t.of /\ u.offset = t.offset
        /\ u.index = t.index /\ u.state = "send"
        /\ u.blockSize = x.size /\ u.blockSent = 0
    BY <2>5, <2>7 DEF TransferType
  <2> QED BY <1>1, <2>6 DEF Underway
<1>2. CASE x.type = "wait"
  <2>1. u = [t EXCEPT !.late = FALSE]
    BY <1>2 DEF Obey
  <2> QED BY <2>1 DEF TransferType, Underway
<1>3. CASE x.type \notin {"continue", "wait"}
  <2>1. u = Stopped(t)
    BY <1>3 DEF Obey
  <2> QED BY <2>1, StoppedTyped
<1> QED BY <1>1, <1>2, <1>3

(* A flow control that is read is obeyed: the block it allows is no more than   *)
(* what it stood for while it waited.                                           *)
LEMMA ObeyKeeps ==
  ASSUME NEW s, Good(s), s.tp.state = "wait", NEW n \in 1..Len(s.rx),
         NEW p, p = SubSeq(s.rx, n + 1, Len(s.rx)), NEW u, u = Obey(s.tp, s.rx[n])
  PROVE  Good([tp |-> u, rx |-> p, tester |-> s.tester])
<1> DEFINE t == s.tp
           h == s.tester
           x == s.rx[n]
           d == [tp |-> u, rx |-> p, tester |-> h]
<1>1. /\ t \in TransferType /\ h \in TesterType /\ s.rx \in Seq(Received)
      /\ Underway(t) /\ Assembled(h) /\ InStep(t, h) /\ Allowed(t, s.rx, h)
  BY GoodParts
<1>2. n \in 0..Len(s.rx) /\ n > 0 /\ x \in Received
  BY <1>1
<1>3. /\ p \in Seq(Received) /\ Len(p) <= Buffers /\ Dropped(s.rx, n, p)
      /\ Waiting(p, h) /\ (Limited(s.rx) => Limited(p))
  BY <1>2, ReadLeaves
<1>4. /\ u \in TransferType /\ Underway(u) /\ u.of = t.of /\ u.offset = t.offset
      /\ \/ u.state \in {"idle", "wait"}
         \/ /\ x.type = "continue" /\ u.state = "send"
            /\ u.blockSize = x.size /\ u.blockSent = 0
  BY <1>1, <1>2, ObeyTyped
<1>5. InStep(u, h)
  BY <1>1, <1>4 DEF InStep
<1>6. ASSUME h.granted # Unlimited
      PROVE  /\ Limited(p) /\ (u.state = "send" => u.blockSent < u.blockSize)
             /\ Fits(p, h.granted - Rest(u, h))
  <2>1. Limited(s.rx) /\ Fits(s.rx, h.granted - Rest(t, h))
    BY <1>1, <1>6 DEF Allowed
  <2>2. Rest(t, h) = 0
    BY <1>1, RestTyped
  <2>3. h.granted \in Int /\ h.granted - 0 = h.granted
    BY <1>1, GrantIsNumber
  <2>4. Fits(s.rx, h.granted)
    BY <2>1, <2>2, <2>3
  <2>5. Fits(p, h.granted) /\ Fits(p, h.granted - Size(x))
    BY <1>1, <1>2, <1>3, <2>3, <2>4, DropFits
  <2>6. CASE u.state \in {"idle", "wait"}
    <3>1. Rest(u, h) = 0
      BY <2>6 DEF Rest
    <3> QED BY <1>3, <2>1, <2>3, <2>5, <2>6, <3>1
  <2>7. CASE /\ x.type = "continue" /\ u.state = "send"
             /\ u.blockSize = x.size /\ u.blockSent = 0
    <3>1. Size(x) = x.size /\ Size(x) \in Nat
      BY <1>2, <2>7, SizeTyped DEF Size
    <3>2. x.size # 0
      BY <1>2, <2>1, <2>7 DEF Limited
    <3>3. u.blockSent < u.blockSize
      BY <2>7, <3>1, <3>2
    <3>4. Rest(u, h) \in {0, Size(x)}
      BY <2>7, <3>1 DEF Rest
    <3>5. Fits(p, h.granted - Rest(u, h))
      BY <2>3, <2>5, <3>4
    <3> QED BY <1>3, <2>1, <3>3, <3>5
  <2> QED BY <1>4, <2>6, <2>7
<1>7. Allowed(u, p, h)
  BY <1>6 DEF Allowed
<1>8. d \in State /\ d.tp = u /\ d.rx = p /\ d.tester = h
  BY <1>1, <1>3, <1>4 DEF State
<1> HIDE DEF d
<1>9. Good(d)
  BY <1>1, <1>3, <1>4, <1>5, <1>7, <1>8 DEF Good, Whole
<1> QED BY <1>9 DEF d

(* Waiting for a flow control keeps the invariant, and the tester.              *)
LEMMA AwaitKeeps ==
  ASSUME NEW s, Good(s), s.tp.state = "wait", NEW d \in AwaitControl(s)
  PROVE  Good(d) /\ d.tester = s.tester
<1>1. s \in State /\ s = [tp |-> s.tp, rx |-> s.rx, tester |-> s.tester]
  BY GoodParts
<1>2. CASE s.tp.late
  <2>1. d = [tp |-> Stopped(s.tp), rx |-> s.rx, tester |-> s.tester]
    BY <1>1, <1>2 DEF AwaitControl
  <2> QED BY <2>1, StopKeeps
<1>3. CASE ~s.tp.late
  <2>1. PICK n \in 0..Len(s.rx) : d = Drained(s, n)
    BY <1>3 DEF AwaitControl
  <2> DEFINE controls == {i \in 1..n : IsControl(s.rx[i])}
             stop == IF controls = {} THEN n ELSE Min(controls)
             p == SubSeq(s.rx, stop + 1, Len(s.rx))
  <2>2. d = IF controls = {} THEN [s EXCEPT !.rx = SubSeq(@, stop + 1, Len(@))]
            ELSE [[s EXCEPT !.rx = SubSeq(@, stop + 1, Len(@))]
                    EXCEPT !.tp = Obey(@, s.rx[stop])]
    BY <2>1 DEF Drained
  <2>3. Len(s.rx) \in Nat
    BY GoodParts
  <2>4. CASE controls = {}
    <3>1. d = [tp |-> s.tp, rx |-> p, tester |-> s.tester] /\ stop = n
      BY <1>1, <2>2, <2>4
    <3> HIDE DEF stop
    <3> QED BY <3>1, ReadKeeps
  <2>5. CASE controls # {}
    <3>1. stop \in controls
      <4>1. controls \in SUBSET Nat
        BY <2>3
      <4> HIDE DEF controls
      <4>2. \E x \in controls : \A y \in controls : x <= y
        BY <2>5, <4>1, Least
      <4> QED BY <2>5, <4>2 DEF Min
    <3>2. d = [tp |-> Obey(s.tp, s.rx[stop]), rx |-> p, tester |-> s.tester]
      BY <1>1, <2>2, <2>5
    <3> HIDE DEF stop
    <3>3. stop \in 1..Len(s.rx)
      BY <2>3, <3>1
    <3> QED BY <3>2, <3>3, ObeyKeeps
  <2> QED BY <2>4, <2>5
<1> QED BY <1>2, <1>3

(* obdLoop up to its own read.                                                  *)
LEMMA ProcessKeeps ==
  ASSUME NEW s, Good(s), asked \in Seq(Kinds), Len(asked) <= MaxRequests,
         NEW d \in Process(s)
  PROVE  Good(d) /\ Takes(s.tester, d.tester)
<1>1. s.tp.state \in {"idle", "wait", "send"}
  BY GoodParts DEF TransferType
<1>2. CASE s.tp.state = "idle"
  BY <1>2 DEF Process, Takes
<1>3. CASE s.tp.state = "wait"
  BY <1>3, AwaitKeeps DEF Process, Takes
<1>4. CASE s.tp.state = "send"
  BY <1>4, SendKeeps DEF Process
<1> QED BY <1>1, <1>2, <1>3, <1>4

--------------------------------------------------------------------------------
(* Answering a request                                                          *)

LEMMA BegunTyped ==
  ASSUME NEW t \in TransferType, asked \in Seq(Kinds), Len(asked) <= MaxRequests,
         NEW r \in 1..Len(asked), asked[r] = "long", NEW u, u = Begun(t, r)
  PROVE  u \in TransferType /\ Underway(u) /\ u.state = "wait" /\ u.of = r /\ u.offset = 2
<1>1. r \in 0..MaxRequests
  <2>1. Len(asked) \in Nat
    BY LenProperties
  <2> QED BY <2>1, Settings
<1>2. 2 \in 2..Frames + 2 /\ 1 \in 0..Wrap - 1 /\ 0 \in Nat /\ 2 <= Frames + 1
  BY Settings
<1>3. 1 % Wrap = 1
  <2>1. Wrap * 0 = 0 /\ 0 \in Int
    BY Settings
  <2>2. 1 = Wrap * 0 + 1 /\ 1 \in Nat
    BY <2>1
  <2> QED BY <1>2, <2>1, <2>2, Remainder
<1>4. /\ u.state = "wait" /\ u.of = r /\ u.offset = 2 /\ u.index = 1
  BY DEF Begun
<1>5. u \in TransferType
  BY <1>1, <1>2 DEF Begun, TransferType
<1>6. Underway(u)
  BY <1>2, <1>3, <1>4 DEF Underway
<1> QED BY <1>4, <1>5, <1>6

LEMMA LastTyped ==
  ASSUME NEW h \in TesterType
  PROVE  LastOf(h) \in Nat
<1>1. h.received \in Seq(Piece)
  BY DEF TesterType
<1>2. h.received # <<>> => h.received[1] \in Piece
  BY <1>1
<1> QED BY <1>2 DEF LastOf, Piece

(* The answer that fits one frame.                                              *)
LEMMA ShortKeeps ==
  ASSUME NEW s, Good(s), s.tp.state = "idle",
         asked \in Seq(Kinds), Len(asked) <= MaxRequests,
         NEW r \in 1..Len(asked), asked[r] = "short", LastOf(s.tester) < r,
         NewerThan(s.rx, r),
         NEW k, k = Hear(s.tester, Single(r)),
         NEW d, d = [tp |-> s.tp, rx |-> s.rx, tester |-> k]
  PROVE  Good(d) /\ Begins(s.tester, k)
<1> DEFINE t == s.tp
           h == s.tester
<1>1. /\ t \in TransferType /\ h \in TesterType /\ Underway(t) /\ Assembled(h)
      /\ s = [tp |-> t, rx |-> s.rx, tester |-> h]
  BY GoodParts
<1>2. CASE k = h
  BY <1>1, <1>2 DEF Begins
<1>3. CASE /\ h.parts = <<>> /\ h.awaits # 0
           /\ k \in TesterType /\ k.awaits = 0 /\ k.parts = <<>>
           /\ k.granted = h.granted
           /\ k.received = <<[of |-> r, part |-> 1]>>
  <2>1. k.received = Delivery!Answer(r)
    <3>1. Delivery!Answer(r) = [i \in 1..1 |-> [of |-> r, part |-> i]]
      BY DEF Delivery!Answer, Delivery!Parts
    <3> QED BY <1>3, <3>1
  <2>2. LastOf(k) = r
    BY <1>3 DEF LastOf
  <2>3. Len(asked) \in Nat /\ LastOf(h) \in Nat
    BY <1>1, LastTyped, LenProperties
  <2>4. Assembled(k)
    BY <1>3, <2>2, <2>3 DEF Assembled
  <2>5. Good(d)
    BY <1>1, <1>3, <2>2, <2>4, Emptied
  <2>6. r \in LastOf(h) + 1..Len(asked)
    BY <2>3
  <2> QED BY <1>3, <2>1, <2>5, <2>6 DEF Begins, Completes
<1>4. \/ k = h
      \/ /\ h.parts = <<>> /\ h.awaits # 0
         /\ k \in TesterType /\ k.awaits = 0 /\ k.parts = <<>>
         /\ k.granted = h.granted
         /\ k.received = <<[of |-> r, part |-> 1]>>
  BY <1>1, HearSingle
<1> QED BY <1>2, <1>3, <1>4

(* The first frame of a long answer.                                            *)
LEMMA FirstKeeps ==
  ASSUME NEW s, Good(s), s.tp.state = "idle",
         asked \in Seq(Kinds), Len(asked) <= MaxRequests,
         NEW r \in 1..Len(asked), asked[r] = "long", LastOf(s.tester) < r,
         NewerThan(s.rx, r),
         NEW k, k = Hear(s.tester, First(r)), NEW u, u \in {s.tp, Begun(s.tp, r)},
         NEW d, d = [tp |-> u, rx |-> s.rx, tester |-> k]
  PROVE  Good(d) /\ Begins(s.tester, k)
<1> DEFINE t == s.tp
           h == s.tester
           p == [of |-> r, part |-> 1]
<1>1. /\ t \in TransferType /\ h \in TesterType /\ Underway(t) /\ Assembled(h)
      /\ Waiting(s.rx, h)
  BY GoodParts
<1>2. /\ u \in TransferType /\ Underway(u)
      /\ \/ u.state = "idle"
         \/ u.state = "wait" /\ u.of = r /\ u.offset = 2
  <2>1. CASE u = t
    BY <1>1, <2>1
  <2>2. CASE u = Begun(t, r)
    BY <1>1, <2>2, BegunTyped
  <2> QED BY <2>1, <2>2
<1>3. CASE k = h /\ h.parts = <<>>
  <2>1. NewerThan(s.rx, LastOf(k))
    BY <1>1, <1>3 DEF Waiting
  <2>2. Good(d)
    BY <1>1, <1>2, <1>3, <2>1, Emptied
  <2> QED BY <1>3, <2>2 DEF Begins
<1>4. CASE /\ h.awaits # 0 /\ asked[h.awaits] = "long"
           /\ k \in TesterType /\ k.awaits = h.awaits
           /\ k.parts = <<p>> /\ k.next = 1
           /\ k.granted = h.granted /\ k.received = h.received
  <2>1. Len(k.parts) = 1 /\ k.parts # <<>> /\ k.parts[1] = p /\ k.parts[1].of = r
    BY <1>4
  <2>2. LastOf(k) = LastOf(h)
    BY <1>4 DEF LastOf
  <2>3. 1 % Wrap = 1
    <3>1. Wrap * 0 = 0 /\ 0 \in Int /\ 1 \in 0..Wrap - 1
      BY Settings
    <3>2. 1 = Wrap * 0 + 1 /\ 1 \in Nat
      BY <3>1
    <3> QED BY <3>1, <3>2, Remainder
  <2>4. \A i \in 1..Len(k.parts) : k.parts[i] = [of |-> k.parts[1].of, part |-> i]
    BY <2>1
  <2>5. h.awaits <= Len(asked) /\ LastOf(h) <= Len(asked)
    BY <1>1 DEF Assembled
  <2>6. 1 <= Frames /\ r <= Len(asked)
    BY Settings
  <2>7. Assembled(k)
    BY <1>4, <2>1, <2>2, <2>3, <2>4, <2>5, <2>6 DEF Assembled
  <2>8. InStep(u, k)
    BY <1>2, <2>1 DEF InStep
  <2>9. Waiting(s.rx, k)
    BY <1>1, <2>1, <2>2 DEF Waiting
  <2>10. k.granted - Rest(u, k) >= h.granted - Rest(t, h)
    <3>1. Rest(u, k) = 0 /\ Rest(t, h) = 0
      BY <1>2 DEF Rest
    <3>2. h.granted \in Int
      BY <1>1, GrantIsNumber
    <3> QED BY <1>4, <3>1, <3>2
  <2>11. Good(d)
    BY <1>2, <1>4, <2>7, <2>8, <2>9, <2>10, Kept
  <2> QED BY <1>4, <2>1, <2>11 DEF Begins
<1>5. \/ k = h /\ h.parts = <<>>
      \/ /\ h.awaits # 0 /\ asked[h.awaits] = "long"
         /\ k \in TesterType /\ k.awaits = h.awaits
         /\ k.parts = <<[of |-> r, part |-> 1]>> /\ k.next = 1
         /\ k.granted = h.granted /\ k.received = h.received
  BY <1>1, HearFirst
<1> QED BY <1>3, <1>4, <1>5

(* The frame that is read is the oldest one.                                    *)
LEMMA OldestFrame ==
  ASSUME NEW s, Good(s), s.rx # <<>>, NEW p, p = Tail(s.rx)
  PROVE  /\ p = SubSeq(s.rx, 1 + 1, Len(s.rx)) /\ 1 \in 0..Len(s.rx)
         /\ Head(s.rx).type = "request" =>
              /\ Head(s.rx).of \in 1..Len(asked) /\ LastOf(s.tester) < Head(s.rx).of
              /\ NewerThan(p, Head(s.rx).of)
<1> DEFINE q == s.rx
           x == Head(q)
<1>1. q \in Seq(Received) /\ Len(q) \in Nat /\ Len(q) >= 1 /\ Waiting(q, s.tester)
  BY GoodParts
<1>2. p = SubSeq(q, 1 + 1, Len(q)) /\ 1 \in 0..Len(q)
  BY <1>1, TailIsSubSeq
<1>3. /\ x \in Received /\ x = q[1] /\ Len(p) = Len(q) - 1
      /\ \A i \in 1..Len(p) : p[i] = q[i + 1]
  BY <1>1
<1>4. ASSUME x.type = "request"
      PROVE  /\ x.of \in 1..Len(asked) /\ LastOf(s.tester) < x.of
             /\ NewerThan(p, x.of)
  <2>1. x \in [type : {"request"}, of : 1..MaxRequests]
    BY <1>3, <1>4 DEF Received
  <2>2. x.of \in Nat /\ x.of >= 1
    BY <2>1, Settings
  <2>3. x.of <= Len(asked) /\ LastOf(s.tester) < x.of
    BY <1>1, <1>3, <1>4 DEF Waiting, InOrder, NewerThan
  <2>4. ASSUME NEW i \in 1..Len(p), p[i].type = "request"
        PROVE  x.of < p[i].of
    <3>1. i + 1 \in 1..Len(q) /\ 1 \in 1..(i + 1) - 1 /\ p[i] = q[i + 1]
      BY <1>1, <1>3
    <3> QED BY <1>1, <1>3, <1>4, <2>4, <3>1 DEF Waiting, InOrder
  <2> QED BY <2>2, <2>3, <2>4 DEF NewerThan
<1> QED BY <1>2, <1>4

LEMMA WithRx ==
  ASSUME NEW s \in State, NEW p
  PROVE  [s EXCEPT !.rx = p] = [tp |-> s.tp, rx |-> p, tester |-> s.tester]
BY DEF State

(* The read at the end of obdLoop.                                              *)
LEMMA ReceiveKeeps ==
  ASSUME NEW s, Good(s), asked \in Seq(Kinds), Len(asked) <= MaxRequests,
         NEW d \in Receive(s)
  PROVE  Good(d) /\ Begins(s.tester, d.tester)
<1> DEFINE t == s.tp
           h == s.tester
           r == Head(s.rx).of
           e == [tp |-> t, rx |-> Tail(s.rx), tester |-> h]
<1>1. s = [tp |-> t, rx |-> s.rx, tester |-> h]
  BY GoodParts
<1>2. CASE d = s
  BY <1>2 DEF Begins
<1>3. CASE d # s
  <2>1. /\ t.state = "idle" /\ s.rx # <<>>
        /\ d \in IF Head(s.rx).type = "request" THEN Reply(e, r) ELSE {e}
    <3>1. t.state = "idle" /\ s.rx # <<>>
      BY <1>3 DEF Receive
    <3>2. [s EXCEPT !.rx = Tail(@)] = e
      <4>1. s \in State
        BY GoodParts
      <4> QED BY <4>1, WithRx
    <3> HIDE DEF e
    <3>3. d \in IF Head(s.rx).type = "request" THEN Reply(e, r) ELSE {e}
      BY <1>3, <3>1, <3>2 DEF Receive
    <3> QED BY <3>1, <3>3
  <2>2. Good(e)
    BY <2>1, OldestFrame, ReadKeeps
  <2>3. CASE Head(s.rx).type # "request"
    <3>1. d = e
      BY <2>1, <2>3
    <3>2. e.tester = h
      OBVIOUS
    <3> QED BY <2>2, <3>1, <3>2 DEF Begins
  <2>4. CASE Head(s.rx).type = "request"
    <3>1. r \in 1..Len(asked) /\ LastOf(h) < r /\ NewerThan(Tail(s.rx), r)
      BY <2>1, <2>4, OldestFrame
    <3>2. e.tp = t /\ e.rx = Tail(s.rx) /\ e.tester = h /\ h = s.tester
      OBVIOUS
    <3>3. d \in Reply(e, r)
      BY <2>1, <2>4
    <3> HIDE DEF e, r, t, h
    <3>4. CASE asked[r] = "short"
      <4>1. PICK x \in Sends(e, Single(r)) : d = x.s
        BY <3>3, <3>4 DEF Reply
      <4>2. d \in {e, [e EXCEPT !.tester = Hear(h, Single(r))]}
        BY <3>2, <4>1 DEF Sends
      <4>3. CASE d = e
        BY <2>2, <3>2, <4>3 DEF Begins
      <4>4. CASE d = [e EXCEPT !.tester = Hear(h, Single(r))]
        <5>1. d = [tp |-> e.tp, rx |-> e.rx, tester |-> Hear(e.tester, Single(r))]
          BY <3>2, <4>4 DEF e
        <5>2. Good(d) /\ Begins(e.tester, Hear(e.tester, Single(r)))
          BY <2>1, <2>2, <3>1, <3>2, <3>4, <5>1, ShortKeeps
        <5> QED BY <3>2, <5>1, <5>2
      <4> QED BY <4>2, <4>3, <4>4
    <3>5. CASE asked[r] # "short"
      <4>1. asked[r] = "long"
        BY <3>1, <3>5 DEF Kinds
      <4>2. PICK x \in Sends(e, First(r)) :
              d = IF x.ok THEN [x.s EXCEPT !.tp = Begun(@, r)] ELSE x.s
        BY <3>3, <3>5 DEF Reply
      <4>3. /\ x.s \in {e, [e EXCEPT !.tester = Hear(h, First(r))]}
            /\ x.ok => x.s = [e EXCEPT !.tester = Hear(h, First(r))]
        BY <3>2, <4>2 DEF Sends
      <4>4. CASE d = e
        BY <2>2, <3>2, <4>4 DEF Begins
      <4>5. CASE d # e
        <5>1. PICK u \in {t, Begun(t, r)} :
                d = [tp |-> u, rx |-> e.rx, tester |-> Hear(e.tester, First(r))]
          BY <3>2, <4>2, <4>3, <4>5 DEF e
        <5>2. Good(d) /\ Begins(e.tester, Hear(e.tester, First(r)))
          BY <2>1, <2>2, <3>1, <3>2, <4>1, <5>1, FirstKeeps
        <5> QED BY <3>2, <5>1, <5>2
      <4> QED BY <4>4, <4>5
    <3> QED BY <3>4, <3>5
  <2> QED BY <2>3, <2>4
<1> QED BY <1>2, <1>3

--------------------------------------------------------------------------------
(* The steps of the specification                                               *)

LEMMA NowFields ==
  /\ Now.tp = tp /\ Now.rx = rx /\ Now.tester = tester
  /\ Now' = [tp |-> tp', rx |-> rx', tester |-> tester']
BY DEF Now

(* A pass keeps the invariant; the tester takes a frame only within its grant,  *)
(* and completes at most one answer, newer than its last one.                   *)
LEMMA PassKeeps ==
  ASSUME IInv, Pass
  PROVE  /\ IInv'
         /\ \/ tester'.received = tester.received
            \/ \E r \in LastOf(tester) + 1..Len(asked) :
                 tester'.received = Delivery!Answer(r)
         /\ /\ tester.parts # <<>>
            /\ Len(tester'.parts) > Len(tester.parts) \/ tester'.received # tester.received
            => tester.granted # 0
<1> DEFINE h == tester
           k == tester'
<1>1. PICK s \in Process(Now) : \E d \in Receive(s) :
        tp' = d.tp /\ rx' = d.rx /\ tester' = d.tester
  BY DEF Pass, Now
<1>2. PICK d \in Receive(s) : tp' = d.tp /\ rx' = d.rx /\ tester' = d.tester
  BY <1>1
<1>3. asked \in Seq(Kinds) /\ Len(asked) <= MaxRequests /\ Good(Now)
  BY DEF IInv
<1>4. Good(s) /\ Takes(h, s.tester)
  BY <1>3, ProcessKeeps, NowFields
<1>5. Good(d) /\ Begins(s.tester, k)
  BY <1>2, <1>3, <1>4, ReceiveKeeps
<1>6. IInv'
  <2>1. d = [tp |-> tp', rx |-> rx', tester |-> tester']
    BY <1>2, <1>5, GoodParts
  <2>2. asked' = asked /\ waits' = waits
    BY DEF Pass
  <2>3. Good(Now)'
    <3>1. Good(Now')
      BY <1>5, <2>1, NowFields
    <3> QED BY <2>2, <3>1 DEF Good, Whole, Underway, Assembled, Waiting, InOrder
  <2> QED BY <2>2, <2>3 DEF IInv
<1> DEFINE m == s.tester
<1>7. h \in TesterType /\ m \in TesterType /\ k \in TesterType
  BY <1>2, <1>3, <1>4, <1>5, GoodParts, NowFields
<1>8. /\ h.parts \in Seq(Piece) /\ Len(h.parts) \in Nat
      /\ h.parts # <<>> => Len(h.parts) >= 1
  BY <1>7 DEF TesterType
<1> HIDE DEF h, m, k
<1>9. /\ k.received = h.received \/ \E r \in LastOf(h) + 1..Len(asked) :
                                      k.received = Delivery!Answer(r)
      /\ h.parts # <<>> /\ (Len(k.parts) > Len(h.parts) \/ k.received # h.received)
         => h.granted # 0
  <2>1. CASE m = h
    <3>1. \/ k = h
          \/ h.parts = <<>> /\ Completes(h, k)
          \/ k.received = h.received /\ Len(k.parts) = 1
      BY <1>5, <2>1 DEF Begins, m
    <3>2. CASE k = h
      BY <1>8, <3>2
    <3>3. CASE h.parts = <<>> /\ Completes(h, k)
      BY <3>3 DEF Completes
    <3>4. CASE k.received = h.received /\ Len(k.parts) = 1
      BY <1>8, <3>4
    <3> QED BY <3>1, <3>2, <3>3, <3>4
  <2>2. CASE m.awaits = 0 /\ m.parts = <<>> /\ m.received = h.received
    <3>1. k = m
      BY <1>5, <2>2 DEF Begins, m
    <3>2. Len(k.parts) = 0 /\ k.received = h.received
      BY <2>2, <3>1
    <3> QED BY <1>8, <3>2
  <2>3. CASE h.granted # 0 /\ m.received = h.received
    <3>1. LastOf(m) = LastOf(h)
      BY <2>3 DEF LastOf
    <3> QED BY <1>5, <2>3, <3>1 DEF Begins, Completes, m
  <2>4. CASE h.granted # 0 /\ Completes(h, m)
    <3>1. k = m
      BY <1>5, <2>4 DEF Begins, Completes, m
    <3> QED BY <2>4, <3>1 DEF Completes
  <2> QED BY <1>4, <2>1, <2>2, <2>3, <2>4 DEF Takes, m
<1> QED BY <1>6, <1>9 DEF h, k

LEMMA TypedNow ==
  ASSUME IInv
  PROVE  /\ asked \in Seq(Kinds) /\ Len(asked) \in Nat /\ Len(asked) <= MaxRequests
         /\ tp \in TransferType /\ rx \in Seq(Received) /\ tester \in TesterType
         /\ Len(rx) <= Buffers /\ Len(rx) \in Nat
         /\ Underway(tp) /\ Assembled(tester) /\ InStep(tp, tester)
         /\ Waiting(rx, tester) /\ Allowed(tp, rx, tester)
         /\ Now.tp = tp /\ Now.rx = rx /\ Now.tester = tester
<1>1. Now.tp = tp /\ Now.rx = rx /\ Now.tester = tester
  BY NowFields
<1>2. Good(Now) /\ asked \in Seq(Kinds) /\ Len(asked) <= MaxRequests
  BY DEF IInv
<1>3. /\ tp \in TransferType /\ rx \in Seq(Received) /\ tester \in TesterType
      /\ Len(rx) <= Buffers
      /\ Underway(tp) /\ Assembled(tester) /\ InStep(tp, tester)
      /\ Waiting(rx, tester) /\ Allowed(tp, rx, tester)
  BY <1>1, <1>2, GoodParts
<1> QED BY <1>1, <1>2, <1>3

(* A new state is good when its parts are; of a state with the same requests.   *)
LEMMA GoodNext ==
  ASSUME IInv, asked' = asked, waits' \in Nat,
         Good([tp |-> tp', rx |-> rx', tester |-> tester'])
  PROVE  IInv'
<1>1. Good(Now')
  BY NowFields
<1>2. Good(Now)'
  BY <1>1 DEF Good, Whole, Underway, Assembled, Waiting, InOrder
<1> QED BY <1>2 DEF IInv

(* The frame that arrives is a flow control, or is lost.                        *)
LEMMA ArrivesKeeps ==
  ASSUME IInv, NEW x \in Received, x.type # "request", Arrives(x), NEW k \in TesterType,
         k.awaits = tester.awaits /\ k.parts = tester.parts /\ k.next = tester.next,
         k.received = tester.received,
         tester.granted = Unlimited => k.granted = Unlimited,
         k.granted # Unlimited => k.granted = tester.granted + Size(x),
         x.type = "continue" /\ x.size = 0 => k.granted = Unlimited
  PROVE  Good([tp |-> tp, rx |-> rx', tester |-> k])
<1> DEFINE d == [tp |-> tp, rx |-> rx', tester |-> k]
<1>1. /\ tp \in TransferType /\ rx \in Seq(Received) /\ tester \in TesterType
      /\ Len(rx) <= Buffers /\ Len(rx) \in Nat
      /\ Underway(tp) /\ Assembled(tester) /\ InStep(tp, tester)
      /\ Waiting(rx, tester) /\ Allowed(tp, rx, tester)
  BY TypedNow
<1>2. rx' = rx \/ (rx' = Append(rx, x) /\ Len(rx) < Buffers)
  BY DEF Arrives
<1>3. LastOf(k) = LastOf(tester)
  BY DEF LastOf
<1>4. Assembled(k) /\ InStep(tp, k) /\ Waiting(rx, k)
  BY <1>1, <1>3 DEF Assembled, InStep, Waiting
<1>5. Rest(tp, k) = Rest(tp, tester) /\ Rest(tp, k) \in Int
  BY <1>1, RestTyped DEF Rest
<1>6. ASSUME k.granted # Unlimited
      PROVE  /\ Limited(rx) /\ (tp.state = "send" => tp.blockSent < tp.blockSize)
             /\ Fits(rx, tester.granted - Rest(tp, k)) /\ Fits(rx, k.granted - Rest(tp, k))
             /\ tester.granted - Rest(tp, k) \in Int
             /\ k.granted - Rest(tp, k) = tester.granted - Rest(tp, k) + Size(x)
  <2>1. /\ Limited(rx) /\ (tp.state = "send" => tp.blockSent < tp.blockSize)
        /\ Fits(rx, tester.granted - Rest(tp, k))
    BY <1>1, <1>5, <1>6 DEF Allowed
  <2>2. tester.granted \in Int /\ Size(x) \in Nat /\ k.granted = tester.granted + Size(x)
    BY <1>1, <1>6, GrantIsNumber, SizeTyped
  <2>3. /\ tester.granted - Rest(tp, k) \in Int /\ k.granted - Rest(tp, k) \in Int
        /\ k.granted - Rest(tp, k) = tester.granted - Rest(tp, k) + Size(x)
        /\ tester.granted - Rest(tp, k) <= k.granted - Rest(tp, k)
    BY <1>5, <2>2
  <2> QED BY <1>1, <2>1, <2>3, MoreFits
<1>7. CASE rx' = rx
  <2>1. Allowed(tp, rx', k)
    BY <1>6, <1>7 DEF Allowed
  <2>2. d \in State /\ d.tp = tp /\ d.rx = rx' /\ d.tester = k
    BY <1>1, <1>7 DEF State
  <2> HIDE DEF d
  <2>3. Good(d)
    BY <1>1, <1>4, <1>7, <2>1, <2>2 DEF Good, Whole
  <2> QED BY <2>3 DEF d
<1>8. CASE rx' = Append(rx, x) /\ Len(rx) < Buffers
  <2>1. /\ rx' \in Seq(Received) /\ Len(rx') = Len(rx) + 1 /\ rx'[Len(rx) + 1] = x
        /\ \A i \in 1..Len(rx) : rx'[i] = rx[i]
    BY <1>1, <1>8, AppendProperties
  <2>2. \A i \in 1..Len(rx') : i \in 1..Len(rx) \/ i = Len(rx) + 1
    BY <1>1, <2>1
  <2>3. \A i \in 1..Len(rx') : rx'[i].type = "request" => i \in 1..Len(rx)
    BY <2>1, <2>2
  <2>4. InOrder(rx')
    <3> SUFFICES ASSUME NEW i \in 1..Len(rx'), rx'[i].type = "request"
                 PROVE  /\ rx'[i].of <= Len(asked)
                        /\ \A j \in 1..i - 1 :
                             rx'[j].type = "request" => rx'[j].of < rx'[i].of
      BY DEF InOrder
    <3>1. i \in 1..Len(rx) /\ rx'[i] = rx[i]
      BY <2>1, <2>3
    <3>2. \A j \in 1..i - 1 : j \in 1..Len(rx) /\ rx'[j] = rx[j]
      BY <1>1, <2>1, <3>1
    <3> QED BY <1>1, <3>1, <3>2 DEF Waiting, InOrder
  <2>5. \A m : NewerThan(rx, m) => NewerThan(rx', m)
    BY <2>1, <2>3 DEF NewerThan
  <2>6. Waiting(rx', k)
    BY <1>4, <2>4, <2>5 DEF Waiting
  <2>7. Allowed(tp, rx', k)
    <3> SUFFICES ASSUME k.granted # Unlimited
                 PROVE  Allowed(tp, rx', k)
      BY DEF Allowed
    <3>1. Limited(rx')
      BY <1>6, <2>1, <2>2 DEF Limited
    <3>2. Fits(rx', tester.granted - Rest(tp, k) + Size(x))
      BY <1>1, <1>6, <1>8, AppendFits
    <3>3. Fits(rx', k.granted - Rest(tp, k))
      BY <1>6, <3>2
    <3> QED BY <1>6, <3>1, <3>3 DEF Allowed
  <2>8. d \in State /\ d.tp = tp /\ d.rx = rx' /\ d.tester = k
    BY <1>1, <2>1 DEF State
  <2>9. Len(rx') <= Buffers
    BY <1>1, <1>8, <2>1, Settings
  <2> HIDE DEF d
  <2>10. Good(d)
    BY <1>1, <1>4, <2>6, <2>7, <2>8, <2>9 DEF Good, Whole
  <2> QED BY <2>10 DEF d
<1> QED BY <1>2, <1>7, <1>8

LEMMA ContinueKeeps ==
  ASSUME IInv, NEW size \in {IF b = 0 THEN Unlimited ELSE b : b \in Blocks},
         NEW apart \in BOOLEAN, Continue(size, apart)
  PROVE  IInv'
<1> DEFINE n == IF size = Unlimited THEN 0 ELSE size
           x == FlowControl("continue", n, apart)
           k == [tester EXCEPT !.owes = FALSE, !.left = More(0, size),
                               !.granted = More(@, size)]
<1>1. tester \in TesterType /\ waits \in Nat
  BY TypedNow DEF IInv
<1>2. size \in Grant /\ size # 0 /\ n \in {0} \cup Blocks /\ n \in Nat /\ 0 \in Grant
  <2>1. PICK b \in Blocks : size = IF b = 0 THEN Unlimited ELSE b
    OBVIOUS
  <2>2. b \in Nat
    BY BlockIsNat
  <2>3. n = b
    BY <2>1, <2>2 DEF Unlimited
  <2> QED BY <2>1, <2>2, <2>3 DEF Grant, Unlimited
<1>3. x.type = "continue" /\ x.size = n /\ Size(x) = n
  BY DEF FlowControl, Size
<1>4. x \in Received
  BY <1>2 DEF FlowControl, Received
<1>5. Arrives(x) /\ tester' = k /\ tp' = tp /\ asked' = asked /\ waits' = waits
  BY DEF Continue
<1>6. tester.granted \in Grant
  BY <1>1 DEF TesterType
<1>7. More(0, size) \in Grant /\ More(tester.granted, size) \in Grant
  BY <1>2, <1>6, GrantTyped
<1>8. /\ k \in TesterType /\ k.awaits = tester.awaits /\ k.parts = tester.parts
      /\ k.next = tester.next /\ k.received = tester.received
      /\ k.granted = More(tester.granted, size)
  BY <1>1, <1>7 DEF TesterType
<1> HIDE DEF x, k
<1>9. /\ tester.granted = Unlimited => k.granted = Unlimited
      /\ k.granted # Unlimited => k.granted = tester.granted + Size(x)
      /\ n = 0 => k.granted = Unlimited
  BY <1>2, <1>3, <1>6, <1>8 DEF More, Grant
<1> HIDE DEF n
<1>10. Good([tp |-> tp, rx |-> rx', tester |-> k])
  BY <1>3, <1>4, <1>5, <1>8, <1>9, ArrivesKeeps
<1> QED BY <1>1, <1>5, <1>10, GoodNext

LEMMA ControlArrives ==
  ASSUME IInv, NEW type \in {"wait", "abort"}, Arrives(FlowControl(type, 0, FALSE))
  PROVE  Good([tp |-> tp, rx |-> rx', tester |-> tester])
<1> DEFINE x == FlowControl(type, 0, FALSE)
<1>1. x \in Received /\ x.type = type /\ Size(x) = 0
  BY DEF FlowControl, Received, Size
<1>2. tester \in TesterType
  BY TypedNow
<1>3. tester.granted \in Int
  BY <1>2, GrantIsNumber
<1> HIDE DEF x
<1>4. tester.granted # Unlimited => tester.granted = tester.granted + Size(x)
  BY <1>1, <1>3
<1>5. Arrives(x) /\ x.type # "request" /\ x.type # "continue"
  BY <1>1 DEF x
<1> QED BY <1>1, <1>2, <1>4, <1>5, ArrivesKeeps

(* A tester that gives up, in a good state.                                     *)
LEMMA QuitsGood ==
  ASSUME NEW s, Good(s), asked \in Seq(Kinds)
  PROVE  Good([tp |-> s.tp, rx |-> s.rx, tester |-> Quit(s.tester)])
<1> DEFINE h == s.tester
           k == Quit(h)
<1>1. /\ s.tp \in TransferType /\ h \in TesterType /\ Underway(s.tp) /\ Assembled(h)
      /\ Waiting(s.rx, h) /\ Allowed(s.tp, s.rx, h)
  BY GoodParts
<1>2. k \in TesterType /\ k.parts = <<>> /\ k.granted = h.granted
  BY <1>1, QuitTyped
<1>3. Assembled(k) /\ LastOf(k) = LastOf(h)
  BY <1>1, QuitKeeps
<1> HIDE DEF k
<1>4. NewerThan(s.rx, LastOf(k))
  BY <1>1, <1>3 DEF Waiting
<1>5. h.granted # Unlimited /\ s.tp.state = "send" => s.tp.blockSent < s.tp.blockSize
  BY <1>1 DEF Allowed
<1>6. Good([tp |-> s.tp, rx |-> s.rx, tester |-> k])
  BY <1>1, <1>2, <1>3, <1>4, <1>5, Emptied
<1> QED BY <1>6 DEF k

(* What the tester does besides asking and granting keeps the invariant.        *)
LEMMA TesterKeeps ==
  ASSUME IInv, Wait \/ Overflow \/ GiveUp
  PROVE  IInv'
<1>1. waits \in Nat /\ asked \in Seq(Kinds) /\ Good(Now)
  BY DEF IInv
<1>2. CASE Wait
  <2>1. Arrives(FlowControl("wait", 0, FALSE)) /\ waits' \in Nat
    <3>1. waits' = waits + 1
      BY <1>2 DEF Wait
    <3>2. waits' \in Nat
      BY <1>1, <3>1
    <3>3. Arrives(FlowControl("wait", 0, FALSE))
      BY <1>2 DEF Wait
    <3> QED BY <3>2, <3>3
  <2>2. Good([tp |-> tp, rx |-> rx', tester |-> tester])
    BY <2>1, ControlArrives
  <2> QED BY <1>2, <2>1, <2>2, GoodNext DEF Wait
<1>3. CASE Overflow
  <2> DEFINE e == [tp |-> tp, rx |-> rx', tester |-> tester]
  <2>1. Arrives(FlowControl("abort", 0, FALSE)) /\ tester' = Quit(tester)
    BY <1>3 DEF Overflow
  <2>2. Good(e)
    BY <2>1, ControlArrives
  <2>3. e.tp = tp /\ e.rx = rx' /\ e.tester = tester
    OBVIOUS
  <2> HIDE DEF e
  <2>4. Good([tp |-> tp, rx |-> rx', tester |-> Quit(tester)])
    BY <1>1, <2>2, <2>3, QuitsGood
  <2> QED BY <1>1, <1>3, <2>1, <2>4, GoodNext DEF Overflow
<1>4. CASE GiveUp
  <2>1. Good([tp |-> tp, rx |-> rx, tester |-> Quit(tester)])
    BY <1>1, NowFields, QuitsGood
  <2> QED BY <1>1, <1>4, <2>1, GoodNext DEF GiveUp
<1> QED BY <1>2, <1>3, <1>4

(* Time passes.                                                                 *)
LEMMA TimeKeeps ==
  ASSUME IInv, TimeOut \/ Rested
  PROVE  IInv'
<1>1. /\ tp \in TransferType /\ rx \in Seq(Received) /\ tester \in TesterType
      /\ Underway(tp) /\ InStep(tp, tester) /\ Allowed(tp, rx, tester)
  BY TypedNow
<1>2. /\ tp' \in TransferType /\ tp'.state = tp.state /\ tp'.of = tp.of
      /\ tp'.offset = tp.offset /\ tp'.index = tp.index
      /\ tp'.blockSent = tp.blockSent /\ tp'.blockSize = tp.blockSize
  BY <1>1 DEF TimeOut, Rested, TransferType
<1>3. /\ rx' = rx /\ tester' = tester /\ asked' = asked /\ waits' = waits
  BY DEF TimeOut, Rested
<1>4. Underway(tp') /\ InStep(tp', tester) /\ Allowed(tp', rx, tester)
  BY <1>1, <1>2 DEF Underway, InStep, Allowed, Rest
<1> DEFINE d == [tp |-> tp', rx |-> rx', tester |-> tester']
<1>5. d \in State /\ d.tp = tp' /\ d.rx = rx /\ d.tester = tester
  BY <1>1, <1>2, <1>3 DEF State
<1>6. Assembled(tester) /\ Waiting(rx, tester) /\ Len(rx) <= Buffers
  BY TypedNow
<1> HIDE DEF d
<1>7. Good(d)
  BY <1>4, <1>5, <1>6 DEF Good, Whole
<1>8. waits' \in Nat
  BY <1>3 DEF IInv
<1> QED BY <1>3, <1>7, <1>8, GoodNext DEF d

(* Another request, newer than everything that waits or was answered.           *)
LEMMA AskKeeps ==
  ASSUME IInv, NEW kind \in Kinds, Ask(kind)
  PROVE  IInv'
<1> DEFINE l == Len(asked)
           n == l + 1
           x == Request(n)
           k == [tester EXCEPT !.awaits = n]
<1>1. /\ asked \in Seq(Kinds) /\ l \in Nat /\ l <= MaxRequests
      /\ tp \in TransferType /\ rx \in Seq(Received) /\ tester \in TesterType
      /\ Len(rx) <= Buffers /\ Len(rx) \in Nat
      /\ Underway(tp) /\ Assembled(tester)
      /\ Waiting(rx, tester) /\ Allowed(tp, rx, tester)
  BY TypedNow
<1>2. /\ tester.awaits = 0 /\ l < MaxRequests /\ asked' = Append(asked, kind)
      /\ tp' = tp /\ waits' = waits
  BY DEF Ask
<1>3. /\ asked' \in Seq(Kinds) /\ Len(asked') = n /\ \A i \in 1..l : asked'[i] = asked[i]
  BY <1>1, <1>2, AppendProperties
<1>4. n \in 1..MaxRequests /\ n \in 0..MaxRequests /\ n <= MaxRequests
  BY <1>1, <1>2, Settings
<1>5. tester' = k /\ Arrives(x)
  BY <1>3 DEF Ask
<1>6. x \in Received /\ x.type = "request" /\ x.of = n /\ Size(x) = 0
  BY <1>4 DEF Request, Received, Size
<1>7. tester.parts = <<>>
  BY <1>1, <1>2 DEF Assembled
<1>8. /\ k \in TesterType /\ k.parts = <<>> /\ k.awaits = n /\ k.granted = tester.granted
      /\ k.received = tester.received
  BY <1>1, <1>4, <1>7 DEF TesterType
<1> HIDE DEF x, k
<1>9. LastOf(k) = LastOf(tester) /\ LastOf(k) \in Nat /\ LastOf(k) <= l
  BY <1>1, <1>8, LastTyped DEF LastOf, Assembled
<1>10. Rest(tp, k) = 0 /\ Rest(tp, tester) = 0
  BY <1>7, <1>8 DEF Rest
<1>11. Underway(tp)'
  <2>1. tp.state # "idle" => tp.of \in 1..l /\ tp.of \in 1..n
    BY <1>1 DEF Underway
  <2> QED BY <1>1, <1>2, <1>3, <2>1 DEF Underway
<1>12. Assembled(tester)'
  <2>1. LastOf(tester)' = LastOf(k)
    BY <1>5 DEF LastOf
  <2>2. n <= Len(asked') /\ LastOf(k) <= Len(asked')
    BY <1>1, <1>3, <1>9
  <2> QED BY <1>5, <1>8, <2>1, <2>2 DEF Assembled
<1>13. InStep(tp, tester)'
  BY <1>5, <1>8 DEF InStep
<1>14. /\ InOrder(rx)
       /\ \A i \in 1..Len(rx) : rx[i].type = "request" => rx[i].of <= l
       /\ NewerThan(rx, LastOf(k))
  BY <1>1, <1>9 DEF Waiting, InOrder
<1>15. \A i \in 1..Len(rx) : rx[i].type = "request" => rx[i].of \in Nat /\ rx[i].of < n
  <2> TAKE i \in 1..Len(rx)
  <2> HAVE rx[i].type = "request"
  <2>1. rx[i] \in Received
    BY <1>1
  <2>2. rx[i] \in [type : {"request"}, of : 1..MaxRequests]
    BY <2>1 DEF Received
  <2>3. rx[i].of \in Nat /\ rx[i].of <= l
    BY <1>14, <2>2, Settings
  <2> QED BY <1>1, <2>3
<1>16. /\ rx' \in Seq(Received) /\ Len(rx') <= Buffers
       /\ InOrder(rx)' /\ NewerThan(rx', LastOf(k))
       /\ k.granted # Unlimited => Limited(rx') /\ Fits(rx', k.granted)
  <2>1. ASSUME k.granted # Unlimited
        PROVE  Limited(rx) /\ Fits(rx, k.granted) /\ k.granted \in Int
    <3>1. Limited(rx) /\ Fits(rx, tester.granted - Rest(tp, tester))
      BY <1>1, <1>8, <2>1 DEF Allowed
    <3>2. tester.granted \in Int
      BY <1>1, GrantIsNumber
    <3>3. tester.granted - Rest(tp, tester) = k.granted
      BY <1>8, <1>10, <3>2
    <3> QED BY <1>8, <3>1, <3>2, <3>3
  <2>2. CASE rx' = rx
    <3>1. InOrder(rx)'
      <4> SUFFICES ASSUME NEW i \in 1..Len(rx), rx[i].type = "request"
                   PROVE  /\ rx[i].of <= n
                          /\ \A j \in 1..i - 1 :
                               rx[j].type = "request" => rx[j].of < rx[i].of
        BY <1>3, <2>2 DEF InOrder
      <4>1. rx[i].of <= n
        BY <1>1, <1>15
      <4> QED BY <1>14, <4>1 DEF InOrder
    <3> QED BY <1>1, <1>14, <2>1, <2>2, <3>1
  <2>3. CASE rx' = Append(rx, x) /\ Len(rx) < Buffers
    <3>1. /\ rx' \in Seq(Received) /\ Len(rx') = Len(rx) + 1 /\ rx'[Len(rx) + 1] = x
          /\ \A i \in 1..Len(rx) : rx'[i] = rx[i]
      BY <1>1, <1>6, <2>3, AppendProperties
    <3>2. \A i \in 1..Len(rx') : i \in 1..Len(rx) \/ i = Len(rx) + 1
      BY <1>1, <3>1
    <3>3. InOrder(rx)'
      <4> SUFFICES ASSUME NEW i \in 1..Len(rx'), rx'[i].type = "request"
                   PROVE  /\ rx'[i].of <= n
                          /\ \A j \in 1..i - 1 :
                               rx'[j].type = "request" => rx'[j].of < rx'[i].of
        BY <1>3 DEF InOrder
      <4>1. CASE i \in 1..Len(rx)
        <5>1. \A j \in 1..i - 1 : j \in 1..Len(rx) /\ rx'[j] = rx[j]
          BY <1>1, <3>1, <4>1
        <5>3. rx'[i] = rx[i] /\ rx[i].of \in Nat /\ rx[i].of < n
          BY <1>15, <3>1, <4>1
        <5>2. rx'[i] = rx[i] /\ rx[i].of <= n
          BY <1>1, <5>3
        <5> QED BY <1>14, <4>1, <5>1, <5>2 DEF InOrder
      <4>2. CASE i = Len(rx) + 1
        <5>1. rx'[i] = x /\ rx'[i].of = n
          BY <1>6, <3>1, <4>2
        <5>2. \A j \in 1..i - 1 : j \in 1..Len(rx) /\ rx'[j] = rx[j]
          BY <1>1, <3>1, <4>2
        <5> QED BY <1>1, <1>15, <5>1, <5>2
      <4> QED BY <3>2, <4>1, <4>2
    <3>4. NewerThan(rx', LastOf(k))
      <4> SUFFICES ASSUME NEW i \in 1..Len(rx'), rx'[i].type = "request"
                   PROVE  LastOf(k) < rx'[i].of
        BY DEF NewerThan
      <4>1. CASE i \in 1..Len(rx)
        BY <1>14, <3>1, <4>1 DEF NewerThan
      <4>2. CASE i = Len(rx) + 1
        BY <1>1, <1>6, <1>9, <3>1, <4>2
      <4> QED BY <3>2, <4>1, <4>2
    <3>5. ASSUME k.granted # Unlimited
          PROVE  Limited(rx') /\ Fits(rx', k.granted)
      <4>1. Limited(rx')
        BY <1>6, <2>1, <3>1, <3>2, <3>5 DEF Limited
      <4>2. Fits(rx', k.granted + Size(x))
        BY <1>1, <1>6, <2>1, <2>3, <3>5, AppendFits
      <4>3. k.granted + Size(x) = k.granted
        BY <1>6, <2>1, <3>5
      <4> QED BY <4>1, <4>2, <4>3
    <3>6. Len(rx') <= Buffers
      BY <1>1, <2>3, <3>1, Settings
    <3> QED BY <3>1, <3>3, <3>4, <3>5, <3>6
  <2>4. rx' = rx \/ (rx' = Append(rx, x) /\ Len(rx) < Buffers)
    BY <1>5 DEF Arrives
  <2> QED BY <2>2, <2>3, <2>4
<1>17. Waiting(rx, tester)'
  <2>1. LastOf(tester)' = LastOf(k) /\ tester'.parts = <<>>
    BY <1>5, <1>8 DEF LastOf
  <2>2. NewerThan(rx, LastOf(tester))'
    BY <1>16, <2>1 DEF NewerThan
  <2> QED BY <1>16, <2>1, <2>2 DEF Waiting
<1>18. Allowed(tp, rx, tester)'
  <2>1. ASSUME k.granted # Unlimited
        PROVE  /\ Limited(rx') /\ (tp.state = "send" => tp.blockSent < tp.blockSize)
               /\ Fits(rx', k.granted - Rest(tp, k))
    <3>1. k.granted \in Int
      BY <1>8, GrantIsNumber
    <3>2. k.granted - Rest(tp, k) = k.granted
      BY <1>10, <3>1
    <3> QED BY <1>1, <1>8, <1>16, <2>1, <3>2 DEF Allowed
  <2>2. Allowed(tp', rx', tester')
    BY <1>2, <1>5, <2>1 DEF Allowed
  <2> QED BY <2>2 DEF Allowed, Limited, Fits, Sums, Rest, Size
<1>19. Good(Now)'
  <2> DEFINE d == [tp |-> tp', rx |-> rx', tester |-> tester']
  <2>1. d \in State /\ d.tp = tp' /\ d.rx = rx' /\ d.tester = tester' /\ Now' = d
    BY <1>1, <1>2, <1>5, <1>8, <1>16, NowFields DEF State
  <2> HIDE DEF d
  <2>2. Whole(tp, rx, tester)'
    BY <1>11, <1>12, <1>13, <1>17 DEF Whole
  <2>3. Now'.tp = tp' /\ Now'.rx = rx' /\ Now'.tester = tester' /\ Now' \in State
    BY <2>1
  <2> QED BY <1>16, <1>18, <2>2, <2>3 
     DEF Good, Whole, Underway, Assembled, InStep, Waiting, State, Now
<1>20. waits' \in Nat
  BY <1>2 DEF IInv
<1> QED BY <1>3, <1>4, <1>19, <1>20 DEF IInv

--------------------------------------------------------------------------------
(* The invariant holds from the start, and every step keeps it                  *)

LEMMA InitHolds == Init => IInv
<1> SUFFICES ASSUME Init
             PROVE  IInv
  OBVIOUS
<1>1. rx = <<>> /\ asked = <<>> /\ waits = 0
  BY DEF Init
<1>2. /\ tp.state = "idle" /\ tester.awaits = 0 /\ tester.parts = <<>>
      /\ tester.granted = 0 /\ tester.received = <<>>
  BY DEF Init
<1>3. /\ 0 \in 0..MaxRequests /\ 2 \in 2..Frames + 2 /\ 0 \in 0..Wrap - 1 /\ 0 \in Grant
      /\ 0 <= MaxRequests /\ 0 <= Buffers
  BY Settings DEF Grant
<1>4. tp \in TransferType
  BY <1>3 DEF Init, TransferType
<1>5. tester \in TesterType
  <2>1. <<>> \in Seq(Piece)
    OBVIOUS
  <2> QED BY <1>3, <2>1 DEF Init, TesterType
<1>6. asked \in Seq(Kinds) /\ Len(asked) = 0 /\ rx \in Seq(Received) /\ Len(rx) = 0
  BY <1>1
<1>7. LastOf(tester) = 0
  BY <1>2 DEF LastOf
<1>8. Underway(tp) /\ Assembled(tester) /\ InStep(tp, tester)
  BY <1>2, <1>6, <1>7 DEF Underway, Assembled, InStep
<1>9. Waiting(rx, tester)
  BY <1>2, <1>6 DEF Waiting, InOrder, NewerThan
<1>10. Allowed(tp, rx, tester)
  <2>1. Limited(rx)
    BY <1>6 DEF Limited
  <2>2. tester.granted - Rest(tp, tester) = 0
    BY <1>2 DEF Rest
  <2> DEFINE f == [i \in 1..1 |-> 0]
  <2>3. Sums(rx, f)
    BY <1>6 DEF Sums
  <2>4. f[1] <= 0
    OBVIOUS
  <2> HIDE DEF f
  <2>5. Fits(rx, 0)
    BY <2>3, <2>4 DEF Fits
  <2> QED BY <1>2, <2>1, <2>2, <2>5 DEF Allowed
<1>11. Now \in State
  BY <1>4, <1>5, <1>6 DEF Now, State
<1>12. Good(Now)
  BY <1>3, <1>6, <1>8, <1>9, <1>10, <1>11, NowFields DEF Good, Whole
<1> QED BY <1>1, <1>3, <1>6, <1>12 DEF IInv

(* Everything but a pass leaves the tester what it took, or less.               *)
Quiet ==
  /\ tester'.received = tester.received
  /\ tester'.parts = tester.parts \/ tester'.parts = <<>>

LEMMA QuietSteps ==
  ASSUME IInv,
         \/ \E kind \in Kinds : Ask(kind)
         \/ \E size \in {IF b = 0 THEN Unlimited ELSE b : b \in Blocks}, apart \in BOOLEAN :
              Continue(size, apart)
         \/ Wait \/ Overflow \/ GiveUp \/ TimeOut \/ Rested \/ UNCHANGED vars
  PROVE  Quiet
<1>1. tester \in TesterType
  BY TypedNow
<1>2. CASE \E kind \in Kinds : Ask(kind)
  <2>1. tester' = [tester EXCEPT !.awaits = Len(asked')]
    BY <1>2 DEF Ask
  <2> QED BY <1>1, <2>1 DEF TesterType, Quiet
<1>3. ASSUME NEW size, NEW apart, Continue(size, apart)
      PROVE  Quiet
  <2>1. tester' = [tester EXCEPT !.owes = FALSE, !.left = More(0, size),
                                 !.granted = More(@, size)]
    BY <1>3 DEF Continue
  <2> QED BY <1>1, <2>1 DEF TesterType, Quiet
<1>4. CASE Overflow \/ GiveUp
  <2>1. tester' = Quit(tester)
    BY <1>4 DEF Overflow, GiveUp
  <2> QED BY <1>1, <2>1, QuitTyped DEF Quiet
<1>5. CASE Wait \/ TimeOut \/ Rested \/ UNCHANGED vars
  BY <1>5 DEF Wait, TimeOut, Rested, vars, Quiet
<1> QED BY <1>2, <1>3, <1>4, <1>5

LEMMA Inductive == IInv /\ [Next]_vars => IInv'
<1> SUFFICES ASSUME IInv, [Next]_vars
             PROVE  IInv'
  OBVIOUS
<1>1. ASSUME NEW kind \in {"short", "long"}, Ask(kind)
      PROVE  IInv'
  <2>1. kind \in Kinds
    BY DEF Kinds
  <2> QED BY <1>1, <2>1, AskKeeps
<1>2. ASSUME NEW size \in {IF b = 0 THEN Unlimited ELSE b : b \in Blocks},
             NEW apart \in BOOLEAN, Continue(size, apart)
      PROVE  IInv'
  BY <1>2, ContinueKeeps
<1>3. CASE Wait \/ Overflow \/ GiveUp
  BY <1>3, TesterKeeps
<1>4. CASE Pass
  BY <1>4, PassKeeps
<1>5. CASE TimeOut \/ Rested
  BY <1>5, TimeKeeps
<1>6. CASE UNCHANGED vars
  <2>1. tp' = tp /\ rx' = rx /\ tester' = tester /\ asked' = asked /\ waits' = waits
    BY <1>6 DEF vars
  <2>2. Good([tp |-> tp', rx |-> rx', tester |-> tester']) /\ waits' \in Nat
    BY <2>1 DEF IInv, Now
  <2> QED BY <2>1, <2>2, GoodNext
<1> QED BY <1>1, <1>2, <1>3, <1>4, <1>5, <1>6 DEF Next

LEMMA Invariance == Spec => []IInv
<1>1. Init => IInv
  BY InitHolds
<1>2. IInv /\ [Next]_vars => IInv'
  BY Inductive
<1> QED BY <1>1, <1>2, PTL DEF Spec

(* The transfer, the receive buffers and the tester have their types, and the   *)
(* index of iso_tp_process always belongs to the part that is sent next.        *)
THEOREM TransferTypeCorrect == Spec => []OTypeOK
<1>1. IInv => OTypeOK
  <2> SUFFICES ASSUME IInv
               PROVE  OTypeOK
    OBVIOUS
  <2>1. /\ tp \in TransferType /\ tester \in TesterType /\ Len(rx) <= Buffers
        /\ Underway(tp) /\ Assembled(tester) /\ Len(asked) \in Nat
    BY TypedNow
  <2>2. Len(tester.parts) <= Frames
    <3>1. CASE tester.parts = <<>>
      BY <3>1, Settings
    <3>2. CASE tester.parts # <<>>
      BY <2>1, <3>2 DEF Assembled
    <3> QED BY <3>1, <3>2
  <2>3. tester.awaits \in 0..Len(asked)
    <3>1. tester.awaits \in 0..MaxRequests /\ tester.awaits <= Len(asked)
      BY <2>1 DEF TesterType, Assembled
    <3> QED BY <2>1, <3>1, Settings
  <2>4. tp.state # "idle" => tp.offset <= Frames + 1 /\ tp.index = (tp.offset - 1) % Wrap
    BY <2>1 DEF Underway
  <2> QED BY <2>1, <2>2, <2>3, <2>4 DEF OTypeOK
<1> QED BY <1>1, Invariance, PTL

(* Every answer that a tester takes for complete is one whole answer to one of  *)
(* its requests, newer than the answer before: the sender of obd-2.c implements *)
(* WholeAnswers, whatever flow control is lost, late, or obeyed for another     *)
(* answer, whatever send fails, and whoever gives up.                           *)
THEOREM WholeAnswersImplemented == Spec => AnswersAreWhole
<1>1. Init => Delivery!Init
  BY DEF Init, Delivery!Init
<1>2. IInv /\ [Next]_vars => [Delivery!Ask \/ Delivery!Deliver]_<<asked, tester.received>>
  <2> SUFFICES ASSUME IInv, [Next]_vars
               PROVE  [Delivery!Ask \/ Delivery!Deliver]_<<asked, tester.received>>
    OBVIOUS
  <2>1. ASSUME NEW kind \in {"short", "long"}, Ask(kind)
        PROVE  Delivery!Ask
    <3>1. kind \in Kinds
      BY DEF Kinds
    <3>2. tester'.received = tester.received
      BY <2>1, <3>1, QuietSteps DEF Quiet
    <3>3. asked' = Append(asked, kind)
      BY <2>1 DEF Ask
    <3> QED BY <3>2, <3>3 DEF Delivery!Ask
  <2>2. ASSUME NEW size \in {IF b = 0 THEN Unlimited ELSE b : b \in Blocks},
               NEW apart \in BOOLEAN, Continue(size, apart)
        PROVE  UNCHANGED <<asked, tester.received>>
    <3>1. tester'.received = tester.received
      BY <2>2, QuietSteps DEF Quiet
    <3> QED BY <2>2, <3>1 DEF Continue
  <2>3. CASE Wait \/ Overflow \/ GiveUp \/ TimeOut \/ Rested \/ UNCHANGED vars
    <3>1. tester'.received = tester.received
      BY <2>3, QuietSteps DEF Quiet
    <3>2. asked' = asked
      BY <2>3 DEF Wait, Overflow, GiveUp, TimeOut, Rested, vars
    <3> QED BY <3>1, <3>2
  <2>4. CASE Pass
    <3>1. asked' = asked
      BY <2>4 DEF Pass
    <3>2. \/ tester'.received = tester.received
          \/ \E r \in LastOf(tester) + 1..Len(asked) :
               tester'.received = Delivery!Answer(r)
      BY <2>4, PassKeeps
    <3>3. Delivery!Last = LastOf(tester)
      BY DEF Delivery!Last, LastOf
    <3> QED BY <3>1, <3>2, <3>3 DEF Delivery!Deliver
  <2> QED BY <2>1, <2>2, <2>3, <2>4 DEF Next
<1> QED BY <1>1, <1>2, Invariance, PTL DEF Spec, AnswersAreWhole, Delivery!Spec

(* A tester never takes a frame its flow controls did not allow: a grant that   *)
(* comes late may be used for a later answer, but only once.                    *)
THEOREM GrantIsKept == Spec => WithinGrant
<1> DEFINE A == /\ tester.parts # <<>>
                /\ Len(tester'.parts) > Len(tester.parts) \/ tester'.received # tester.received
                => tester.granted # 0
<1>1. IInv /\ [Next]_vars => [A]_vars
  <2> SUFFICES ASSUME IInv, [Next]_vars
               PROVE  A
    OBVIOUS
  <2>1. CASE Pass
    BY <2>1, PassKeeps
  <2>2. CASE Quiet
    <3>1. Len(tester.parts) \in Nat
      <4>1. tester.parts \in Seq(Piece)
        BY TypedNow DEF TesterType
      <4> QED BY <4>1
    <3>2. ~(Len(tester'.parts) > Len(tester.parts))
      BY <2>2, <3>1 DEF Quiet
    <3> QED BY <2>2, <3>2 DEF Quiet
  <2>3. Pass \/ Quiet
    <3>1. Kinds = {"short", "long"}
      BY DEF Kinds
    <3> QED BY <3>1, QuietSteps DEF Next
  <2> QED BY <2>1, <2>2, <2>3
<1> QED BY <1>1, Invariance, TransferTypeCorrect, PTL DEF Spec, WithinGrant
================================================================================
