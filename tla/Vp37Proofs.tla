------------------------------- MODULE Vp37Proofs -------------------------------
(* The VP37 drive for every stroke, slew, command set, period, lateness,        *)
(* transfer time, cutoff and calibration window; and the snapshot it publishes  *)
(* for every width of the sequence, every number of attempts and publications.  *)
EXTENDS MCVp37, TLAPS

--------------------------------------------------------------------------------
(* The snapshot                                                                 *)


Number == Len(content)
Writing == IF writing THEN 1 ELSE 0

(* The words are of the publication under way as far as it stored them.         *)
WriterInv ==
  /\ writing <=> Odd(publishedSequence)
  /\ publishedSequence = 0 <=> Number = 0
  /\ ~writing => toStore = {}
  /\ \A w \in Word :
       published[w] = IF w \in toStore THEN Number - 1 ELSE Number

(* Where the sequence stands after the publications begun since the copy did:   *)
(* at most one wrap away, and fewer publications than a whole turn.             *)
Turned ==
  LET next == sequence + 2 * (Number - begun) - Writing
  IN publishedSequence = next \/ publishedSequence = next - (Width - 2)

CopyInv ==
  pc = "copy" =>
    /\ begun >= 1 /\ since <= begun /\ sequence \in 2 .. Width - 2
    /\ Number - begun <= Overlap
    /\ Number = begun =>
         /\ ~writing /\ publishedSequence = sequence
         /\ \A w \in Word \ toLoad : words[w] = begun
    /\ Number > begun => Turned

WaitInv ==
  (pc = "wait" /\ since = begun /\ Number = begun) => publishedSequence = sequence

ReaderInv ==
  /\ since <= Completed /\ begun <= Number
  /\ pc = "wait" => since <= begun /\ (begun <= since + 1)
  /\ \A w \in Word : words[w] <= Number
  /\ globals <= Number

ResultInv ==
  WholeCopies /\ AbsentMeansNever /\ BusyMeansOverlap /\ WaitMeansNew /\ GlobalsMatch

SnapshotInv == TypeOK /\ WriterInv /\ CopyInv /\ WaitInv /\ ReaderInv /\ ResultInv

--------------------------------------------------------------------------------
LEMMA Parity ==
  ASSUME NEW s \in 0 .. Width - 1
  PROVE  /\ ~Odd(s) => s + 1 \in 0 .. Width - 1 /\ Odd(s + 1)
         /\ Odd(s) => ~Odd(NextSequence(s)) /\ NextSequence(s) \in 2 .. Width - 2
  BY SnapshotAssumption DEF Odd, NextSequence

LEMMA ResultTypes ==
  /\ \A s \in {"none", "EAGAIN", "ENOENT", "published", "timeout"} :
       [status |-> s] \in Result
  /\ \A copy \in [Word -> Nat] : [status |-> "OK", words |-> copy] \in Result
  BY DEF Result

LEMMA SnapshotStarts == Init => SnapshotInv
<1> SUFFICES ASSUME Init PROVE SnapshotInv
  OBVIOUS
<1> USE DEF Init
<1>1. TypeOK
  <2>1. result \in Result
    BY ResultTypes DEF None
  <2>2. attempt \in 0 .. Attempts - 1 /\ sequence \in 0 .. Width - 1
        /\ publishedSequence \in 0 .. Width - 1
    BY SnapshotAssumption
  <2>3. content \in Seq(Status) /\ Len(content) <= Publications
    BY SnapshotAssumption
  <2>4. published \in [Word -> Nat] /\ words \in [Word -> Nat]
    OBVIOUS
  <2> QED
    BY <2>1, <2>2, <2>3, <2>4 DEF TypeOK
<1>2. ~Odd(publishedSequence)
  BY DEF Odd
<1>3. WriterInv
  BY <1>2 DEF WriterInv, Number
<1>4. CopyInv /\ WaitInv
  BY DEF CopyInv, WaitInv
<1>5. ReaderInv
  BY DEF ReaderInv, Number, Completed
<1>6. ResultInv
  BY DEF ResultInv, WholeCopies, AbsentMeansNever, BusyMeansOverlap, WaitMeansNew,
         GlobalsMatch, ReadsOf, None
<1> QED
  BY <1>1, <1>3, <1>4, <1>5, <1>6 DEF SnapshotInv

--------------------------------------------------------------------------------
(* The control core                                                             *)

(* What the reader remembers is about publications that are in `content`, and   *)
(* those never change.                                                          *)
LEMMA ReadsKept ==
  ASSUME TypeOK, NEW status \in Status, content' = Append(content, status),
         NEW n \in Nat, n <= Len(content)
  PROVE  ReadsOf(n)' = ReadsOf(n)
<1>1. n = 0 \/ content'[n] = content[n]
  BY DEF TypeOK
<1> QED
  BY <1>1 DEF ReadsOf

LEMMA BeginPublicationKeeps ==
  ASSUME SnapshotInv, NEW status \in Status, BeginPublication(status),
         vp37Initialized' \in BOOLEAN, readCount' \in Nat
  PROVE  SnapshotInv'
<1> USE DEF BeginPublication, reader
<1>1. /\ Number \in Nat /\ Number' = Number + 1 /\ Number' <= Publications
      /\ Number' \in Nat /\ content' \in Seq(Status)
  BY SnapshotAssumption DEF SnapshotInv, TypeOK, Number
<1>2. /\ publishedSequence' \in 0 .. Width - 1 /\ Odd(publishedSequence')
      /\ publishedSequence' # 0
  BY Parity DEF SnapshotInv, TypeOK, WriterInv
<1>3. TypeOK'
  BY <1>1, <1>2 DEF SnapshotInv, TypeOK, Number
<1>4. \A w \in Word : published'[w] = Number
  BY DEF SnapshotInv, TypeOK, WriterInv
<1>5. WriterInv'
  BY <1>1, <1>2, <1>4 DEF WriterInv, Number, Odd
<1>6. Completed' = Completed
  BY <1>1 DEF Completed, Number
<1>7. CopyInv'
  <2> SUFFICES ASSUME pc = "copy" PROVE CopyInv'
    BY DEF CopyInv
  <2>1. Number - begun < Overlap /\ begun <= Number
    BY DEF Number, SnapshotInv, ReaderInv
  <2>2. begun \in Nat /\ sequence \in Nat /\ publishedSequence \in Nat
    BY DEF SnapshotInv, TypeOK
  <2>3. Writing = 0 /\ Writing' = 1
    BY DEF Writing
  <2> QED
    BY <1>1, <2>1, <2>2, <2>3, SnapshotAssumption DEF CopyInv, Turned, SnapshotInv
<1>8. WaitInv'
  BY <1>1 DEF WaitInv, SnapshotInv, ReaderInv, TypeOK
<1>9. ReaderInv'
  BY <1>1, <1>6 DEF ReaderInv, SnapshotInv, TypeOK
<1>10. ResultInv'
  <2>1. WholeCopies'
    BY <1>1 DEF SnapshotInv, ResultInv, WholeCopies, Number, TypeOK
  <2>2. AbsentMeansNever' /\ BusyMeansOverlap' /\ WaitMeansNew'
    BY <1>1, <1>6 DEF SnapshotInv, ResultInv, AbsentMeansNever, BusyMeansOverlap,
                      WaitMeansNew, Number, TypeOK
  <2>3. GlobalsMatch'
    <3>1. ReadsOf(globals)' = ReadsOf(globals)'
      OBVIOUS
    <3>2. globals \in Nat /\ globals <= Len(content)
      BY DEF SnapshotInv, TypeOK, ReaderInv, Number
    <3>3. globals = 0 \/ content'[globals] = content[globals]
      BY <3>2 DEF SnapshotInv, TypeOK
    <3> QED
      BY <3>2, <3>3 DEF GlobalsMatch, ReadsOf, SnapshotInv, ResultInv
  <2> QED
    BY <2>1, <2>2, <2>3 DEF ResultInv
<1> QED
  BY <1>3, <1>5, <1>7, <1>8, <1>9, <1>10 DEF SnapshotInv

LEMMA StoreWordKeeps ==
  ASSUME SnapshotInv, StoreWord PROVE SnapshotInv'
<1> USE DEF StoreWord, reader
<1> PICK w \in toStore : /\ published' = [published EXCEPT ![w] = Len(content)]
                         /\ toStore' = toStore \ {w}
  OBVIOUS
<1>1. Number \in Nat /\ Number' = Number /\ Writing' = Writing
  BY DEF SnapshotInv, TypeOK, Number, Writing
<1>2. TypeOK'
  BY <1>1 DEF SnapshotInv, TypeOK, Number
<1>3. WriterInv'
  BY <1>1 DEF SnapshotInv, TypeOK, WriterInv, Number
<1>4. Completed' = Completed
  BY DEF Completed
<1>5. CopyInv' /\ WaitInv' /\ ReaderInv'
  BY <1>1, <1>4 DEF SnapshotInv, CopyInv, Turned, WaitInv, ReaderInv
<1>6. ResultInv'
  BY <1>4 DEF SnapshotInv, ResultInv, WholeCopies, AbsentMeansNever, BusyMeansOverlap,
              WaitMeansNew, GlobalsMatch, ReadsOf
<1> QED
  BY <1>2, <1>3, <1>5, <1>6 DEF SnapshotInv

LEMMA EndPublicationKeeps ==
  ASSUME SnapshotInv, EndPublication PROVE SnapshotInv'
<1> USE DEF EndPublication, reader, AllStored
<1>1. Number \in Nat /\ Number' = Number /\ Number # 0
  BY DEF SnapshotInv, TypeOK, Number, WriterInv, Odd
<1>2. publishedSequence' \in 2 .. Width - 2 /\ ~Odd(publishedSequence')
  BY Parity DEF SnapshotInv, TypeOK, WriterInv
<1>3. TypeOK'
  <2>1. publishedSequence' \in 0 .. Width - 1
    BY <1>2, SnapshotAssumption
  <2> QED
    BY <1>1, <2>1 DEF SnapshotInv, TypeOK, Number
<1>4. WriterInv'
  <2>1. ~Odd(publishedSequence)' /\ publishedSequence' # 0 /\ Number' # 0
    BY <1>1, <1>2, SnapshotAssumption DEF Odd
  <2>2. \A w \in Word : published'[w] = Number'
    BY <1>1 DEF SnapshotInv, WriterInv
  <2> QED
    BY <2>1, <2>2 DEF WriterInv
<1>5. Completed' = Number /\ Completed = Number - 1
  BY DEF Completed, Number
<1>6. CopyInv'
  <2> SUFFICES ASSUME pc = "copy" PROVE CopyInv'
    BY DEF CopyInv
  <2>1. begun <= Number /\ Number # begun
    BY DEF SnapshotInv, CopyInv, ReaderInv
  <2>2. begun \in Nat /\ sequence \in Nat /\ publishedSequence \in Nat
    BY DEF SnapshotInv, TypeOK
  <2>3. Writing = 1 /\ Writing' = 0
    BY DEF Writing
  <2>4. begun >= 1 /\ since <= begun /\ sequence \in 2 .. Width - 2
        /\ Number - begun <= Overlap
    BY DEF SnapshotInv, CopyInv
  <2> DEFINE d == Number - begun
  <2>5. d \in Nat /\ d >= 1 /\ d <= Overlap
    BY <1>1, <2>1, <2>2, <2>4
  <2>6. \/ publishedSequence = sequence + 2 * d - 1
        \/ publishedSequence = sequence + 2 * d - 1 - (Width - 2)
    <3>1. Number > begun
      BY <1>1, <2>1, <2>2
    <3>2. CopyInv
      BY DEF SnapshotInv
    <3>3. \/ publishedSequence = sequence + 2 * (Number - begun) - Writing
          \/ publishedSequence = (sequence + 2 * (Number - begun) - Writing) - (Width - 2)
      <4>1. Turned
        BY <3>1, <3>2 DEF CopyInv
      <4> QED
        BY <4>1 DEF Turned
    <3> QED
      BY <1>1, <2>2, <2>3, <3>3, SnapshotAssumption
  <2> HIDE DEF d
  <2>7. \/ publishedSequence' = sequence + 2 * d
        \/ publishedSequence' = sequence + 2 * d - (Width - 2)
    BY <2>2, <2>4, <2>5, <2>6, SnapshotAssumption DEF NextSequence
  <2> QED
    BY <1>1, <2>1, <2>2, <2>3, <2>4, <2>7, SnapshotAssumption DEF CopyInv, Turned, d
<1>7. WaitInv'
  BY <1>1, <1>5 DEF SnapshotInv, WaitInv, ReaderInv, TypeOK
<1>8. ReaderInv'
  BY <1>1, <1>5 DEF SnapshotInv, ReaderInv, TypeOK
<1>9. ResultInv'
  BY <1>1, <1>5
     DEF SnapshotInv, TypeOK, ResultInv, WholeCopies, AbsentMeansNever, Number,
         BusyMeansOverlap, WaitMeansNew, GlobalsMatch, ReadsOf
<1> QED
  BY <1>3, <1>4, <1>6, <1>7, <1>8, <1>9 DEF SnapshotInv

LEMMA StopOutsideStepKeeps ==
  ASSUME SnapshotInv, StopOutsideStep PROVE SnapshotInv'
<1> USE DEF StopOutsideStep, reader, shared
<1>1. TypeOK' /\ WriterInv'
  BY DEF SnapshotInv, TypeOK, WriterInv, Number
<1>2. CopyInv' /\ WaitInv' /\ ReaderInv'
  BY DEF SnapshotInv, CopyInv, Turned, WaitInv, ReaderInv, Number, Completed, Writing
<1>3. ResultInv'
  BY DEF SnapshotInv, ResultInv, WholeCopies, AbsentMeansNever, BusyMeansOverlap,
         WaitMeansNew, GlobalsMatch, ReadsOf, Completed
<1> QED
  BY <1>1, <1>2, <1>3 DEF SnapshotInv

--------------------------------------------------------------------------------
(* The reading core                                                             *)

(* The control core's part is untouched by the reader.                          *)
LEMMA WriterKept ==
  ASSUME SnapshotInv, UNCHANGED <<writer, shared>>
  PROVE  /\ WriterInv' /\ Completed' = Completed /\ Number' = Number
         /\ Writing' = Writing /\ Completed \in 0 .. Number /\ Number \in Nat
<1>1. Number \in Nat
  BY DEF SnapshotInv, TypeOK, Number
<1>2. writing => Number # 0
  BY DEF SnapshotInv, WriterInv, Odd
<1>3. Completed \in 0 .. Number
  BY <1>1, <1>2 DEF Completed, Number
<1> QED
  BY <1>1, <1>3 DEF writer, shared, SnapshotInv, WriterInv, Completed, Number, Writing

LEMMA BeginReadKeeps ==
  ASSUME SnapshotInv, BeginRead PROVE SnapshotInv'
<1> USE DEF BeginRead
<1>1. /\ WriterInv' /\ Completed' = Completed /\ Number' = Number
      /\ Completed \in 0 .. Number /\ Number \in Nat
  BY WriterKept
<1>2. None \in Result
  BY ResultTypes DEF None
<1>3. TypeOK'
  <2>1. 0 \in 0 .. Attempts - 1 /\ since' \in Nat
    BY <1>1, SnapshotAssumption
  <2> QED
    BY <1>2, <2>1 DEF SnapshotInv, TypeOK, writer, shared
<1>4. CopyInv' /\ WaitInv'
  BY DEF CopyInv, WaitInv
<1>5. ReaderInv'
  BY <1>1 DEF SnapshotInv, ReaderInv
<1>6. ResultInv'
  BY DEF SnapshotInv, ResultInv, WholeCopies, AbsentMeansNever, BusyMeansOverlap,
         WaitMeansNew, GlobalsMatch, ReadsOf, None, writer
<1> QED
  BY <1>1, <1>3, <1>4, <1>5, <1>6 DEF SnapshotInv

(* An attempt that failed because a publication overlapped the read.            *)
LEMMA AgainKeeps ==
  ASSUME SnapshotInv, UNCHANGED <<writer, shared>>, Again, Number > since,
         UNCHANGED <<words, since, begun, publishedReads, globals>>,
         toLoad' = toLoad
  PROVE  SnapshotInv'
<1>1. /\ WriterInv' /\ Completed' = Completed /\ Number' = Number /\ Number \in Nat
  BY WriterKept
<1>2. ~ (pc' \in {"copy", "wait"}) /\ pc' \in {"idle", "begin"}
  BY DEF Again, End
<1>3. result' = result \/ result' = [status |-> "EAGAIN"]
  BY DEF Again, End
<1>4. result' \in Result
  BY <1>3, ResultTypes DEF SnapshotInv, TypeOK
<1>5. attempt' \in 0 .. Attempts - 1 /\ sequence' \in 0 .. Width - 1
  BY SnapshotAssumption DEF Again, End, AttemptsLeft, SnapshotInv, TypeOK
<1>6. TypeOK'
  BY <1>2, <1>4, <1>5 DEF SnapshotInv, TypeOK, writer, shared
<1>7. CopyInv' /\ WaitInv'
  BY <1>2 DEF CopyInv, WaitInv
<1>8. ReaderInv'
  BY <1>1, <1>2 DEF SnapshotInv, ReaderInv
<1>9. ResultInv'
  <2>1. GlobalsMatch'
    BY DEF SnapshotInv, ResultInv, GlobalsMatch, ReadsOf, writer
  <2>2. CASE result' = result
    BY <1>1, <2>1, <2>2 DEF SnapshotInv, ResultInv, WholeCopies, AbsentMeansNever,
             BusyMeansOverlap, WaitMeansNew, Number
  <2>3. CASE result' = [status |-> "EAGAIN"]
    BY <1>1, <2>1, <2>3 DEF ResultInv, WholeCopies, AbsentMeansNever,
             BusyMeansOverlap, WaitMeansNew, Number
  <2> QED
    BY <1>3, <2>2, <2>3
<1> QED
  BY <1>1, <1>6, <1>7, <1>8, <1>9 DEF SnapshotInv

LEMMA SnapshotBeginKeeps ==
  ASSUME SnapshotInv, SnapshotBegin PROVE SnapshotInv'
<1>1. /\ WriterInv' /\ Completed' = Completed /\ Number' = Number
      /\ Completed \in 0 .. Number /\ Number \in Nat
  BY WriterKept DEF SnapshotBegin
<1>2. CASE publishedSequence = 0 /\ End("ENOENT") /\ UNCHANGED <<toLoad, begun>>
  <2>1. since = 0
    BY <1>1, <1>2 DEF SnapshotInv, WriterInv, ReaderInv, TypeOK
  <2>2. [status |-> "ENOENT"] \in Result
    BY ResultTypes
  <2>3. TypeOK'
    <3>1. 0 \in 0 .. Attempts - 1 /\ 0 \in 0 .. Width - 1
      BY SnapshotAssumption
    <3> QED
      BY <1>2, <2>2, <3>1 DEF SnapshotInv, TypeOK, SnapshotBegin, End, writer, shared
  <2>4. CopyInv' /\ WaitInv' /\ ReaderInv'
    BY <1>1, <1>2 DEF CopyInv, WaitInv, ReaderInv, SnapshotBegin, End, SnapshotInv
  <2>5. ResultInv'
    BY <1>1, <1>2, <2>1 DEF SnapshotInv, ResultInv, WholeCopies, AbsentMeansNever,
       BusyMeansOverlap, WaitMeansNew, GlobalsMatch, ReadsOf, SnapshotBegin, End,
       writer
  <2> QED
    BY <1>1, <2>3, <2>4, <2>5 DEF SnapshotInv
<1>3. CASE Odd(publishedSequence) /\ Again /\ UNCHANGED <<toLoad, begun>>
  <2>1. Number > since
    BY <1>1, <1>3 DEF SnapshotInv, WriterInv, ReaderInv, Completed, Number, TypeOK
  <2> QED
    BY <1>3, <2>1, AgainKeeps DEF SnapshotBegin
<1>4. CASE /\ publishedSequence # 0 /\ ~Odd(publishedSequence)
           /\ pc' = "copy" /\ sequence' = publishedSequence
           /\ toLoad' = Word /\ begun' = Len(content)
           /\ UNCHANGED <<attempt, result>>
  <2>1. ~writing /\ Number >= 1 /\ Completed = Number
    BY <1>1, <1>4 DEF SnapshotInv, WriterInv, Completed, Number
  <2>2. publishedSequence \in 2 .. Width - 2
    BY <1>4, SnapshotAssumption DEF SnapshotInv, TypeOK, Odd
  <2>3. TypeOK'
    BY <1>1, <1>4 DEF SnapshotInv, TypeOK, SnapshotBegin, writer, shared, Number
  <2>4. CopyInv'
    BY <1>1, <1>4, <2>1, <2>2, SnapshotAssumption
       DEF CopyInv, SnapshotBegin, Number, SnapshotInv, ReaderInv, writer, shared
  <2>5. WaitInv' /\ ReaderInv'
    BY <1>1, <1>4 DEF WaitInv, ReaderInv, SnapshotBegin, SnapshotInv, Number
  <2>6. ResultInv'
    BY <1>1, <1>4 DEF SnapshotInv, ResultInv, WholeCopies, AbsentMeansNever,
       BusyMeansOverlap, WaitMeansNew, GlobalsMatch, ReadsOf, SnapshotBegin, writer
  <2> QED
    BY <1>1, <2>3, <2>4, <2>5, <2>6 DEF SnapshotInv
<1> QED
  BY <1>2, <1>3, <1>4 DEF SnapshotBegin

LEMMA LoadWordKeeps ==
  ASSUME SnapshotInv, LoadWord PROVE SnapshotInv'
<1> USE DEF LoadWord
<1> PICK w \in toLoad : /\ words' = [words EXCEPT ![w] = published[w]]
                        /\ toLoad' = toLoad \ {w}
  OBVIOUS
<1>1. /\ WriterInv' /\ Completed' = Completed /\ Number' = Number
      /\ Writing' = Writing /\ Number \in Nat
  BY WriterKept
<1>2. w \in Word /\ published[w] \in Nat /\ published[w] <= Number
      /\ (~writing => published[w] = Number)
  BY <1>1 DEF SnapshotInv, TypeOK, WriterInv
<1>3. TypeOK'
  BY <1>2 DEF SnapshotInv, TypeOK, writer, shared
<1>4. CopyInv'
  BY <1>1, <1>2 DEF SnapshotInv, TypeOK, CopyInv, Turned, writer, shared
<1>5. WaitInv' /\ ReaderInv'
  BY <1>1, <1>2 DEF SnapshotInv, TypeOK, WaitInv, ReaderInv, shared
<1>6. ResultInv'
  BY <1>1 DEF SnapshotInv, ResultInv, WholeCopies, AbsentMeansNever, BusyMeansOverlap,
         WaitMeansNew, GlobalsMatch, ReadsOf, writer
<1> QED
  BY <1>1, <1>3, <1>4, <1>5, <1>6 DEF SnapshotInv

LEMMA EndCopyKeeps ==
  ASSUME SnapshotInv, EndCopy PROVE SnapshotInv'
<1> USE DEF EndCopy
<1>1. /\ WriterInv' /\ Completed' = Completed /\ Number' = Number
      /\ Writing' = Writing /\ Number \in Nat
  BY WriterKept
<1>2. /\ begun \in Nat /\ since \in Nat /\ begun >= 1 /\ since <= begun
      /\ begun <= Number /\ sequence \in 2 .. Width - 2 /\ Number - begun <= Overlap
  BY DEF SnapshotInv, TypeOK, ReaderInv, CopyInv
<1>3. CASE SnapshotEnd
  <2>1. Number = begun
    <3> SUFFICES ASSUME Number > begun PROVE FALSE
      BY <1>1, <1>2
    <3> DEFINE d == Number - begun
    <3>1. d \in Nat /\ d >= 1 /\ d <= Overlap
      BY <1>1, <1>2
    <3>2. Writing \in {0, 1}
      BY DEF Writing
    <3>3. \/ sequence = sequence + 2 * d - Writing
          \/ sequence = sequence + 2 * d - Writing - (Width - 2)
      <4>1. CopyInv /\ publishedSequence = sequence /\ pc = "copy"
        BY <1>3 DEF SnapshotInv, SnapshotEnd
      <4>2. \/ publishedSequence = sequence + 2 * (Number - begun) - Writing
            \/ publishedSequence = (sequence + 2 * (Number - begun) - Writing) - (Width - 2)
        <5>1. Turned
          BY <4>1 DEF CopyInv
        <5> QED
          BY <5>1 DEF Turned
      <4> QED
        BY <3>2, <4>1, <4>2, <1>1, <1>2, SnapshotAssumption
    <3> HIDE DEF d
    <3> QED
      BY <1>2, <3>1, <3>2, <3>3, SnapshotAssumption
  <2>2. /\ ~writing /\ \A w \in Word : words[w] = begun
    BY <2>1, <1>2 DEF SnapshotInv, CopyInv
  <2>3. words = [w \in Word |-> begun]
    BY <2>2 DEF SnapshotInv, TypeOK
  <2>4. result' = [status |-> "OK", words |-> words] /\ result' \in Result
    BY <1>3, ResultTypes DEF SnapshotInv, TypeOK
  <2>5. /\ publishedReads' \in Nat /\ globals' \in Nat
        /\ ReadsOf(globals)' = publishedReads' /\ globals' <= Number
    <3>1. content \in Seq(Status) /\ content' = content
      BY DEF SnapshotInv, TypeOK, writer
    <3>2. words["readCount"] = begun /\ words["values"] = begun
      BY <2>3 DEF Word
    <3>3. ReadsOf(begun) \in Nat
      <4>1. begun \in DOMAIN content
        BY <3>1, <1>2 DEF Number
      <4>2. content[begun] \in Status
        BY <3>1, <4>1
      <4>3. content[begun].readCount \in Nat
        BY <4>2 DEF Status
      <4> QED
        BY <4>3 DEF ReadsOf
    <3>4. CASE CopiesToGlobals
      <4>1. publishedReads' = ReadsOf(begun) /\ globals' = begun
        BY <3>2, <3>4
      <4>2. ReadsOf(globals)' = ReadsOf(begun)
        BY <3>1, <4>1 DEF ReadsOf
      <4> QED
        BY <3>3, <4>1, <4>2, <1>2
    <3>5. CASE ~CopiesToGlobals
      BY <3>1, <3>5 DEF ReadsOf, SnapshotInv, TypeOK, ResultInv, GlobalsMatch, ReaderInv
    <3> QED
      BY <3>4, <3>5
  <2>6. TypeOK'
    <3>1. 0 \in 0 .. Attempts - 1 /\ 0 \in 0 .. Width - 1
      BY SnapshotAssumption
    <3> QED
      BY <1>3, <2>4, <2>5, <3>1 DEF SnapshotInv, TypeOK, writer, shared
  <2>7. pc' = "idle"
    BY <1>3
  <2>8. CopyInv' /\ WaitInv' /\ ReaderInv'
    BY <1>1, <2>5, <2>7 DEF CopyInv, WaitInv, ReaderInv, SnapshotInv
  <2>9. WholeCopies'
    BY <1>1, <1>2, <2>3, <2>4 DEF WholeCopies, Number
  <2>10. ResultInv'
    BY <2>4, <2>5, <2>9 DEF ResultInv, AbsentMeansNever, BusyMeansOverlap,
                            WaitMeansNew, GlobalsMatch
  <2> QED
    BY <1>1, <2>6, <2>8, <2>10 DEF SnapshotInv
<1>4. CASE ~SnapshotEnd
  <2>1. Number > since
    <3>1. Number # begun
      BY <1>4 DEF SnapshotInv, CopyInv, SnapshotEnd
    <3> QED
      BY <3>1, <1>1, <1>2
  <2>2. ~CopiesToGlobals
    BY <1>4 DEF CopiesToGlobals
  <2> QED
    BY <1>4, <2>1, <2>2, AgainKeeps
<1> QED
  BY <1>3, <1>4

LEMMA BeginWaitKeeps ==
  ASSUME SnapshotInv, BeginWait PROVE SnapshotInv'
<1> USE DEF BeginWait
<1>1. /\ WriterInv' /\ Completed' = Completed /\ Number' = Number
      /\ Completed \in 0 .. Number /\ Number \in Nat
  BY WriterKept
<1>2. None \in Result
  BY ResultTypes DEF None
<1>3. TypeOK'
  BY <1>1, <1>2 DEF SnapshotInv, TypeOK, writer, shared, Number
<1>4. CopyInv' /\ WaitInv'
  BY DEF CopyInv, WaitInv, shared
<1>5. begun' <= since' + 1
  BY <1>1 DEF Completed, Number
<1>6. ReaderInv'
  BY <1>1, <1>5 DEF SnapshotInv, ReaderInv, Number
<1>7. ResultInv'
  BY DEF SnapshotInv, ResultInv, WholeCopies, AbsentMeansNever, BusyMeansOverlap,
         WaitMeansNew, GlobalsMatch, ReadsOf, None, writer
<1> QED
  BY <1>1, <1>3, <1>4, <1>6, <1>7 DEF SnapshotInv

LEMMA EndWaitKeeps ==
  ASSUME SnapshotInv, EndWait PROVE SnapshotInv'
<1> USE DEF EndWait
<1>1. /\ WriterInv' /\ Completed' = Completed /\ Number' = Number
      /\ Number \in Nat
  BY WriterKept
<1>2. PublishedSince => Completed > since
  <2> SUFFICES ASSUME PublishedSince PROVE Completed > since
    OBVIOUS
  <2>1. Completed = Number
    BY DEF PublishedSince, SnapshotInv, WriterInv, Completed, Number
  <2>2. since <= begun /\ begun <= Number /\ ~(since = begun /\ Number = begun)
    BY DEF PublishedSince, SnapshotInv, WaitInv, ReaderInv
  <2> QED
    BY <1>1, <2>1, <2>2 DEF SnapshotInv, TypeOK
<1>3. \/ result' = [status |-> "published"] /\ Completed > since
      \/ result' = [status |-> "timeout"]
  BY <1>2 DEF End
<1>4. result' \in Result
  BY <1>3, ResultTypes
<1>5. TypeOK'
  <2>1. 0 \in 0 .. Attempts - 1 /\ 0 \in 0 .. Width - 1
    BY SnapshotAssumption
  <2> QED
    BY <1>4, <2>1 DEF SnapshotInv, TypeOK, End, writer, shared
<1>6. pc' = "idle"
  BY DEF End
<1>7. CopyInv' /\ WaitInv' /\ ReaderInv'
  BY <1>1, <1>6 DEF CopyInv, WaitInv, ReaderInv, SnapshotInv
<1>8. ResultInv'
  <2>1. GlobalsMatch'
    BY DEF SnapshotInv, ResultInv, GlobalsMatch, ReadsOf, writer
  <2> QED
    BY <1>1, <1>3, <2>1 DEF ResultInv, WholeCopies, AbsentMeansNever,
                            BusyMeansOverlap, WaitMeansNew
<1> QED
  BY <1>1, <1>5, <1>7, <1>8 DEF SnapshotInv

--------------------------------------------------------------------------------
LEMMA SnapshotKeeps ==
  ASSUME SnapshotInv, [Next]_vars PROVE SnapshotInv'
<1>1. CASE InitPump \/ Step
  <2>1. /\ vp37Initialized' \in BOOLEAN /\ readCount' \in Nat
        /\ BeginPublication([initialized |-> vp37Initialized',
                             readCount |-> readCount'])
    <3>1. CASE InitPump
      <4>1. vp37Initialized' = TRUE /\ readCount' \in Nat
        BY <3>1 DEF InitPump
      <4>2. BeginPublication([initialized |-> TRUE, readCount |-> readCount'])
        BY <3>1 DEF InitPump
      <4> QED
        BY <4>1, <4>2
    <3>2. CASE Step
      <4>1. readCount \in Nat
        BY DEF SnapshotInv, TypeOK
      <4> QED
        BY <3>2, <4>1 DEF Step
    <3> QED
      BY <1>1, <3>1, <3>2
  <2>2. [initialized |-> vp37Initialized', readCount |-> readCount'] \in Status
    BY <2>1 DEF Status
  <2> QED
    BY <2>1, <2>2, BeginPublicationKeeps
<1>2. CASE PublishStop
  <2>1. /\ vp37Initialized' \in BOOLEAN /\ readCount' \in Nat
        /\ BeginPublication([initialized |-> FALSE, readCount |-> readCount])
    BY <1>2 DEF PublishStop, SnapshotInv, TypeOK
  <2>2. [initialized |-> FALSE, readCount |-> readCount] \in Status
    BY DEF Status, SnapshotInv, TypeOK
  <2> QED
    BY <2>1, <2>2, BeginPublicationKeeps
<1>3. CASE UNCHANGED vars
  <2>1. UNCHANGED <<vp37Initialized, readCount, writing, toStore, content,
                    publishedSequence, published>>
    BY <1>3 DEF vars, writer, shared
  <2>2. UNCHANGED <<pc, attempt, sequence, toLoad, words, since, begun, result,
                    publishedReads, globals>>
    BY <1>3 DEF vars, reader
  <2>3. TypeOK' /\ WriterInv'
    BY <2>1, <2>2 DEF SnapshotInv, TypeOK, WriterInv, Number
  <2>4. CopyInv' /\ WaitInv' /\ ReaderInv'
    BY <2>1, <2>2 DEF SnapshotInv, CopyInv, Turned, WaitInv, ReaderInv, Number, Writing,
                        Completed
  <2>5. ResultInv'
    BY <2>1, <2>2 DEF SnapshotInv, ResultInv, WholeCopies, AbsentMeansNever,
       BusyMeansOverlap, WaitMeansNew, GlobalsMatch, ReadsOf, Completed
  <2> QED
    BY <2>3, <2>4, <2>5 DEF SnapshotInv
<1> QED
  BY <1>1, <1>2, <1>3, StoreWordKeeps, EndPublicationKeeps, StopOutsideStepKeeps,
     BeginReadKeeps, SnapshotBeginKeeps, LoadWordKeeps, EndCopyKeeps, BeginWaitKeeps,
     EndWaitKeeps
     DEF Next, Control, Reading

(* The invariant of the snapshot, for every width, overlap and attempt count.   *)
THEOREM SnapshotAlways == Spec => []SnapshotInv
  BY SnapshotStarts, SnapshotKeeps, PTL DEF Spec

(* Type correctness of the pump, the shared words and the reader.               *)
THEOREM TypeCorrect == Spec => []TypeOK
<1>1. SnapshotInv => TypeOK
  BY DEF SnapshotInv
<1> QED
  BY <1>1, SnapshotAlways, PTL

(* VP37_copyPublished: an accepted copy is one whole publication and not older  *)
(* than the last complete one at its beginning.                                 *)
THEOREM CopiesAreWhole == Spec => []WholeCopies
<1>1. SnapshotInv => WholeCopies
  BY DEF SnapshotInv, ResultInv
<1> QED
  BY <1>1, SnapshotAlways, PTL

(* What the other results of a read and of VP37_waitForPublication mean, and    *)
(* that vp37AdapterPublish takes values and count from one reading.             *)
THEOREM ResultsMean == Spec => []OutcomesAreTrue
<1>1. SnapshotInv => OutcomesAreTrue
  BY DEF SnapshotInv, ResultInv, OutcomesAreTrue
<1> QED
  BY <1>1, SnapshotAlways, PTL

--------------------------------------------------------------------------------
(* The drive                                                                    *)

Running == {"run", "step"}
Ready == {"run", "step", "probe", "stopped"}

(* The longest time until the step that runs, or the next one, is over.         *)
Remaining ==
  IF phase = "step" THEN ReadTime - busyFor
  ELSE (IF due + Late >= 0 THEN due + Late ELSE 0) + ReadTime

(* A step with a good one before it has a deadline, and the step that runs      *)
(* began within a period of the next and after the good one.                    *)
OnGrid ==
  /\ phase = "step" =>
       /\ controlStarted /\ due >= -busyFor /\ due <= Period - busyFor
       /\ pidAge >= busyFor
  /\ phase = "run" /\ pidStarted => controlStarted

(* Nothing is driven before a good step.                                        *)
PowerIsStarted == phase \in Running /\ quantity # 0 => pidStarted

(* A step, and the transfer of the good one before it.                          *)
GoodSpan == Drive!StepSpan + ReadTime

(* How long ago the last good step began: a step later than it when nothing has *)
(* been lost, a step before the loss, and never more than the cutoff and what   *)
(* is left of a second step.                                                    *)
PowerIsRecent ==
  phase \in Running /\ pidStarted =>
    /\ ~commFailed => pidAge + Remaining <= GoodSpan
    /\ commFailed /\ lostFor < Cutoff => pidAge <= lostFor + GoodSpan
    /\ pidAge + Remaining < Drive!FeedbackBound

(* What the channel carries outside the loop, and what the loop remembers then. *)
OutsideTheLoop ==
  /\ Drive!Calibrating => lastPWMval = Drive!Unset /\ ~pidStarted
  /\ phase = "probe" => lastPWMval = 0
  /\ phase \in Drive!Off => quantity = 0

(* The ramp has a beginning once the stroke is calibrated.                      *)
RampHasStart == phase \in Ready => desired \in Drive!Position

DriveParts ==
  /\ OnGrid /\ PowerIsStarted /\ PowerIsRecent /\ OutsideTheLoop /\ RampHasStart
  /\ Drive!ChannelFollowsMemory

DriveInv == Drive!TypeOK /\ DriveParts

--------------------------------------------------------------------------------
LEMMA Numbers ==
  /\ Top \in Nat /\ Top > 0 /\ Slew \in Nat /\ Slew > 0 /\ Period \in Nat /\ Period > 0
  /\ Cutoff \in Nat /\ Cutoff > 0 /\ Samples \in Nat /\ Samples > 0
  /\ Late \in Nat /\ ReadTime \in Nat /\ Polls \in Nat /\ MinPolls \in Nat
  /\ Drive!StepSpan \in Nat /\ Drive!FeedbackBound \in Nat
  /\ Drive!FeedbackBound = Cutoff + 2 * Drive!StepSpan + ReadTime
  /\ Drive!StepSpan = Period + Late + ReadTime
  /\ \A c \in Commands : c \in Nat /\ c # 0
  BY DriveAssumption DEF Drive!StepSpan, Drive!FeedbackBound

LEMMA DriveStarts == Drive!Init => DriveInv
<1> SUFFICES ASSUME Drive!Init PROVE DriveInv
  OBVIOUS
<1> USE Numbers
<1>1. Drive!TypeOK
  <2>1. /\ enabled \in BOOLEAN /\ zeroRequested \in BOOLEAN
        /\ commFailed \in BOOLEAN /\ controlStarted \in BOOLEAN
        /\ pidStarted \in BOOLEAN
    BY ZenonT(20) DEF Drive!Init
  <2>2. /\ polls \in 0 .. Polls /\ samples \in 0 .. Samples /\ lostFor \in 0 .. Cutoff
        /\ due \in -(Late + ReadTime) .. Period /\ busyFor \in 0 .. ReadTime
        /\ pidAge \in 0 .. Drive!FeedbackBound
    BY DEF Drive!Init
  <2> QED
    BY <2>1, <2>2 DEF Drive!Init, Drive!TypeOK
<1>2. DriveParts
  BY 
     DEF Drive!Init, DriveParts, PowerIsStarted, OnGrid, PowerIsRecent,
         OutsideTheLoop, RampHasStart, Drive!ChannelFollowsMemory, Running, Ready,
         Drive!Calibrating, Drive!Off
<1> QED
  BY <1>1, <1>2 DEF DriveInv

(* What each part of a step leaves within its type.                             *)
LEMMA SettleTyped ==
  ASSUME Drive!TypeOK, NEW good \in BOOLEAN, Drive!SettlePoll(good)
  PROVE  polls' \in 0 .. Polls /\ samples' \in 0 .. Samples
  BY Numbers DEF Drive!TypeOK, Drive!SettlePoll, Drive!Least

LEMMA MarkTyped ==
  ASSUME Drive!TypeOK, Drive!MarkLost \/ Drive!MarkRead
  PROVE  commFailed' \in BOOLEAN /\ lostFor' \in 0 .. Cutoff
<1>1. commFailed' \in BOOLEAN
  BY DEF Drive!MarkLost, Drive!MarkRead
<1>2. lostFor' \in 0 .. Cutoff
  BY Numbers DEF Drive!TypeOK, Drive!MarkLost, Drive!MarkRead
<1> QED
  BY <1>1, <1>2

LEMMA StopTyped ==
  ASSUME Drive!TypeOK, Drive!Stop
  PROVE  /\ phase' = "stopped" /\ quantity' = 0 /\ lastPWMval' = 0
         /\ enabled' \in BOOLEAN
  BY DEF Drive!TypeOK, Drive!Stop, Drive!EnableVP37

LEMMA WriteTyped ==
  ASSUME Drive!TypeOK, NEW pwm \in Commands \cup {0}, Drive!WriteQuantityPWM(pwm)
  PROVE  /\ lastPWMval' = pwm
         /\ quantity' \in Commands \cup {0, Drive!CalibrationPwm}
         /\ lastPWMval' \in Commands \cup {0, Drive!Unset}
         /\ lastPWMval \in {quantity, Drive!Unset} => lastPWMval' = quantity'
<1>1. pwm # Drive!Unset
  BY Numbers DEF Drive!Unset
<1> QED
  BY <1>1 DEF Drive!TypeOK, Drive!WriteQuantityPWM

LEMMA Products ==
  ASSUME NEW rate \in Nat, NEW short \in Nat, NEW long \in Nat, short <= long
  PROVE  rate * short \in Nat /\ rate * short <= rate * long
  OBVIOUS

(* The ramp reaches no farther than the slew over the time since the last good  *)
(* step began.                                                                  *)
Span == IF pidStarted THEN pidAge ELSE Period

LEMMA ReachIsShort ==
  ASSUME Drive!TypeOK, OnGrid, phase = "step"
  PROVE  /\ Drive!Reach \in Nat /\ Slew * Span \in Nat
         /\ Drive!Reach <= Slew * Span
<1> DEFINE dt == IF pidStarted THEN pidAge - busyFor ELSE Period
<1>1. dt \in Nat /\ Span \in Nat /\ dt <= Span
  BY Numbers DEF Drive!TypeOK, OnGrid, Span
<1>2. Drive!Reach = Slew * dt
  BY DEF Drive!Reach
<1> HIDE DEF dt
<1>3. /\ Slew * dt \in Nat /\ Slew * dt <= Slew * Span
      /\ Slew * Span \in Nat
  BY <1>1, Numbers, Products
<1> QED
  BY <1>2, <1>3

(* The ramp moves the desired position toward the target by at most its reach.  *)
LEMMA RampBounds ==
  ASSUME Drive!TypeOK, target # Drive!Unset, Drive!RampDemand, Drive!Reach \in Nat
  PROVE  /\ desired' \in Drive!Position
         /\ desired \in Drive!Position =>
              desired - Drive!Reach <= desired' /\ desired' <= desired + Drive!Reach
  BY Numbers
     DEF Drive!TypeOK, Drive!RampDemand, Drive!Least, Drive!Position, Drive!Unset

--------------------------------------------------------------------------------
LEMMA StartUpKeeps == DriveInv /\ Drive!StartUp => DriveInv'
<1> SUFFICES ASSUME DriveInv, Drive!StartUp PROVE DriveInv'
  OBVIOUS
<1> USE Numbers
<1>0. Drive!TypeOK /\ OutsideTheLoop
  BY DEF DriveInv, DriveParts
<1>1. CASE Drive!BaselineReady
  <2>1. Drive!TypeOK'
    <3>1. /\ zeroRequested' \in BOOLEAN /\ commFailed' \in BOOLEAN
          /\ controlStarted' \in BOOLEAN /\ pidStarted' \in BOOLEAN
      BY <1>1 DEF Drive!BaselineReady
    <3> QED
      BY <1>0, <1>1, <3>1 DEF Drive!BaselineReady, Drive!TypeOK
  <2>2. DriveParts'
    BY <1>0, <1>1
       DEF Drive!BaselineReady, Drive!TypeOK, Drive!vars, Drive!setup, Drive!output,
           Drive!demand, Drive!link, Drive!timing, Drive!pid, DriveParts,
           PowerIsStarted, OnGrid, PowerIsRecent, OutsideTheLoop, RampHasStart,
           Drive!ChannelFollowsMemory, Running, Ready, Drive!Calibrating, Drive!Off,
           Drive!Position, Drive!Unset, Drive!CalibrationPwm
  <2> QED
    BY <2>1, <2>2 DEF DriveInv
<1>2. CASE Drive!CalibrationPoll
  <2>1. Drive!TypeOK'
    <3>1. polls' \in 0 .. Polls /\ samples' \in 0 .. Samples
      BY <1>0, <1>2, SettleTyped DEF Drive!CalibrationPoll
    <3> QED
      BY <1>0, <1>2, <3>1
         DEF Drive!CalibrationPoll, Drive!TypeOK, Drive!output, Drive!demand,
             Drive!link, Drive!timing, Drive!pid
  <2>2. DriveParts'
    BY <1>0, <1>2, <2>1
       DEF Drive!CalibrationPoll, Drive!TypeOK, Drive!vars, Drive!setup,
           Drive!output, Drive!demand, Drive!link, Drive!timing, Drive!pid,
           DriveParts, PowerIsStarted, OnGrid, PowerIsRecent, OutsideTheLoop,
           RampHasStart, Drive!ChannelFollowsMemory, Running, Ready,
           Drive!Calibrating, Drive!Off, Drive!Position, Drive!Unset,
           Drive!CalibrationPwm
  <2> QED
    BY <2>1, <2>2 DEF DriveInv
<1>3. CASE Drive!MinSettles
  <2>1. Drive!TypeOK'
    BY <1>0, <1>3
       DEF Drive!MinSettles, Drive!TypeOK, Drive!demand, Drive!link, Drive!timing,
           Drive!pid
  <2>2. DriveParts'
    BY <1>0, <1>3
       DEF Drive!MinSettles, Drive!TypeOK, Drive!vars, Drive!setup, Drive!output,
           Drive!demand, Drive!link, Drive!timing, Drive!pid, DriveParts,
           PowerIsStarted, OnGrid, PowerIsRecent, OutsideTheLoop, RampHasStart,
           Drive!ChannelFollowsMemory, Running, Ready, Drive!Calibrating, Drive!Off,
           Drive!Position, Drive!Unset, Drive!CalibrationPwm
  <2> QED
    BY <2>1, <2>2 DEF DriveInv
<1>4. CASE Drive!CalibrationDone
  <2>1. Drive!TypeOK'
    <3>1. commFailed' \in BOOLEAN /\ lostFor' \in 0 .. Cutoff
      BY <1>0, <1>4, MarkTyped DEF Drive!CalibrationDone
    <3>2. enabled' \in BOOLEAN
      BY <1>0, <1>4 DEF Drive!CalibrationDone, Drive!EnableVP37, Drive!TypeOK
    <3> QED
      BY <1>0, <1>4, <3>1, <3>2
         DEF Drive!CalibrationDone, Drive!TypeOK, Drive!demand, Drive!timing, Drive!pid,
             Drive!StartOfRamp, Drive!Position
  <2>2. DriveParts'
    BY <1>0, <1>4, <2>1
       DEF Drive!CalibrationDone, Drive!StartOfRamp, Drive!TypeOK, Drive!vars,
           Drive!setup, Drive!output, Drive!demand, Drive!link, Drive!timing, Drive!pid,
           DriveParts, PowerIsStarted, OnGrid, PowerIsRecent, OutsideTheLoop,
           RampHasStart, Drive!ChannelFollowsMemory, Running, Ready,
           Drive!Calibrating, Drive!Off, Drive!Position, Drive!Unset,
           Drive!CalibrationPwm
  <2> QED
    BY <2>1, <2>2 DEF DriveInv
<1>5. CASE Drive!CalibrationFails
  <2>1. Drive!TypeOK'
    <3>1. commFailed' \in BOOLEAN /\ lostFor' \in 0 .. Cutoff
      BY <1>0, <1>5, MarkTyped DEF Drive!CalibrationFails
    <3>2. enabled' \in BOOLEAN
      BY <1>0, <1>5 DEF Drive!CalibrationFails, Drive!EnableVP37, Drive!TypeOK
    <3> QED
      BY <1>0, <1>5, <3>1, <3>2
         DEF Drive!CalibrationFails, Drive!TypeOK, Drive!demand, Drive!timing,
             Drive!pid, Drive!StartOfRamp, Drive!Position
  <2>2. DriveParts'
    BY <1>0, <1>5, <2>1
       DEF Drive!CalibrationFails, Drive!TypeOK, Drive!vars, Drive!setup,
           Drive!output, Drive!demand, Drive!link, Drive!timing, Drive!pid,
           DriveParts, PowerIsStarted, OnGrid, PowerIsRecent, OutsideTheLoop,
           RampHasStart, Drive!ChannelFollowsMemory, Running, Ready,
           Drive!Calibrating, Drive!Off, Drive!Position, Drive!Unset,
           Drive!CalibrationPwm
  <2> QED
    BY <2>1, <2>2 DEF DriveInv
<1> QED
  BY <1>1, <1>2, <1>3, <1>4, <1>5 DEF Drive!StartUp

LEMMA BetweenKeeps == DriveInv /\ Drive!Between => DriveInv'
<1> SUFFICES ASSUME DriveInv, Drive!Between PROVE DriveInv'
  OBVIOUS
<1> USE Numbers
<1>0. Drive!TypeOK /\ DriveParts
  BY DEF DriveInv
<1>1. CASE Drive!SetDemand
  <2>1. Drive!TypeOK'
    <3>1. zeroRequested' \in BOOLEAN /\ target' \in Drive!Position
      BY <1>1 DEF Drive!SetDemand
    <3> QED
      BY <1>0, <1>1, <3>1
         DEF Drive!SetDemand, Drive!TypeOK, Drive!setup, Drive!output, Drive!link,
             Drive!timing, Drive!pid
  <2>2. DriveParts'
    BY <1>0, <1>1
       DEF Drive!SetDemand, Drive!TypeOK, Drive!vars, Drive!setup, Drive!output,
           Drive!demand, Drive!link, Drive!timing, Drive!pid, DriveParts,
           PowerIsStarted, OnGrid, PowerIsRecent, Remaining, OutsideTheLoop,
           RampHasStart, Drive!ChannelFollowsMemory, Running, Ready,
           Drive!Calibrating, Drive!Off, Drive!Position, Drive!Unset,
           Drive!CalibrationPwm
  <2> QED
    BY <2>1, <2>2 DEF DriveInv
<1>2. CASE Drive!StopBetweenSteps
  <2>0. phase' = "stopped" /\ quantity' = 0 /\ lastPWMval' = 0 /\ enabled' \in BOOLEAN
    BY <1>0, <1>2, StopTyped DEF Drive!StopBetweenSteps
  <2>1. Drive!TypeOK'
    BY <1>0, <1>2, <2>0
       DEF Drive!StopBetweenSteps, Drive!TypeOK, Drive!setup, Drive!demand,
           Drive!link, Drive!timing, Drive!pid
  <2>2. DriveParts'
    BY <1>0, <1>2, <2>0
       DEF Drive!StopBetweenSteps, Drive!TypeOK, Drive!vars, Drive!setup,
           Drive!output, Drive!demand, Drive!link, Drive!timing, Drive!pid,
           DriveParts, PowerIsStarted, OnGrid, PowerIsRecent, OutsideTheLoop,
           RampHasStart, Drive!ChannelFollowsMemory, Running, Ready,
           Drive!Calibrating, Drive!Off, Drive!Position, Drive!Unset,
           Drive!CalibrationPwm
  <2> QED
    BY <2>1, <2>2 DEF DriveInv
<1>3. CASE Drive!ProbeBegins
  <2>1. Drive!TypeOK'
    BY <1>0, <1>3
       DEF Drive!ProbeBegins, Drive!TypeOK, Drive!demand, Drive!link, Drive!timing,
           Drive!pid
  <2>2. DriveParts'
    BY <1>0, <1>3
       DEF Drive!ProbeBegins, Drive!MayProbe, Drive!TypeOK, Drive!vars, Drive!setup,
           Drive!output, Drive!demand, Drive!link, Drive!timing, Drive!pid,
           DriveParts, PowerIsStarted, OnGrid, PowerIsRecent, OutsideTheLoop,
           RampHasStart, Drive!ChannelFollowsMemory, Running, Ready,
           Drive!Calibrating, Drive!Off, Drive!Position, Drive!Unset,
           Drive!CalibrationPwm
  <2> QED
    BY <2>1, <2>2 DEF DriveInv
<1>4. CASE Drive!ProbePoll
  <2>1. Drive!TypeOK'
    <3>1. polls' \in 0 .. Polls /\ samples' \in 0 .. Samples
      BY <1>0, <1>4, SettleTyped DEF Drive!ProbePoll
    <3> QED
      BY <1>0, <1>4, <3>1
         DEF Drive!ProbePoll, Drive!TypeOK, Drive!output, Drive!demand, Drive!link,
             Drive!timing, Drive!pid
  <2>2. DriveParts'
    BY <1>0, <1>4
       DEF Drive!ProbePoll, Drive!TypeOK, Drive!vars, Drive!setup, Drive!output,
           Drive!demand, Drive!link, Drive!timing, Drive!pid, DriveParts,
           PowerIsStarted, OnGrid, PowerIsRecent, OutsideTheLoop, RampHasStart,
           Drive!ChannelFollowsMemory, Running, Ready, Drive!Calibrating, Drive!Off,
           Drive!Position, Drive!Unset, Drive!CalibrationPwm
  <2> QED
    BY <2>1, <2>2 DEF DriveInv
<1>5. CASE Drive!ProbeEnds
  <2>1. Drive!TypeOK'
    <3>1. controlStarted' \in BOOLEAN /\ pidStarted' \in BOOLEAN
      BY <1>5 DEF Drive!ProbeEnds
    <3> QED
      BY <1>0, <1>5, <3>1 DEF Drive!ProbeEnds, Drive!TypeOK, Drive!demand, Drive!link
  <2>2. DriveParts'
    BY <1>0, <1>5
       DEF Drive!ProbeEnds, Drive!TypeOK, Drive!vars, Drive!setup, Drive!output,
           Drive!demand, Drive!link, Drive!timing, Drive!pid, DriveParts,
           PowerIsStarted, OnGrid, PowerIsRecent, OutsideTheLoop, RampHasStart,
           Drive!ChannelFollowsMemory, Running, Ready, Drive!Calibrating, Drive!Off,
           Drive!Position, Drive!Unset, Drive!CalibrationPwm
  <2> QED
    BY <2>1, <2>2 DEF DriveInv
<1>6. CASE Drive!ResetTuning
  <2>1. Drive!TypeOK'
    BY <1>0, <1>6
       DEF Drive!ResetTuning, Drive!TypeOK, Drive!setup, Drive!demand, Drive!link,
           Drive!timing, Drive!pid
  <2>2. DriveParts'
    BY <1>0, <1>6
       DEF Drive!ResetTuning, Drive!TypeOK, Drive!setup, Drive!demand, Drive!link,
           Drive!timing, Drive!pid, DriveParts, PowerIsStarted, OnGrid,
           PowerIsRecent, Remaining, OutsideTheLoop, RampHasStart,
           Drive!ChannelFollowsMemory, Running, Ready, Drive!Calibrating, Drive!Off
  <2> QED
    BY <2>1, <2>2 DEF DriveInv
<1> QED
  BY <1>1, <1>2, <1>3, <1>4, <1>5, <1>6 DEF Drive!Between

LEMMA StepBeginsKeeps == DriveInv /\ Drive!StepBegins => DriveInv'
<1> SUFFICES ASSUME DriveInv, Drive!StepBegins PROVE DriveInv'
  OBVIOUS
<1> USE Numbers
<1>0. Drive!TypeOK /\ DriveParts
  BY DEF DriveInv
<1>1. due' \in 1 .. Period
  BY <1>0 DEF Drive!StepBegins, Drive!TypeOK
<1>2. Drive!TypeOK'
  <2>1. controlStarted' \in BOOLEAN
    BY DEF Drive!StepBegins
  <2> QED
    BY <1>0, <1>1, <2>1
       DEF Drive!StepBegins, Drive!TypeOK, Drive!setup, Drive!output, Drive!demand,
           Drive!link, Drive!pid
<1>3. Remaining \in Int /\ Remaining' = ReadTime /\ ReadTime <= Remaining
  BY <1>0, <1>1 DEF Drive!StepBegins, Drive!TypeOK, Remaining
<1>4. PowerIsRecent'
  <2> SUFFICES ASSUME pidStarted PROVE PowerIsRecent'
    BY DEF PowerIsRecent, Drive!StepBegins, Drive!pid
  <2>1. /\ pidAge' = pidAge /\ lostFor' = lostFor /\ commFailed' = commFailed
        /\ phase = "run"
    BY DEF Drive!StepBegins, Drive!pid, Drive!link
  <2>2. /\ ~commFailed => pidAge + Remaining <= GoodSpan
        /\ commFailed /\ lostFor < Cutoff => pidAge <= lostFor + GoodSpan
        /\ pidAge + Remaining < Drive!FeedbackBound
    BY <1>0, <2>1 DEF DriveParts, PowerIsRecent, Running
  <2>3. pidAge \in Int /\ GoodSpan \in Int
    BY <1>0 DEF Drive!TypeOK, GoodSpan
  <2>4. pidAge + Remaining <= GoodSpan => pidAge + Remaining' <= GoodSpan
    BY <1>3, <2>3
  <2>5. pidAge + Remaining' < Drive!FeedbackBound
    BY <1>3, <2>2, <2>3
  <2> QED
    BY <2>1, <2>2, <2>4, <2>5 DEF PowerIsRecent
<1>5. /\ OnGrid' /\ PowerIsStarted' /\ OutsideTheLoop' /\ RampHasStart'
      /\ Drive!ChannelFollowsMemory'
  BY <1>0, <1>1, <1>2
     DEF Drive!StepBegins, Drive!pid, Running, Drive!TypeOK, DriveParts,
         PowerIsStarted, OnGrid, OutsideTheLoop, RampHasStart,
         Drive!ChannelFollowsMemory, Ready, Drive!Calibrating, Drive!Off,
         Drive!output, Drive!demand
<1> QED
  BY <1>2, <1>4, <1>5 DEF DriveInv, DriveParts

(* A good step begun a span before a loss within the cutoff, and the one to     *)
(* come.                                                                        *)
LEMMA WithinBound ==
  ASSUME NEW age \in Nat, NEW lost \in Nat, NEW rest \in 0 .. Drive!StepSpan,
         lost < Cutoff, age <= lost + GoodSpan
  PROVE  age + rest < Drive!FeedbackBound
<1>1. Drive!StepSpan \in Nat /\ Cutoff \in Nat /\ GoodSpan \in Nat
  BY Numbers DEF GoodSpan
<1>2. age + rest < Cutoff + (GoodSpan + Drive!StepSpan)
  BY <1>1, Numbers DEF GoodSpan
<1>3. Drive!FeedbackBound = Cutoff + (GoodSpan + Drive!StepSpan)
  BY <1>1, Numbers DEF GoodSpan
<1> QED
  BY <1>2, <1>3

(* After a step the next one is over within a period, its lateness and a        *)
(* transfer.                                                                    *)
LEMMA NextStepIsNear ==
  ASSUME DriveInv, phase = "step", phase' = "run", UNCHANGED Drive!timing
  PROVE  /\ Remaining' \in 0 .. Drive!StepSpan /\ OnGrid'
         /\ busyFor \in Nat /\ busyFor + Remaining' <= GoodSpan
  BY Numbers
     DEF DriveInv, Drive!TypeOK, DriveParts, OnGrid, Remaining, Drive!timing,
         Drive!pid, GoodSpan

LEMMA ReadingLostKeeps == DriveInv /\ Drive!ReadingLost => DriveInv'
<1> SUFFICES ASSUME DriveInv, Drive!ReadingLost PROVE DriveInv'
  OBVIOUS
<1> USE Numbers
<1>0. Drive!TypeOK /\ DriveParts /\ phase = "step"
  BY DEF DriveInv, Drive!ReadingLost
<1>1. commFailed' = TRUE /\ commFailed' \in BOOLEAN /\ lostFor' \in 0 .. Cutoff
  BY <1>0, MarkTyped DEF Drive!ReadingLost, Drive!MarkLost
<1>2. CASE lostFor' >= Cutoff
  <2>1. phase' = "stopped" /\ quantity' = 0 /\ lastPWMval' = 0 /\ enabled' \in BOOLEAN
    BY <1>0, <1>2, StopTyped DEF Drive!ReadingLost
  <2>2. Drive!TypeOK'
    BY <1>0, <1>1, <2>1
       DEF Drive!ReadingLost, Drive!pid, Drive!TypeOK, Drive!setup, Drive!demand,
           Drive!timing, Drive!pid
  <2>3. DriveParts'
    BY <1>0, <2>1
       DEF Drive!ReadingLost, Drive!TypeOK, DriveParts, PowerIsStarted, OnGrid,
           PowerIsRecent, OutsideTheLoop, RampHasStart, Drive!ChannelFollowsMemory,
           Running, Ready, Drive!Calibrating, Drive!Off, Drive!demand
  <2> QED
    BY <2>2, <2>3 DEF DriveInv
<1>3. CASE ~(lostFor' >= Cutoff)
  <2>1. phase' = "run" /\ UNCHANGED Drive!output
    BY <1>3 DEF Drive!ReadingLost
  <2>2. Drive!TypeOK'
    BY <1>0, <1>1, <2>1
       DEF Drive!ReadingLost, Drive!pid, Drive!TypeOK, Drive!setup, Drive!output,
           Drive!demand, Drive!timing, Drive!pid
  <2>3. Remaining' \in 0 .. Drive!StepSpan /\ OnGrid'
    BY <1>0, <2>1, NextStepIsNear DEF Drive!ReadingLost
  <2>4. PowerIsRecent'
    <3> SUFFICES ASSUME pidStarted PROVE PowerIsRecent'
      BY DEF PowerIsRecent, Drive!ReadingLost, Drive!pid
    <3>1. pidAge <= lostFor' + GoodSpan
      BY <1>0, <1>1, <1>3
         DEF Drive!ReadingLost, Drive!MarkLost, DriveParts, PowerIsRecent, Running,
             Remaining, Drive!TypeOK, GoodSpan
    <3>2. pidAge' = pidAge
      BY DEF Drive!ReadingLost, Drive!pid
    <3>3. pidAge' + Remaining' < Drive!FeedbackBound
      <4>1. pidAge \in Nat /\ lostFor' \in Nat /\ lostFor' < Cutoff
        BY <1>0, <1>1, <1>3 DEF Drive!TypeOK
      <4> QED
        BY <2>3, <3>1, <3>2, <4>1, WithinBound
    <3>4. commFailed'
      BY <1>1
    <3> QED
      BY <3>1, <3>2, <3>3, <3>4 DEF PowerIsRecent
  <2>5. /\ PowerIsStarted' /\ OutsideTheLoop' /\ RampHasStart'
        /\ Drive!ChannelFollowsMemory'
    BY <1>0, <2>1
       DEF Drive!ReadingLost, Drive!pid, DriveParts, PowerIsStarted, Running,
           OutsideTheLoop, RampHasStart,
           Drive!ChannelFollowsMemory, Ready, Drive!Calibrating, Drive!Off,
           Drive!output, Drive!demand
  <2> QED
    BY <2>2, <2>3, <2>4, <2>5 DEF DriveInv, DriveParts
<1> QED
  BY <1>2, <1>3

LEMMA ReadingRefusedKeeps == DriveInv /\ Drive!ReadingRefused => DriveInv'
<1> SUFFICES ASSUME DriveInv, Drive!ReadingRefused PROVE DriveInv'
  OBVIOUS
<1>0. Drive!TypeOK /\ DriveParts /\ phase = "step"
  BY DEF DriveInv, Drive!ReadingRefused
<1>1. commFailed' \in BOOLEAN /\ lostFor' \in 0 .. Cutoff
  BY <1>0, MarkTyped DEF Drive!ReadingRefused
<1>2. phase' = "stopped" /\ quantity' = 0 /\ lastPWMval' = 0 /\ enabled' \in BOOLEAN
  BY <1>0, StopTyped DEF Drive!ReadingRefused
<1>3. Drive!TypeOK'
  BY <1>0, <1>1, <1>2
     DEF Drive!ReadingRefused, Drive!TypeOK, Drive!setup, Drive!demand,
         Drive!timing, Drive!pid
<1>4. DriveParts'
  BY <1>0, <1>2
     DEF Drive!ReadingRefused, Drive!TypeOK, DriveParts, PowerIsStarted, OnGrid,
         PowerIsRecent, OutsideTheLoop, RampHasStart, Drive!ChannelFollowsMemory,
         Running, Ready, Drive!Calibrating, Drive!Off, Drive!demand
<1> QED
  BY <1>3, <1>4 DEF DriveInv

LEMMA ReadingGoodKeeps == DriveInv /\ Drive!ReadingGood => DriveInv'
<1> SUFFICES ASSUME DriveInv, Drive!ReadingGood PROVE DriveInv'
  OBVIOUS
<1> USE Numbers
<1>0. Drive!TypeOK /\ DriveParts /\ phase = "step"
  BY DEF DriveInv, Drive!ReadingGood
<1>1. commFailed' \in BOOLEAN /\ ~commFailed' /\ lostFor' \in 0 .. Cutoff
  BY <1>0, MarkTyped DEF Drive!ReadingGood, Drive!MarkRead
<1>2. desired' \in Drive!Position
  <2>1. desired \in Drive!Position
    BY <1>0 DEF DriveParts, RampHasStart, Ready
  <2>2. Drive!Reach \in Nat
    BY <1>0, ReachIsShort DEF DriveParts
  <2>3. CASE target = Drive!Unset
    BY <2>1, <2>3 DEF Drive!ReadingGood, Drive!PositionCycle
  <2>4. CASE target # Drive!Unset
    <3>1. Drive!RampDemand
      BY <2>4 DEF Drive!ReadingGood, Drive!PositionCycle
    <3> QED
      BY <1>0, <2>2, <2>4, <3>1, RampBounds
  <2> QED
    BY <2>3, <2>4
<1>3. /\ quantity' \in Commands \cup {0, Drive!CalibrationPwm} /\ enabled' \in BOOLEAN
      /\ lastPWMval' \in Commands \cup {0, Drive!Unset}
      /\ lastPWMval' \in {quantity', Drive!Unset}
      /\ phase' = "run" \/ (phase' = "stopped" /\ quantity' = 0)
  <2>0. lastPWMval \in {quantity, Drive!Unset}
    BY <1>0 DEF DriveParts, Drive!ChannelFollowsMemory
  <2>1. CASE phase' = "run" /\ UNCHANGED Drive!output
    BY <1>0, <2>0, <2>1 DEF Drive!TypeOK, Drive!output
  <2>2. CASE /\ phase' = "run" /\ UNCHANGED enabled
             /\ \E pwm \in Commands \cup {0} : Drive!WriteQuantityPWM(pwm)
    BY <1>0, <2>0, <2>2, WriteTyped DEF Drive!TypeOK
  <2>3. CASE Drive!Stop
    BY <1>0, <2>3, StopTyped
  <2> QED
    BY <2>1, <2>2, <2>3 DEF Drive!ReadingGood, Drive!PositionCycle
<1>4. Drive!TypeOK'
  BY <1>0, <1>1, <1>2, <1>3
     DEF Drive!ReadingGood, Drive!TypeOK, Drive!setup, Drive!timing, Drive!pid
<1>5. phase' = "run" => Remaining' \in 0 .. Drive!StepSpan /\ OnGrid'
  BY <1>0, NextStepIsNear DEF Drive!ReadingGood
<1>6. PowerIsRecent' /\ PowerIsStarted' /\ OnGrid'
  <2>1. pidAge' = busyFor
    BY DEF Drive!ReadingGood
  <2>2. phase' = "run" => /\ pidAge' + Remaining' <= GoodSpan
                          /\ pidAge' + Remaining' < Drive!FeedbackBound
    <3>1. phase' = "run" => busyFor \in Nat /\ busyFor + Remaining' <= GoodSpan
      BY NextStepIsNear DEF Drive!ReadingGood
    <3> QED
      BY <1>5, <2>1, <3>1 DEF GoodSpan
  <2>3. phase' = "run" => PowerIsRecent'
    BY <1>1, <2>2 DEF PowerIsRecent
  <2> QED
    BY <1>3, <1>5, <2>3
       DEF PowerIsRecent, PowerIsStarted, OnGrid, Running, Drive!ReadingGood
<1>7. OutsideTheLoop' /\ RampHasStart' /\ Drive!ChannelFollowsMemory'
  BY <1>2, <1>3
     DEF OutsideTheLoop, RampHasStart, Drive!ChannelFollowsMemory,
         Drive!Calibrating, Drive!Off
<1> QED
  BY <1>4, <1>6, <1>7 DEF DriveInv, DriveParts

LEMMA TickKeeps == DriveInv /\ Drive!Tick => DriveInv'
<1> SUFFICES ASSUME DriveInv, Drive!Tick PROVE DriveInv'
  OBVIOUS
<1> USE Numbers
<1>0. Drive!TypeOK /\ DriveParts
  BY DEF DriveInv
<1>1. /\ lostFor' \in 0 .. Cutoff /\ pidAge' \in 0 .. Drive!FeedbackBound
      /\ busyFor' \in 0 .. ReadTime
  BY <1>0 DEF Drive!Tick, Drive!TypeOK, Drive!Older, Drive!Least, Drive!SlowStep
<1>2. due' \in -(Late + ReadTime) .. Period
  BY <1>0
     DEF Drive!Tick, Drive!TypeOK, Drive!LateStep, Drive!SlowStep, DriveParts,
         OnGrid
<1>3. Drive!TypeOK'
  BY <1>0, <1>1, <1>2
     DEF Drive!Tick, Drive!TypeOK, Drive!setup, Drive!output, Drive!demand
<1>4. OnGrid'
  <2>1. phase' = "step" =>
          /\ controlStarted' /\ due' >= -busyFor' /\ due' <= Period - busyFor'
    BY <1>0 DEF Drive!Tick, Drive!TypeOK, DriveParts, OnGrid
  <2>2. phase' = "step" => pidAge' >= busyFor'
    BY <1>0
       DEF Drive!Tick, Drive!TypeOK, DriveParts, OnGrid, Drive!Older, Drive!Least,
           Drive!SlowStep
  <2>3. phase' = "run" /\ pidStarted' => controlStarted'
    BY <1>0 DEF Drive!Tick, DriveParts, OnGrid
  <2> QED
    BY <2>1, <2>2, <2>3 DEF OnGrid
<1>5. PowerIsRecent'
  <2> SUFFICES ASSUME phase \in Running, pidStarted PROVE PowerIsRecent'
    BY DEF Drive!Tick, PowerIsRecent, Running
  <2>1. Remaining \in Nat /\ Remaining' = Remaining - 1
    BY <1>0, <1>3
       DEF Drive!Tick, Drive!TypeOK, Drive!LateStep, Drive!SlowStep, Remaining,
           Running, DriveParts, OnGrid
  <2>2. pidAge' = pidAge + 1
    BY <1>0, <2>1
       DEF Drive!Tick, Drive!TypeOK, Drive!Older, Drive!Least, DriveParts,
           PowerIsRecent
  <2>3. commFailed /\ lostFor' < Cutoff => lostFor' = lostFor + 1 /\ lostFor < Cutoff
    BY <1>0 DEF Drive!Tick, Drive!TypeOK, Drive!Older, Drive!Least
  <2>4. pidAge' + Remaining' = pidAge + Remaining
    <3>1. pidAge \in Int
      BY <1>0 DEF Drive!TypeOK
    <3> QED
      BY <2>1, <2>2, <3>1
  <2>5. ~commFailed => pidAge + Remaining <= GoodSpan
    BY <1>0 DEF DriveParts, PowerIsRecent
  <2>6. commFailed /\ lostFor' < Cutoff => pidAge' <= lostFor' + GoodSpan
    BY <1>0, <2>2, <2>3, Numbers DEF Drive!TypeOK, DriveParts, PowerIsRecent, GoodSpan
  <2>7. pidAge + Remaining < Drive!FeedbackBound
    BY <1>0 DEF DriveParts, PowerIsRecent
  <2>8. commFailed' = commFailed
    BY DEF Drive!Tick
  <2> QED
    BY <2>4, <2>5, <2>6, <2>7, <2>8 DEF PowerIsRecent
<1>6. /\ PowerIsStarted' /\ OutsideTheLoop' /\ RampHasStart'
      /\ Drive!ChannelFollowsMemory'
  BY <1>0
     DEF Drive!Tick, DriveParts, PowerIsStarted, Running, OutsideTheLoop, RampHasStart,
         Drive!ChannelFollowsMemory, Ready, Drive!Calibrating, Drive!Off,
         Drive!output, Drive!demand
<1> QED
  BY <1>3, <1>4, <1>5, <1>6 DEF DriveInv, DriveParts

LEMMA DriveKeeps == DriveInv /\ [Drive!Next]_(Drive!vars) => DriveInv'
<1> SUFFICES ASSUME DriveInv, [Drive!Next]_(Drive!vars) PROVE DriveInv'
  OBVIOUS
<1>1. CASE UNCHANGED Drive!vars
  BY <1>1
     DEF DriveInv, Drive!TypeOK, DriveParts, PowerIsStarted, OnGrid, PowerIsRecent,
         Remaining, OutsideTheLoop, RampHasStart, Drive!ChannelFollowsMemory,
         Drive!Calibrating, Drive!vars, Drive!setup, Drive!output, Drive!demand,
         Drive!link, Drive!timing, Drive!pid, Running
<1> QED
  BY <1>1, StartUpKeeps, BetweenKeeps, StepBeginsKeeps, ReadingLostKeeps,
     ReadingRefusedKeeps, ReadingGoodKeeps, TickKeeps DEF Drive!Next, Drive!StepEnds

(* The inductive invariant of the drive.                                        *)
THEOREM DriveAlways == Drive!Init /\ [][Drive!Next]_(Drive!vars) => []DriveInv
  BY DriveStarts, DriveKeeps, PTL

(* Beside the snapshot the drive does nothing it does not do alone.             *)
LEMMA PartsRunDrive == MCSpec => Drive!Init /\ [][Drive!Next]_(Drive!vars)
<1>1. MCInit => Drive!Init
  BY DEF MCInit
<1>2. [Snapshot \/ Steps \/ Rests]_<<vars, driveVars, driving>>
        => [Drive!Next]_(Drive!vars)
  <2>1. UNCHANGED driveVars => UNCHANGED Drive!vars
    BY DEF driveVars, Drive!vars, Drive!setup, Drive!output, Drive!demand, Drive!link,
           Drive!timing, Drive!pid
  <2> QED
    BY <2>1 DEF Snapshot, Steps, Rests
<1> QED
  BY <1>1, <1>2, PTL DEF MCSpec

(* However transfers, late steps and slow transfers follow each other, the      *)
(* control loop never drives the actuator on feedback older than the            *)
(* communication cutoff and two steps.                                          *)
THEOREM PowerIsFed == MCSpec => []PowerNeedsFeedback
<1>1. DriveInv => PowerNeedsFeedback
  BY Numbers
     DEF DriveInv, DriveParts, PowerIsRecent, PowerNeedsFeedback,
         PowerIsStarted, Drive!PowerNeedsFeedback, Remaining, Running, Drive!TypeOK,
         OnGrid
<1> QED
  BY <1>1, PartsRunDrive, DriveAlways, PTL

(* What the loop remembers writing is what the channel carries, or it remembers *)
(* nothing: whatever order sweep, probe, stops, resets of the tuning and steps  *)
(* come in, a command the loop means to change is written.                      *)
THEOREM MemoryIsTrue == MCSpec => []ChannelFollowsMemory
<1>1. DriveInv => ChannelFollowsMemory
  BY DEF DriveInv, DriveParts, ChannelFollowsMemory
<1> QED
  BY <1>1, PartsRunDrive, DriveAlways, PTL

(* Only a good reading of a step moves the desired position, and the ramp       *)
(* bounds how far.                                                              *)
LEMMA StepIsCurbed ==
  ASSUME DriveInv, Drive!Next, phase = "step", desired' # desired
  PROVE  LET from == IF desired = Drive!Unset THEN 0 ELSE desired
         IN from - Slew * Span <= desired' /\ desired' <= from + Slew * Span
<1>0. Drive!TypeOK /\ desired \in Drive!Position
  BY DEF DriveInv, DriveParts, RampHasStart, Ready
<1>1. Drive!ReadingGood
  BY 
     DEF Drive!Next, Drive!StartUp, Drive!BaselineReady, Drive!CalibrationPoll,
         Drive!MinSettles, Drive!CalibrationDone, Drive!CalibrationFails,
         Drive!Calibrating, Drive!Between, Drive!SetDemand, Drive!StopBetweenSteps,
         Drive!ResetTuning, Drive!ProbeBegins, Drive!ProbePoll, Drive!ProbeEnds,
         Drive!StepBegins, Drive!StepEnds, Drive!ReadingLost, Drive!ReadingRefused,
         Drive!Tick, Drive!demand
<1>2. target # Drive!Unset /\ Drive!RampDemand
  BY <1>1 DEF Drive!ReadingGood, Drive!PositionCycle
<1>3. /\ desired - Drive!Reach <= desired' /\ desired' <= desired + Drive!Reach
      /\ desired' \in Drive!Position
  BY <1>0, <1>2, RampBounds, ReachIsShort DEF DriveInv, DriveParts
<1>4. desired # Drive!Unset
  BY <1>0 DEF Drive!Position, Drive!Unset
<1>5. /\ Drive!Reach \in Nat /\ Slew * Span \in Nat /\ Drive!Reach <= Slew * Span
  BY <1>0, ReachIsShort DEF DriveInv, DriveParts
<1>6. desired \in Int /\ desired' \in Int
  BY <1>0, <1>3, Numbers DEF Drive!Position
<1> HIDE DEF Span
<1> DEFINE reach == Slew * Span
<1>7. reach \in Nat /\ Drive!Reach <= reach
  BY <1>5
<1> HIDE DEF reach
<1>8. desired - reach <= desired' /\ desired' <= desired + reach
  BY <1>3, <1>5, <1>6, <1>7
<1> QED
  BY <1>4, <1>8 DEF reach

(* A stop is left by no action.                                                 *)
LEMMA OffIsFinal ==
  ASSUME Drive!Next, phase \in Drive!Off
  PROVE  phase' = phase
  BY DEF Drive!Off, Drive!Next, Drive!StartUp, Drive!BaselineReady,
         Drive!CalibrationPoll, Drive!MinSettles, Drive!CalibrationDone,
         Drive!CalibrationFails, Drive!Calibrating, Drive!Between, Drive!SetDemand,
         Drive!StopBetweenSteps, Drive!ResetTuning, Drive!ProbeBegins, Drive!ProbePoll,
         Drive!ProbeEnds, Drive!StepBegins, Drive!StepEnds, Drive!ReadingLost,
         Drive!ReadingRefused, Drive!ReadingGood, Drive!Tick

(* Whatever is demanded and read, the commanded position moves no faster than   *)
(* the slew over the time since the last good step began, from the calibrated   *)
(* bottom at first, and a stop leaves the channel at zero for good.             *)
THEOREM DemandsAreSafe == MCSpec => DemandsAreCurbed
<1> DEFINE
     Curbed ==
       /\ phase' \in Drive!Off => quantity' = 0
       /\ phase \in Drive!Off => phase' = phase
       /\ phase = "step" /\ desired' # desired =>
            LET from == IF desired = Drive!Unset THEN 0 ELSE desired
            IN from - Slew * Span <= desired' /\ desired' <= from + Slew * Span
<1>1. DriveInv /\ DriveInv' /\ [Drive!Next]_(Drive!vars) => [Curbed]_(Drive!vars)
  <2> SUFFICES ASSUME DriveInv, DriveInv', Drive!Next PROVE Curbed
    OBVIOUS
  <2>1. phase' \in Drive!Off => quantity' = 0
    BY DEF DriveInv, DriveParts, OutsideTheLoop
  <2>2. phase \in Drive!Off => phase' = phase
    BY OffIsFinal
  <2>3. phase = "step" /\ desired' # desired =>
          LET from == IF desired = Drive!Unset THEN 0 ELSE desired
          IN from - Slew * Span <= desired' /\ desired' <= from + Slew * Span
    BY StepIsCurbed
  <2> QED
    BY <2>1, <2>2, <2>3
<1> QED
  BY <1>1, PartsRunDrive, DriveAlways, PTL
     DEF DemandsAreCurbed, Drive!DemandsAreCurbed, Span
================================================================================
