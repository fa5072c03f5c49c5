------------------------------ MODULE Vp37Snapshot ------------------------------
(* The snapshot the VP37 control core publishes and another core copies without *)
(* a lock (vp37_snapshot.c), and the ECU's copy of it into the global values    *)
(* (vp37AdapterPublish).                                                        *)
(*                                                                              *)
(* The words are stored and loaded one at a time in any order, as the relaxed   *)
(* accesses allow; the fences and the release store order them against the      *)
(* sequence only.  A publication is known by its number, a word by the number   *)
(* of the publication that stored it.                                           *)
EXTENDS Integers, Sequences

CONSTANTS
  Width,        \* the sequence is counted modulo this (2^32)
  Attempts,     \* VP37_SNAPSHOT_READ_ATTEMPTS
  Overlap,      \* publications that may begin during one copy: it would take
                \* 2^31 - 1 of them to bring the same sequence back
  Publications  \* bound of the model

ASSUME SnapshotAssumption ==
  /\ Width \in Nat /\ Width % 2 = 0 /\ Width >= 6
  /\ Overlap \in Nat /\ 2 * Overlap < Width - 2
  /\ Attempts \in Nat \ {0} /\ Publications \in Nat \ {0}

(* The fuel temperature, the supply voltage and the telemetry are `values`.     *)
Word == {"initialized", "readCount", "values"}

VARIABLES
  (* the control core *)
  vp37Initialized, readCount,
  writing,           \* within VP37_publish
  toStore,           \* the words it has not stored yet
  content,           \* what each publication says, by its number
  (* shared *)
  publishedSequence, published,
  (* the reading core *)
  pc,                \* "idle", "begin", "copy" within a read, "wait"
  attempt, sequence, toLoad, words,
  since,             \* completed publications when the read or wait began
  begun,             \* publications begun when the copy or wait began
  result,            \* of the last read or wait
  publishedReads,    \* s_vp37PublishedReads
  globals            \* the publication whose values the global values hold

writer == <<vp37Initialized, readCount, writing, toStore, content>>
shared == <<publishedSequence, published>>
reader == <<pc, attempt, sequence, toLoad, words, since, begun, result,
            publishedReads, globals>>
vars == <<writer, shared, reader>>

Status == [initialized : BOOLEAN, readCount : Nat]
Completed == IF writing THEN Len(content) - 1 ELSE Len(content)
Odd(s) == s % 2 = 1
None == [status |-> "none"]
Result == [status : {"none", "EAGAIN", "ENOENT", "published", "timeout"}]
            \cup [status : {"OK"}, words : [Word -> Nat]]

ReadsOf(n) == IF n = 0 THEN 0 ELSE content[n].readCount

--------------------------------------------------------------------------------
(* The control core                                                             *)

(* VP37_publish up to the fence: the sequence is odd before any word changes.   *)
BeginPublication(status) ==
  /\ ~writing /\ Len(content) < Publications
  /\ pc \in {"copy", "wait"} => Len(content) - begun < Overlap
  /\ writing' = TRUE
  /\ content' = Append(content, status)
  /\ publishedSequence' = publishedSequence + 1
  /\ toStore' = Word
  /\ UNCHANGED <<published, reader>>

StoreWord ==
  /\ writing
  /\ \E w \in toStore :
       /\ published' = [published EXCEPT ![w] = Len(content)]
       /\ toStore' = toStore \ {w}
  /\ UNCHANGED <<vp37Initialized, readCount, writing, content, publishedSequence,
                 reader>>

(* Zero stays reserved for a pump that never published.                         *)
NextSequence(s) == IF s + 1 = Width THEN 2 ELSE s + 1

AllStored == writing /\ toStore = {}

EndPublication ==
  /\ AllStored
  /\ publishedSequence' = NextSequence(publishedSequence)
  /\ writing' = FALSE /\ toStore' = {}
  /\ UNCHANGED <<vp37Initialized, readCount, content, published, reader>>

(* VP37_init ends with the first publication.                                   *)
InitPump ==
  /\ content = <<>>
  /\ vp37Initialized' = TRUE
  /\ readCount' \in {0, 1}
  /\ BeginPublication([initialized |-> TRUE, readCount |-> readCount'])

(* A step of VP37_process, with a good frame or not, which may stop the pump.   *)
Step ==
  /\ vp37Initialized
  /\ vp37Initialized' \in BOOLEAN
  /\ readCount' \in {readCount, readCount + 1}
  /\ BeginPublication([initialized |-> vp37Initialized', readCount |-> readCount'])

(* VP37_stop outside a published step: by the console or a refused period.      *)
StopOutsideStep ==
  /\ vp37Initialized /\ ~writing
  /\ vp37Initialized' = FALSE
  /\ UNCHANGED <<readCount, writing, toStore, content, shared, reader>>

StopUnseen == FALSE   \* faulty variant: VP37_publishStop always returns
StopUnpublished ==
  published["initialized"] # 0 /\ content[published["initialized"]].initialized

PublishStop ==
  /\ ~vp37Initialized /\ ~writing /\ StopUnpublished
  /\ BeginPublication([initialized |-> FALSE, readCount |-> readCount])
  /\ UNCHANGED <<vp37Initialized, readCount>>

--------------------------------------------------------------------------------
(* The reading core                                                             *)

(* VP37_copyPublished, called by VP37_readStatus and VP37_readSnapshot.         *)
BeginRead ==
  /\ pc = "idle" /\ pc' = "begin"
  /\ attempt' = 0 /\ since' = Completed /\ result' = None
  /\ UNCHANGED <<writer, shared, sequence, toLoad, words, begun, publishedReads,
                 globals>>

End(status) ==
  /\ pc' = "idle" /\ attempt' = 0 /\ sequence' = 0
  /\ result' = [status |-> status]

AttemptsLeft == attempt + 1 < Attempts

Again ==
  IF AttemptsLeft
  THEN /\ pc' = "begin" /\ attempt' = attempt + 1 /\ sequence' = 0
       /\ UNCHANGED result
  ELSE End("EAGAIN")

SnapshotBegin ==
  /\ pc = "begin"
  /\ \/ publishedSequence = 0 /\ End("ENOENT") /\ UNCHANGED <<toLoad, begun>>
     \/ Odd(publishedSequence) /\ Again /\ UNCHANGED <<toLoad, begun>>
     \/ /\ publishedSequence # 0 /\ ~Odd(publishedSequence)
        /\ pc' = "copy" /\ sequence' = publishedSequence
        /\ toLoad' = Word /\ begun' = Len(content)
        /\ UNCHANGED <<attempt, result>>
  /\ UNCHANGED <<writer, shared, words, since, publishedReads, globals>>

LoadWord ==
  /\ pc = "copy"
  /\ \E w \in toLoad :
       /\ words' = [words EXCEPT ![w] = published[w]]
       /\ toLoad' = toLoad \ {w}
  /\ UNCHANGED <<writer, shared, pc, attempt, sequence, since, begun, result,
                 publishedReads, globals>>

EndAssumed == TRUE   \* faulty variant: the sequence is not loaded again
SnapshotEnd == publishedSequence = sequence

NewReads == ReadsOf(words["readCount"]) # publishedReads

(* Faulty variant of vp37AdapterPublish: the status of the read is ignored.     *)
CopiesAnyNewReads == NewReads
CopiesToGlobals == SnapshotEnd /\ NewReads

EndCopy ==
  /\ pc = "copy" /\ toLoad = {}
  /\ IF SnapshotEnd
     THEN /\ pc' = "idle" /\ attempt' = 0 /\ sequence' = 0
          /\ result' = [status |-> "OK", words |-> words]
     ELSE Again
  /\ IF CopiesToGlobals
     THEN publishedReads' = ReadsOf(words["readCount"]) /\ globals' = words["values"]
     ELSE UNCHANGED <<publishedReads, globals>>
  /\ UNCHANGED <<writer, shared, toLoad, words, since, begun>>

(* VP37_waitForPublication                                                      *)
BeginWait ==
  /\ pc = "idle" /\ pc' = "wait"
  /\ sequence' = publishedSequence
  /\ since' = Completed /\ begun' = Len(content) /\ result' = None
  /\ UNCHANGED <<writer, shared, attempt, toLoad, words, publishedReads, globals>>

PublishedAtAnyChange == publishedSequence # sequence   \* faulty variant
PublishedSince == publishedSequence # sequence /\ ~Odd(publishedSequence)

EndWait ==
  /\ pc = "wait"
  /\ IF PublishedSince THEN End("published") ELSE End("timeout")
  /\ UNCHANGED <<writer, shared, toLoad, words, since, begun, publishedReads,
                 globals>>

--------------------------------------------------------------------------------
Init ==
  /\ vp37Initialized = FALSE /\ readCount = 0
  /\ writing = FALSE /\ toStore = {} /\ content = <<>>
  /\ publishedSequence = 0 /\ published = [w \in Word |-> 0]
  /\ pc = "idle" /\ attempt = 0 /\ sequence = 0
  /\ toLoad = {} /\ words = [w \in Word |-> 0]
  /\ since = 0 /\ begun = 0 /\ result = None
  /\ publishedReads = 0 /\ globals = 0

Control == InitPump \/ Step \/ PublishStop \/ StoreWord \/ EndPublication
Reading ==
  BeginRead \/ SnapshotBegin \/ LoadWord \/ EndCopy \/ BeginWait \/ EndWait

Next == Control \/ StopOutsideStep \/ Reading

Spec == Init /\ [][Next]_vars

(* Both cores come around their loops.                                          *)
FairSpec == Spec /\ WF_vars(Control) /\ WF_vars(Reading)
--------------------------------------------------------------------------------
(* Properties                                                                   *)

TypeOK ==
  /\ vp37Initialized \in BOOLEAN /\ readCount \in Nat
  /\ writing \in BOOLEAN /\ toStore \subseteq Word
  /\ content \in Seq(Status) /\ Len(content) <= Publications
  /\ publishedSequence \in 0 .. Width - 1
  /\ published \in [Word -> Nat]
  /\ pc \in {"idle", "begin", "copy", "wait"}
  /\ attempt \in 0 .. Attempts - 1 /\ sequence \in 0 .. Width - 1
  /\ toLoad \subseteq Word /\ words \in [Word -> Nat]
  /\ since \in Nat /\ begun \in Nat
  /\ result \in Result
  /\ publishedReads \in Nat /\ globals \in Nat

(* A copy that was accepted is one whole publication, and none older than the   *)
(* last one that was complete when the read began.                              *)
WholeCopies ==
  result.status = "OK" =>
    \E n \in 1 .. Len(content) :
      n >= since /\ result.words = [w \in Word |-> n]

(* "Zero stays reserved for a pump that never published", across a wrap too.    *)
AbsentMeansNever == result.status = "ENOENT" => since = 0

(* A read gives up only when a publication overlapped it.                       *)
BusyMeansOverlap == result.status = "EAGAIN" => Len(content) > since

(* The telemetry formats after a step that ended during the wait.               *)
WaitMeansNew == result.status = "published" => Completed > since

(* The global values and the count they are remembered by are one reading: a    *)
(* mixture would keep a stale value until the next good frame.                  *)
GlobalsMatch == ReadsOf(globals) = publishedReads

(* What a read or a wait reports, and what the global values show, is true of   *)
(* the publications that were made meanwhile.                                   *)
OutcomesAreTrue == AbsentMeansNever /\ BusyMeansOverlap /\ WaitMeansNew /\ GlobalsMatch

(* A stop outside the step reaches the snapshot, unless the model's bound on    *)
(* the publications was met.                                                    *)
StopIsPublished ==
  (~vp37Initialized /\ content # <<>>) ~>
    /\ content # <<>> /\ ~writing
    /\ ~content[Len(content)].initialized \/ Len(content) = Publications
================================================================================
