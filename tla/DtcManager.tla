------------------------------- MODULE DtcManager -------------------------------
(* The diagnostic trouble code manager of the ECU (dtcManager.c): the registry  *)
(* in RAM, its snapshot in the key-value store, the migration from the legacy   *)
(* EEPROM area, and the retries after a storage fault.                          *)
(*                                                                              *)
(* dtcManagerMutex makes every entry point atomic towards the others, so an     *)
(* entry point is one action, except that Init and Poll stop after each storage *)
(* batch (`pc`): a reset may strike there.  A batch that does not succeed may   *)
(* leave any part of its records in the store with the markers last, which is   *)
(* also what a reset during the batch leaves: BatchFails then PowerLoss.        *)
EXTENDS Naturals, FiniteSets

CONSTANTS
  N,         \* number of entries in the registry (DTC_COUNT), indexed from 0
  L,         \* how many of them the legacy area knows (DTC_LEGACY_ENTRY_COUNT)
  Times,     \* RTC times a report may be dated with; 0 means unknown
  Details    \* ISO failure type bytes; 0 is DTC_DETAIL_NONE

ASSUME RegistryAssumption == N \in Nat /\ L \in Nat /\ L <= N
ASSUME DataAssumption == 0 \in Times /\ 0 \in Details

Idx == 0 .. N - 1
LegacyIdx == 0 .. L - 1

VARIABLES
  dtc,             \* s_dtcState.dtcs
  persistPending,  \* the entries whose persistPending flag is set
  clearPending, storageReady, schemaPending,
  retryDue,        \* DTC_PERSIST_RETRY_MS have passed since lastRetryMs
  pc,              \* "boot" before dtcManagerInit, "idle" with the mutex free
  mirror,          \* the records the key-value store holds, written or not
  flash,           \* the records a reset preserves
  legacyValid, legacyFlags  \* the legacy EEPROM area; nothing writes it

ram == <<dtc, persistPending, clearPending, storageReady, schemaPending>>
kv == <<mirror, flash>>
legacy == <<legacyValid, legacyFlags>>
vars == <<ram, retryDue, pc, kv, legacy>>

--------------------------------------------------------------------------------
(* Data                                                                         *)

Entry == [active : BOOLEAN, stored : BOOLEAN, permanent : BOOLEAN,
          firstOccurrence : Times, detail : Details]
Flags == [stored : BOOLEAN, permanent : BOOLEAN]
Word == [stored : BOOLEAN, permanent : BOOLEAN, detail : Details]
(* An absent flags record reads as zero and an absent timestamp as unknown, so  *)
(* a record that is absent is not told from one that holds zero.                *)
Store == [word : [Idx -> Word], ts : [Idx -> Times],
          migrated : BOOLEAN, schema : BOOLEAN]

NoEntry == [active |-> FALSE, stored |-> FALSE, permanent |-> FALSE,
            firstOccurrence |-> 0, detail |-> 0]
NoWord == [stored |-> FALSE, permanent |-> FALSE, detail |-> 0]
EmptyRecords == [word |-> [i \in Idx |-> NoWord], ts |-> [i \in Idx |-> 0]]

WordOf(e) == [stored |-> e.stored, permanent |-> e.permanent, detail |-> e.detail]
Faulty(w) == w.stored \/ w.permanent

(* The whole registry as records, over a store whose markers are kept or set.   *)
Snapshot(s, entries, withSchema) ==
  [word |-> [i \in Idx |-> WordOf(entries[i])],
   ts |-> [i \in Idx |-> entries[i].firstOccurrence],
   migrated |-> s.migrated \/ withSchema,
   schema |-> s.schema \/ withSchema]

SaveRecord(s, i, e) ==
  [s EXCEPT !.word[i] = WordOf(e), !.ts[i] = e.firstOccurrence]

Erased(s) == [s EXCEPT !.word = EmptyRecords.word, !.ts = EmptyRecords.ts]

(* What an interrupted batch or commit may leave of the way from one store to   *)
(* another: any of the entry records, then the marker, then the schema.         *)
Torn(old, new) ==
  {[word |-> [i \in Idx |-> IF i \in W THEN new.word[i] ELSE old.word[i]],
    ts |-> [i \in Idx |-> IF i \in T THEN new.ts[i] ELSE old.ts[i]],
    migrated |-> old.migrated, schema |-> old.schema]
       : W \in SUBSET Idx, T \in SUBSET Idx}
  \cup {[new EXCEPT !.schema = old.schema], new}

(* Runs one deferred batch that would turn the records into those of `target`.  *)
(* A commit that fails may still have programmed records, those of an earlier   *)
(* failed batch first; the records stay in the mirror for the next commit.      *)
Batch(target, ok) ==
  IF ok
  THEN mirror' = target /\ flash' = target
  ELSE /\ mirror' \in Torn(mirror, target)
       /\ \E s \in {flash, mirror} : flash' \in Torn(s, mirror')

--------------------------------------------------------------------------------
(* Reading the store                                                            *)

SchemaComplete(s) == s.schema /\ s.migrated
UseLegacy(s) == ~s.schema /\ ~s.migrated /\ legacyValid

(* Entries after the first n reads of a load: a read of the flags word, then    *)
(* one of the timestamp; the entries in `skip` are passed over.                 *)
LoadReads(skip, n) ==
  [i \in Idx |->
     IF i \in skip \/ 2 * i >= n THEN dtc[i]
     ELSE [active |-> FALSE,
           stored |-> flash.word[i].stored, permanent |-> flash.word[i].permanent,
           detail |-> IF Faulty(flash.word[i]) THEN flash.word[i].detail ELSE 0,
           firstOccurrence |-> IF ~Faulty(flash.word[i]) THEN 0
                               ELSE IF 2 * i + 1 < n THEN flash.ts[i]
                               ELSE dtc[i].firstOccurrence]]

ApplyLegacy(entries, skip) ==
  [i \in Idx |->
     IF i \in LegacyIdx \ skip
     THEN [entries[i] EXCEPT !.stored = legacyFlags[i].stored,
                             !.permanent = legacyFlags[i].permanent,
                             !.active = FALSE]
     ELSE entries[i]]

Blank == [i \in Idx |-> NoEntry]

(* Faulty variants of Loaded: the merge after a late opening is forgotten; the  *)
(* merge does not look at a queued clear.                                       *)
LoadedWithoutMerge(preserveRuntime) ==
  IF preserveRuntime THEN dtc
  ELSE IF UseLegacy(flash) THEN ApplyLegacy(Blank, {}) ELSE LoadReads({}, 2 * N)
LoadedDespiteClear(preserveRuntime) ==
  LET skip == IF preserveRuntime THEN persistPending ELSE {} IN
  IF UseLegacy(flash)
  THEN ApplyLegacy(IF preserveRuntime THEN dtc ELSE Blank, skip)
  ELSE LoadReads(skip, 2 * N)

(* The registry after a load that reads everything it needs.                    *)
Loaded(preserveRuntime) ==
  LET skip == IF preserveRuntime THEN persistPending ELSE {} IN
  IF preserveRuntime /\ clearPending THEN dtc
  ELSE IF UseLegacy(flash)
       THEN ApplyLegacy(IF preserveRuntime THEN dtc ELSE Blank, skip)
       ELSE LoadReads(skip, 2 * N)

MarkAllSnapshotsPending == Idx

(* loadOrPrepareSchema: every read succeeds, or one fails and ends the load.    *)
LoadOrPrepareSchema(preserveRuntime, ok) ==
  IF ok
  THEN /\ dtc' = Loaded(preserveRuntime)
       /\ storageReady' = TRUE
       /\ schemaPending' = ~SchemaComplete(flash)
       /\ persistPending' = IF SchemaComplete(flash) THEN persistPending
                           ELSE MarkAllSnapshotsPending
  ELSE /\ storageReady' = FALSE
       /\ persistPending' = persistPending
       /\ \/ dtc' = dtc
          \/ /\ ~UseLegacy(flash)
             /\ ~(preserveRuntime /\ clearPending)
             /\ \E n \in 0 .. 2 * N - 1 :
                  dtc' = LoadReads(IF preserveRuntime THEN persistPending ELSE {}, n)

--------------------------------------------------------------------------------
(* dtcManagerInit                                                               *)

(* The storage does not open: run from RAM until a retry opens it.              *)
InitStorageFails ==
  /\ pc = "boot"
  /\ dtc' = Blank
  /\ persistPending' = {}
  /\ storageReady' = FALSE
  /\ schemaPending' = TRUE
  /\ retryDue' = FALSE
  /\ pc' = "idle"
  /\ UNCHANGED <<clearPending, kv, legacy>>

InitLoad(ok) ==
  /\ pc = "boot"
  /\ LoadOrPrepareSchema(FALSE, ok)
  /\ IF ok
     THEN /\ pc' = IF schemaPending' THEN "initSchema" ELSE "idle"
          /\ UNCHANGED retryDue
     ELSE /\ schemaPending' = TRUE
          /\ retryDue' = FALSE
          /\ pc' = "idle"
  /\ UNCHANGED <<clearPending, kv, legacy>>

(* The full snapshot with its markers reaches the store, or stays queued.       *)
SaveSchemaSnapshot(ok) ==
  /\ Batch(Snapshot(mirror, dtc, TRUE), ok)
  /\ IF ok
     THEN /\ schemaPending' = FALSE
          /\ clearPending' = FALSE
          /\ persistPending' = {}
     ELSE UNCHANGED <<schemaPending, clearPending, persistPending>>
  /\ UNCHANGED <<dtc, storageReady, legacy>>

InitSchema(ok) ==
  /\ pc = "initSchema"
  /\ SaveSchemaSnapshot(ok)
  /\ retryDue' = (ok /\ retryDue)
  /\ pc' = "idle"

--------------------------------------------------------------------------------
(* dtcManagerPoll                                                               *)

(* Faulty variant: Poll forgets the queued clear.                               *)
NextJobWithoutClear(schema, clear, pending) ==
  IF schema THEN "pollSchema" ELSE IF pending # {} THEN "pollSave" ELSE "idle"

(* Where Poll goes on once the storage is open.                                 *)
NextJob(schema, clear, pending) ==
  IF schema THEN "pollSchema"
  ELSE IF clear THEN "pollClear"
  ELSE IF pending # {} THEN "pollSave" ELSE "idle"

(* Faulty variant: entries left over by a failed save do not count as work.     *)
WorkLeftWithoutEntries == ~storageReady \/ schemaPending \/ clearPending
WorkLeft ==
  ~storageReady \/ schemaPending \/ clearPending \/ persistPending # {}

PollBegin ==
  /\ pc = "idle"
  /\ retryDue
  /\ WorkLeft
  /\ retryDue' = FALSE
  /\ pc' = IF storageReady THEN NextJob(schemaPending, clearPending, persistPending)
           ELSE "pollOpen"
  /\ UNCHANGED <<ram, kv, legacy>>

PollOpenFails ==
  /\ pc = "pollOpen"
  /\ pc' = "idle"
  /\ UNCHANGED <<ram, retryDue, kv, legacy>>

PollLoad(ok) ==
  /\ pc = "pollOpen"
  /\ LoadOrPrepareSchema(clearPending \/ persistPending # {}, ok)
  /\ IF ok
     THEN pc' = NextJob(schemaPending', clearPending, persistPending')
     ELSE pc' = "idle" /\ schemaPending' = schemaPending
  /\ UNCHANGED <<clearPending, retryDue, kv, legacy>>

PollSchema(ok) ==
  /\ pc = "pollSchema"
  /\ SaveSchemaSnapshot(ok)
  /\ pc' = "idle"
  /\ UNCHANGED retryDue

PollClear(ok) ==
  /\ pc = "pollClear"
  /\ Batch(Erased(mirror), ok)
  /\ clearPending' = ~ok
  /\ pc' = IF ok THEN NextJob(FALSE, FALSE, persistPending) ELSE "idle"
  /\ UNCHANGED <<dtc, persistPending, storageReady, schemaPending, retryDue, legacy>>

PollSave(ok) ==
  /\ pc = "pollSave"
  /\ Batch(Snapshot(mirror, dtc, FALSE), ok)
  /\ persistPending' = IF ok THEN {} ELSE persistPending
  /\ pc' = "idle"
  /\ UNCHANGED <<dtc, clearPending, storageReady, schemaPending, retryDue, legacy>>

--------------------------------------------------------------------------------
(* dtcManagerSetActive, dtcManagerSetActiveDetail, dtcManagerClearAll           *)

(* The entry after a report; a fault is dated when it is first stored.          *)
Reported(e, on, detail, now) ==
  [active |-> on,
   stored |-> e.stored \/ on,
   permanent |-> e.permanent \/ on,
   firstOccurrence |-> IF on /\ ~e.stored /\ e.firstOccurrence = 0
                       THEN now ELSE e.firstOccurrence,
   detail |-> detail]

(* A report is written at once unless a fuller snapshot or a clear is queued;   *)
(* the queued clear must delete the stale keys first.                           *)
MayWriteDespiteClear == storageReady /\ ~schemaPending   \* faulty variant
MayWrite == storageReady /\ ~schemaPending /\ ~clearPending

SetActiveImpl(i, on, detail, ok) ==
  /\ pc = "idle"
  /\ \E now \in Times :
       LET e == Reported(dtc[i], on, detail, now)
           changed == [e EXCEPT !.active = dtc[i].active] # dtc[i]
       IN /\ dtc' = [dtc EXCEPT ![i] = e]
          /\ IF changed /\ MayWrite
             THEN /\ Batch(SaveRecord(mirror, i, e), ok)
                  /\ persistPending' = IF ok THEN persistPending \ {i}
                                       ELSE persistPending \cup {i}
                  /\ retryDue' = (ok /\ retryDue)
             ELSE /\ ok
                  /\ persistPending' = IF changed THEN persistPending \cup {i}
                                       ELSE persistPending
                  /\ UNCHANGED <<retryDue, kv>>
  /\ UNCHANGED <<clearPending, storageReady, schemaPending, pc, legacy>>

SetActive(i, on, ok) == SetActiveImpl(i, on, dtc[i].detail, ok)
SetActiveDetail(i, detail, ok) == SetActiveImpl(i, TRUE, detail, ok)

(* TRUE is returned to the tester exactly when the clear is not left pending.   *)
ClearAll(ok) ==
  /\ pc = "idle"
  /\ dtc' = Blank
  /\ persistPending' = {}
  /\ IF storageReady /\ ~schemaPending
     THEN /\ Batch(Erased(mirror), ok)
          /\ clearPending' = ~ok
     ELSE /\ ~ok
          /\ clearPending' = TRUE
          /\ UNCHANGED kv
  /\ retryDue' = (ok /\ retryDue)
  /\ UNCHANGED <<storageReady, schemaPending, pc, legacy>>

--------------------------------------------------------------------------------
(* The environment                                                              *)

Elapse ==
  /\ pc # "boot"
  /\ ~retryDue
  /\ retryDue' = TRUE
  /\ UNCHANGED <<ram, pc, kv, legacy>>

(* ECU parameters share the store (config.c): saving them commits whatever      *)
(* records of this module are still only in the mirror.                         *)
ForeignCommit ==
  /\ pc = "idle"
  /\ flash' \in Torn(flash, mirror)
  /\ UNCHANGED <<ram, retryDue, pc, mirror, legacy>>

PowerLoss ==
  /\ pc' = "boot"
  /\ dtc' = Blank
  /\ persistPending' = {}
  /\ clearPending' = FALSE
  /\ storageReady' = FALSE
  /\ schemaPending' = FALSE
  /\ retryDue' = FALSE
  /\ mirror' = flash
  /\ UNCHANGED <<flash, legacy>>

(* A new part, or one whose firmware kept the codes in the store but knew no    *)
(* migration marker and no failure type bytes.                                  *)
FirstStores ==
  {[word |-> [i \in Idx |-> [stored |-> i \in S, permanent |-> i \in S, detail |-> 0]],
    ts |-> [i \in Idx |-> IF i \in S THEN t ELSE 0],
    migrated |-> FALSE, schema |-> known]
       : S \in SUBSET Idx, t \in Times, known \in BOOLEAN}

Init ==
  /\ pc = "boot"
  /\ dtc = Blank
  /\ persistPending = {}
  /\ clearPending = FALSE
  /\ storageReady = FALSE
  /\ schemaPending = FALSE
  /\ retryDue = FALSE
  /\ flash \in FirstStores
  /\ ~flash.schema => \A i \in Idx : flash.word[i] = NoWord
  /\ mirror = flash
  /\ legacyValid \in BOOLEAN
  /\ legacyFlags \in [LegacyIdx -> Flags]

(* The entry points and the batches they run, with the outcome of the storage.  *)
Handler(ok) ==
  \/ InitLoad(ok)
  \/ InitSchema(ok)
  \/ PollLoad(ok)
  \/ PollSchema(ok)
  \/ PollClear(ok)
  \/ PollSave(ok)
  \/ \E i \in Idx, on \in BOOLEAN : SetActive(i, on, ok)
  \/ \E i \in Idx, detail \in Details : SetActiveDetail(i, detail, ok)
  \/ ClearAll(ok)

Next ==
  \/ InitStorageFails
  \/ PollBegin
  \/ PollOpenFails
  \/ \E ok \in BOOLEAN : Handler(ok)
  \/ Elapse
  \/ ForeignCommit
  \/ PowerLoss

Spec == Init /\ [][Next]_vars

--------------------------------------------------------------------------------
(* Properties                                                                   *)

TypeOK ==
  /\ dtc \in [Idx -> Entry]
  /\ persistPending \subseteq Idx
  /\ clearPending \in BOOLEAN /\ storageReady \in BOOLEAN
  /\ schemaPending \in BOOLEAN /\ retryDue \in BOOLEAN
  /\ pc \in {"boot", "initSchema", "idle", "pollOpen",
             "pollSchema", "pollClear", "pollSave"}
  /\ mirror \in Store /\ flash \in Store
  /\ legacyValid \in BOOLEAN /\ legacyFlags \in [LegacyIdx -> Flags]

(* The codes that a start with healthy storage would recover from a store.      *)
Recovered(s) ==
  IF UseLegacy(s) THEN {i \in LegacyIdx : legacyFlags[i].stored}
  ELSE {i \in Idx : s.word[i].stored}

Visible == {i \in Idx : dtc[i].stored}

(* Once the storage is open and no clear is queued, the tester is shown every   *)
(* code the flash remembers: opening the storage late, or a load that failed    *)
(* half-way, hides none (loadOrPrepareSchema, mergeNonPendingFromKv).           *)
OpenShowsDurable ==
  storageReady /\ ~clearPending => Recovered(flash) \subseteq Visible

(* An entry with nothing queued would be read back from the flash exactly as it *)
(* is in RAM, with its date and failure type: "not pending" means durable.      *)
SettledIsDurable ==
  storageReady /\ ~schemaPending /\ ~clearPending =>
    /\ SchemaComplete(flash)
    /\ \A i \in Idx \ persistPending :
         [LoadReads({}, 2 * N)[i] EXCEPT !.active = dtc[i].active] = dtc[i]

(* What the manager promises about the set of codes it remembers.               *)
Promise == INSTANCE FaultMemory WITH
  Codes <- Idx,
  visible <- Visible,
  buffered <- Recovered(mirror),
  durable <- Recovered(flash),
  clearing <- clearPending

KeepsPromise == Promise!FmSpec
================================================================================
