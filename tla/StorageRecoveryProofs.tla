------------------------- MODULE StorageRecoveryProofs -------------------------
(* Proofs about the stores and about what fails and heals around them.  The     *)
(* first part is about the trouble code manager alone, for any registry, any    *)
(* legacy area and any set of dates and failure types; the second about the     *)
(* manager under the jobs of both cores, the expander whose reports it takes,   *)
(* and the marker of Fiesta_clock.                                              *)
EXTENDS MCStorageRecovery, TLAPS

--------------------------------------------------------------------------------
(* Types                                                                        *)

(* What an interrupted commit leaves is a store again (Torn).                   *)
LEMMA TornType ==
  ASSUME NEW a \in Store, NEW b \in Store, NEW s \in Torn(a, b)
  PROVE  s \in Store
BY DEF Torn, Store

(* A batch of records, whatever becomes of it, leaves well-formed stores.       *)
LEMMA BatchType ==
  ASSUME mirror \in Store, flash \in Store, NEW target \in Store,
         NEW ok \in BOOLEAN, Batch(target, ok)
  PROVE  mirror' \in Store /\ flash' \in Store
<1>1. CASE ok
  BY <1>1 DEF Batch
<1>2. CASE ~ok
  <2>1. mirror' \in Torn(mirror, target)
    BY <1>2 DEF Batch
  <2>2. mirror' \in Store
    BY <2>1, TornType
  <2>3. PICK s \in {flash, mirror} : flash' \in Torn(s, mirror')
    BY <1>2 DEF Batch
  <2>4. s \in Store
    OBVIOUS
  <2> QED BY <2>2, <2>3, <2>4, TornType
<1> QED BY <1>1, <1>2

(* The snapshot of a registry, one record of it, and the erased store are       *)
(* stores.                                                                      *)
LEMMA TargetType ==
  ASSUME TypeOK
  PROVE  /\ \A b \in BOOLEAN : Snapshot(mirror, dtc, b) \in Store
         /\ \A i \in Idx, e \in Entry : SaveRecord(mirror, i, e) \in Store
         /\ Erased(mirror) \in Store
BY DataAssumption DEF TypeOK, Snapshot, SaveRecord, Erased, EmptyRecords, NoWord,
   WordOf, Store, Word, Entry

(* Loads read entries, from the key-value store or from the legacy area.        *)
LEMMA LoadType ==
  ASSUME TypeOK
  PROVE  /\ \A skip, n : LoadReads(skip, n) \in [Idx -> Entry]
         /\ \A skip : \A entries \in [Idx -> Entry] :
              ApplyLegacy(entries, skip) \in [Idx -> Entry]
         /\ Blank \in [Idx -> Entry]
         /\ \A b \in BOOLEAN : Loaded(b) \in [Idx -> Entry]
<1>1. \A skip, n : LoadReads(skip, n) \in [Idx -> Entry]
  BY DataAssumption DEF TypeOK, LoadReads, Entry, Store, Word
<1>2. \A skip : \A entries \in [Idx -> Entry] :
        ApplyLegacy(entries, skip) \in [Idx -> Entry]
  <2>1. SUFFICES ASSUME NEW skip, NEW entries \in [Idx -> Entry], NEW i \in Idx
                 PROVE  ApplyLegacy(entries, skip)[i] \in Entry
    BY DEF ApplyLegacy
  <2>2. entries[i] \in Entry
    OBVIOUS
  <2>3. ASSUME i \in LegacyIdx
        PROVE  legacyFlags[i].stored \in BOOLEAN /\ legacyFlags[i].permanent \in BOOLEAN
    BY <2>3 DEF TypeOK, Flags
  <2>4. ASSUME NEW e \in Entry, NEW s \in BOOLEAN, NEW p \in BOOLEAN
        PROVE  [e EXCEPT !.stored = s, !.permanent = p, !.active = FALSE] \in Entry
    BY DEF Entry
  <2>5. \/ ApplyLegacy(entries, skip)[i] = entries[i]
        \/ /\ i \in LegacyIdx
           /\ ApplyLegacy(entries, skip)[i] =
                [entries[i] EXCEPT !.stored = legacyFlags[i].stored,
                                   !.permanent = legacyFlags[i].permanent,
                                   !.active = FALSE]
    BY DEF ApplyLegacy
  <2> QED BY <2>2, <2>3, <2>4, <2>5
<1>3. Blank \in [Idx -> Entry]
  BY DataAssumption DEF Blank, NoEntry, Entry
<1>4. \A b \in BOOLEAN : Loaded(b) \in [Idx -> Entry]
  BY <1>1, <1>2, <1>3 DEF Loaded, TypeOK
<1> QED BY <1>1, <1>2, <1>3, <1>4

LEMMA LoadOrPrepareSchemaType ==
  ASSUME TypeOK, NEW b \in BOOLEAN, NEW ok \in BOOLEAN,
         LoadOrPrepareSchema(b, ok)
  PROVE  /\ dtc' \in [Idx -> Entry]
         /\ persistPending' \subseteq Idx
         /\ storageReady' \in BOOLEAN
         /\ ok => schemaPending' \in BOOLEAN
<1>1. CASE ok
  BY <1>1, LoadType DEF LoadOrPrepareSchema, TypeOK, MarkAllSnapshotsPending,
     SchemaComplete, Store
<1>2. CASE ~ok
  <2>1. dtc' = dtc \/ \E skip, n : dtc' = LoadReads(skip, n)
    BY <1>2 DEF LoadOrPrepareSchema
  <2>2. dtc' \in [Idx -> Entry]
    BY <2>1, LoadType DEF TypeOK
  <2> QED BY <1>2, <2>2 DEF LoadOrPrepareSchema, TypeOK
<1> QED BY <1>1, <1>2

LEMMA InitType == Init => TypeOK
<1> SUFFICES ASSUME Init PROVE TypeOK
  OBVIOUS
<1>1. Blank \in [Idx -> Entry]
  BY DataAssumption DEF Blank, NoEntry, Entry
<1>2. ASSUME NEW s \in FirstStores PROVE s \in Store
  <2>1. PICK S \in SUBSET Idx, t \in Times, known \in BOOLEAN :
          s = [word |-> [i \in Idx |->
                 [stored |-> i \in S, permanent |-> i \in S, detail |-> 0]],
               ts |-> [i \in Idx |-> IF i \in S THEN t ELSE 0],
               migrated |-> FALSE, schema |-> known]
    BY <1>2 DEF FirstStores
  <2>2. [i \in Idx |-> [stored |-> i \in S, permanent |-> i \in S, detail |-> 0]]
          \in [Idx -> Word]
    BY DataAssumption DEF Word
  <2>3. [i \in Idx |-> IF i \in S THEN t ELSE 0] \in [Idx -> Times]
    BY DataAssumption
  <2> QED BY <2>1, <2>2, <2>3 DEF Store
<1>3. flash \in Store
  BY <1>2 DEF Init
<1> QED BY <1>1, <1>3 DEF Init, TypeOK

LEMMA NextType == TypeOK /\ [Next]_vars => TypeOK'
<1> SUFFICES ASSUME TypeOK, [Next]_vars PROVE TypeOK'
  OBVIOUS
<1>1. CASE InitStorageFails
  BY <1>1, LoadType DEF InitStorageFails, TypeOK, kv, legacy
<1>2. CASE PollBegin
  BY <1>2 DEF PollBegin, NextJob, TypeOK, ram, kv, legacy
<1>3. CASE PollOpenFails
  BY <1>3 DEF PollOpenFails, TypeOK, ram, kv, legacy
<1>4. ASSUME NEW ok \in BOOLEAN, Handler(ok) PROVE TypeOK'
  <2>1. CASE InitLoad(ok)
    BY <2>1, LoadOrPrepareSchemaType DEF InitLoad, TypeOK, kv, legacy
  <2>2. ASSUME NEW b \in BOOLEAN, SaveSchemaSnapshot(ok)
        PROVE  /\ mirror' \in Store /\ flash' \in Store
               /\ schemaPending' \in BOOLEAN /\ clearPending' \in BOOLEAN
               /\ persistPending' \subseteq Idx
               /\ UNCHANGED <<dtc, storageReady, legacyValid, legacyFlags>>
    BY <2>2, BatchType, TargetType DEF SaveSchemaSnapshot, TypeOK, legacy
  <2>3. CASE InitSchema(ok)
    BY <2>3, <2>2 DEF InitSchema, TypeOK
  <2>4. CASE PollLoad(ok)
    BY <2>4, LoadOrPrepareSchemaType DEF PollLoad, NextJob, TypeOK, kv, legacy
  <2>5. CASE PollSchema(ok)
    BY <2>5, <2>2 DEF PollSchema, TypeOK
  <2>6. CASE PollClear(ok)
    BY <2>6, BatchType, TargetType DEF PollClear, NextJob, TypeOK, legacy
  <2>7. CASE PollSave(ok)
    BY <2>7, BatchType, TargetType DEF PollSave, TypeOK, legacy
  <2>8. ASSUME NEW i \in Idx, NEW on \in BOOLEAN, NEW detail \in Details,
               SetActiveImpl(i, on, detail, ok)
        PROVE  TypeOK'
    <3>1. PICK now \in Times :
            LET e == Reported(dtc[i], on, detail, now)
                changed == [e EXCEPT !.active = dtc[i].active] # dtc[i]
            IN /\ dtc' = [dtc EXCEPT ![i] = e]
               /\ IF changed /\ MayWrite
                  THEN /\ Batch(SaveRecord(mirror, i, e), ok)
                       /\ persistPending' = IF ok THEN persistPending \ {i}
                                            ELSE persistPending \cup {i}
                       /\ retryDue' = (ok /\ retryDue)
                  ELSE /\ ok
                       /\ persistPending' = IF changed THEN persistPending \cup {i}
                                            ELSE persistPending
                       /\ UNCHANGED <<retryDue, kv>>
      BY <2>8 DEF SetActiveImpl
    <3>2. Reported(dtc[i], on, detail, now) \in Entry
      BY DEF Reported, TypeOK, Entry
    <3>3. mirror' \in Store /\ flash' \in Store
      BY <3>1, <3>2, BatchType, TargetType DEF TypeOK, kv
    <3>4. dtc' \in [Idx -> Entry]
      BY <3>1, <3>2 DEF TypeOK
    <3>5. persistPending' \subseteq Idx /\ retryDue' \in BOOLEAN
      BY <3>1 DEF TypeOK
    <3> QED BY <2>8, <3>3, <3>4, <3>5 DEF SetActiveImpl, TypeOK, legacy
  <2>9. ASSUME NEW i \in Idx, NEW on \in BOOLEAN, SetActive(i, on, ok)
        PROVE  TypeOK'
    <3>1. dtc[i].detail \in Details
      BY DEF TypeOK, Entry
    <3> QED BY <3>1, <2>8, <2>9 DEF SetActive
  <2>10. ASSUME NEW i \in Idx, NEW detail \in Details,
                SetActiveDetail(i, detail, ok)
         PROVE  TypeOK'
    BY <2>8, <2>10 DEF SetActiveDetail
  <2>11. CASE ClearAll(ok)
    BY <2>11, BatchType, TargetType, LoadType DEF ClearAll, TypeOK, kv, legacy
  <2> QED BY <1>4, <2>1, <2>3, <2>4, <2>5, <2>6, <2>7, <2>9, <2>10, <2>11
          DEF Handler
<1>5. CASE Elapse
  BY <1>5 DEF Elapse, TypeOK, ram, kv, legacy
<1>6. CASE ForeignCommit
  BY <1>6, TornType DEF ForeignCommit, TypeOK, ram, legacy
<1>7. CASE PowerLoss
  BY <1>7, LoadType DEF PowerLoss, TypeOK, legacy
<1>8. CASE UNCHANGED vars
  BY <1>8 DEF vars, ram, kv, legacy, TypeOK
<1> QED BY <1>1, <1>2, <1>3, <1>4, <1>5, <1>6, <1>7, <1>8 DEF Next

(* Type correctness of the trouble code manager.                                *)
THEOREM TypeCorrect == Spec => []TypeOK
<1> QED BY InitType, NextType, PTL DEF Spec

--------------------------------------------------------------------------------
(* The inductive invariant                                                      *)

(* What each place of a handler has established about the flags.                *)
Control ==
  /\ pc = "boot" => ~storageReady /\ ~clearPending /\ persistPending = {} /\ dtc = Blank
  /\ (pc \in {"initSchema", "pollSchema"}) => storageReady /\ schemaPending
  /\ pc = "pollOpen" => ~storageReady
  /\ pc = "pollClear" => storageReady /\ ~schemaPending /\ clearPending
  /\ pc = "pollSave" => storageReady /\ ~schemaPending /\ ~clearPending

(* Markers are only ever added, the mirror's before the flash's.                *)
MarkersWithin(a, b) == (a.migrated => b.migrated) /\ (a.schema => b.schema)

Markers ==
  /\ MarkersWithin(flash, mirror)
  /\ ~storageReady => mirror = flash
  /\ storageReady /\ ~schemaPending => SchemaComplete(flash)

(* Without a queued clear the copies of the codes contain one another.          *)
Contained ==
  /\ ~storageReady => persistPending \subseteq Visible
  /\ ~storageReady /\ ~clearPending => Visible \ persistPending \subseteq Recovered(flash)
  /\ storageReady /\ ~clearPending => /\ Recovered(flash) \subseteq Recovered(mirror)
                                      /\ Recovered(mirror) \subseteq Visible

IInv == TypeOK /\ Control /\ Markers /\ Contained

--------------------------------------------------------------------------------
(* What batches do to the codes                                                 *)

(* An interrupted commit remembers no code that neither side knows and drops    *)
(* none that both know.                                                         *)
LEMMA TornCodes ==
  ASSUME NEW a \in Store, NEW b \in Store, MarkersWithin(a, b),
         NEW s \in Torn(a, b)
  PROVE  /\ Recovered(s) \subseteq Recovered(a) \cup Recovered(b)
         /\ Recovered(a) \cap Recovered(b) \subseteq Recovered(s)
         /\ MarkersWithin(a, s) /\ MarkersWithin(s, b)
<1>0. LegacyIdx \subseteq Idx
  BY RegistryAssumption DEF LegacyIdx, Idx
<1>1. CASE s = b
  BY <1>1 DEF MarkersWithin
<1>2. CASE s = [b EXCEPT !.schema = a.schema]
  <2>1. s.word = b.word /\ s.migrated = b.migrated /\ s.schema = a.schema
    BY <1>2 DEF Store
  <2>2. CASE UseLegacy(s)
    BY <2>1, <2>2 DEF MarkersWithin, UseLegacy, Recovered, Store
  <2>3. CASE ~UseLegacy(s)
    BY <2>1, <2>3 DEF MarkersWithin, UseLegacy, Recovered, Store
  <2> QED BY <2>2, <2>3
<1>3. CASE \E W, T \in SUBSET Idx :
             s = [word |-> [i \in Idx |-> IF i \in W THEN b.word[i] ELSE a.word[i]],
                  ts |-> [i \in Idx |-> IF i \in T THEN b.ts[i] ELSE a.ts[i]],
                  migrated |-> a.migrated, schema |-> a.schema]
  <2>1. /\ s.migrated = a.migrated /\ s.schema = a.schema
        /\ \A i \in Idx : s.word[i] = a.word[i] \/ s.word[i] = b.word[i]
    BY <1>3
  <2>2. MarkersWithin(a, s) /\ MarkersWithin(s, b)
    BY <2>1 DEF MarkersWithin
  <2>3. CASE UseLegacy(a)
    BY <2>1, <2>2, <2>3 DEF UseLegacy, Recovered
  <2>4. CASE ~UseLegacy(a)
    <3>1. ~UseLegacy(s) /\ ~UseLegacy(b)
      BY <2>1, <2>4 DEF UseLegacy, MarkersWithin
    <3> QED BY <3>1, <2>1, <2>2, <2>4 DEF Recovered
  <2> QED BY <2>3, <2>4
<1> QED BY <1>1, <1>2, <1>3 DEF Torn

LEMMA BatchCodes ==
  ASSUME mirror \in Store, flash \in Store, NEW target \in Store,
         MarkersWithin(flash, mirror), MarkersWithin(mirror, target),
         NEW ok \in BOOLEAN, Batch(target, ok)
  PROVE  /\ Recovered(mirror') \subseteq Recovered(mirror) \cup Recovered(target)
         /\ Recovered(mirror) \cap Recovered(target) \subseteq Recovered(mirror')
         /\ Recovered(flash') \subseteq
              Recovered(flash) \cup Recovered(mirror) \cup Recovered(target)
         /\ Recovered(flash) \cap Recovered(mirror) \cap Recovered(target)
              \subseteq Recovered(flash')
         /\ (Recovered(flash) \subseteq Recovered(mirror)
             /\ Recovered(mirror) \subseteq Recovered(target))
              => Recovered(flash') \subseteq Recovered(mirror')
         /\ MarkersWithin(flash, flash') /\ MarkersWithin(flash', mirror')
<1>1. CASE ok
  BY <1>1 DEF Batch, MarkersWithin
<1>2. CASE ~ok
  <2>1. mirror' \in Torn(mirror, target)
    BY <1>2 DEF Batch
  <2>2. mirror' \in Store
    BY <2>1, TornType
  <2>3. /\ Recovered(mirror') \subseteq Recovered(mirror) \cup Recovered(target)
        /\ Recovered(mirror) \cap Recovered(target) \subseteq Recovered(mirror')
        /\ MarkersWithin(mirror, mirror')
    BY <2>1, TornCodes
  <2>4. PICK s \in {flash, mirror} : flash' \in Torn(s, mirror')
    BY <1>2 DEF Batch
  <2>5. s \in Store /\ MarkersWithin(s, mirror')
    BY <2>3 DEF MarkersWithin
  <2>6. /\ Recovered(flash') \subseteq Recovered(s) \cup Recovered(mirror')
        /\ Recovered(s) \cap Recovered(mirror') \subseteq Recovered(flash')
        /\ MarkersWithin(s, flash') /\ MarkersWithin(flash', mirror')
    BY <2>2, <2>4, <2>5, TornCodes
  <2>7. MarkersWithin(flash, flash')
    BY <2>6 DEF MarkersWithin
  <2> QED BY <2>3, <2>6, <2>7
<1> QED BY <1>1, <1>2

(* The codes of the stores a batch aims at.                                     *)
LEMMA TargetCodes ==
  ASSUME TypeOK
  PROVE  /\ MarkersWithin(mirror, Snapshot(mirror, dtc, TRUE))
         /\ SchemaComplete(Snapshot(mirror, dtc, TRUE))
         /\ Recovered(Snapshot(mirror, dtc, TRUE)) = Visible
         /\ MarkersWithin(mirror, Snapshot(mirror, dtc, FALSE))
         /\ MarkersWithin(mirror, Erased(mirror))
         /\ SchemaComplete(mirror) =>
              /\ Recovered(Snapshot(mirror, dtc, FALSE)) = Visible
              /\ Recovered(Erased(mirror)) = {}
              /\ SchemaComplete(Snapshot(mirror, dtc, FALSE))
              /\ SchemaComplete(Erased(mirror))
<1>1. /\ MarkersWithin(mirror, Snapshot(mirror, dtc, TRUE))
      /\ SchemaComplete(Snapshot(mirror, dtc, TRUE))
      /\ MarkersWithin(mirror, Snapshot(mirror, dtc, FALSE))
      /\ SchemaComplete(mirror) => SchemaComplete(Snapshot(mirror, dtc, FALSE))
  BY DEF Snapshot, MarkersWithin, SchemaComplete
<1>2. \A b \in BOOLEAN : \A i \in Idx :
        Snapshot(mirror, dtc, b).word[i].stored = dtc[i].stored
  BY DEF Snapshot, WordOf
<1>3. Recovered(Snapshot(mirror, dtc, TRUE)) = Visible
  BY <1>1, <1>2 DEF Recovered, UseLegacy, SchemaComplete, Visible
<1>4. SchemaComplete(mirror) => Recovered(Snapshot(mirror, dtc, FALSE)) = Visible
  BY <1>1, <1>2 DEF Recovered, UseLegacy, SchemaComplete, Visible
<1>5. /\ Erased(mirror).schema = mirror.schema
      /\ Erased(mirror).migrated = mirror.migrated
      /\ \A i \in Idx : ~Erased(mirror).word[i].stored
  BY DEF Erased, EmptyRecords, NoWord, TypeOK, Store
<1>6. /\ MarkersWithin(mirror, Erased(mirror))
      /\ SchemaComplete(mirror) => /\ SchemaComplete(Erased(mirror))
                                   /\ Recovered(Erased(mirror)) = {}
  BY <1>5 DEF MarkersWithin, SchemaComplete, Recovered, UseLegacy
<1> QED BY <1>1, <1>3, <1>4, <1>6


(* What a load does to the visible codes, while the storage is still closed: it *)
(* hides none and shows only what the flash remembers, all of it when it ends   *)
(* well.                                                                        *)
LEMMA LoadCodes ==
  ASSUME TypeOK, Contained, ~storageReady, NEW ok \in BOOLEAN,
         LoadOrPrepareSchema(clearPending \/ persistPending # {}, ok)
  PROVE  /\ clearPending => dtc' = dtc
         /\ ~clearPending => /\ Visible \subseteq Visible'
                             /\ Visible' \subseteq Visible \cup Recovered(flash)
                             /\ ok => Recovered(flash) \subseteq Visible'
                             /\ Visible' \ persistPending \subseteq Recovered(flash)
<1> DEFINE pre == clearPending \/ persistPending # {}
           skip == IF pre THEN persistPending ELSE {}
<1>0. LegacyIdx \subseteq Idx /\ N \in Nat
  BY RegistryAssumption DEF LegacyIdx, Idx
<1>1. skip = persistPending
  BY DEF TypeOK
<1>2. \A n : \A i \in Idx :
        LoadReads(skip, n)[i].stored =
          IF i \in skip \/ 2 * i >= n THEN dtc[i].stored ELSE flash.word[i].stored
  BY DEF LoadReads
<1>3. \A e \in [Idx -> Entry] : \A i \in Idx :
        ApplyLegacy(e, skip)[i].stored =
          IF i \in LegacyIdx \ skip THEN legacyFlags[i].stored ELSE e[i].stored
  BY DEF ApplyLegacy, Entry
<1>4. Blank \in [Idx -> Entry] /\ \A i \in Idx : ~Blank[i].stored
  BY LoadType DEF Blank, NoEntry
<1>5. CASE clearPending
  <2>1. CASE ok
    BY <1>5, <2>1 DEF LoadOrPrepareSchema, Loaded
  <2>2. CASE ~ok
    BY <1>5, <2>2 DEF LoadOrPrepareSchema
  <2> QED BY <1>5, <2>1, <2>2
<1>6. CASE ~clearPending
  <2>0. /\ persistPending \subseteq Visible
        /\ Visible \ persistPending \subseteq Recovered(flash)
    BY <1>6 DEF Contained
  <2>1. CASE ok /\ UseLegacy(flash)
    <3>1. dtc' = ApplyLegacy(IF pre THEN dtc ELSE Blank, skip)
      BY <1>6, <2>1 DEF LoadOrPrepareSchema, Loaded
    <3>2. Recovered(flash) = {i \in LegacyIdx : legacyFlags[i].stored}
      BY <2>1 DEF Recovered
    <3>3. (IF pre THEN dtc ELSE Blank) \in [Idx -> Entry]
      BY <1>4 DEF TypeOK
    <3>4. \A i \in Idx : dtc'[i].stored =
            IF i \in LegacyIdx \ persistPending THEN legacyFlags[i].stored
            ELSE pre /\ dtc[i].stored
      BY <1>1, <1>3, <1>4, <3>1, <3>3 DEF TypeOK, Entry
    <3> QED BY <1>0, <1>6, <2>0, <3>2, <3>4 DEF Visible
  <2>2. CASE ~UseLegacy(flash)
    <3>1. Recovered(flash) = {i \in Idx : flash.word[i].stored}
      BY <2>2 DEF Recovered
    <3>2. PICK n : \/ dtc' = LoadReads(skip, n) /\ (ok => n = 2 * N)
                   \/ dtc' = dtc /\ ~ok
      BY <1>6, <2>2 DEF LoadOrPrepareSchema, Loaded
    <3>3. CASE dtc' = dtc /\ ~ok
      BY <2>0, <3>3 DEF Visible
    <3>4. CASE dtc' = LoadReads(skip, n) /\ (ok => n = 2 * N)
      <4>1. \A i \in Idx : dtc'[i].stored =
              IF i \in persistPending \/ 2 * i >= n THEN dtc[i].stored
              ELSE flash.word[i].stored
        BY <1>1, <1>2, <3>4
      <4>2. \A i \in Idx : ok => ~(2 * i >= n)
        BY <1>0, <3>4 DEF Idx
      <4> QED BY <1>6, <2>0, <3>1, <4>1, <4>2 DEF Visible
    <3> QED BY <3>2, <3>3, <3>4
  <2>3. CASE ~ok /\ UseLegacy(flash)
    BY <2>0, <2>3 DEF LoadOrPrepareSchema, Visible
  <2> QED BY <2>1, <2>2, <2>3
<1> QED BY <1>5, <1>6


--------------------------------------------------------------------------------
(* The invariant is inductive                                                   *)

LEMMA LegacyStays ==
  ASSUME [Next]_vars
  PROVE  /\ UNCHANGED legacy
         /\ Recovered(flash)' = Recovered(flash')
         /\ Recovered(mirror)' = Recovered(mirror')
<1>1. UNCHANGED legacy
  BY DEF Next, Handler, InitStorageFails, InitLoad, InitSchema, PollBegin,
     PollOpenFails, PollLoad, PollSchema, PollClear, PollSave, SetActive,
     SetActiveDetail, SetActiveImpl, ClearAll, Elapse, ForeignCommit, PowerLoss,
     SaveSchemaSnapshot, vars
<1> QED BY <1>1 DEF legacy, Recovered, UseLegacy

(* The full snapshot with its markers, from Init or from Poll.                  *)
LEMMA SchemaStep ==
  ASSUME IInv, storageReady, NEW ok \in BOOLEAN, SaveSchemaSnapshot(ok)
  PROVE  /\ UNCHANGED <<dtc, storageReady>>
         /\ MarkersWithin(flash', mirror')
         /\ ok => /\ SchemaComplete(flash')
                  /\ Recovered(flash') = Visible /\ Recovered(mirror') = Visible
                  /\ ~clearPending' /\ ~schemaPending'
         /\ ~ok => UNCHANGED <<schemaPending, clearPending, persistPending>>
         /\ SchemaComplete(flash) => SchemaComplete(flash')
         /\ Recovered(mirror') \subseteq Recovered(mirror) \cup Visible
         /\ Recovered(flash') \subseteq
              Recovered(flash) \cup Recovered(mirror) \cup Visible
         /\ ~clearPending => /\ Recovered(flash) \subseteq Recovered(flash')
                             /\ Recovered(flash') \subseteq Recovered(mirror')
<1> DEFINE target == Snapshot(mirror, dtc, TRUE)
<1>1. /\ target \in Store /\ MarkersWithin(mirror, target)
      /\ SchemaComplete(target) /\ Recovered(target) = Visible
  BY TargetType, TargetCodes DEF IInv
<1>2. Batch(target, ok)
  BY DEF SaveSchemaSnapshot
<1>3. /\ mirror \in Store /\ flash \in Store /\ MarkersWithin(flash, mirror)
  BY DEF IInv, TypeOK, Markers
<1> HIDE DEF target
<1>4. /\ Recovered(mirror') \subseteq Recovered(mirror) \cup Visible
      /\ Recovered(flash') \subseteq
           Recovered(flash) \cup Recovered(mirror) \cup Visible
      /\ Recovered(flash) \cap Recovered(mirror) \cap Visible
           \subseteq Recovered(flash')
      /\ (Recovered(flash) \subseteq Recovered(mirror)
           /\ Recovered(mirror) \subseteq Visible)
           => Recovered(flash') \subseteq Recovered(mirror')
      /\ MarkersWithin(flash, flash') /\ MarkersWithin(flash', mirror')
  BY <1>1, <1>2, <1>3, BatchCodes
<1>5. ok => flash' = target /\ mirror' = target
  BY <1>2 DEF Batch
<1>6. ~clearPending => /\ Recovered(flash) \subseteq Recovered(mirror)
                       /\ Recovered(mirror) \subseteq Visible
  BY DEF IInv, Contained
<1>7. SchemaComplete(flash) => SchemaComplete(flash')
  BY <1>4 DEF SchemaComplete, MarkersWithin
<1> QED BY <1>1, <1>4, <1>5, <1>6, <1>7 DEF SaveSchemaSnapshot

(* One report, with or without a write.                                         *)
LEMMA ReportStep ==
  ASSUME IInv, NEW i \in Idx, NEW on \in BOOLEAN, NEW detail \in Details,
         NEW ok \in BOOLEAN, on \/ detail = dtc[i].detail,
         SetActiveImpl(i, on, detail, ok)
  PROVE  /\ Visible' = IF on THEN Visible \cup {i} ELSE Visible
         /\ persistPending' \subseteq persistPending \cup (Visible' \cap {i})
         /\ storageReady' = storageReady
         /\ \/ /\ UNCHANGED kv /\ persistPending \subseteq persistPending'
               /\ Visible' \ Visible \subseteq persistPending'
            \/ /\ MayWrite /\ on
               /\ MarkersWithin(flash', mirror')
               /\ SchemaComplete(flash')
               /\ Recovered(mirror') \subseteq Recovered(mirror) \cup Visible'
               /\ Recovered(flash') \subseteq
                    Recovered(flash) \cup Recovered(mirror) \cup Visible'
               /\ Recovered(flash) \subseteq Recovered(flash')
               /\ Recovered(flash') \subseteq Recovered(mirror')
<1>1. PICK now \in Times :
        LET e == Reported(dtc[i], on, detail, now)
            changed == [e EXCEPT !.active = dtc[i].active] # dtc[i]
        IN /\ dtc' = [dtc EXCEPT ![i] = e]
           /\ IF changed /\ MayWrite
              THEN /\ Batch(SaveRecord(mirror, i, e), ok)
                   /\ persistPending' = IF ok THEN persistPending \ {i}
                                        ELSE persistPending \cup {i}
                   /\ retryDue' = (ok /\ retryDue)
              ELSE /\ ok
                   /\ persistPending' = IF changed THEN persistPending \cup {i}
                                        ELSE persistPending
                   /\ UNCHANGED <<retryDue, kv>>
  BY DEF SetActiveImpl
<1> DEFINE e == Reported(dtc[i], on, detail, now)
           changed == [e EXCEPT !.active = dtc[i].active] # dtc[i]
           target == SaveRecord(mirror, i, e)
<1>2. dtc \in [Idx -> Entry] /\ dtc[i] \in Entry
  BY DEF IInv, TypeOK
<1>3. e \in Entry /\ e.stored = (dtc[i].stored \/ on)
  BY <1>2 DEF Reported, Entry
<1>4. Visible' = IF on THEN Visible \cup {i} ELSE Visible
  <2>1. dtc' = [dtc EXCEPT ![i] = e]
    BY <1>1
  <2> HIDE DEF e
  <2>2. \A j \in Idx : dtc'[j] = IF j = i THEN e ELSE dtc[j]
    BY <2>1, <1>2
  <2>3. \A j \in Idx : dtc'[j].stored <=> (dtc[j].stored \/ (on /\ j = i))
    BY <2>2, <1>3
  <2> QED BY <2>3 DEF Visible
<1>5. changed => on
  BY <1>2 DEF Reported, Entry
<1>6. changed => i \in Visible'
  BY <1>4, <1>5
<1>7. storageReady' = storageReady
  BY DEF SetActiveImpl
<1>8. CASE ~(changed /\ MayWrite)
  <2>1. i \in Visible' /\ i \notin Visible => changed
    <3>1. i \in Visible' /\ i \notin Visible => e.stored # dtc[i].stored
      BY <1>3, <1>4 DEF Visible
    <3>2. [e EXCEPT !.active = dtc[i].active].stored = e.stored
      BY <1>3 DEF Entry
    <3> QED BY <3>1, <3>2
  <2> QED BY <1>1, <1>4, <1>6, <1>7, <1>8, <2>1
<1>9. CASE changed /\ MayWrite
  <2>1. /\ mirror \in Store /\ flash \in Store /\ MarkersWithin(flash, mirror)
        /\ SchemaComplete(flash) /\ SchemaComplete(mirror)
        /\ Recovered(flash) \subseteq Recovered(mirror)
        /\ Recovered(mirror) \subseteq Visible
    BY <1>9 DEF IInv, TypeOK, Markers, Contained, MayWrite, MarkersWithin,
       SchemaComplete
  <2>2. target \in Store
    BY <1>3, TargetType DEF IInv
  <2>3. /\ target.migrated = mirror.migrated /\ target.schema = mirror.schema
        /\ \A j \in Idx : target.word[j].stored =
             IF j = i THEN e.stored ELSE mirror.word[j].stored
    <3> HIDE DEF e
    <3>1. mirror.word \in [Idx -> Word]
      BY <2>1 DEF Store
    <3>2. /\ target.migrated = mirror.migrated /\ target.schema = mirror.schema
          /\ target.word = [mirror.word EXCEPT ![i] = WordOf(e)]
      BY <2>1 DEF SaveRecord, Store
    <3>3. WordOf(e).stored = e.stored
      BY DEF WordOf
    <3> QED BY <3>1, <3>2, <3>3
  <2>4. MarkersWithin(mirror, target)
    BY <2>3 DEF MarkersWithin
  <2>5. /\ Recovered(mirror) \subseteq Recovered(target)
        /\ Recovered(target) \subseteq Recovered(mirror) \cup Visible'
    BY <1>3, <1>4, <2>1, <2>3 DEF Recovered, UseLegacy, SchemaComplete, Visible
  <2>6. Batch(target, ok)
    BY <1>1, <1>9
  <2> HIDE DEF target
  <2>7. /\ Recovered(mirror') \subseteq Recovered(mirror) \cup Recovered(target)
        /\ Recovered(flash') \subseteq
             Recovered(flash) \cup Recovered(mirror) \cup Recovered(target)
        /\ Recovered(flash) \cap Recovered(mirror) \cap Recovered(target)
             \subseteq Recovered(flash')
        /\ Recovered(flash') \subseteq Recovered(mirror')
        /\ MarkersWithin(flash, flash') /\ MarkersWithin(flash', mirror')
    BY <2>1, <2>2, <2>4, <2>5, <2>6, BatchCodes
  <2>8. SchemaComplete(flash')
    BY <2>1, <2>7 DEF SchemaComplete, MarkersWithin
  <2>9. persistPending' \subseteq persistPending \cup (Visible' \cap {i})
    BY <1>1, <1>6, <1>9
  <2> QED BY <1>4, <1>5, <1>7, <1>9, <2>1, <2>5, <2>7, <2>8, <2>9
<1> QED BY <1>8, <1>9


(* Deletion of every key of the module, while the store is complete.            *)
LEMMA EraseStep ==
  ASSUME IInv, storageReady, ~schemaPending, NEW ok \in BOOLEAN,
         Batch(Erased(mirror), ok)
  PROVE  /\ MarkersWithin(flash', mirror') /\ SchemaComplete(flash')
         /\ Recovered(mirror') \subseteq Recovered(mirror)
         /\ Recovered(flash') \subseteq Recovered(flash) \cup Recovered(mirror)
         /\ ok => Recovered(flash') = {} /\ Recovered(mirror') = {}
<1> DEFINE target == Erased(mirror)
<1>1. /\ mirror \in Store /\ flash \in Store /\ MarkersWithin(flash, mirror)
      /\ SchemaComplete(flash) /\ SchemaComplete(mirror)
  BY DEF IInv, TypeOK, Markers, MarkersWithin, SchemaComplete
<1>2. /\ target \in Store /\ MarkersWithin(mirror, target)
      /\ Recovered(target) = {}
  BY <1>1, TargetType, TargetCodes DEF IInv
<1> HIDE DEF target
<1>3. /\ Recovered(mirror') \subseteq Recovered(mirror) \cup Recovered(target)
      /\ Recovered(flash') \subseteq
           Recovered(flash) \cup Recovered(mirror) \cup Recovered(target)
      /\ MarkersWithin(flash, flash') /\ MarkersWithin(flash', mirror')
  BY <1>1, <1>2, BatchCodes DEF target
<1>4. ok => mirror' = target /\ flash' = target
  BY DEF Batch, target
<1>5. SchemaComplete(flash')
  BY <1>1, <1>3 DEF SchemaComplete, MarkersWithin
<1> QED BY <1>2, <1>3, <1>4, <1>5

(* The batch of all entries without the markers.                                *)
LEMMA SaveStep ==
  ASSUME IInv, storageReady, ~schemaPending, ~clearPending, NEW ok \in BOOLEAN,
         Batch(Snapshot(mirror, dtc, FALSE), ok)
  PROVE  /\ MarkersWithin(flash', mirror') /\ SchemaComplete(flash')
         /\ Recovered(mirror') \subseteq Visible
         /\ Recovered(flash) \subseteq Recovered(flash')
         /\ Recovered(flash') \subseteq Recovered(mirror')
<1> DEFINE target == Snapshot(mirror, dtc, FALSE)
<1>1. /\ mirror \in Store /\ flash \in Store /\ MarkersWithin(flash, mirror)
      /\ SchemaComplete(flash) /\ SchemaComplete(mirror)
      /\ Recovered(flash) \subseteq Recovered(mirror)
      /\ Recovered(mirror) \subseteq Visible
  BY DEF IInv, TypeOK, Markers, Contained, MarkersWithin, SchemaComplete
<1>2. /\ target \in Store /\ MarkersWithin(mirror, target)
      /\ Recovered(target) = Visible
  BY <1>1, TargetType, TargetCodes DEF IInv
<1> HIDE DEF target
<1>3. /\ Recovered(mirror') \subseteq Recovered(mirror) \cup Recovered(target)
      /\ Recovered(flash) \cap Recovered(mirror) \cap Recovered(target)
           \subseteq Recovered(flash')
      /\ Recovered(flash') \subseteq Recovered(mirror')
      /\ MarkersWithin(flash, flash') /\ MarkersWithin(flash', mirror')
  BY <1>1, <1>2, BatchCodes DEF target
<1>4. SchemaComplete(flash')
  BY <1>1, <1>3 DEF SchemaComplete, MarkersWithin
<1> QED BY <1>1, <1>2, <1>3, <1>4

(* The load that opens the storage, from Init or from Poll.                     *)
LEMMA OpenStep ==
  ASSUME IInv, ~storageReady, NEW ok \in BOOLEAN, UNCHANGED <<kv, legacy>>,
         clearPending' = clearPending,
         LoadOrPrepareSchema(clearPending \/ persistPending # {}, ok)
  PROVE  /\ Contained'
         /\ storageReady' = ok
         /\ ok => schemaPending' = ~SchemaComplete(flash)
<1>1. /\ UNCHANGED <<mirror, flash>>
      /\ Recovered(flash)' = Recovered(flash) /\ Recovered(mirror)' = Recovered(mirror)
  BY DEF kv, legacy, Recovered, UseLegacy
<1>2. mirror = flash
  BY DEF IInv, Markers
<1>3. /\ clearPending => dtc' = dtc
      /\ ~clearPending => /\ Visible \subseteq Visible'
                          /\ Visible' \subseteq Visible \cup Recovered(flash)
                          /\ ok => Recovered(flash) \subseteq Visible'
                          /\ Visible' \ persistPending \subseteq Recovered(flash)
  BY LoadCodes DEF IInv
<1>4. /\ storageReady' = ok
      /\ ~ok => persistPending' = persistPending
      /\ ok => schemaPending' = ~SchemaComplete(flash)
  BY DEF LoadOrPrepareSchema
<1>5. persistPending \subseteq Visible
  BY DEF IInv, Contained
<1>6. clearPending => Visible' = Visible
  BY <1>3 DEF Visible
<1> QED BY <1>1, <1>2, <1>3, <1>4, <1>5, <1>6 DEF Contained


LEMMA InvInit == Init => IInv
<1> SUFFICES ASSUME Init PROVE IInv
  OBVIOUS
<1>1. \A i \in Idx : ~dtc[i].stored
  BY DEF Init, Blank, NoEntry
<1>2. Visible = {}
  BY <1>1 DEF Visible
<1>3. TypeOK
  BY InitType
<1> QED BY <1>2, <1>3 DEF IInv, Init, Control, Markers, MarkersWithin, Contained

LEMMA InvNext == IInv /\ [Next]_vars => IInv'
<1> SUFFICES ASSUME IInv, [Next]_vars PROVE IInv'
  OBVIOUS
<1>0. /\ TypeOK' /\ Recovered(flash)' = Recovered(flash')
      /\ Recovered(mirror)' = Recovered(mirror') /\ UNCHANGED legacy
  BY NextType, LegacyStays DEF IInv
<1>b. dtc = Blank => Visible = {}
  <2>1. \A i \in Idx : ~Blank[i].stored
    BY DEF Blank, NoEntry
  <2> QED BY <2>1 DEF Visible
<1>c. dtc' = Blank => Visible' = {}
  <2>1. \A i \in Idx : ~Blank[i].stored
    BY DEF Blank, NoEntry
  <2> QED BY <2>1 DEF Visible
<1>f. Control /\ Markers /\ Contained /\ TypeOK
  BY DEF IInv
<1>1. CASE InitStorageFails
  BY <1>0, <1>1, <1>f, <1>c
     DEF InitStorageFails, IInv, Control, Markers, Contained, MarkersWithin, kv
<1>2. CASE PollBegin
  BY <1>0, <1>2, <1>f DEF PollBegin, NextJob, IInv, Control, Markers, Contained,
     MarkersWithin, ram, kv, SchemaComplete, Visible, TypeOK
<1>3. CASE PollOpenFails
  BY <1>0, <1>3, <1>f DEF PollOpenFails, IInv, Control, Markers, Contained,
     MarkersWithin, ram, kv, SchemaComplete, Visible
<1>4. ASSUME NEW ok \in BOOLEAN, Handler(ok) PROVE IInv'
  <2>1. CASE InitLoad(ok)
    <3>1. /\ ~storageReady /\ ~clearPending /\ persistPending = {}
          /\ (clearPending \/ persistPending # {}) = FALSE
      BY <1>f, <2>1 DEF InitLoad, Control
    <3>2. /\ LoadOrPrepareSchema(clearPending \/ persistPending # {}, ok)
          /\ UNCHANGED <<kv, legacy>> /\ clearPending' = clearPending
      BY <2>1, <3>1 DEF InitLoad
    <3>3. /\ Contained' /\ storageReady' = ok
          /\ ok => schemaPending' = ~SchemaComplete(flash)
      BY <3>1, <3>2, OpenStep
    <3>4. Control'
      BY <1>0, <2>1, <3>1, <3>2, <3>3 DEF InitLoad, Control, TypeOK
    <3>5. Markers'
      BY <1>f, <3>1, <3>2, <3>3 DEF Markers, MarkersWithin, kv, SchemaComplete
    <3> QED BY <1>0, <3>3, <3>4, <3>5 DEF IInv
  <2>2. CASE InitSchema(ok) \/ PollSchema(ok)
    <3>1. /\ storageReady /\ schemaPending /\ SaveSchemaSnapshot(ok)
          /\ pc' = "idle"
      BY <1>f, <2>2 DEF InitSchema, PollSchema, Control
    <3>2. /\ UNCHANGED <<dtc, storageReady>> /\ MarkersWithin(flash', mirror')
          /\ ok => /\ SchemaComplete(flash')
                   /\ Recovered(flash') = Visible /\ Recovered(mirror') = Visible
                   /\ ~clearPending' /\ ~schemaPending'
          /\ ~ok => UNCHANGED <<schemaPending, clearPending, persistPending>>
          /\ Recovered(mirror') \subseteq Recovered(mirror) \cup Visible
          /\ ~clearPending => Recovered(flash') \subseteq Recovered(mirror')
      BY <3>1, SchemaStep
    <3>3. Visible' = Visible
      BY <3>2 DEF Visible
    <3>4. Control' /\ Markers'
      BY <3>1, <3>2 DEF Control, Markers, MarkersWithin, SchemaComplete
    <3>5. Contained'
      <4>1. storageReady' /\ Visible' = Visible
        BY <3>1, <3>2, <3>3
      <4>2. ~clearPending' => /\ Recovered(flash') \subseteq Recovered(mirror')
                              /\ Recovered(mirror') \subseteq Visible
        <5>1. CASE ok
          BY <3>2, <5>1
        <5>2. CASE ~ok /\ ~clearPending
          BY <1>f, <3>1, <3>2, <5>2 DEF Contained
        <5> QED BY <3>2, <5>1, <5>2
      <4> QED BY <1>0, <4>1, <4>2 DEF Contained
    <3> QED BY <1>0, <3>4, <3>5 DEF IInv
  <2>3. CASE PollLoad(ok)
    <3>1. ~storageReady /\ clearPending' = clearPending /\ UNCHANGED <<kv, legacy>>
          /\ LoadOrPrepareSchema(clearPending \/ persistPending # {}, ok)
      BY <1>f, <2>3 DEF PollLoad, Control
    <3>2. /\ Contained' /\ storageReady' = ok
          /\ ok => schemaPending' = ~SchemaComplete(flash)
      BY <3>1, OpenStep
    <3>3. Control'
      BY <1>0, <2>3, <3>1, <3>2 DEF PollLoad, Control, NextJob, TypeOK
    <3>4. Markers'
      BY <1>f, <3>1, <3>2 DEF Markers, MarkersWithin, kv, SchemaComplete
    <3> QED BY <1>0, <3>2, <3>3, <3>4 DEF IInv
  <2>4. CASE PollClear(ok)
    <3>1. /\ storageReady /\ ~schemaPending /\ clearPending
          /\ Batch(Erased(mirror), ok) /\ clearPending' = ~ok
          /\ UNCHANGED <<dtc, persistPending, storageReady, schemaPending>>
      BY <1>f, <2>4 DEF PollClear, Control
    <3>2. /\ MarkersWithin(flash', mirror') /\ SchemaComplete(flash')
          /\ ok => Recovered(flash') = {} /\ Recovered(mirror') = {}
      BY <3>1, EraseStep
    <3>3. Control' /\ Markers'
      <4>1. pc' = IF ok /\ persistPending # {} THEN "pollSave" ELSE "idle"
        BY <2>4 DEF PollClear, NextJob
      <4>2. Control'
        BY <3>1, <4>1 DEF Control
      <4>3. Markers'
        BY <3>1, <3>2 DEF Markers, MarkersWithin, SchemaComplete
      <4> QED BY <4>2, <4>3
    <3>4. Contained'
      <4>1. storageReady' /\ (~clearPending' => ok)
        BY <3>1
      <4>2. ok => Recovered(flash)' = {} /\ Recovered(mirror)' = {}
        BY <1>0, <3>2
      <4> QED BY <4>1, <4>2 DEF Contained
    <3> QED BY <1>0, <3>3, <3>4 DEF IInv
  <2>5. CASE PollSave(ok)
    <3>1. /\ storageReady /\ ~schemaPending /\ ~clearPending
          /\ Batch(Snapshot(mirror, dtc, FALSE), ok)
          /\ UNCHANGED <<dtc, clearPending, storageReady, schemaPending>>
          /\ pc' = "idle"
      BY <1>f, <2>5 DEF PollSave, Control
    <3>2. /\ MarkersWithin(flash', mirror') /\ SchemaComplete(flash')
          /\ Recovered(mirror') \subseteq Visible
          /\ Recovered(flash') \subseteq Recovered(mirror')
      BY <3>1, SaveStep
    <3>3. Control' /\ Markers'
      BY <3>1, <3>2 DEF Control, Markers, MarkersWithin, SchemaComplete
    <3>4. Contained'
      <4>1. storageReady' /\ Visible' = Visible
        BY <3>1 DEF Visible
      <4> QED BY <1>0, <3>2, <4>1 DEF Contained
    <3> QED BY <1>0, <3>3, <3>4 DEF IInv
  <2>6. ASSUME NEW i \in Idx, NEW on \in BOOLEAN, NEW detail \in Details,
               on \/ detail = dtc[i].detail, SetActiveImpl(i, on, detail, ok)
        PROVE  IInv'
    <3>1. /\ UNCHANGED <<clearPending, storageReady, schemaPending>>
          /\ pc = "idle" /\ pc' = "idle"
      BY <2>6 DEF SetActiveImpl
    <3>2. /\ Visible' = IF on THEN Visible \cup {i} ELSE Visible
          /\ persistPending' \subseteq persistPending \cup (Visible' \cap {i})
          /\ \/ /\ UNCHANGED kv /\ persistPending \subseteq persistPending'
                /\ Visible' \ Visible \subseteq persistPending'
             \/ /\ MayWrite
                /\ MarkersWithin(flash', mirror')
                /\ SchemaComplete(flash')
                /\ Recovered(mirror') \subseteq Recovered(mirror) \cup Visible'
                /\ Recovered(flash') \subseteq Recovered(mirror')
      BY <2>6, ReportStep
    <3>3. Control'
      BY <3>1 DEF Control
    <3>4. CASE /\ UNCHANGED kv /\ persistPending \subseteq persistPending'
               /\ Visible' \ Visible \subseteq persistPending'
      <4>1. Markers'
        BY <1>f, <3>1, <3>4 DEF Markers, MarkersWithin, kv, SchemaComplete
      <4>2. Contained'
        BY <1>0, <1>f, <3>1, <3>2, <3>4 DEF Contained, kv
      <4> QED BY <1>0, <3>3, <4>1, <4>2 DEF IInv
    <3>5. CASE /\ MayWrite
               /\ MarkersWithin(flash', mirror')
               /\ SchemaComplete(flash')
               /\ Recovered(mirror') \subseteq Recovered(mirror) \cup Visible'
               /\ Recovered(flash') \subseteq Recovered(mirror')
      <4>1. Markers'
        BY <3>1, <3>5 DEF Markers, MarkersWithin, MayWrite, SchemaComplete
      <4>2. Contained'
        BY <1>0, <1>f, <3>1, <3>2, <3>5 DEF Contained, MayWrite
      <4> QED BY <1>0, <3>3, <4>1, <4>2 DEF IInv
    <3> QED BY <3>2, <3>4, <3>5
  <2>7. ASSUME NEW i \in Idx, NEW on \in BOOLEAN, SetActive(i, on, ok)
        PROVE  IInv'
    <3>1. dtc[i].detail \in Details
      BY <1>f DEF TypeOK, Entry
    <3> QED BY <3>1, <2>6, <2>7 DEF SetActive
  <2>8. ASSUME NEW i \in Idx, NEW detail \in Details, SetActiveDetail(i, detail, ok)
        PROVE  IInv'
    BY <2>6, <2>8 DEF SetActiveDetail
  <2>9. CASE ClearAll(ok)
    <3>1. /\ dtc' = Blank /\ persistPending' = {} /\ pc = "idle" /\ pc' = "idle"
          /\ UNCHANGED <<storageReady, schemaPending>>
      BY <2>9 DEF ClearAll
    <3>2. Control'
      BY <3>1 DEF Control
    <3>3. CASE storageReady /\ ~schemaPending
      <4>1. Batch(Erased(mirror), ok) /\ clearPending' = ~ok
        BY <2>9, <3>3 DEF ClearAll
      <4>2. /\ MarkersWithin(flash', mirror') /\ SchemaComplete(flash')
            /\ ok => Recovered(flash') = {} /\ Recovered(mirror') = {}
        BY <3>3, <4>1, EraseStep
      <4>3. Markers' /\ Contained'
        BY <1>0, <1>c, <3>1, <3>3, <4>1, <4>2
           DEF Markers, MarkersWithin, Contained, SchemaComplete
      <4> QED BY <1>0, <3>2, <4>3 DEF IInv
    <3>4. CASE ~(storageReady /\ ~schemaPending)
      <4>1. clearPending' = TRUE /\ UNCHANGED kv
        BY <2>9, <3>4 DEF ClearAll
      <4>2. Markers' /\ Contained'
        BY <1>0, <1>c, <1>f, <3>1, <3>4, <4>1
           DEF Markers, MarkersWithin, Contained, SchemaComplete, kv
      <4> QED BY <1>0, <3>2, <4>2 DEF IInv
    <3> QED BY <3>3, <3>4
  <2> QED BY <1>4, <2>1, <2>2, <2>3, <2>4, <2>5, <2>7, <2>8, <2>9 DEF Handler
<1>5. CASE Elapse
  BY <1>0, <1>5, <1>f DEF Elapse, IInv, Control, Markers, Contained, MarkersWithin,
     ram, kv, SchemaComplete, Visible
<1>6. CASE ForeignCommit
  <2>1. /\ flash' \in Torn(flash, mirror) /\ mirror' = mirror
        /\ UNCHANGED <<dtc, persistPending, clearPending, storageReady,
                       schemaPending, pc>>
    BY <1>6 DEF ForeignCommit, ram
  <2>2. /\ Recovered(flash') \subseteq Recovered(flash) \cup Recovered(mirror)
        /\ MarkersWithin(flash, flash') /\ MarkersWithin(flash', mirror)
    BY <1>f, <2>1, TornCodes DEF TypeOK, Markers
  <2>3. ~storageReady => flash' = flash
    <3>1. ASSUME mirror = flash PROVE flash' = flash
      <4>1. flash \in Store /\ flash' \in Torn(flash, flash)
        BY <1>f, <2>1, <3>1 DEF TypeOK
      <4>2. /\ flash' \in Store /\ flash'.word = flash.word /\ flash'.ts = flash.ts
            /\ flash'.migrated = flash.migrated /\ flash'.schema = flash.schema
        BY <4>1 DEF Torn, Store
      <4> QED BY <4>1, <4>2 DEF Store
    <3> QED BY <1>f, <3>1 DEF Markers
  <2>4. Control'
    BY <1>f, <2>1 DEF Control
  <2>5. Markers'
    BY <1>f, <2>1, <2>2, <2>3 DEF Markers, MarkersWithin, SchemaComplete
  <2>6. Contained'
    BY <1>0, <1>f, <2>1, <2>2, <2>3 DEF Contained, Visible
  <2> QED BY <1>0, <2>4, <2>5, <2>6 DEF IInv
<1>7. CASE PowerLoss
  BY <1>0, <1>7, <1>c DEF PowerLoss, IInv, Control, Markers, Contained,
     MarkersWithin
<1>8. CASE UNCHANGED vars
  BY <1>0, <1>8, <1>f DEF vars, IInv, Control, Markers, Contained, MarkersWithin,
     ram, kv, SchemaComplete, Visible
<1> QED BY <1>1, <1>2, <1>3, <1>4, <1>5, <1>6, <1>7, <1>8 DEF Next

(* The invariant on which the results below rest.                               *)
THEOREM Invariant == Spec => []IInv
<1> QED BY InvInit, InvNext, PTL DEF Spec

(* Once the storage is open and no clear is queued, every durable code is       *)
(* visible, in every registry.                                                  *)
THEOREM DurableIsShown == Spec => []OpenShowsDurable
<1>1. IInv => OpenShowsDurable
  BY DEF IInv, Contained, OpenShowsDurable
<1> QED BY <1>1, Invariant, PTL

--------------------------------------------------------------------------------
(* The manager keeps what FaultMemory promises                                  *)

LEMMA PromiseInit == Init => Promise!FmInit
<1> SUFFICES ASSUME Init PROVE Promise!FmInit
  OBVIOUS
<1>1. Visible = {} /\ LegacyIdx \subseteq Idx
  <2>1. \A i \in Idx : ~dtc[i].stored
    BY DEF Init, Blank, NoEntry
  <2> QED BY <2>1, RegistryAssumption DEF Visible, LegacyIdx, Idx
<1>2. Recovered(flash) \in SUBSET Idx /\ Recovered(mirror) = Recovered(flash)
  BY <1>1 DEF Init, Recovered
<1> QED BY <1>1, <1>2 DEF Init, Promise!FmInit

(* Every step of the manager is one of the promise's or leaves the codes alone. *)
LEMMA PromiseStep == IInv /\ [Next]_vars => [Promise!FmNext]_(Promise!fmVars)
<1> SUFFICES ASSUME IInv, [Next]_vars PROVE [Promise!FmNext]_(Promise!fmVars)
  OBVIOUS
<1> USE DEF Promise!FmNext
<1>0. /\ Recovered(flash)' = Recovered(flash')
      /\ Recovered(mirror)' = Recovered(mirror') /\ UNCHANGED legacy
  BY LegacyStays
<1>f. Control /\ Markers /\ Contained /\ TypeOK
  BY DEF IInv
<1>e. dtc' = Blank => Visible' = {}
  <2>1. \A i \in Idx : ~Blank[i].stored
    BY DEF Blank, NoEntry
  <2> QED BY <2>1 DEF Visible
<1>v. dtc' = dtc => Visible' = Visible
  BY DEF Visible
<1>q. ASSUME UNCHANGED <<dtc, clearPending, mirror, flash>>
      PROVE  [Promise!FmNext]_(Promise!fmVars)
  BY <1>0, <1>v, <1>q DEF Promise!fmVars
<1>1. CASE InitStorageFails
  BY <1>f, <1>q, <1>1 DEF InitStorageFails, Control, kv
<1>2. CASE PollBegin \/ PollOpenFails \/ Elapse \/ UNCHANGED vars
  BY <1>q, <1>2 DEF PollBegin, PollOpenFails, Elapse, vars, ram, kv
<1>3. ASSUME NEW ok \in BOOLEAN, Handler(ok)
      PROVE  [Promise!FmNext]_(Promise!fmVars)
  <2>1. CASE InitLoad(ok) \/ PollLoad(ok)
    <3>1. /\ ~storageReady /\ UNCHANGED <<kv, clearPending>>
          /\ LoadOrPrepareSchema(clearPending \/ persistPending # {}, ok)
      <4>1. InitLoad(ok) => (clearPending \/ persistPending # {}) = FALSE
        BY <1>f DEF InitLoad, Control
      <4> QED BY <1>f, <2>1, <4>1 DEF InitLoad, PollLoad, Control
    <3>2. CASE clearPending
      BY <1>f, <1>q, <3>1, <3>2, LoadCodes DEF kv
    <3>3. CASE ~clearPending
      <4>1. Visible \subseteq Visible' /\ Visible' \subseteq Visible \cup Recovered(flash)
        BY <1>f, <3>1, <3>3, LoadCodes
      <4>2. Promise!Recall
        BY <1>0, <3>1, <3>3, <4>1 DEF Promise!Recall, kv
      <4> QED BY <4>2
    <3> QED BY <3>2, <3>3
  <2>2. CASE InitSchema(ok) \/ PollSchema(ok)
    <3>1. storageReady /\ SaveSchemaSnapshot(ok)
      BY <1>f, <2>2 DEF InitSchema, PollSchema, Control
    <3>2. /\ dtc' = dtc
          /\ ok => /\ Recovered(flash') = Visible /\ Recovered(mirror') = Visible
                   /\ clearPending' = FALSE
          /\ ~ok => clearPending' = clearPending
          /\ Recovered(mirror') \subseteq Recovered(mirror) \cup Visible
          /\ Recovered(flash') \subseteq
               Recovered(flash) \cup Recovered(mirror) \cup Visible
          /\ ~clearPending => Recovered(flash) \subseteq Recovered(flash')
      BY <3>1, SchemaStep DEF SaveSchemaSnapshot
    <3>3. CASE ok /\ clearPending
      BY <1>0, <1>v, <3>2, <3>3 DEF Promise!FinishClear
    <3>4. CASE clearPending' = clearPending
      BY <1>0, <1>v, <3>2, <3>4 DEF Promise!Store, Promise!Move
    <3>5. clearPending \in BOOLEAN
      BY <1>f DEF TypeOK
    <3> QED BY <3>2, <3>3, <3>4, <3>5
  <2>3. CASE PollClear(ok)
    <3>1. /\ storageReady /\ ~schemaPending /\ clearPending
          /\ Batch(Erased(mirror), ok) /\ clearPending' = ~ok /\ dtc' = dtc
      BY <1>f, <2>3 DEF PollClear, Control
    <3>2. /\ Recovered(mirror') \subseteq Recovered(mirror)
          /\ Recovered(flash') \subseteq Recovered(flash) \cup Recovered(mirror)
          /\ ok => Recovered(flash') = {} /\ Recovered(mirror') = {}
      BY <3>1, EraseStep
    <3>3. CASE ok
      <4>1. Promise!FinishClear
        BY <1>0, <1>v, <3>1, <3>2, <3>3 DEF Promise!FinishClear
      <4> QED BY <4>1
    <3>4. CASE ~ok
      <4>1. clearPending' = clearPending
        BY <1>f, <3>1, <3>4 DEF TypeOK
      <4>2. Promise!Store
        BY <1>0, <1>v, <3>1, <3>2, <4>1 DEF Promise!Store, Promise!Move
      <4> QED BY <4>2
    <3> QED BY <3>3, <3>4
  <2>4. CASE PollSave(ok)
    <3>1. /\ storageReady /\ ~schemaPending /\ ~clearPending
          /\ Batch(Snapshot(mirror, dtc, FALSE), ok)
          /\ dtc' = dtc /\ clearPending' = clearPending
      BY <1>f, <2>4 DEF PollSave, Control
    <3>2. /\ Recovered(mirror') \subseteq Visible
          /\ Recovered(flash) \subseteq Recovered(flash')
          /\ Recovered(flash') \subseteq Recovered(mirror')
      BY <3>1, SaveStep
    <3>3. Promise!Store
      BY <1>0, <1>v, <3>1, <3>2 DEF Promise!Store, Promise!Move
    <3> QED BY <3>3
  <2>5. ASSUME NEW i \in Idx, NEW on \in BOOLEAN, NEW detail \in Details,
               on \/ detail = dtc[i].detail, SetActiveImpl(i, on, detail, ok)
        PROVE  [Promise!FmNext]_(Promise!fmVars)
    <3>1. clearPending' = clearPending
      BY <2>5 DEF SetActiveImpl
    <3>2. /\ Visible' = IF on THEN Visible \cup {i} ELSE Visible
          /\ \/ UNCHANGED kv
             \/ /\ Recovered(mirror') \subseteq Recovered(mirror) \cup Visible'
                /\ Recovered(flash') \subseteq
                     Recovered(flash) \cup Recovered(mirror) \cup Visible'
                /\ Recovered(flash) \subseteq Recovered(flash')
      BY <2>5, ReportStep
    <3>3. Promise!Move
      <4>1. CASE UNCHANGED kv
        <5>1. Recovered(mirror)' = Recovered(mirror) /\ Recovered(flash)' = Recovered(flash)
          BY <1>0, <4>1 DEF kv
        <5> QED BY <5>1 DEF Promise!Move
      <4>2. CASE /\ Recovered(mirror') \subseteq Recovered(mirror) \cup Visible'
                 /\ Recovered(flash') \subseteq
                      Recovered(flash) \cup Recovered(mirror) \cup Visible'
                 /\ Recovered(flash) \subseteq Recovered(flash')
        BY <1>0, <4>2 DEF Promise!Move
      <4> QED BY <3>2, <4>1, <4>2
    <3>4. Promise!Report \/ Promise!Store
      BY <3>1, <3>2, <3>3 DEF Promise!Report, Promise!Store
    <3> QED BY <3>4
  <2>6. ASSUME NEW i \in Idx, NEW on \in BOOLEAN, SetActive(i, on, ok)
        PROVE  [Promise!FmNext]_(Promise!fmVars)
    <3>1. dtc[i].detail \in Details
      BY <1>f DEF TypeOK, Entry
    <3> QED BY <3>1, <2>5, <2>6 DEF SetActive
  <2>7. ASSUME NEW i \in Idx, NEW detail \in Details, SetActiveDetail(i, detail, ok)
        PROVE  [Promise!FmNext]_(Promise!fmVars)
    BY <2>5, <2>7 DEF SetActiveDetail
  <2>8. CASE ClearAll(ok)
    <3>1. /\ Visible' = {}
          /\ IF storageReady /\ ~schemaPending
             THEN Batch(Erased(mirror), ok) /\ clearPending' = ~ok
             ELSE clearPending' = TRUE /\ UNCHANGED kv
      BY <1>e, <2>8 DEF ClearAll
    <3>2. CASE storageReady /\ ~schemaPending
      <4>1. /\ Recovered(mirror') \subseteq Recovered(mirror)
            /\ Recovered(flash') \subseteq Recovered(flash) \cup Recovered(mirror)
            /\ ok => Recovered(flash') = {} /\ Recovered(mirror') = {}
        BY <3>1, <3>2, EraseStep
      <4>2. Promise!Clear
        BY <1>0, <3>1, <3>2, <4>1 DEF Promise!Clear
      <4> QED BY <4>2
    <3>3. CASE ~(storageReady /\ ~schemaPending)
      <4>1. clearPending' = TRUE /\ Recovered(mirror)' = Recovered(mirror)
            /\ Recovered(flash)' = Recovered(flash)
        BY <1>0, <3>1, <3>3 DEF kv
      <4>2. Promise!Clear
        BY <3>1, <4>1 DEF Promise!Clear
      <4> QED BY <4>2
    <3> QED BY <3>2, <3>3
  <2> QED BY <1>3, <2>1, <2>2, <2>3, <2>4, <2>6, <2>7, <2>8 DEF Handler
<1>4. CASE ForeignCommit
  <2>1. /\ flash' \in Torn(flash, mirror)
        /\ mirror' = mirror /\ dtc' = dtc /\ clearPending' = clearPending
    BY <1>4 DEF ForeignCommit, ram
  <2>2. /\ Recovered(flash') \subseteq Recovered(flash) \cup Recovered(mirror)
        /\ Recovered(flash) \cap Recovered(mirror) \subseteq Recovered(flash')
    BY <1>f, <2>1, TornCodes DEF TypeOK, Markers
  <2>3. ~clearPending => Recovered(flash) \subseteq Recovered(mirror)
    BY <1>f DEF Contained, Markers, TypeOK
  <2>4. Promise!Store
    BY <1>0, <1>v, <2>1, <2>2, <2>3 DEF Promise!Store, Promise!Move
  <2> QED BY <2>4
<1>5. CASE PowerLoss
  <2>1. Visible' = {} /\ mirror' = flash /\ flash' = flash /\ clearPending' = FALSE
    BY <1>e, <1>5 DEF PowerLoss
  <2>2. Promise!Restart
    BY <1>0, <2>1 DEF Promise!Restart
  <2> QED BY <2>2
<1> QED BY <1>1, <1>2, <1>3, <1>4, <1>5 DEF Next

(* Whatever the storage does, the manager remembers codes the way FaultMemory   *)
(* says: none is invented, none that is durable is lost without a clear, and a  *)
(* clear that was acknowledged left nothing behind.                             *)
THEOREM ImplementsFaultMemory == Spec => KeepsPromise
<1> QED BY PromiseInit, PromiseStep, Invariant, PTL
        DEF Spec, KeepsPromise, Promise!FmSpec

--------------------------------------------------------------------------------
(* What is not pending is durable                                               *)

(* A store holds the entry: it reads back as it is in RAM.                      *)
Holds(s, i, e) ==
  /\ s.word[i].stored = e.stored /\ s.word[i].permanent = e.permanent
  /\ Faulty(e) => s.word[i].detail = e.detail /\ s.ts[i] = e.firstOccurrence

(* An entry that is neither stored nor permanent has no date and no failure     *)
(* type, as it reads back from a store; before a legacy area is read, and while *)
(* a clear is queued, everything that is not pending is such an entry; and once *)
(* the storage is settled both copies hold what is not pending.                 *)
CleanEntry(e) == ~Faulty(e) => e.detail = 0 /\ e.firstOccurrence = 0

Durable ==
  /\ \A i \in Idx : CleanEntry(dtc[i])
  /\ (~storageReady /\ UseLegacy(flash)) \/ clearPending =>
       \A i \in Idx \ persistPending : ~Faulty(dtc[i])
  /\ storageReady /\ ~schemaPending /\ ~clearPending =>
       \A i \in Idx \ persistPending : Holds(mirror, i, dtc[i]) /\ Holds(flash, i, dtc[i])

LEMMA TornHolds ==
  ASSUME NEW a \in Store, NEW b \in Store, NEW s \in Torn(a, b), NEW i \in Idx, NEW e,
         Holds(a, i, e), Holds(b, i, e)
  PROVE  Holds(s, i, e)
<1>1. s.word[i] \in {a.word[i], b.word[i]} /\ s.ts[i] \in {a.ts[i], b.ts[i]}
  BY DEF Torn, Store
<1> QED BY <1>1 DEF Holds

LEMMA BatchHolds ==
  ASSUME mirror \in Store, flash \in Store, NEW target \in Store, NEW ok \in BOOLEAN,
         Batch(target, ok), NEW i \in Idx, NEW e, Holds(target, i, e),
         ok \/ (Holds(mirror, i, e) /\ Holds(flash, i, e))
  PROVE  Holds(mirror', i, e) /\ Holds(flash', i, e)
<1>1. CASE ok
  BY <1>1 DEF Batch
<1>2. CASE ~ok
  <2>1. mirror' \in Torn(mirror, target) /\ \E s \in {flash, mirror} : flash' \in Torn(s, mirror')
    BY <1>2 DEF Batch
  <2>2. Holds(mirror', i, e) /\ mirror' \in Store
    BY <1>2, <2>1, TornHolds, TornType
  <2>3. Holds(flash', i, e)
    BY <1>2, <2>1, <2>2, TornHolds
  <2> QED BY <2>2, <2>3
<1> QED BY <1>1, <1>2

LEMMA TargetHolds ==
  ASSUME TypeOK, NEW i \in Idx
  PROVE  /\ \A b \in BOOLEAN : Holds(Snapshot(mirror, dtc, b), i, dtc[i])
         /\ \A e : Holds(SaveRecord(mirror, i, e), i, e)
         /\ \A j \in Idx \ {i} : \A e, x :
              Holds(mirror, i, x) => Holds(SaveRecord(mirror, j, e), i, x)
         /\ \A e \in Entry : ~Faulty(e) => Holds(Erased(mirror), i, e)
<1>1. \A b \in BOOLEAN : Holds(Snapshot(mirror, dtc, b), i, dtc[i])
  BY DEF Snapshot, Holds, WordOf
<1>2. \A e : LET s == SaveRecord(mirror, i, e)
              IN /\ s.word[i].stored = e.stored /\ s.word[i].permanent = e.permanent
                 /\ s.word[i].detail = e.detail /\ s.ts[i] = e.firstOccurrence
  BY DEF SaveRecord, WordOf, TypeOK, Store
<1>3. \A j \in Idx \ {i} : \A e :
        LET s == SaveRecord(mirror, j, e)
        IN s.word[i] = mirror.word[i] /\ s.ts[i] = mirror.ts[i]
  BY DEF SaveRecord, TypeOK, Store
<1>4. Erased(mirror).word[i].stored = FALSE /\ Erased(mirror).word[i].permanent = FALSE
  BY DEF Erased, EmptyRecords, NoWord, TypeOK, Store
<1>5. \A e \in Entry : ~Faulty(e) => Holds(Erased(mirror), i, e)
  <2> TAKE e \in Entry
  <2> HAVE ~Faulty(e)
  <2>1. e.stored = FALSE /\ e.permanent = FALSE
    BY DEF Faulty, Entry
  <2> QED BY <1>4, <2>1 DEF Holds, Faulty
<1>6. \A e : Holds(SaveRecord(mirror, i, e), i, e)
  BY <1>2 DEF Holds
<1>7. \A j \in Idx \ {i} : \A e, x :
        Holds(mirror, i, x) => Holds(SaveRecord(mirror, j, e), i, x)
  BY <1>3 DEF Holds
<1> QED BY <1>1, <1>5, <1>6, <1>7

(* What a load leaves, whether it reads everything or stops half-way.           *)
LEMMA OpenDurable ==
  ASSUME IInv, Durable, ~storageReady, NEW ok \in BOOLEAN, UNCHANGED <<kv, legacy>>,
         clearPending' = clearPending,
         LoadOrPrepareSchema(clearPending \/ persistPending # {}, ok)
  PROVE  Durable'
<1> DEFINE pre == clearPending \/ persistPending # {}
           skip == IF pre THEN persistPending ELSE {}
<1>0. /\ TypeOK /\ flash = mirror /\ mirror' = mirror /\ flash' = flash
      /\ UNCHANGED <<legacyValid, legacyFlags>> /\ skip = persistPending
      /\ LegacyIdx \subseteq Idx /\ N \in Nat /\ dtc \in [Idx -> Entry]
      /\ \A i \in Idx : CleanEntry(dtc[i])
  BY RegistryAssumption DEF IInv, Markers, kv, legacy, TypeOK, Durable, LegacyIdx, Idx
<1>c. UseLegacy(flash)' = UseLegacy(flash)
  BY <1>0 DEF UseLegacy
<1>1. CASE dtc' = dtc /\ (~ok \/ clearPending)
  <2>1. CASE ok
    <3>1. storageReady' /\ (persistPending' = persistPending \/ persistPending' = Idx)
      BY <2>1 DEF LoadOrPrepareSchema, MarkAllSnapshotsPending
    <3> QED BY <1>0, <1>1, <2>1, <3>1 DEF Durable
  <2>2. CASE ~ok
    <3>1. ~storageReady' /\ persistPending' = persistPending
      BY <2>2 DEF LoadOrPrepareSchema
    <3> QED BY <1>0, <1>1, <1>c, <3>1 DEF Durable
  <2> QED BY <2>1, <2>2
<1>2. CASE ~clearPending /\ ok /\ UseLegacy(flash)
  <2>1. /\ dtc' = ApplyLegacy(IF pre THEN dtc ELSE Blank, skip)
        /\ storageReady' /\ persistPending' = Idx
    BY <1>2
       DEF LoadOrPrepareSchema, Loaded, UseLegacy, SchemaComplete,
           MarkAllSnapshotsPending
  <2> DEFINE base == IF pre THEN dtc ELSE Blank
  <2>2. base \in [Idx -> Entry] /\ \A i \in Idx : base[i].detail \in Details
    BY <1>0, LoadType DEF Entry
  <2>3. \A i \in Idx : CleanEntry(base[i])
    BY <1>0 DEF Blank, NoEntry, CleanEntry
  <2>4. \A i \in Idx \ skip : base[i].detail = 0 /\ base[i].firstOccurrence = 0
    <3>1. \A i \in Idx \ persistPending : ~Faulty(dtc[i])
      BY <1>2 DEF Durable
    <3> QED BY <1>0, <3>1 DEF CleanEntry, Blank, NoEntry
  <2>5. \A i \in Idx :
          IF i \in LegacyIdx \ skip
          THEN dtc'[i].detail = base[i].detail /\ dtc'[i].firstOccurrence = base[i].firstOccurrence
          ELSE dtc'[i] = base[i]
    <3> HIDE DEF base, skip
    <3> QED BY <2>1, <2>2 DEF ApplyLegacy, Entry, base
  <2>6. \A i \in Idx : CleanEntry(dtc'[i])
    BY <2>3, <2>4, <2>5 DEF CleanEntry
  <2>7. clearPending' = FALSE
    BY <1>0, <1>2 DEF TypeOK
  <2> QED BY <2>1, <2>6, <2>7 DEF Durable
<1>3. CASE ~clearPending /\ ~UseLegacy(flash) /\ \E n \in 0 .. 2 * N : (ok => n = 2 * N) /\ dtc' = LoadReads(skip, n)
  <2>1. PICK n \in 0 .. 2 * N : (ok => n = 2 * N) /\ dtc' = LoadReads(skip, n)
    BY <1>3
  <2>2. \A i \in Idx : i \in persistPending \/ 2 * i >= n => dtc'[i] = dtc[i]
    BY <1>0, <2>1 DEF LoadReads
  <2>3. \A i \in Idx : ~(i \in persistPending \/ 2 * i >= n) =>
          /\ dtc'[i].stored = flash.word[i].stored /\ dtc'[i].permanent = flash.word[i].permanent
          /\ dtc'[i].detail = IF Faulty(flash.word[i]) THEN flash.word[i].detail ELSE 0
          /\ ~Faulty(flash.word[i]) => dtc'[i].firstOccurrence = 0
          /\ Faulty(flash.word[i]) /\ 2 * i + 1 < n => dtc'[i].firstOccurrence = flash.ts[i]
    BY <1>0, <2>1 DEF LoadReads
  <2>4. \A i \in Idx : CleanEntry(dtc'[i])
    BY <1>0, <2>2, <2>3 DEF CleanEntry, Faulty
  <2>5. CASE ~ok
    <3>1. ~storageReady' /\ persistPending' = persistPending
      BY <2>5 DEF LoadOrPrepareSchema
    <3> QED BY <1>0, <1>3, <1>c, <2>4, <3>1 DEF Durable
  <2>6. CASE ok
    <3>1. storageReady' /\ (persistPending' = persistPending \/ persistPending' = Idx)
      BY <2>6 DEF LoadOrPrepareSchema, MarkAllSnapshotsPending
    <3>2. \A i \in Idx : ~(2 * i >= n) /\ 2 * i + 1 < n
      BY <1>0, <2>1, <2>6 DEF Idx
    <3>3. \A i \in Idx \ persistPending : Holds(flash, i, dtc'[i])
      BY <2>3, <3>2 DEF Holds, Faulty
    <3> QED BY <1>0, <1>3, <2>4, <3>1, <3>3 DEF Durable
  <2> QED BY <2>5, <2>6
<1> QED
  <2>1. CASE clearPending
    BY <1>1, <2>1 DEF LoadOrPrepareSchema, Loaded
  <2>2. CASE ~clearPending /\ ok
    BY <1>0, <1>2, <1>3, <2>2 DEF LoadOrPrepareSchema, Loaded
  <2>3. CASE ~clearPending /\ ~ok
    BY <1>0, <1>1, <1>3, <2>3 DEF LoadOrPrepareSchema
  <2> QED BY <2>1, <2>2, <2>3

(* A report changes one entry, and leaves it pending unless it wrote it.        *)
LEMMA ReportDurable ==
  ASSUME IInv, Durable, NEW i \in Idx, NEW on \in BOOLEAN, NEW detail \in Details,
         NEW ok \in BOOLEAN, on \/ detail = dtc[i].detail,
         SetActiveImpl(i, on, detail, ok)
  PROVE  Durable'
<1>1. PICK now \in Times :
        LET e == Reported(dtc[i], on, detail, now)
            changed == [e EXCEPT !.active = dtc[i].active] # dtc[i]
        IN /\ dtc' = [dtc EXCEPT ![i] = e]
           /\ IF changed /\ MayWrite
              THEN /\ Batch(SaveRecord(mirror, i, e), ok)
                   /\ persistPending' = IF ok THEN persistPending \ {i}
                                        ELSE persistPending \cup {i}
                   /\ retryDue' = (ok /\ retryDue)
              ELSE /\ ok
                   /\ persistPending' = IF changed THEN persistPending \cup {i}
                                        ELSE persistPending
                   /\ UNCHANGED <<retryDue, kv>>
  BY DEF SetActiveImpl
<1> DEFINE e == Reported(dtc[i], on, detail, now)
           changed == [e EXCEPT !.active = dtc[i].active] # dtc[i]
           target == SaveRecord(mirror, i, e)
<1>2. /\ dtc \in [Idx -> Entry] /\ dtc[i] \in Entry
      /\ mirror \in Store /\ flash \in Store
      /\ \A j \in Idx : CleanEntry(dtc[j])
  BY DEF IInv, TypeOK, Durable
<1>3. e \in Entry /\ CleanEntry(e)
  BY <1>2 DEF Reported, Entry, CleanEntry, Faulty
<1>4. ~changed => /\ e.stored = dtc[i].stored /\ e.permanent = dtc[i].permanent
                  /\ e.detail = dtc[i].detail
                  /\ e.firstOccurrence = dtc[i].firstOccurrence
  <2> HIDE DEF e
  <2>1. LET r == [e EXCEPT !.active = dtc[i].active]
        IN /\ r.stored = e.stored /\ r.permanent = e.permanent
           /\ r.detail = e.detail /\ r.firstOccurrence = e.firstOccurrence
    BY <1>3 DEF Entry
  <2> QED BY <2>1
<1>5. \A j \in Idx : dtc'[j] = IF j = i THEN e ELSE dtc[j]
  <2> HIDE DEF e
  <2> QED BY <1>1, <1>2 DEF e
<1> HIDE DEF e
<1>6. \A j \in Idx : CleanEntry(dtc'[j])
  BY <1>2, <1>3, <1>5
<1>7. UNCHANGED <<clearPending, storageReady, schemaPending, legacyValid, legacyFlags>>
  BY DEF SetActiveImpl, legacy
<1>8. CASE changed /\ MayWrite
  <2>1. /\ Batch(target, ok)
        /\ persistPending' = IF ok THEN persistPending \ {i} ELSE persistPending \cup {i}
    BY <1>1, <1>8 DEF e
  <2>2. target \in Store /\ Holds(target, i, e)
    BY <1>3, TargetType, TargetHolds DEF IInv
  <2>3. ASSUME NEW j \in Idx \ persistPending' PROVE Holds(mirror', j, dtc'[j])
                                                  /\ Holds(flash', j, dtc'[j])
    <3>1. CASE j = i
      <4>1. ok /\ dtc'[j] = e
        BY <1>5, <2>1, <2>3, <3>1
      <4> HIDE DEF target
      <4> QED BY <1>2, <2>1, <2>2, <3>1, <4>1, BatchHolds
    <3>2. CASE j # i
      <4>1. Holds(mirror, j, dtc[j]) /\ Holds(flash, j, dtc[j]) /\ dtc'[j] = dtc[j]
        BY <1>5, <1>8, <2>1, <2>3, <3>2 DEF Durable, MayWrite
      <4>2. Holds(target, j, dtc[j])
        BY <3>2, <4>1, TargetHolds DEF IInv
      <4> HIDE DEF target
      <4> QED BY <1>2, <2>1, <2>2, <4>1, <4>2, BatchHolds
    <3> QED BY <3>1, <3>2
  <2> QED BY <1>6, <1>7, <1>8, <2>3 DEF Durable, MayWrite
<1>9. CASE changed /\ ~MayWrite
  <2>1. persistPending' = persistPending \cup {i} /\ UNCHANGED <<mirror, flash>>
    BY <1>1, <1>9 DEF e, kv
  <2>2. \A j \in Idx \ persistPending' : dtc'[j] = dtc[j] /\ j \notin persistPending
    BY <1>5, <2>1
  <2>3. UseLegacy(flash)' = UseLegacy(flash)
    BY <1>7, <2>1 DEF UseLegacy
  <2> QED BY <1>6, <1>7, <1>9, <2>2, <2>3 DEF Durable, MayWrite
<1>10. CASE ~changed
  <2>1. persistPending' = persistPending /\ UNCHANGED <<mirror, flash>>
    BY <1>1, <1>10 DEF e, kv
  <2>2. UseLegacy(flash)' = UseLegacy(flash)
    BY <1>7, <2>1 DEF UseLegacy
  <2>3. \A j \in Idx : /\ ~Faulty(dtc[j]) => ~Faulty(dtc'[j])
                       /\ \A s : Holds(s, j, dtc[j]) => Holds(s, j, dtc'[j])
    BY <1>4, <1>5, <1>10 DEF Faulty, Holds
  <2> QED BY <1>6, <1>7, <2>1, <2>2, <2>3 DEF Durable
<1> QED BY <1>8, <1>9, <1>10

LEMMA DurableInit == Init => Durable
<1> SUFFICES ASSUME Init PROVE Durable
  OBVIOUS
<1>1. \A i \in Idx : CleanEntry(dtc[i]) /\ ~Faulty(dtc[i])
  BY DEF Init, Blank, NoEntry, CleanEntry, Faulty
<1> QED BY <1>1 DEF Init, Durable

LEMMA DurableNext == IInv /\ Durable /\ [Next]_vars => Durable'
<1> SUFFICES ASSUME IInv, Durable, [Next]_vars PROVE Durable'
  OBVIOUS
<1>i. IInv' /\ TypeOK' /\ UNCHANGED <<legacyValid, legacyFlags>>
  BY InvNext, LegacyStays DEF IInv, legacy
<1>f. Control /\ Markers /\ TypeOK /\ mirror \in Store /\ flash \in Store
  BY DEF IInv, TypeOK
<1>b. \A i \in Idx : CleanEntry(Blank[i]) /\ ~Faulty(Blank[i])
  BY DEF Blank, NoEntry, CleanEntry, Faulty
<1>e. \A i \in Idx : dtc[i] \in Entry
  BY <1>f DEF TypeOK
<1>u. flash' = flash => UseLegacy(flash)' = UseLegacy(flash)
  BY <1>i DEF UseLegacy
<1>1. CASE InitStorageFails
  <2>1. dtc' = Blank /\ ~storageReady'
    BY <1>1 DEF InitStorageFails
  <2> QED BY <1>b, <2>1 DEF Durable
<1>2. CASE PollBegin \/ PollOpenFails \/ Elapse \/ UNCHANGED vars
  <2>1. UNCHANGED <<dtc, persistPending, clearPending, storageReady, schemaPending,
                    mirror, flash>>
    BY <1>2 DEF PollBegin, PollOpenFails, Elapse, vars, ram, kv
  <2> QED BY <1>u, <2>1 DEF Durable
<1>3. ASSUME NEW ok \in BOOLEAN, Handler(ok) PROVE Durable'
  <2>1. CASE InitLoad(ok) \/ PollLoad(ok)
    <3>1. /\ ~storageReady /\ UNCHANGED <<kv, legacy>> /\ clearPending' = clearPending
          /\ LoadOrPrepareSchema(clearPending \/ persistPending # {}, ok)
      <4>1. InitLoad(ok) => (clearPending \/ persistPending # {}) = FALSE
        BY <1>f DEF InitLoad, Control
      <4> QED BY <1>f, <2>1, <4>1 DEF InitLoad, PollLoad, Control
    <3> QED BY <3>1, OpenDurable
  <2>2. CASE InitSchema(ok) \/ PollSchema(ok)
    <3>1. /\ storageReady /\ schemaPending /\ SaveSchemaSnapshot(ok)
      BY <1>f, <2>2 DEF InitSchema, PollSchema, Control
    <3>2. Batch(Snapshot(mirror, dtc, TRUE), ok) /\ UNCHANGED <<dtc, storageReady>>
      BY <3>1 DEF SaveSchemaSnapshot
    <3>3. CASE ok
      <4>1. \A i \in Idx : Holds(mirror', i, dtc[i]) /\ Holds(flash', i, dtc[i])
        BY <1>f, <3>2, <3>3, BatchHolds, TargetHolds, TargetType
      <4>2. clearPending' = FALSE
        BY <3>1, <3>3 DEF SaveSchemaSnapshot
      <4> QED BY <3>1, <3>2, <4>1, <4>2 DEF Durable
    <3>4. CASE ~ok
      <4>1. UNCHANGED <<schemaPending, clearPending, persistPending>>
        BY <3>1, <3>4 DEF SaveSchemaSnapshot
      <4> QED BY <3>1, <3>2, <4>1 DEF Durable
    <3> QED BY <3>3, <3>4
  <2>3. CASE PollClear(ok)
    <3>1. /\ storageReady /\ ~schemaPending /\ clearPending
          /\ Batch(Erased(mirror), ok) /\ clearPending' = ~ok
          /\ UNCHANGED <<dtc, persistPending, storageReady, schemaPending>>
      BY <1>f, <2>3 DEF PollClear, Control
    <3>2. \A i \in Idx \ persistPending : ~Faulty(dtc[i])
      BY <3>1 DEF Durable
    <3>3. CASE ok
      <4>1. \A i \in Idx \ persistPending :
              Holds(mirror', i, dtc[i]) /\ Holds(flash', i, dtc[i])
        BY <1>e, <1>f, <3>1, <3>2, <3>3, BatchHolds, TargetHolds, TargetType
      <4> QED BY <3>1, <3>3, <4>1 DEF Durable
    <3>4. CASE ~ok
      BY <3>1, <3>2, <3>4 DEF Durable
    <3> QED BY <3>3, <3>4
  <2>4. CASE PollSave(ok)
    <3>1. /\ storageReady /\ ~schemaPending /\ ~clearPending
          /\ Batch(Snapshot(mirror, dtc, FALSE), ok)
          /\ persistPending' = (IF ok THEN {} ELSE persistPending)
          /\ UNCHANGED <<dtc, clearPending, storageReady, schemaPending>>
      BY <1>f, <2>4 DEF PollSave, Control
    <3>2. \A i \in Idx \ persistPending' :
            Holds(mirror', i, dtc[i]) /\ Holds(flash', i, dtc[i])
      <4> TAKE i \in Idx \ persistPending'
      <4>1. ok \/ (Holds(mirror, i, dtc[i]) /\ Holds(flash, i, dtc[i]))
        BY <3>1 DEF Durable
      <4> QED BY <1>f, <3>1, <4>1, BatchHolds, TargetHolds, TargetType
    <3> QED BY <3>1, <3>2 DEF Durable
  <2>5. ASSUME NEW i \in Idx, NEW on \in BOOLEAN, SetActive(i, on, ok)
        PROVE  Durable'
    <3>1. dtc[i].detail \in Details
      BY <1>e DEF Entry
    <3> QED BY <2>5, <3>1, ReportDurable DEF SetActive
  <2>6. ASSUME NEW i \in Idx, NEW detail \in Details, SetActiveDetail(i, detail, ok)
        PROVE  Durable'
    BY <2>6, ReportDurable DEF SetActiveDetail
  <2>7. CASE ClearAll(ok)
    <3>1. /\ dtc' = Blank
          /\ UNCHANGED <<storageReady, schemaPending>>
      BY <2>7 DEF ClearAll
    <3>2. CASE storageReady /\ ~schemaPending /\ ok
      <4>1. Batch(Erased(mirror), ok)
        BY <2>7, <3>2 DEF ClearAll
      <4>2. \A i \in Idx : Blank[i] \in Entry
        BY <1>f, LoadType
      <4>3. \A i \in Idx : Holds(mirror', i, Blank[i]) /\ Holds(flash', i, Blank[i])
        BY <1>b, <1>f, <3>2, <4>1, <4>2, BatchHolds, TargetHolds, TargetType
      <4> QED BY <1>b, <3>1, <4>3 DEF Durable
    <3>3. CASE ~(storageReady /\ ~schemaPending /\ ok)
      <4>1. clearPending' = TRUE
        BY <2>7, <3>3 DEF ClearAll
      <4> QED BY <1>b, <3>1, <4>1 DEF Durable
    <3> QED BY <3>2, <3>3
  <2> QED BY <1>3, <2>1, <2>2, <2>3, <2>4, <2>5, <2>6, <2>7 DEF Handler
<1>4. CASE ForeignCommit
  <2>1. /\ flash' \in Torn(flash, mirror) /\ mirror' = mirror
        /\ UNCHANGED <<dtc, persistPending, clearPending, storageReady, schemaPending>>
    BY <1>4 DEF ForeignCommit, ram
  <2>2. ~storageReady => flash' = flash
    BY <1>f, <1>i, <2>1 DEF IInv, Markers
  <2>3. \A i \in Idx : Holds(mirror, i, dtc[i]) /\ Holds(flash, i, dtc[i])
                        => Holds(flash', i, dtc[i])
    BY <1>f, <2>1, TornHolds
  <2> QED BY <1>u, <2>1, <2>2, <2>3 DEF Durable
<1>5. CASE PowerLoss
  <2>1. dtc' = Blank /\ ~storageReady'
    BY <1>5 DEF PowerLoss
  <2> QED BY <1>b, <2>1 DEF Durable
<1> QED BY <1>1, <1>2, <1>3, <1>4, <1>5 DEF Next

(* An entry with nothing queued reads back from the flash as it is in RAM, with *)
(* its date and its failure type, whatever storage faults and resets came       *)
(* before.                                                                      *)
THEOREM NotPendingIsDurable == Spec => []SettledIsDurable
<1>1. ASSUME IInv, Durable PROVE SettledIsDurable
  <2> SUFFICES ASSUME storageReady, ~schemaPending, ~clearPending
               PROVE  /\ SchemaComplete(flash)
                      /\ \A i \in Idx \ persistPending :
                           [LoadReads({}, 2 * N)[i] EXCEPT !.active = dtc[i].active]
                             = dtc[i]
    BY DEF SettledIsDurable
  <2>1. SchemaComplete(flash)
    BY <1>1 DEF IInv, Markers
  <2>2. ASSUME NEW i \in Idx \ persistPending
        PROVE  [LoadReads({}, 2 * N)[i] EXCEPT !.active = dtc[i].active] = dtc[i]
    <3> DEFINE read == LoadReads({}, 2 * N)[i]
    <3>1. Holds(flash, i, dtc[i]) /\ CleanEntry(dtc[i])
      BY <1>1 DEF Durable
    <3>2. dtc[i] \in Entry /\ read \in Entry
      BY <1>1, LoadType DEF IInv, TypeOK
    <3>3. ~(2 * i >= 2 * N) /\ 2 * i + 1 < 2 * N
      BY RegistryAssumption DEF Idx
    <3>4. /\ read.stored = flash.word[i].stored /\ read.permanent = flash.word[i].permanent
          /\ read.detail = IF Faulty(flash.word[i]) THEN flash.word[i].detail ELSE 0
          /\ read.firstOccurrence = IF Faulty(flash.word[i]) THEN flash.ts[i] ELSE 0
      BY <3>3 DEF LoadReads
    <3>5. /\ read.stored = dtc[i].stored /\ read.permanent = dtc[i].permanent
          /\ read.detail = dtc[i].detail
          /\ read.firstOccurrence = dtc[i].firstOccurrence
      BY <3>1, <3>4 DEF Holds, CleanEntry, Faulty
    <3> HIDE DEF read
    <3>6. [read EXCEPT !.active = dtc[i].active] = dtc[i]
      BY <3>2, <3>5 DEF Entry
    <3> QED BY <3>6 DEF read
  <2> QED BY <2>1, <2>2
<1>2. Spec => []Durable
  BY DurableInit, DurableNext, Invariant, PTL DEF Spec
<1> QED BY <1>1, <1>2, Invariant, PTL

--------------------------------------------------------------------------------
(* Every part runs the manager, or leaves it alone                              *)

(* The recovery with bounded clears and resets takes steps of the manager.      *)
LEMMA RecoveryRuns == RNext => [Next]_vars
<1> SUFFICES ASSUME RNext PROVE [Next]_vars
  OBVIOUS
<1>1. ASSUME NEW ok \in BOOLEAN, Job(ok) \/ Reporting(ok) \/ ClearAll(ok) PROVE Next
  BY <1>1 DEF Job, Reporting, Handler, Next
<1>2. CASE Steady
  BY <1>1, <1>2 DEF Steady, Working, Failing, Next
<1>3. CASE Heal
  BY <1>3 DEF Heal
<1>4. CASE Clearing
  BY <1>1, <1>4 DEF Clearing
<1>5. CASE Resetting
  BY <1>5 DEF Resetting, Next
<1> QED BY <1>2, <1>3, <1>4, <1>5 DEF RNext

(* The manager of the expander's part is this manager.                          *)
LEMMA SameManager ==
  /\ Expander!vars = vars
  /\ Expander!InitStorageFails => InitStorageFails
  /\ Expander!PollOpenFails => PollOpenFails
  /\ Expander!PollBegin => PollBegin
  /\ Expander!Elapse => Elapse
<1>1. Expander!vars = vars
  BY DEF Expander!vars, Expander!ram, Expander!kv, Expander!legacy, vars, ram, kv,
         legacy
<1>2. Expander!InitStorageFails => InitStorageFails
  BY DEF Expander!InitStorageFails, Expander!Blank, Expander!Idx, Expander!NoEntry,
     Expander!kv, Expander!legacy, InitStorageFails, Blank, Idx, NoEntry, kv, legacy
<1>3. Expander!PollOpenFails => PollOpenFails
  BY DEF Expander!PollOpenFails, Expander!ram, Expander!kv, Expander!legacy,
     PollOpenFails, ram, kv, legacy
<1>4. Expander!PollBegin => PollBegin
  BY DEF Expander!PollBegin, Expander!WorkLeft, Expander!NextJob, Expander!ram,
         Expander!kv,
     Expander!legacy, PollBegin, WorkLeft, NextJob, ram, kv, legacy
<1>5. Expander!Elapse => Elapse
  BY DEF Expander!Elapse, Expander!ram, Expander!kv, Expander!legacy, Elapse, ram,
         kv, legacy
<1> QED BY <1>1, <1>2, <1>3, <1>4, <1>5

LEMMA SameStore ==
  /\ \A a, b : Expander!Torn(a, b) = Torn(a, b)
  /\ \A t, ok : Expander!Batch(t, ok) = Batch(t, ok)
  /\ \A s, d, b : Expander!Snapshot(s, d, b) = Snapshot(s, d, b)
  /\ \A s, i, e : Expander!SaveRecord(s, i, e) = SaveRecord(s, i, e)
  /\ \A k, n : Expander!LoadReads(k, n) = LoadReads(k, n)
  /\ \A b : Expander!Loaded(b) = Loaded(b)
  /\ Expander!UseLegacy(flash) = UseLegacy(flash)
  /\ Expander!SchemaComplete(flash) = SchemaComplete(flash)
<1>1. \A a, b : Expander!Torn(a, b) = Torn(a, b)
  BY DEF Expander!Torn, Torn, Expander!Idx, Idx
<1>2. \A t, ok : Expander!Batch(t, ok) = Batch(t, ok)
  BY <1>1 DEF Expander!Batch, Batch
<1>3. \A s, d, b : Expander!Snapshot(s, d, b) = Snapshot(s, d, b)
  BY DEF Expander!Snapshot, Snapshot, Expander!Idx, Idx, Expander!WordOf, WordOf
<1>4. \A s, i, e : Expander!SaveRecord(s, i, e) = SaveRecord(s, i, e)
  BY DEF Expander!SaveRecord, SaveRecord, Expander!WordOf, WordOf
<1>5. \A k, n : Expander!LoadReads(k, n) = LoadReads(k, n)
  BY DEF Expander!LoadReads, LoadReads, Expander!Idx, Idx, Expander!Faulty, Faulty
<1>6. Expander!UseLegacy(flash) = UseLegacy(flash)
      /\ Expander!SchemaComplete(flash) = SchemaComplete(flash)
  BY DEF Expander!UseLegacy, UseLegacy, Expander!SchemaComplete, SchemaComplete
<1>7. \A b : Expander!Loaded(b) = Loaded(b)
  <2>1. /\ \A entries, k : Expander!ApplyLegacy(entries, k) = ApplyLegacy(entries, k)
        /\ Expander!Blank = Blank
    BY DEF Expander!ApplyLegacy, ApplyLegacy, Expander!Idx, Idx, Expander!LegacyIdx,
       LegacyIdx, Expander!Blank, Blank, Expander!NoEntry, NoEntry
  <2> QED BY <1>5, <1>6, <2>1 DEF Expander!Loaded, Loaded
<1> QED BY <1>1, <1>2, <1>3, <1>4, <1>5, <1>6, <1>7

LEMMA SameJobs ==
  ASSUME NEW ok \in BOOLEAN
  PROVE  /\ Expander!InitLoad(ok) => InitLoad(ok)
         /\ Expander!InitSchema(ok) => InitSchema(ok)
         /\ Expander!PollLoad(ok) => PollLoad(ok)
         /\ Expander!PollSchema(ok) => PollSchema(ok)
         /\ Expander!PollSave(ok) => PollSave(ok)
<1>1. \A b : Expander!LoadOrPrepareSchema(b, ok) => LoadOrPrepareSchema(b, ok)
  BY SameStore DEF Expander!LoadOrPrepareSchema, LoadOrPrepareSchema,
     Expander!MarkAllSnapshotsPending, MarkAllSnapshotsPending, Expander!Idx, Idx
<1>2. Expander!SaveSchemaSnapshot(ok) => SaveSchemaSnapshot(ok)
  BY SameStore
     DEF Expander!SaveSchemaSnapshot, SaveSchemaSnapshot, Expander!legacy, legacy
<1>3. \A a, b, c : Expander!NextJob(a, b, c) = NextJob(a, b, c)
  BY DEF Expander!NextJob, NextJob
<1>4. Expander!InitLoad(ok) => InitLoad(ok)
  BY <1>1 DEF Expander!InitLoad, InitLoad, Expander!kv, kv, Expander!legacy, legacy
<1>5. Expander!InitSchema(ok) => InitSchema(ok)
  BY <1>2 DEF Expander!InitSchema, InitSchema
<1>6. Expander!PollLoad(ok) => PollLoad(ok)
  BY <1>1, <1>3
     DEF Expander!PollLoad, PollLoad, Expander!kv, kv, Expander!legacy, legacy
<1>7. Expander!PollSchema(ok) => PollSchema(ok)
  BY <1>2 DEF Expander!PollSchema, PollSchema
<1>8. Expander!PollSave(ok) => PollSave(ok)
  BY SameStore DEF Expander!PollSave, PollSave, Expander!legacy, legacy
<1> QED BY <1>4, <1>5, <1>6, <1>7, <1>8

LEMMA SameReport ==
  ASSUME NEW i, NEW on, NEW ok
  PROVE  Expander!SetActive(i, on, ok) => SetActive(i, on, ok)
<1>1. \A e, b, d, t : Expander!Reported(e, b, d, t) = Reported(e, b, d, t)
  BY DEF Expander!Reported, Reported
<1>2. \A d : Expander!SetActiveImpl(i, on, d, ok) => SetActiveImpl(i, on, d, ok)
  BY <1>1, SameStore
     DEF Expander!SetActiveImpl, SetActiveImpl, Expander!MayWrite, MayWrite,
     Expander!kv, kv, Expander!legacy, legacy
<1> QED BY <1>2 DEF Expander!SetActive, SetActive

LEMMA FaultCode ==
  /\ Expander!Fault \in Idx /\ Expander!Core = {0, 1} /\ MaxFaults \in Nat
  /\ \A ok \in StoreOutcomes : ok \in BOOLEAN
BY ExpanderAssumption DEF Expander!Fault, Expander!Core, Idx

(* The transactions of the expander and the reports that end them.              *)
LEMMA BusRuns ==
  ASSUME Expander!XNext, \A c \in Expander!Core :
           op[c].at = "report" => op[c].failed \in BOOLEAN
  PROVE  [Next]_vars
<1>1. CASE Expander!Storage
  <2>1. CASE Expander!InitStorageFails \/ Expander!PollOpenFails \/ Expander!PollBegin
             \/ Expander!Elapse
    BY <2>1, SameManager DEF Next
  <2>2. ASSUME NEW ok \in StoreOutcomes,
               Expander!InitLoad(ok) \/ Expander!InitSchema(ok) \/ Expander!PollLoad(ok)
               \/ Expander!PollSchema(ok) \/ Expander!PollSave(ok)
        PROVE  Next
    BY <2>2, SameJobs, FaultCode DEF Next, Handler
  <2> QED BY <1>1, <2>1, <2>2 DEF Expander!Storage
<1>2. ASSUME NEW c \in Expander!Core, Expander!Transaction(c) PROVE UNCHANGED vars
  <2>1. UNCHANGED Expander!vars
    BY <1>2
       DEF Expander!Transaction, Expander!BeginWrite, Expander!Modify, Expander!Send,
       Expander!Read
  <2> QED BY <2>1
     DEF Expander!vars, Expander!ram, Expander!kv, Expander!legacy, vars, ram, kv,
       legacy
<1>3. ASSUME NEW c \in Expander!Core, NEW ok \in StoreOutcomes, Expander!Report(c, ok)
      PROVE  Next
  <2>1. op[c].failed \in BOOLEAN /\ SetActive(Expander!Fault, op[c].failed, ok)
    BY <1>3, SameReport DEF Expander!Report
  <2> QED BY <2>1, FaultCode DEF Next, Handler
<1> QED BY <1>1, <1>2, <1>3 DEF Expander!XNext

--------------------------------------------------------------------------------
(* The expander                                                                 *)

Steps ==
  {Expander!Idle}
    \cup [at : {"modify", "send"}, pin : Expander!Pin, value : BOOLEAN,
          read : SUBSET Expander!Pin]
    \cup [at : {"report"}, failed : BOOLEAN]

BusTyped ==
  /\ state \subseteq Expander!Pin /\ outputs \subseteq Expander!Pin
  /\ delivered \subseteq Expander!Pin
  /\ mutex \in Expander!Core \cup {Expander!None}
  /\ faults \in 0 .. MaxFaults
  /\ asked \in [Expander!Pin -> BOOLEAN]
  /\ op \in [Expander!Core -> Steps]

Locked ==
  \A c \in Expander!Core : mutex = c <=> op[c].at \in {"modify", "send"}

(* Whoever is inside a transaction has read the latch as it is, and works for   *)
(* what the owner of the pin asked for last.                                    *)
Faithful ==
  \A c \in Expander!Core :
    /\ op[c].at = "modify" => op[c].read = state /\ op[c].value = asked[op[c].pin]
    /\ op[c].at = "send" => (op[c].pin \in state) = asked[op[c].pin]
    /\ op[c].at \in {"modify", "send"} => op[c].pin \notin delivered

(* A pin whose last write was acknowledged carries what was asked for, in the   *)
(* expander and in the latch that the next write starts from.                   *)
InForce ==
  \A p \in delivered : (p \in outputs) = asked[p] /\ (p \in state) = asked[p]

BusInv == BusTyped /\ Locked /\ Faithful /\ InForce

LEMMA BusStart == Expander!BusInit => BusInv
<1> SUFFICES ASSUME Expander!BusInit PROVE BusInv
  OBVIOUS
<1>1. BusTyped
  BY FaultCode DEF Expander!BusInit, BusTyped, Steps, Expander!Pin
<1>2. \A c \in Expander!Core : op[c].at = "idle" /\ mutex # c
  BY FaultCode DEF Expander!BusInit, Expander!Idle, Expander!None
<1>3. Locked /\ Faithful
  BY <1>2 DEF Locked, Faithful
<1>4. InForce
  <2>1. \A p \in Expander!Pin : p \notin outputs /\ p \notin state /\ asked[p] = FALSE
    BY DEF Expander!BusInit
  <2> QED BY <1>1, <2>1 DEF InForce, BusTyped
<1> QED BY <1>1, <1>3, <1>4 DEF BusInv

LEMMA BusNext ==
  ASSUME BusInv, Expander!XNext
  PROVE  BusInv'
<1>0. /\ BusTyped /\ Locked /\ Faithful /\ InForce
      /\ Expander!Core = {0, 1} /\ Expander!None = 2
      /\ MaxFaults \in Nat /\ faults \in Nat
      /\ \A c \in Expander!Core : op[c] \in Steps
  BY FaultCode DEF BusInv, BusTyped, Expander!None
<1>k. \A r \in Steps :
        /\ r.at = "idle" => r = Expander!Idle
        /\ r.at \in {"modify", "send"} =>
             r \in [at : {"modify", "send"}, pin : Expander!Pin, value : BOOLEAN,
                    read : SUBSET Expander!Pin]
        /\ r.at = "report" => r \in [at : {"report"}, failed : BOOLEAN]
        /\ r.at \in {"idle", "modify", "send", "report"}
  BY DEF Steps, Expander!Idle
<1>1. CASE Expander!Storage \/ \E c \in Expander!Core, ok \in StoreOutcomes :
                                 Expander!Report(c, ok)
  <2>1. UNCHANGED <<state, outputs, mutex, asked, delivered, faults>>
    BY <1>1 DEF Expander!Storage, Expander!Report, Expander!bus
  <2>2. op' = op \/ \E c \in Expander!Core :
                     op[c].at = "report" /\ op' = [op EXCEPT ![c] = Expander!Idle]
    BY <1>1 DEF Expander!Storage, Expander!Report
  <2>3. \A d \in Expander!Core :
          op'[d] = op[d] \/ (op[d].at = "report" /\ op'[d] = Expander!Idle)
    BY <1>0, <2>2 DEF BusTyped
  <2>4. op' \in [Expander!Core -> Steps]
    BY <1>0, <2>2 DEF BusTyped, Steps
  <2>5. Expander!Idle.at = "idle"
    BY DEF Expander!Idle
  <2>6. BusTyped'
    BY <1>0, <2>1, <2>4 DEF BusTyped
  <2>7. Locked' /\ Faithful'
    BY <1>0, <2>1, <2>3, <2>5 DEF Locked, Faithful
  <2>8. InForce'
    BY <1>0, <2>1 DEF InForce
  <2> QED BY <2>6, <2>7, <2>8 DEF BusInv
<1>2. ASSUME NEW c \in Expander!Core, Expander!BeginWrite(c) PROVE BusInv'
  <2>1. /\ op[c] = Expander!Idle /\ mutex = Expander!None /\ mutex' = c
        /\ UNCHANGED <<state, outputs, faults>>
    BY <1>2 DEF Expander!BeginWrite, Expander!Enter
  <2>2. PICK pin \in Expander!Pin, value \in BOOLEAN :
          /\ op' = [op EXCEPT ![c] = [at |-> "modify", pin |-> pin, value |-> value,
                                      read |-> state]]
          /\ asked' = [asked EXCEPT ![pin] = value]
          /\ delivered' = delivered \ {pin}
    BY <1>2 DEF Expander!BeginWrite
  <2> DEFINE new == [at |-> "modify", pin |-> pin, value |-> value, read |-> state]
  <2>3. new \in Steps /\ new.at = "modify" /\ new.pin = pin /\ new.value = value
        /\ new.read = state
    BY <1>0 DEF Steps, BusTyped
  <2>4. \A d \in Expander!Core : op'[d] = IF d = c THEN new ELSE op[d]
    BY <1>0, <2>2 DEF BusTyped
  <2>5. \A d \in Expander!Core : d # c => op[d].at \notin {"modify", "send"}
    BY <1>0, <2>1 DEF Locked
  <2>6. \A p \in Expander!Pin : asked'[p] = IF p = pin THEN value ELSE asked[p]
    BY <1>0, <2>2 DEF BusTyped
  <2> HIDE DEF new
  <2>7. op' \in [Expander!Core -> Steps]
    BY <1>0, <2>2, <2>3 DEF BusTyped, new
  <2>8. BusTyped'
    BY <1>0, <2>1, <2>2, <2>7 DEF BusTyped
  <2>9. Locked'
    BY <1>0, <2>1, <2>3, <2>4, <2>5 DEF Locked
  <2>10. Faithful'
    BY <1>0, <2>1, <2>2, <2>3, <2>4, <2>5, <2>6 DEF Faithful
  <2>11. InForce'
    BY <1>0, <2>1, <2>2, <2>6 DEF InForce, BusTyped
  <2> QED BY <2>8, <2>9, <2>10, <2>11 DEF BusInv
<1>3. ASSUME NEW c \in Expander!Core, Expander!Modify(c) PROVE BusInv'
  <2>1. /\ op[c].at = "modify"
        /\ state' = Expander!With(op[c].read, op[c].pin, op[c].value)
        /\ op' = [op EXCEPT ![c].at = "send"]
        /\ UNCHANGED <<outputs, mutex, asked, delivered, faults>>
    BY <1>3 DEF Expander!Modify
  <2> DEFINE r == op[c]
             new == [r EXCEPT !.at = "send"]
  <2>2. r \in [at : {"modify", "send"}, pin : Expander!Pin, value : BOOLEAN,
               read : SUBSET Expander!Pin]
    BY <1>0, <1>k, <2>1
  <2>3. /\ r.at = "modify" /\ r.read = state /\ r.value = asked[r.pin]
        /\ r.pin \notin delivered /\ r.pin \in Expander!Pin /\ r.value \in BOOLEAN
        /\ mutex = c
    BY <1>0, <2>1, <2>2 DEF Faithful, Locked
  <2>4. \A p \in Expander!Pin :
          (p \in state') = IF p = r.pin THEN asked[p] ELSE p \in state
    BY <1>0, <2>1, <2>3 DEF Expander!With
  <2>5. state' \subseteq Expander!Pin
    BY <1>0, <2>1, <2>3 DEF Expander!With, BusTyped
  <2>6. op' = [op EXCEPT ![c] = new]
    BY <2>1
  <2> HIDE DEF r
  <2>7. new \in Steps /\ new.at = "send" /\ new.pin = r.pin
    BY <2>2 DEF Steps
  <2> HIDE DEF new
  <2>8. \A d \in Expander!Core : op'[d] = IF d = c THEN new ELSE op[d]
    BY <1>0, <2>6 DEF BusTyped
  <2>9. \A d \in Expander!Core : d # c => op[d].at \notin {"modify", "send"}
    BY <1>0, <2>3 DEF Locked
  <2>10. op' \in [Expander!Core -> Steps]
    BY <1>0, <2>6, <2>7 DEF BusTyped
  <2>11. BusTyped'
    BY <1>0, <2>1, <2>5, <2>10 DEF BusTyped
  <2>12. Locked'
    BY <1>0, <2>1, <2>3, <2>7, <2>8, <2>9 DEF Locked
  <2>13. Faithful'
    <3>1. (r.pin \in state') = asked[r.pin]
      BY <2>3, <2>4
    <3>2. \A d \in Expander!Core : d # c => op'[d].at \notin {"modify", "send"}
      BY <2>8, <2>9
    <3>3. op'[c] = new /\ UNCHANGED <<asked, delivered>>
      BY <2>1, <2>8
    <3> QED BY <2>3, <2>7, <3>1, <3>2, <3>3 DEF Faithful
  <2>14. InForce'
    BY <1>0, <2>1, <2>3, <2>4 DEF InForce, BusTyped
  <2> QED BY <2>11, <2>12, <2>13, <2>14 DEF BusInv
<1>4. ASSUME NEW c \in Expander!Core, NEW ok \in BOOLEAN,
             Expander!Send(c, ok) \/ Expander!Read(c, ok)
      PROVE  BusInv'
  <2> DEFINE new == [at |-> "report", failed |-> ~ok]
  <2>1. /\ op' = [op EXCEPT ![c] = new] /\ mutex' = Expander!None /\ asked' = asked
        /\ \A d \in Expander!Core : d # c => mutex # d
        /\ Expander!Acknowledged(ok)
    BY <1>0, <1>4 DEF Expander!Send, Expander!Read, Locked
  <2>2. faults' \in 0 .. MaxFaults
    BY <1>0, <2>1 DEF Expander!Acknowledged, BusTyped
  <2>3. new \in Steps /\ new.at = "report"
    BY DEF Steps
  <2> HIDE DEF new
  <2>4. \A d \in Expander!Core : op'[d] = IF d = c THEN new ELSE op[d]
    BY <1>0, <2>1 DEF BusTyped
  <2>5. \A d \in Expander!Core : op'[d].at \notin {"modify", "send"}
    BY <1>0, <2>1, <2>3, <2>4 DEF Locked
  <2>6. op' \in [Expander!Core -> Steps]
    BY <1>0, <2>1, <2>3 DEF BusTyped
  <2>7. Locked' /\ Faithful'
    BY <1>0, <2>1, <2>5 DEF Locked, Faithful
  <2>8. CASE Expander!Send(c, ok)
    <3>1. /\ op[c].at = "send" /\ state' = state
          /\ outputs' = (IF ok THEN state ELSE outputs)
          /\ delivered' = IF ok THEN delivered \cup {op[c].pin} ELSE delivered
      BY <2>8 DEF Expander!Send
    <3>2. op[c].pin \in Expander!Pin /\ (op[c].pin \in state) = asked[op[c].pin]
      BY <1>0, <1>k, <3>1 DEF Faithful
    <3>3. BusTyped'
      BY <1>0, <2>1, <2>2, <2>6, <3>1, <3>2 DEF BusTyped
    <3>4. InForce'
      BY <1>0, <2>1, <3>1, <3>2 DEF InForce
    <3> QED BY <2>7, <3>3, <3>4 DEF BusInv
  <2>9. CASE Expander!Read(c, ok)
    <3>1. /\ state' = (IF ok THEN outputs ELSE state)
          /\ UNCHANGED <<outputs, delivered>>
      BY <2>9 DEF Expander!Read
    <3>2. BusTyped'
      BY <1>0, <2>1, <2>2, <2>6, <3>1 DEF BusTyped
    <3>3. InForce'
      BY <1>0, <2>1, <3>1 DEF InForce
    <3> QED BY <2>7, <3>2, <3>3 DEF BusInv
  <2> QED BY <1>4, <2>8, <2>9
<1> QED BY <1>1, <1>2, <1>3, <1>4 DEF Expander!XNext, Expander!Transaction

--------------------------------------------------------------------------------
(* Fiesta_clock                                                                 *)

(* What the clock knows of its marker is true unless it says it does not know;  *)
(* the marker, and a model of the RTC as confirmed UTC, exclude a local time in *)
(* the RTC; the marker is stored under such a model, and a local time is put    *)
(* back only while the marker is known to be absent.                            *)
KnowsMarker == (marker = "ABSENT" => ~marked) /\ (marker = "STORED" => marked)
NoLocal == marked \/ model = "UTC" => "local" \notin rtc.holds
Places == (job.pc = "store" => model = "UTC") /\ (job.pc = "keep" => marker = "ABSENT")

ClockInv == Clock!KTypeOK /\ KnowsMarker /\ NoLocal /\ Places

LEMMA ClockStart == Clock!Init => ClockInv
<1> SUFFICES ASSUME Clock!Init PROVE ClockInv
  OBVIOUS
<1>1. Clock!KTypeOK
  <2>1. rtc \in [holds : (SUBSET {"utc", "local"}) \ {{}}, right : BOOLEAN,
                power : {"sound", "weak", "lost"}]
    BY DEF Clock!Init
  <2> QED BY <2>1 DEF Clock!Init, Clock!KTypeOK, Clock!NoSync, Clock!NoEdit, Clock!Idle
<1>2. KnowsMarker /\ NoLocal
  BY DEF Clock!Init, KnowsMarker, NoLocal
<1>3. Places
  BY DEF Clock!Init, Clock!Idle, Places
<1> QED BY <1>1, <1>2, <1>3 DEF ClockInv

Rtc == [holds : (SUBSET {"utc", "local"}) \ {{}}, right : BOOLEAN,
        power : {"sound", "weak", "lost"}]
Jobs == [pc : {"tick", "write", "check", "finish", "store", "keep", "done",
               "apply", "config", "buttons"},
         for : {"none", "settle", "gps", "commit", "buttons"},
         right : BOOLEAN, ok : BOOLEAN]

(* A write of the RTC leaves it well formed, adds nothing but its own kind of   *)
(* time, and changes nothing when it is refused and cannot be torn.             *)
LEMMA WriteRtc ==
  ASSUME rtc \in Rtc, NEW kind \in {"utc", "local"}, NEW right \in BOOLEAN,
         NEW ok \in BOOLEAN, Clock!RtcWrite(kind, right, ok)
  PROVE  /\ rtc' \in Rtc
         /\ rtc'.holds \subseteq rtc.holds \cup {kind}
         /\ ~ok /\ kind \notin TornTimes => rtc' = rtc
<1>1. Clock!Fresh(kind, right) \in Rtc /\ Clock!Fresh(kind, right).holds = {kind}
  BY DEF Clock!Fresh, Rtc
<1>2. Clock!Mixed(kind) \in Rtc /\ Clock!Mixed(kind).holds = rtc.holds \cup {kind}
  BY DEF Clock!Mixed, Rtc
<1> QED BY <1>1, <1>2 DEF Clock!RtcWrite

LEMMA ClockNext ==
  ASSUME "local" \notin TornTimes, ClockInv, Clock!Next
  PROVE  ClockInv'
<1>0. /\ rtc \in Rtc /\ job \in Jobs
      /\ marked \in BOOLEAN /\ kvReady \in BOOLEAN /\ healed \in BOOLEAN
      /\ marker \in {"ABSENT", "STORED", "UNKNOWN"}
      /\ model \in {"LOCAL", "UTC", "UTC_UNCHECKED"}
      /\ sync \in [frame : BOOLEAN, correctionHeld : BOOLEAN, retryHeld : BOOLEAN]
      /\ edit \in [setMode : BOOLEAN, session : BOOLEAN, dirty : BOOLEAN]
      /\ KnowsMarker /\ NoLocal /\ Places
  BY DEF ClockInv, Clock!KTypeOK, Rtc, Jobs
<1>a. ASSUME rtc' \in Rtc, job' \in Jobs, marked' \in BOOLEAN, kvReady' \in BOOLEAN,
             healed' \in BOOLEAN, marker' \in {"ABSENT", "STORED", "UNKNOWN"},
             model' \in {"LOCAL", "UTC", "UTC_UNCHECKED"},
             sync' \in [frame : BOOLEAN, correctionHeld : BOOLEAN, retryHeld : BOOLEAN],
             edit' \in [setMode : BOOLEAN, session : BOOLEAN, dirty : BOOLEAN],
             KnowsMarker', NoLocal', Places'
      PROVE  ClockInv'
  BY <1>a DEF ClockInv, Clock!KTypeOK, Rtc, Jobs
<1>b. \A b : b \in Clock!Answers => b \in BOOLEAN
  BY DEF Clock!Answers
<1>1. CASE Clock!WriteUtc
  <2>0. PICK ok \in Clock!Answers :
          /\ Clock!RtcWrite("utc", job.right, ok)
          /\ model' = IF ok \/ model # "LOCAL" THEN "UTC_UNCHECKED" ELSE "LOCAL"
          /\ job' = [job EXCEPT !.pc = IF ok THEN "check" ELSE "finish", !.ok = ok]
    BY <1>1, Zenon DEF Clock!WriteUtc
  <2>1. /\ ok \in BOOLEAN /\ Clock!RtcWrite("utc", job.right, ok)
        /\ model' = IF ok \/ model # "LOCAL" THEN "UTC_UNCHECKED" ELSE "LOCAL"
        /\ job' = [job EXCEPT !.pc = IF ok THEN "check" ELSE "finish", !.ok = ok]
    BY <1>b, <2>0, Zenon
  <2>2. UNCHANGED <<marked, kvReady, marker, sync, edit, healed>>
    BY <1>1 DEF Clock!WriteUtc, Clock!flashes
  <2>3. job.right \in BOOLEAN
    BY <1>0 DEF Jobs
  <2>4. rtc' \in Rtc /\ rtc'.holds \subseteq rtc.holds \cup {"utc"}
    BY <1>0, <2>1, <2>3, WriteRtc
  <2>5. job' \in Jobs /\ job'.pc \in {"check", "finish"}
    BY <1>0, <2>1 DEF Jobs
  <2>6. model' \in {"LOCAL", "UTC_UNCHECKED"}
    BY <2>1
  <2>7. KnowsMarker' /\ NoLocal' /\ Places'
    BY <1>0, <2>2, <2>4, <2>5, <2>6 DEF KnowsMarker, NoLocal, Places
  <2> QED BY <1>0, <1>a, <2>2, <2>4, <2>5, <2>6, <2>7
<1>2. CASE Clock!CheckWrite
  <2>1. PICK answered \in Clock!Answers :
          LET ok == Clock!CheckPasses(answered) IN
            /\ model' = IF ok THEN "UTC" ELSE model
            /\ job' = [job EXCEPT !.pc = "finish", !.ok = ok]
    BY <1>2, Zenon DEF Clock!CheckWrite
  <2>2. UNCHANGED <<rtc, marked, kvReady, marker, sync, edit, healed>>
    BY <1>2 DEF Clock!CheckWrite, Clock!flashes
  <2>3. Clock!CheckPasses(answered) \in BOOLEAN
    BY DEF Clock!CheckPasses, Clock!ReadsBack
  <2>4. Clock!CheckPasses(answered) => rtc.holds = {"utc"}
    BY DEF Clock!CheckPasses, Clock!ReadsBack, Clock!Fresh
  <2>5. job' \in Jobs /\ job'.pc = "finish"
    BY <1>0, <2>1, <2>3 DEF Jobs
  <2>6. KnowsMarker' /\ NoLocal' /\ Places'
    BY <1>0, <2>1, <2>2, <2>4, <2>5 DEF KnowsMarker, NoLocal, Places
  <2> QED BY <1>0, <1>a, <2>1, <2>2, <2>5, <2>6
<1>3. CASE Clock!clockTimeFinish \/ Clock!OpenFails
  <2>1. UNCHANGED <<rtc, marked, kvReady, marker, model, sync, edit, healed>>
    BY <1>3 DEF Clock!clockTimeFinish, Clock!OpenFails, Clock!flashes
  <2>2. PICK place \in {"store", "keep", "done"}, ok \in BOOLEAN :
          /\ job' = [job EXCEPT !.pc = place, !.ok = ok]
          /\ (place = "store" => model = "UTC") /\ (place = "keep" => marker = "ABSENT")
    <3>1. CASE Clock!clockTimeFinish
      <4> DEFINE to == IF job.ok /\ ~Clock!clockTimeSettled THEN "store"
                       ELSE Clock!AfterFinish(job.ok, marker)
      <4>1. /\ to \in {"store", "keep", "done"}
            /\ (to = "store" => model = "UTC") /\ (to = "keep" => marker = "ABSENT")
        BY DEF Clock!clockTimeSettled, Clock!AfterFinish, Clock!MarkerMissing
      <4>2. job' = [job EXCEPT !.pc = to, !.ok = job.ok] /\ job.ok \in BOOLEAN
        BY <1>0, <3>1 DEF Clock!clockTimeFinish, Clock!To, Jobs
      <4> HIDE DEF to
      <4> QED BY <4>1, <4>2, Zenon
    <3>2. CASE Clock!OpenFails
      <4> DEFINE to == Clock!AfterFinish(FALSE, marker)
      <4>1. to \in {"keep", "done"} /\ (to = "keep" => marker = "ABSENT")
        BY DEF Clock!AfterFinish, Clock!MarkerMissing
      <4>2. job' = [job EXCEPT !.pc = to, !.ok = FALSE] /\ FALSE \in BOOLEAN
        BY <3>2 DEF Clock!OpenFails
      <4> HIDE DEF to
      <4> QED BY <4>1, <4>2, Zenon
    <3> QED BY <1>3, <3>1, <3>2
  <2>3. job' \in Jobs /\ job'.pc = place
    BY <1>0, <2>2 DEF Jobs
  <2>4. KnowsMarker' /\ NoLocal' /\ Places'
    BY <1>0, <2>1, <2>2, <2>3 DEF KnowsMarker, NoLocal, Places
  <2> QED BY <1>0, <1>a, <2>1, <2>3, <2>4
<1>4. CASE Clock!StoreUtcMarker
  <2>1. PICK set \in BOOLEAN, answered \in BOOLEAN :
          /\ marked' = (marked \/ set)
          /\ marker' = IF answered THEN Clock!InFlash ELSE "UNKNOWN"
    BY <1>4, <1>b DEF Clock!StoreUtcMarker
  <2>2. /\ kvReady' = TRUE /\ job.pc = "store"
        /\ UNCHANGED <<rtc, model, sync, edit, healed>>
    BY <1>4 DEF Clock!StoreUtcMarker, Clock!At
  <2>3. marked' \in BOOLEAN
    BY <1>0, <2>1
  <2>4. /\ marker' \in {"ABSENT", "STORED", "UNKNOWN"}
        /\ KnowsMarker'
    BY <2>1, <2>3 DEF Clock!InFlash, KnowsMarker
  <2> DEFINE ok == marker' = "STORED"
             to == Clock!AfterFinish(ok, marker')
  <2>5. job' = [job EXCEPT !.pc = to, !.ok = ok] /\ ok \in BOOLEAN
    BY <1>4 DEF Clock!StoreUtcMarker
  <2>6. to \in {"keep", "done"} /\ (to = "keep" => marker' = "ABSENT")
    BY DEF Clock!AfterFinish, Clock!MarkerMissing
  <2> HIDE DEF to, ok
  <2>7. job' \in Jobs /\ job'.pc = to
    BY <1>0, <2>5, <2>6 DEF Jobs
  <2>8. NoLocal' /\ Places'
    BY <1>0, <2>2, <2>6, <2>7 DEF NoLocal, Places
  <2> QED BY <1>0, <1>a, <2>2, <2>3, <2>4, <2>7, <2>8
<1>5. CASE Clock!clockTimeKeepLocal
  <2>1. PICK ok \in BOOLEAN :
          /\ Clock!RtcWrite("local", job.right, ok)
          /\ model' = IF ok THEN "LOCAL" ELSE model
    BY <1>5, <1>b DEF Clock!clockTimeKeepLocal
  <2>2. /\ job.pc = "keep" /\ job' = [job EXCEPT !.pc = "done"]
        /\ UNCHANGED <<marked, kvReady, marker, sync, edit, healed>>
    BY <1>5 DEF Clock!clockTimeKeepLocal, Clock!flashes, Clock!At, Clock!To
  <2>3. job.right \in BOOLEAN
    BY <1>0 DEF Jobs
  <2>4. rtc' \in Rtc /\ (~ok => rtc' = rtc)
    BY <1>0, <2>1, <2>3, WriteRtc
  <2>5. job' \in Jobs /\ job'.pc = "done"
    BY <1>0, <2>2 DEF Jobs
  <2>6. ~marked
    BY <1>0, <2>2 DEF Places, KnowsMarker
  <2>7. model' \in {"LOCAL", "UTC", "UTC_UNCHECKED"}
    BY <1>0, <2>1
  <2>8. NoLocal'
    BY <1>0, <2>1, <2>2, <2>4, <2>6 DEF NoLocal
  <2>9. KnowsMarker' /\ Places'
    BY <1>0, <2>2, <2>5 DEF KnowsMarker, Places
  <2> QED BY <1>0, <1>a, <2>2, <2>4, <2>5, <2>7, <2>8, <2>9
<1>6. CASE Clock!rtcSyncTick \/ Clock!rtcSyncApply \/ Clock!Done \/ Clock!Config
           \/ Clock!Buttons \/ Clock!CorrectionReleased \/ Clock!RetryReleased
  <2>1. UNCHANGED <<rtc, marked, kvReady, marker, model, healed>>
    BY <1>6 DEF Clock!rtcSyncTick, Clock!rtcSyncApply, Clock!Done, Clock!Config,
       Clock!Buttons, Clock!CorrectionReleased, Clock!RetryReleased, Clock!flashes
  <2>2. sync' \in [frame : BOOLEAN, correctionHeld : BOOLEAN, retryHeld : BOOLEAN]
    <3>1. CASE Clock!rtcSyncTick
      <4>1. PICK f, answered \in BOOLEAN :
              sync' = [sync EXCEPT !.frame = f,
                         !.retryHeld = @ \/ (Clock!Settles(f) /\ ~Clock!RtcAnswersDate(answered))]
        BY <3>1 DEF Clock!rtcSyncTick
      <4> DEFINE held == sync.retryHeld \/ (Clock!Settles(f) /\ ~Clock!RtcAnswersDate(answered))
      <4>2. held \in BOOLEAN
        OBVIOUS
      <4> HIDE DEF held
      <4>3. sync' = [sync EXCEPT !.frame = f, !.retryHeld = held]
        BY <4>1 DEF held
      <4> QED BY <1>0, <4>1, <4>2, <4>3
    <3>2. CASE ~Clock!rtcSyncTick
      BY <1>0, <1>6, <3>2 DEF Clock!rtcSyncApply, Clock!Done, Clock!Config,
         Clock!Buttons, Clock!CorrectionReleased, Clock!RetryReleased
    <3> QED BY <3>1, <3>2
  <2>3. edit' \in [setMode : BOOLEAN, session : BOOLEAN, dirty : BOOLEAN]
    BY <1>0, <1>6 DEF Clock!rtcSyncTick, Clock!rtcSyncApply, Clock!Done, Clock!Config,
       Clock!Buttons, Clock!CorrectionReleased, Clock!RetryReleased
  <2>4. job' \in Jobs /\ (job'.pc \in {"store", "keep"} => job'.pc = job.pc)
    <3>1. ASSUME NEW place \in {"config", "buttons", "apply"}, Clock!To(place)
          PROVE  job' \in Jobs /\ job'.pc = place
      BY <1>0, <3>1 DEF Clock!To, Jobs
    <3>2. ASSUME NEW for \in {"gps", "commit", "buttons"}, NEW right \in BOOLEAN,
                 Clock!StartWrite(for, right)
          PROVE  job' \in Jobs /\ job'.pc = "write"
      BY <3>2 DEF Clock!StartWrite, Jobs
    <3>3. Clock!Idle \in Jobs /\ Clock!Idle.pc = "tick"
      BY DEF Clock!Idle, Jobs
    <3>4. CASE Clock!rtcSyncTick
      <4>1. rtc.right \in BOOLEAN
        BY <1>0 DEF Rtc
      <4>2. PICK place \in {"finish", "apply"} :
              job' = [pc |-> place, for |-> "settle", right |-> rtc.right, ok |-> TRUE]
        BY <3>4 DEF Clock!rtcSyncTick
      <4> QED BY <4>1, <4>2 DEF Jobs
    <3>5. CASE Clock!rtcSyncApply
      BY <3>1, <3>2, <3>5 DEF Clock!rtcSyncApply
    <3>6. CASE Clock!Done
      BY <3>1, <3>3, <3>6 DEF Clock!Done
    <3>7. CASE Clock!Config
      BY <3>1, <3>2, <3>7 DEF Clock!Config
    <3>8. CASE Clock!Buttons
      BY <3>2, <3>3, <3>8 DEF Clock!Buttons
    <3>9. CASE Clock!CorrectionReleased \/ Clock!RetryReleased
      BY <1>0, <3>9 DEF Clock!CorrectionReleased, Clock!RetryReleased
    <3> QED BY <1>6, <3>4, <3>5, <3>6, <3>7, <3>8, <3>9
  <2>5. KnowsMarker' /\ NoLocal' /\ Places'
    BY <1>0, <2>1, <2>4 DEF KnowsMarker, NoLocal, Places
  <2> QED BY <1>0, <1>a, <2>1, <2>2, <2>3, <2>4, <2>5
<1>7. CASE Clock!Drift \/ Clock!Heal
  <2>1. /\ UNCHANGED <<marked, kvReady, marker, model, sync, edit, job>>
        /\ rtc' = rtc \/ rtc' = [rtc EXCEPT !.right = FALSE]
        /\ healed' \in BOOLEAN
    BY <1>0, <1>7 DEF Clock!Drift, Clock!Heal, Clock!flashes
  <2>2. rtc' \in Rtc /\ rtc'.holds = rtc.holds
    <3>1. rtc \in Rtc
      BY <1>0
    <3>2. ASSUME rtc' = [rtc EXCEPT !.right = FALSE]
          PROVE  rtc' \in Rtc /\ rtc'.holds = rtc.holds
      BY <3>1, <3>2 DEF Rtc
    <3> QED BY <2>1, <3>1, <3>2
  <2>3. KnowsMarker' /\ NoLocal' /\ Places'
    BY <1>0, <2>1, <2>2 DEF KnowsMarker, NoLocal, Places
  <2> QED BY <1>0, <1>a, <2>1, <2>2, <2>3
<1>8. CASE Clock!Restart
  <2>1. PICK open \in BOOLEAN, answered \in BOOLEAN : Clock!Start(open, answered)
    BY <1>8 DEF Clock!Restart
  <2>2. /\ marked' = marked /\ healed' = healed /\ kvReady' \in BOOLEAN
        /\ sync' = Clock!NoSync /\ edit' = Clock!NoEdit /\ job' = Clock!Idle
    BY <1>8, <2>1 DEF Clock!Restart, Clock!Start
  <2>3. /\ marker' \in {"ABSENT", "STORED", "UNKNOWN"} /\ KnowsMarker'
        /\ model' \in {"LOCAL", "UTC", "UTC_UNCHECKED"}
        /\ model' = "UTC" => marker' = "STORED"
    BY <2>1, <2>2 DEF Clock!Start, Clock!InFlash, Clock!ModelOf, KnowsMarker
  <2>4. rtc' \in Rtc /\ rtc'.holds = rtc.holds
    <3>1. ASSUME NEW p \in {"weak", "lost"}, rtc' = [rtc EXCEPT !.power = p, !.right = FALSE]
          PROVE  rtc' \in Rtc /\ rtc'.holds = rtc.holds
      BY <1>0, <3>1 DEF Rtc
    <3>2. rtc' = rtc \/ \E p \in {"weak", "lost"} :
                          rtc' = [rtc EXCEPT !.power = p, !.right = FALSE]
      BY <1>8, Zenon DEF Clock!Restart
    <3> QED BY <1>0, <3>1, <3>2
  <2>5. NoLocal'
    BY <1>0, <2>2, <2>3, <2>4 DEF NoLocal, KnowsMarker
  <2>6. job' \in Jobs /\ Places'
    BY <2>2 DEF Clock!Idle, Jobs, Places
  <2>7. /\ sync' \in [frame : BOOLEAN, correctionHeld : BOOLEAN, retryHeld : BOOLEAN]
        /\ edit' \in [setMode : BOOLEAN, session : BOOLEAN, dirty : BOOLEAN]
    BY <2>2 DEF Clock!NoSync, Clock!NoEdit
  <2> QED BY <1>0, <1>a, <2>2, <2>3, <2>4, <2>5, <2>6, <2>7
<1> QED BY <1>1, <1>2, <1>3, <1>4, <1>5, <1>6, <1>7, <1>8 DEF Clock!Next, Clock!Pass

--------------------------------------------------------------------------------
(* The three parts together                                                     *)

LEMMA BusKept == BusInv /\ [MCNext]_mcVars => BusInv'
<1> SUFFICES ASSUME BusInv, [MCNext]_mcVars PROVE BusInv'
  OBVIOUS
<1>1. CASE UseBus
  BY <1>1, BusNext DEF UseBus
<1>2. CASE UNCHANGED busVars
  BY <1>2 DEF busVars, BusInv, BusTyped, Locked, Faithful, InForce
<1> QED BY <1>1, <1>2 DEF MCNext, Recover, KeepTime, mcVars

LEMMA ManagerSteps == BusInv /\ [MCNext]_mcVars => [Next]_vars
<1> SUFFICES ASSUME BusInv, [MCNext]_mcVars PROVE [Next]_vars
  OBVIOUS
<1>1. CASE UseBus
  <2>1. \A c \in Expander!Core : op[c].at = "report" => op[c].failed \in BOOLEAN
    BY DEF BusInv, BusTyped, Steps, Expander!Idle
  <2> QED BY <1>1, <2>1, BusRuns DEF UseBus
<1>2. CASE Recover
  BY <1>2, RecoveryRuns DEF Recover
<1>3. CASE UNCHANGED rvars
  BY <1>3 DEF rvars
<1> QED BY <1>1, <1>2, <1>3 DEF MCNext, KeepTime, mcVars

(* Whatever of the three parts runs, the manager does nothing it does not do    *)
(* alone: the jobs of core 0, the reports of both cores and the clears of the   *)
(* tester are its entry points.                                                 *)
THEOREM PartsRunManager == MCSpec => Spec
<1>1. MCInit => Init /\ BusInv
  BY BusStart DEF MCInit, RInit
<1> QED BY <1>1, BusKept, ManagerSteps, PTL DEF MCSpec, Spec

(* An entry with nothing queued reads back from the flash as it is in RAM, also *)
(* when the reports of the two cores overtake each other.                       *)
THEOREM SettledThroughout == MCSpec => []SettledIsDurable
<1> QED BY PartsRunManager, NotPendingIsDurable, PTL

(* What the expander acknowledged for a pin stays in force until its owner      *)
(* writes the pin again, whatever the other core does.                          *)
THEOREM WritesHold == MCSpec => []AcknowledgedHolds
<1>1. MCInit => BusInv
  BY BusStart DEF MCInit
<1>2. MCSpec => []TypeOK
  BY PartsRunManager, TypeCorrect, PTL
<1>3. ASSUME BusInv, TypeOK PROVE AcknowledgedHolds
  <2>1. Expander!TypeOK
    BY <1>3 DEF TypeOK, Entry, Flags, Word, Store, Idx, LegacyIdx, Expander!TypeOK,
       Expander!Entry, Expander!Flags, Expander!Word, Expander!Store, Expander!Idx,
       Expander!LegacyIdx
  <2>2. \A c \in Expander!Core : op[c].at \in {"idle", "modify", "send", "report"}
    BY <1>3 DEF BusInv, BusTyped, Steps, Expander!Idle
  <2>3. Expander!XTypeOK
    BY <1>3, <2>1, <2>2 DEF BusInv, BusTyped, Locked, Expander!XTypeOK
  <2> QED BY <1>3, <2>3
     DEF BusInv, InForce, AcknowledgedHolds, Expander!AcknowledgedHolds
<1> QED BY <1>1, <1>2, <1>3, BusKept, PTL DEF MCSpec

(* A marker in the flash excludes a local time in the RTC, if a refused write   *)
(* of local time leaves the RTC alone; without that the run FiestaClockTorn     *)
(* shows the contrary.                                                          *)
THEOREM MarkerIsTrue ==
  ASSUME "local" \notin TornTimes
  PROVE  MCSpec => []MarkerMeansUtc
<1>1. MCInit => ClockInv
  BY ClockStart DEF MCInit
<1>2. ClockInv /\ [MCNext]_mcVars => ClockInv'
  <2> SUFFICES ASSUME ClockInv, [MCNext]_mcVars PROVE ClockInv'
    OBVIOUS
  <2>1. CASE KeepTime
    BY <2>1, ClockNext DEF KeepTime
  <2>2. CASE UNCHANGED clockVars
    BY <2>2 DEF clockVars, ClockInv, KnowsMarker, NoLocal, Places, Clock!KTypeOK
  <2> QED BY <2>1, <2>2 DEF MCNext, Recover, UseBus, Elsewhere, mcVars
<1>3. ClockInv => MarkerMeansUtc
  BY DEF ClockInv, NoLocal, MarkerMeansUtc, Clock!MarkerMeansUtc
<1> QED BY <1>1, <1>2, <1>3, PTL DEF MCSpec
================================================================================
