---------------------------- MODULE ConfiguratorProofs ----------------------------
(* The parameters of the ECU for all ranges, defaults and stored sets; the      *)
(* exchange between the Values tab and the module for any bounds; the firmware  *)
(* update for any modules, builds and versions.                                 *)
EXTENDS MCConfigurator, SequenceTheorems, TLAPS

(* A sequence, whatever it holds.                                               *)
IsSeq(s) == Len(s) \in Nat /\ s = [i \in 1 .. Len(s) |-> s[i]]

(* What the module is asked to set is a parameter.                              *)
OnlySets(frames) ==
  /\ IsSeq(frames)
  /\ \A i \in 1 .. Len(frames) :
       frames[i].body.name = "set" => frames[i].body.p \in Param
SetsParameters == OnlySets(toModule)

(* Between a write and its promotion the active set is the one before, and a    *)
(* module that could not read its store runs by the defaults.                   *)
Sound ==
  /\ ParamsTypeOK /\ ActiveIsStored
  /\ loadPending => active = Pair(Defaults)
  /\ promoting => Valid(staging)

(* The request that is being promoted stays at the head of the link.            *)
PInv == Sound /\ SetsParameters /\ (promoting => toModule # <<>>)

--------------------------------------------------------------------------------
(* What the Values tab reports                                                  *)

(* Frames on the two directions of the link, and calls in progress.             *)
IsFrame(f) == f = [seq |-> f.seq, body |-> f.body] /\ f.seq \in 1 .. MaxSeq
Asks(f) ==
  /\ IsFrame(f)
  /\ f.body.name \in DOMAIN Expected \cup {"bye"}
  /\ f.body.name \in {"set", "read"} => f.body.p \in Param
  /\ f.body.name = "prove" => "challenge" \in DOMAIN f.body
Answers(f) ==
  /\ IsFrame(f)
  /\ f.body.name = "value" => f.body.p \in Param /\ f.body.value \in InRange[f.body.p]
  /\ f.body.name = "challenge" => "challenge" \in DOMAIN f.body /\ f.body.challenge # 0
AllAsk(M) == IsSeq(M) /\ \A k \in 1 .. Len(M) : Asks(M[k])
AllAnswer(H) == IsSeq(H) /\ \A i \in 1 .. Len(H) : Answers(H[i])
LinkTyped ==
  /\ AllAsk(toModule) /\ AllAnswer(toHost)
  /\ promoting => authed /\ Len(toModule) # 0 /\ toModule[1].body.name = "commit"

StepsOf == [detect |-> {"hello", "read"}, bye |-> {"bye"},
            apply |-> {"hello", "begin", "prove", "set"},
            commit |-> {"hello", "begin", "prove", "commit"},
            revert |-> {"hello", "begin", "prove", "revert"}]
IsCall(o) ==
  /\ o = [kind |-> o.kind, step |-> o.step, todo |-> o.todo, phase |-> o.phase,
          attempt |-> o.attempt, seq |-> o.seq, session |-> o.session,
          challenge |-> o.challenge]
  /\ o.kind \in {"detect", "bye", "apply", "commit", "revert"}
  /\ o.step \in StepsOf[o.kind]
  /\ o.phase \in {"command", "rehello", "repeat"}
  /\ o.attempt \in Nat /\ 1 <= o.attempt /\ o.attempt <= AttemptsOf(o.step)
  /\ o.seq \in 0 .. MaxSeq
  /\ o.todo \subseteq Param
  /\ o.kind \in {"detect", "apply"} => o.todo # {}
  /\ o.challenge # 0 <=> o.step = "prove"
OpTyped ==
  op # Idle =>
    /\ IsCall(op)
    /\ op.kind = "apply" => op.todo \subseteq rows
    /\ op.seq # 0 => port # 0
TabTyped ==
  /\ rows \subseteq Param /\ accepted \subseteq rows
  /\ edited \in Settings /\ applied \in Settings
  /\ port \in 0 .. MaxSeq /\ port # 1

(* Only a fault leaves a frame under way behind the exchange it belongs to.     *)
Crowd == count.faults + (IF Waiting THEN 1 ELSE 0)
Bounded ==
  /\ count = [clicks |-> count.clicks, edits |-> count.edits, faults |-> count.faults]
  /\ count.faults \in 0 .. MaxFaults
  /\ Len(toModule) + Len(toHost) <= Crowd

(* A challenge is in one place only: with the module and on its way to the      *)
(* host, or with the host and in the proofs it sends; and no proof succeeded    *)
(* while a challenge was still on its way.                                      *)
Held == IF op = Idle THEN 0 ELSE op.challenge
Offers(f) == f.body.name = "challenge"
Proves(f, c) == f.body.name = "prove" /\ f.body.challenge = c
Tokens(H, M) ==
  /\ \A i \in 1 .. Len(H) : Offers(H[i]) =>
       /\ H[i].body.challenge # Held
       /\ \A k \in 1 .. Len(M) : ~Proves(M[k], H[i].body.challenge)
       /\ \A j \in 1 .. Len(H) : j > i =>
            /\ Offers(H[j]) => H[i].body.challenge # H[j].body.challenge
            /\ Offers(H[j]) => H[i].body.challenge # challenge
            /\ H[j].body.name # "auth_ok"
  /\ challenge # 0 => \A k \in 1 .. Len(M) : Proves(M[k], challenge) =>
       /\ Held \in {0, challenge}
       /\ \A i \in 1 .. Len(H) : ~Offers(H[i])
  /\ Held = challenge /\ challenge # 0 => \A i \in 1 .. Len(H) : ~Offers(H[i])

(* A challenge is drawn only while nobody is authenticated.                     *)
Unproved(M) == challenge # 0 => \A k \in 1 .. Len(M) : ~Proves(M[k], challenge)
Begins(H, M) ==
  /\ \A j \in 1 .. Len(H) : H[j].body.name = "hello_ok" =>
       /\ ~authed /\ Unproved(M)
       /\ challenge # 0 => Held # challenge
       /\ challenge # 0 =>
            \A i \in 1 .. Len(H) : i < j /\ Offers(H[i]) => H[i].body.challenge # challenge
  /\ op # Idle /\ op.step = "begin" => ~authed /\ Unproved(M)
  /\ \A k \in 1 .. Len(M) : M[k].body.name = "begin" =>
       /\ ~authed
       /\ challenge # 0 => \A l \in 1 .. Len(M) : l < k => ~Proves(M[l], challenge)
  /\ authed => session # 0 /\ challenge = 0

(* Once the challenge of this call was met, everything older is off the link.   *)
Success == {"param_set", "committed", "reverted"}
Late(f) == f.body.name \in {"prove", "hello"}
Proving(H, M) ==
  op # Idle /\ op.step = "prove" =>
    /\ \A i \in 1 .. Len(H) : H[i].body.name = "auth_ok" =>
         /\ challenge = 0 /\ session # 0
         /\ \A k \in 1 .. Len(M) : Late(M[k])
         /\ \A j \in 1 .. Len(H) : j > i => H[j].body.name \notin Success \cup {"hello_required"}
    /\ \A k \in 1 .. Len(M) : Proves(M[k], op.challenge) =>
         \A l \in 1 .. Len(M) : l > k => Late(M[l])

(* The step that writes, with its frames; a module that forgot the session      *)
(* refuses all of them.                                                         *)
Acting == op # Idle /\ op.step \in Writes
Wanted ==
  IF op.step = "set" THEN [name |-> "set", p |-> FirstOf(op.todo), v |-> edited[FirstOf(op.todo)]]
  ELSE [name |-> op.step]
IsWrite(f) == f.body.name \in Writes
Succeeds(f) == f.body.name \in Success
Forgets(H) ==
  \/ session = 0 \/ op.phase # "command"
  \/ \E i \in 1 .. Len(H) : H[i].body.name = "hello_required"
Writing(H, M) ==
  Acting =>
    /\ challenge = 0
    /\ \A k \in 1 .. Len(M) : Late(M[k]) \/ M[k].body = Wanted
    /\ Forgets(H) => ~authed /\ \A i \in 1 .. Len(H) : ~Succeeds(H[i])

(* Its numbers: those of a first attempt are above one, a second attempt is     *)
(* number one, and the frame with the number that is waited for is the last.    *)
Ready == op.phase = "command" /\ op.seq = 0
Awaited == op.phase = "command" /\ op.seq # 0
NoneYet(H, M) ==
  /\ \A k \in 1 .. Len(M) : ~IsWrite(M[k])
  /\ \A i \in 1 .. Len(H) : ~Succeeds(H[i])
AboveOne(H, M) ==
  /\ \A k \in 1 .. Len(M) : IsWrite(M[k]) => M[k].seq # 1
  /\ \A i \in 1 .. Len(H) : Succeeds(H[i]) => H[i].seq # 1
LastIs(H, M, n) ==
  /\ \A k \in 1 .. Len(M) : IsWrite(M[k]) /\ M[k].seq = n =>
       \A l \in 1 .. Len(M) : l > k => ~IsWrite(M[l])
  /\ \A i \in 1 .. Len(H) : Succeeds(H[i]) /\ H[i].seq = n =>
       /\ \A j \in 1 .. Len(H) : j > i => ~Succeeds(H[j])
       /\ \A k \in 1 .. Len(M) : ~IsWrite(M[k])
Numbered(H, M) ==
  Acting =>
    /\ op.attempt = 1 => port # 0
    /\ op.attempt = 1 \/ Ready => AboveOne(H, M)
    /\ Ready /\ op.attempt = 1 => NoneYet(H, M)
    /\ Ready /\ op.attempt # 1 => port = 0
    /\ Awaited => LastIs(H, M, op.seq)

(* What an answer that is still on its way says is true when it arrives.        *)
InForce == stored = staging /\ active = staging /\ Valid(staging)
Meant(H) ==
  Acting /\ (\E i \in 1 .. Len(H) : Succeeds(H[i])) =>
    /\ ~loadPending
    /\ op.step = "set" => staging[FirstOf(op.todo)] = edited[FirstOf(op.todo)]
    /\ op.step = "commit" => InForce

(* What was accepted stays as it is: no frame under way undoes it.              *)
Kept(M) ==
  /\ \A p \in accepted :
       /\ staging[p] = applied[p]
       /\ \A k \in 1 .. Len(M) : M[k].body.name = "set" => M[k].body.p # p
  /\ accepted # {} =>
       ~loadPending /\ \A k \in 1 .. Len(M) : M[k].body.name # "revert"
  /\ result = "committed" =>
       /\ op = Idle
       /\ accepted # {} => InForce /\ \A k \in 1 .. Len(M) : ~IsWrite(M[k])

Exchange(H, M) ==
  /\ Tokens(H, M) /\ Begins(H, M) /\ Proving(H, M)
  /\ Writing(H, M) /\ Numbered(H, M) /\ Meant(H) /\ Kept(M)
RInv ==
  /\ PInv /\ LinkTyped /\ TabTyped /\ OpTyped /\ Bounded
  /\ Exchange(toHost, toModule)

--------------------------------------------------------------------------------
Started == {"artifact", "authenticate", "reboot", "bootsel", "copy", "reenum", "hello"}
BeforeReboot == {"manifest", "artifact", "authenticate", "reboot"}

(* A flow is a record of these fields.                                          *)
IsFlow(f) ==
  f = [pc |-> f.pc, target |-> f.target, manifest |-> f.manifest, drive |-> f.drive,
       result |-> f.result]

(* What an update is made of while it runs.                                     *)
FlowTyped ==
  /\ Flash!FTypeOK
  /\ locked => flow.target \in Modules
  /\ IsFlow(flow)
  /\ flow.pc \in Started \cup {"idle", "manifest", "done"}
  /\ flow.pc = "copy" => flow.drive \in Modules
  /\ flow.pc \notin {"idle", "done"} => flow.result = "none"
  /\ uf2 \in [Modules -> Builds] /\ manifest \in [Modules -> Builds]

(* Since the click the image and its manifest are the ones that were verified,  *)
(* and no other module left its application.                                    *)
OnlyTheTarget ==
  locked /\ ~disturbed =>
    /\ uf2[flow.target] = manifest[flow.target]
    /\ flow.pc \in Started => flow.manifest = manifest[flow.target]
    /\ \A m \in Modules \ {flow.target} : mode[m] = "app" /\ firmware[m] = before[m]

(* Where the target is at each step: a drive that was found is the target's,    *)
(* and only a copy that landed lets it start again.                             *)
TargetFollows ==
  locked /\ ~disturbed =>
    /\ flow.pc \in BeforeReboot => mode[flow.target] = "app"
    /\ flow.pc = "copy" => flow.drive = flow.target /\ mode[flow.target] = "boot"
    /\ flow.pc \in {"reenum", "hello"} =>
         mode[flow.target] = "boot" \/ firmware[flow.target] = flow.manifest
    /\ flow.pc = "done" /\ flow.result = "OK" => firmware[flow.target] = flow.manifest

FInv == FlowTyped /\ OnlyTheTarget /\ TargetFollows

--------------------------------------------------------------------------------
(* The firmware update                                                          *)

LEMMA FlowTo ==
  ASSUME IsFlow(flow), NEW q, flow' = [flow EXCEPT !.pc = q]
  PROVE  /\ IsFlow(flow)' /\ flow'.pc = q /\ flow'.target = flow.target
         /\ flow'.manifest = flow.manifest /\ flow'.drive = flow.drive
         /\ flow'.result = flow.result
  BY DEF IsFlow

LEMMA FlowEnds ==
  ASSUME IsFlow(flow), NEW r, Flash!Ends(r)
  PROVE  /\ IsFlow(flow)' /\ flow'.pc = "done" /\ flow'.target = flow.target
         /\ flow'.manifest = flow.manifest /\ flow'.drive = flow.drive
         /\ flow'.result = r
  BY DEF IsFlow, Flash!Ends

LEMMA FlashInit == Flash!Init => FInv
<1> SUFFICES ASSUME Flash!Init PROVE FInv
  OBVIOUS
<1>1. IsFlow(flow) /\ flow.pc = "idle" /\ flow.target = None /\ flow.drive = None
  BY DEF Flash!Init, Flash!NoFlow, Flash!None, None, IsFlow
<1>2. FlowTyped
  BY <1>1
     DEF Flash!Init, FlowTyped, IsFlow, Flash!FTypeOK, Flash!At, Started, None,
         Flash!None
<1>3. OnlyTheTarget /\ TargetFollows
  BY DEF Flash!Init, OnlyTheTarget, TargetFollows
<1> QED
  BY <1>2, <1>3 DEF FInv

(* What holds of every module while nothing interferes.                         *)
LEMMA TargetIsAModule ==
  ASSUME FInv, flow.pc # "idle"
  PROVE  locked /\ flow.target \in Modules
  BY DEF FInv, FlowTyped, Flash!FTypeOK, Flash!At

LEMMA TabKeeps ==
  ASSUME FInv, Flash!Complete \/ Flash!StartDetection \/ Flash!FinishDetection
  PROVE  FInv'
<1> USE DEF Flash!files, Flash!tab, Flash!history
<1>0. FlowTyped /\ OnlyTheTarget /\ TargetFollows /\ IsFlow(flow)
  BY DEF FInv, FlowTyped
<1>1. CASE Flash!Complete
  <2>1. flow'.pc = "idle" /\ flow'.target = flow.target /\ flow'.drive = flow.drive /\ IsFlow(flow)'
    BY <1>0, <1>1, FlowTo DEF Flash!Complete
  <2>2. locked' = FALSE
    BY <1>1 DEF Flash!Complete
  <2>3. detected' \subseteq Modules
    BY <1>0, <1>1 DEF Flash!Complete, FlowTyped, Flash!FTypeOK
  <2>4. FlowTyped'
    BY <1>0, <1>1, <2>1, <2>2, <2>3
       DEF Flash!Complete, FlowTyped, Flash!FTypeOK, Flash!At, Started
  <2> QED
    BY <2>2, <2>4 DEF FInv, OnlyTheTarget, TargetFollows
<1>2. CASE Flash!StartDetection \/ Flash!FinishDetection
  <2>1. detected' \subseteq Modules
    BY <1>2 DEF Flash!StartDetection, Flash!FinishDetection
  <2>2. UNCHANGED <<firmware, mode, uf2, manifest, locked, flow, disturbed, before>>
    BY <1>2 DEF Flash!StartDetection, Flash!FinishDetection
  <2> QED
    BY <1>0, <2>1, <2>2
       DEF FInv, FlowTyped, IsFlow, Flash!FTypeOK, Flash!At, OnlyTheTarget,
           TargetFollows
<1> QED
  BY <1>1, <1>2

LEMMA ClickKeeps ==
  ASSUME FInv, NEW m \in Modules, Flash!Click(m)
  PROVE  FInv'
<1> USE DEF Flash!files, Flash!history
<1>0. FlowTyped
  BY DEF FInv
<1>1. /\ IsFlow(flow)' /\ flow'.pc = "manifest" /\ flow'.target = m
      /\ flow'.drive = None /\ flow'.result = "none"
  BY DEF Flash!Click, Flash!Started, Flash!NoFlow, Flash!None, None, IsFlow
<1>2. FlowTyped'
  BY <1>0, <1>1
     DEF Flash!Click, FlowTyped, Flash!FTypeOK, Flash!At, Started, None, Flash!None
<1>3. OnlyTheTarget'
  BY <1>1 DEF Flash!Click, Flash!Verified, OnlyTheTarget, Started
<1>4. TargetFollows'
  BY <1>1 DEF Flash!Click, TargetFollows, BeforeReboot
<1> QED
  BY <1>2, <1>3, <1>4 DEF FInv

(* A worker that gives up leaves the firmware of every module alone.            *)
LEMMA WorkerGivesUp ==
  ASSUME FInv, locked, UNCHANGED <<firmware, Flash!files, Flash!tab, Flash!history>>,
         mode' \in [Modules -> {"app", "leaving", "boot"}],
         IsFlow(flow)', flow'.target = flow.target, flow'.drive \in Modules \cup {None},
         flow'.pc = "done" /\ flow'.result # "OK",
         ~disturbed => \A m \in Modules \ {flow.target} : mode'[m] = mode[m]
  PROVE  FInv'
<1>0. FlowTyped /\ OnlyTheTarget
  BY DEF FInv
<1>1. FlowTyped'
  BY <1>0 DEF FlowTyped, Flash!FTypeOK, Flash!At, Started, None, Flash!None,
         Flash!files, Flash!tab
<1>2. OnlyTheTarget'
  BY <1>0 DEF OnlyTheTarget, Started, Flash!files, Flash!tab, Flash!history
<1>3. TargetFollows'
  BY DEF TargetFollows, BeforeReboot
<1> QED
  BY <1>1, <1>2, <1>3 DEF FInv

LEMMA WorkerKeeps ==
  ASSUME FInv, Flash!Worker
  PROVE  FInv'
<1> USE DEF Flash!files, Flash!tab, Flash!history
<1>0. /\ FlowTyped /\ OnlyTheTarget /\ TargetFollows /\ IsFlow(flow)
      /\ locked /\ flow.target \in Modules /\ flow.pc \in Started \cup {"manifest"}
  <2>1. flow.pc \in Started \cup {"manifest"}
    BY DEF Flash!Worker, Flash!CheckManifest, Flash!CheckArtifact, Flash!Authenticate,
       Flash!Reboot, Flash!FindDrive, Flash!Copy, Flash!Returns, Flash!Confirm,
       Flash!At, Started
  <2> QED
    BY <2>1, TargetIsAModule DEF FInv, FlowTyped, Started
<1>1. CASE Flash!CheckManifest
  <2>1. /\ IsFlow(flow)' /\ flow'.pc = "artifact" /\ flow'.target = flow.target
        /\ flow'.manifest = manifest[flow.target] /\ flow'.drive = flow.drive
        /\ flow'.result = flow.result
    BY <1>0, <1>1 DEF Flash!CheckManifest, IsFlow
  <2> QED
    BY <1>0, <1>1, <2>1
       DEF Flash!CheckManifest, FInv, FlowTyped, Flash!FTypeOK, Flash!At,
           OnlyTheTarget, TargetFollows, Started, BeforeReboot
<1>2. CASE Flash!CheckArtifact
  <2>1. CASE Flash!To("authenticate")
    <3>1. /\ IsFlow(flow)' /\ flow'.pc = "authenticate" /\ flow'.target = flow.target
          /\ flow'.manifest = flow.manifest /\ flow'.drive = flow.drive
          /\ flow'.result = flow.result
      BY <1>0, <2>1, FlowTo DEF Flash!To
    <3> QED
      BY <1>0, <1>2, <2>1, <3>1
         DEF Flash!CheckArtifact, FInv, FlowTyped, Flash!FTypeOK, Flash!At,
             OnlyTheTarget, TargetFollows, Started, BeforeReboot
  <2>2. CASE Flash!Ends("MANIFEST_ARTIFACT_MISMATCH")
    <3>1. /\ IsFlow(flow)' /\ flow'.pc = "done" /\ flow'.target = flow.target
          /\ flow'.drive = flow.drive /\ flow'.result = "MANIFEST_ARTIFACT_MISMATCH"
      BY <1>0, <2>2, FlowEnds
    <3> QED
      BY <1>0, <1>2, <2>2, <3>1, WorkerGivesUp
         DEF Flash!CheckArtifact, FlowTyped, Flash!FTypeOK, None, Flash!None
  <2> QED
    BY <1>2, <2>1, <2>2 DEF Flash!CheckArtifact
<1>3. CASE Flash!Authenticate
  <2>1. CASE Flash!To("reboot")
    <3>1. /\ IsFlow(flow)' /\ flow'.pc = "reboot" /\ flow'.target = flow.target
          /\ flow'.manifest = flow.manifest /\ flow'.drive = flow.drive
          /\ flow'.result = flow.result
      BY <1>0, <2>1, FlowTo DEF Flash!To
    <3> QED
      BY <1>0, <1>3, <2>1, <3>1
         DEF Flash!Authenticate, FInv, FlowTyped, Flash!FTypeOK, Flash!At,
             OnlyTheTarget, TargetFollows, Started, BeforeReboot
  <2>2. CASE Flash!Ends("AUTH_FAILED")
    <3>1. /\ IsFlow(flow)' /\ flow'.pc = "done" /\ flow'.target = flow.target
          /\ flow'.drive = flow.drive /\ flow'.result = "AUTH_FAILED"
      BY <1>0, <2>2, FlowEnds
    <3> QED
      BY <1>0, <1>3, <2>2, <3>1, WorkerGivesUp
         DEF Flash!Authenticate, FlowTyped, Flash!FTypeOK, None, Flash!None
  <2> QED
    BY <1>3, <2>1, <2>2 DEF Flash!Authenticate
<1>4. CASE Flash!Reboot
  <2>0. mode' \in [Modules -> {"app", "leaving", "boot"}] /\ \A m \in Modules \ {flow.target} : mode'[m] = mode[m]
    BY <1>0, <1>4 DEF Flash!Reboot, FlowTyped, Flash!FTypeOK
  <2>1. CASE Flash!To("bootsel")
    <3>1. /\ IsFlow(flow)' /\ flow'.pc = "bootsel" /\ flow'.target = flow.target
          /\ flow'.manifest = flow.manifest /\ flow'.drive = flow.drive
          /\ flow'.result = flow.result
      BY <1>0, <2>1, FlowTo DEF Flash!To
    <3> QED
      BY <1>0, <1>4, <2>1, <3>1, <2>0
         DEF Flash!Reboot, FInv, FlowTyped, Flash!FTypeOK, Flash!At, OnlyTheTarget,
             TargetFollows, Started, BeforeReboot
  <2>2. CASE Flash!Ends("REBOOT_FAILED")
    <3>1. /\ IsFlow(flow)' /\ flow'.pc = "done" /\ flow'.target = flow.target
          /\ flow'.drive = flow.drive /\ flow'.result = "REBOOT_FAILED"
      BY <1>0, <2>2, FlowEnds
    <3> QED
      BY <1>0, <1>4, <2>2, <3>1, <2>0, WorkerGivesUp
         DEF Flash!Reboot, FlowTyped, Flash!FTypeOK, None, Flash!None
  <2> QED
    BY <1>4, <2>1, <2>2 DEF Flash!Reboot
<1>5. CASE Flash!FindDrive
  <2>1. CASE Flash!DriveFound
    <3>1. PICK m \in Modules : mode[m] = "boot" /\ flow' = [flow EXCEPT !.pc = "copy", !.drive = m]
      BY <2>1 DEF Flash!DriveFound
    <3>2. /\ IsFlow(flow)' /\ flow'.pc = "copy" /\ flow'.target = flow.target
          /\ flow'.manifest = flow.manifest /\ flow'.drive = m /\ flow'.result = flow.result
      BY <1>0, <3>1 DEF IsFlow
    <3>3. ~disturbed => m = flow.target
      BY <1>0, <3>1 DEF OnlyTheTarget
    <3> QED
      BY <1>0, <1>5, <3>1, <3>2, <3>3
         DEF Flash!FindDrive, FInv, FlowTyped, Flash!FTypeOK, Flash!At,
             OnlyTheTarget, TargetFollows, Started, BeforeReboot
  <2>2. CASE Flash!Ends("BOOTSEL_TIMEOUT")
    <3>1. /\ IsFlow(flow)' /\ flow'.pc = "done" /\ flow'.target = flow.target
          /\ flow'.drive = flow.drive /\ flow'.result = "BOOTSEL_TIMEOUT"
      BY <1>0, <2>2, FlowEnds
    <3> QED
      BY <1>0, <1>5, <2>2, <3>1, WorkerGivesUp
         DEF Flash!FindDrive, FlowTyped, Flash!FTypeOK, None, Flash!None
  <2> QED
    BY <1>5, <2>1, <2>2 DEF Flash!FindDrive, Flash!DriveFoundOrNot
<1>6. CASE Flash!Copy
  <2>0. flow.drive \in Modules /\ flow.pc = "copy" /\ flow.result = "none"
    BY <1>0, <1>6 DEF Flash!Copy, Flash!At, FlowTyped
  <2>1. /\ firmware' \in [Modules -> Builds \cup Installed \cup {Broken}]
        /\ mode' \in [Modules -> {"app", "leaving", "boot"}]
    BY <1>0, <1>6, <2>0
       DEF Flash!Copy, Flash!Lands, Flash!Spoils, FlowTyped, Flash!FTypeOK
  <2>2. ~disturbed =>
          /\ \A m \in Modules \ {flow.target} : mode'[m] = mode[m] /\ firmware'[m] = firmware[m]
          /\ flow'.pc = "reenum" =>
               mode'[flow.target] = "boot" \/ firmware'[flow.target] = uf2[flow.target]
    <3> SUFFICES ASSUME ~disturbed
                 PROVE  /\ \A m \in Modules \ {flow.target} :
                              mode'[m] = mode[m] /\ firmware'[m] = firmware[m]
                        /\ flow'.pc = "reenum" =>
                             mode'[flow.target] = "boot" \/ firmware'[flow.target] = uf2[flow.target]
      OBVIOUS
    <3>1. flow.drive = flow.target /\ mode[flow.target] = "boot"
      BY <1>0, <2>0 DEF TargetFollows
    <3>2. CASE Flash!Lands(flow.drive)
      BY <1>0, <2>0, <3>1, <3>2 DEF Flash!Lands, FlowTyped, Flash!FTypeOK
    <3>3. CASE Flash!Spoils(flow.drive)
      BY <1>0, <2>0, <3>1, <3>3 DEF Flash!Spoils, FlowTyped, Flash!FTypeOK
    <3>4. CASE UNCHANGED <<firmware, mode>> /\ Flash!Ends("COPY_FAILED")
      BY <1>0, <3>4, FlowEnds
    <3> QED
      BY <1>6, <3>2, <3>3, <3>4 DEF Flash!Copy
  <2>3. CASE Flash!To("reenum")
    <3>1. /\ IsFlow(flow)' /\ flow'.pc = "reenum" /\ flow'.target = flow.target
          /\ flow'.manifest = flow.manifest /\ flow'.drive = flow.drive
          /\ flow'.result = flow.result
      BY <1>0, <2>3, FlowTo DEF Flash!To
    <3>2. FlowTyped'
      BY <1>0, <1>6, <2>0, <2>1, <3>1
         DEF Flash!Copy, FlowTyped, Flash!FTypeOK, Flash!At, Started
    <3>3. OnlyTheTarget'
      BY <1>0, <1>6, <2>0, <2>2, <3>1 DEF Flash!Copy, OnlyTheTarget, Started
    <3>4. TargetFollows'
      BY <1>0, <1>6, <2>0, <2>2, <3>1
         DEF Flash!Copy, OnlyTheTarget, TargetFollows, Started, BeforeReboot
    <3> QED
      BY <3>2, <3>3, <3>4 DEF FInv
  <2>4. CASE Flash!Ends("COPY_FAILED")
    <3>1. /\ IsFlow(flow)' /\ flow'.pc = "done" /\ flow'.target = flow.target
          /\ flow'.drive = flow.drive /\ flow'.result = "COPY_FAILED"
      BY <1>0, <2>4, FlowEnds
    <3>2. FlowTyped'
      BY <1>0, <1>6, <2>0, <2>1, <3>1
         DEF Flash!Copy, FlowTyped, Flash!FTypeOK, Flash!At, Started
    <3>3. OnlyTheTarget'
      BY <1>0, <1>6, <2>2, <3>1 DEF Flash!Copy, OnlyTheTarget, Started
    <3>4. TargetFollows'
      BY <3>1 DEF TargetFollows, BeforeReboot
    <3> QED
      BY <3>2, <3>3, <3>4 DEF FInv
  <2> QED
    BY <1>6, <2>3, <2>4 DEF Flash!Copy
<1>7. CASE Flash!Returns
  <2>1. CASE Flash!To("hello")
    <3>1. /\ IsFlow(flow)' /\ flow'.pc = "hello" /\ flow'.target = flow.target
          /\ flow'.manifest = flow.manifest /\ flow'.drive = flow.drive
          /\ flow'.result = flow.result
      BY <1>0, <2>1, FlowTo DEF Flash!To
    <3> QED
      BY <1>0, <1>7, <2>1, <3>1
         DEF Flash!Returns, FInv, FlowTyped, Flash!FTypeOK, Flash!At, OnlyTheTarget,
             TargetFollows, Started, BeforeReboot
  <2>2. CASE Flash!Ends("REENUM_TIMEOUT")
    <3>1. /\ IsFlow(flow)' /\ flow'.pc = "done" /\ flow'.target = flow.target
          /\ flow'.drive = flow.drive /\ flow'.result = "REENUM_TIMEOUT"
      BY <1>0, <2>2, FlowEnds
    <3> QED
      BY <1>0, <1>7, <2>2, <3>1, WorkerGivesUp
         DEF Flash!Returns, FlowTyped, Flash!FTypeOK, None, Flash!None
  <2> QED
    BY <1>7, <2>1, <2>2 DEF Flash!Returns
<1>8. CASE Flash!Confirm
  <2>1. CASE mode[flow.target] = "app" /\ Flash!Ends("OK")
    <3>1. /\ IsFlow(flow)' /\ flow'.pc = "done" /\ flow'.target = flow.target
          /\ flow'.manifest = flow.manifest /\ flow'.drive = flow.drive
      BY <1>0, <2>1, FlowEnds
    <3> QED
      BY <1>0, <1>8, <2>1, <3>1
         DEF Flash!Confirm, FInv, FlowTyped, Flash!FTypeOK, Flash!At, OnlyTheTarget,
             TargetFollows, Started, BeforeReboot
  <2>2. CASE Flash!Ends("POST_FLASH_FW_MISMATCH")
    <3>1. /\ IsFlow(flow)' /\ flow'.pc = "done" /\ flow'.target = flow.target
          /\ flow'.drive = flow.drive /\ flow'.result = "POST_FLASH_FW_MISMATCH"
      BY <1>0, <2>2, FlowEnds
    <3> QED
      BY <1>0, <1>8, <2>2, <3>1, WorkerGivesUp
         DEF Flash!Confirm, FlowTyped, Flash!FTypeOK, None, Flash!None
  <2>3. CASE Flash!Ends("POST_FLASH_HELLO_FAILED")
    <3>1. /\ IsFlow(flow)' /\ flow'.pc = "done" /\ flow'.target = flow.target
          /\ flow'.drive = flow.drive /\ flow'.result = "POST_FLASH_HELLO_FAILED"
      BY <1>0, <2>3, FlowEnds
    <3> QED
      BY <1>0, <1>8, <2>3, <3>1, WorkerGivesUp
         DEF Flash!Confirm, FlowTyped, Flash!FTypeOK, None, Flash!None
  <2> QED
    BY <1>8, <2>1, <2>2, <2>3 DEF Flash!Confirm
<1> QED
  BY <1>1, <1>2, <1>3, <1>4, <1>5, <1>6, <1>7, <1>8 DEF Flash!Worker

(* What happens outside the tool: only a boot loader entered on request is not  *)
(* a disturbance.                                                               *)
LEMMA WorldKeeps ==
  ASSUME FInv, NEW m \in Modules,
         \/ Flash!EnterBootloader(m) \/ Flash!PowerCycle(m)
         \/ Flash!PressBootsel(m) \/ Flash!Rebuild(m)
  PROVE  FInv'
<1> USE DEF Flash!files, Flash!tab, Flash!history
<1>0. FlowTyped /\ OnlyTheTarget /\ TargetFollows
  BY DEF FInv
<1>1. CASE Flash!EnterBootloader(m)
  <2>1. mode' \in [Modules -> {"app", "leaving", "boot"}] /\ \A k \in Modules \ {m} : mode'[k] = mode[k]
    BY <1>0, <1>1 DEF Flash!EnterBootloader, FlowTyped, Flash!FTypeOK
  <2>2. mode[m] = "leaving" /\ mode'[m] = "boot"
    BY <1>0, <1>1 DEF Flash!EnterBootloader, FlowTyped, Flash!FTypeOK
  <2> QED
    BY <1>0, <1>1, <2>1, <2>2
       DEF Flash!EnterBootloader, IsFlow, FInv, FlowTyped, Flash!FTypeOK, Flash!At,
           OnlyTheTarget, TargetFollows, Started, BeforeReboot
<1>2. CASE Flash!PowerCycle(m) \/ Flash!PressBootsel(m) \/ Flash!Rebuild(m)
  <2>1. disturbed'
    BY <1>2 DEF Flash!PowerCycle, Flash!PressBootsel, Flash!Rebuild
  <2>2. mode' \in [Modules -> {"app", "leaving", "boot"}]
    BY <1>0, <1>2
       DEF Flash!PowerCycle, Flash!PressBootsel, Flash!Rebuild, FlowTyped, Flash!FTypeOK
  <2>3. uf2' \in [Modules -> Builds] /\ manifest' \in [Modules -> Builds]
    BY <1>0, <1>2 DEF Flash!PowerCycle, Flash!PressBootsel, Flash!Rebuild, FlowTyped
  <2>4. FlowTyped'
    BY <1>0, <1>2, <2>2, <2>3
       DEF Flash!PowerCycle, Flash!PressBootsel, Flash!Rebuild, FlowTyped, IsFlow,
           Flash!FTypeOK, Flash!At
  <2> QED
    BY <2>1, <2>4 DEF FInv, OnlyTheTarget, TargetFollows
<1> QED
  BY <1>1, <1>2

(* The inductive invariant of the update.                                       *)
THEOREM UpdateInvariant == Flash!Spec => []FInv
<1>1. FInv /\ [Flash!Next]_Flash!vars => FInv'
  <2> SUFFICES ASSUME FInv, [Flash!Next]_Flash!vars PROVE FInv'
    OBVIOUS
  <2>1. CASE UNCHANGED Flash!vars
    BY <2>1
       DEF Flash!vars, Flash!files, Flash!tab, Flash!history, FInv, FlowTyped, IsFlow,
           Flash!FTypeOK, Flash!At, OnlyTheTarget, TargetFollows
  <2> QED
    BY <2>1, TabKeeps, ClickKeeps, WorkerKeeps, WorldKeeps
       DEF Flash!Next, Flash!Tool, Flash!World
<1> QED
  BY <1>1, FlashInit, PTL DEF Flash!Spec

(* Whatever fails on the way, an update that nothing outside the tool           *)
(* interfered with writes to no other module, and is reported as done only when *)
(* the target holds the image whose manifest was checked.                       *)
THEOREM UpdateIsExact == Flash!Spec => []UndisturbedIsExact
<1>1. FInv => UndisturbedIsExact
  BY DEF FInv, FlowTyped, OnlyTheTarget, TargetFollows, UndisturbedIsExact,
     Flash!UndisturbedIsExact, Flash!FTypeOK, Flash!At, Started
<1> QED
  BY <1>1, UpdateInvariant, PTL

--------------------------------------------------------------------------------
(* The parameters                                                               *)

LEMMA DefaultsValid == Pair(Defaults) \in Settings /\ Valid(Pair(Defaults))
  BY DefaultsAssumption, RangesAssumption DEF Settings, Pair, Valid

LEMMA LiveValid ==
  ASSUME ParamsTypeOK
  PROVE  Live \in Settings /\ Valid(Live)
  BY DefaultsValid DEF ParamsTypeOK, Live, Usable

LEMMA ParamsStart == ParamsInit => Sound
<1> SUFFICES ASSUME ParamsInit PROVE Sound
  OBVIOUS
<1>1. stored \in Settings \cup {Absent}
  BY StoreAssumption DEF ParamsInit, Settings, Pair
<1>2. active \in Settings /\ Valid(active) /\ active = Live
  BY <1>1, DefaultsValid DEF ParamsInit, Live, Usable
<1>3. loadPending = FALSE /\ promoting = FALSE /\ staging = active
  BY DEF ParamsInit
<1> QED
  BY <1>1, <1>2, <1>3 DEF Sound, ParamsTypeOK, ActiveIsStored

(* What a reset, a poll of the store and the handlers do to the parameters.     *)
LEMMA StartSound ==
  ASSUME Sound, NEW ok \in BOOLEAN, StartParams(ok)
  PROVE  Sound'
<1>0. ParamsTypeOK /\ Live \in Settings /\ Valid(Live)
  BY LiveValid DEF Sound
<1>1. active' \in Settings /\ Valid(active') /\ (~ok => active' = Pair(Defaults)) /\ (ok => active' = Live)
  BY <1>0, DefaultsValid DEF StartParams
<1>2. stored' = stored /\ staging' = active' /\ promoting' = FALSE /\ loadPending' = ~ok
  BY DEF StartParams
<1> QED
  BY <1>0, <1>1, <1>2 DEF Sound, ParamsTypeOK, ActiveIsStored, Live, Usable, Valid

LEMMA PollSound ==
  ASSUME Sound, NEW ok \in BOOLEAN, PollLoad(ok)
  PROVE  Sound'
<1>0. ParamsTypeOK /\ ActiveIsStored /\ loadPending /\ active = Pair(Defaults) /\ ~promoting
  BY DEF Sound, PollLoad
<1>1. /\ ok => active' = Live
      /\ ~ok => active' = Pair(Defaults)
      /\ staging' = IF ok THEN active' ELSE staging
  BY <1>0 DEF PollLoad, Live
<1>2. active' \in Settings /\ Valid(active')
  BY <1>0, <1>1, LiveValid, DefaultsValid
<1>3. stored' = stored /\ promoting' = promoting /\ loadPending' = ~ok
  BY DEF PollLoad
<1> QED
  BY <1>0, <1>1, <1>2, <1>3 DEF Sound, ParamsTypeOK, ActiveIsStored, Live, Usable, Valid

LEMMA SetSound ==
  ASSUME Sound, ~promoting, NEW p \in Param, NEW v, SetParam(p, v)
  PROVE  Sound'
<1>0. ParamsTypeOK /\ ActiveIsStored
  BY DEF Sound
<1>1. staging' \in Settings
  <2>1. CASE SetAnswer(p, v) = "param_set"
    <3>1. v \in InRange[p] /\ staging' = [staging EXCEPT ![p] = v]
      BY <2>1 DEF SetParam, SetAnswer
    <3>2. staging = [start |-> staging.start, stop |-> staging.stop]
          /\ staging.start \in StartRange /\ staging.stop \in StopRange
      BY <1>0 DEF ParamsTypeOK, Settings
    <3>3. CASE p = "start"
      BY <3>1, <3>2, <3>3 DEF InRange, Settings
    <3>4. CASE p = "stop"
      BY <3>1, <3>2, <3>4 DEF InRange, Settings
    <3> QED
      BY <3>3, <3>4 DEF Param
  <2>2. CASE SetAnswer(p, v) # "param_set"
    BY <1>0, <2>2 DEF SetParam, ParamsTypeOK
  <2> QED
    BY <2>1, <2>2
<1>2. UNCHANGED <<active, stored, loadPending, promoting>>
  BY DEF SetParam
<1> QED
  BY <1>0, <1>1, <1>2 DEF Sound, ParamsTypeOK, ActiveIsStored, Live, Usable, Valid

LEMMA PersistSound ==
  ASSUME Sound, ~promoting, NEW ok \in BOOLEAN, Persist(ok)
  PROVE  Sound'
<1>0. ParamsTypeOK /\ ActiveIsStored
  BY DEF Sound
<1>1. CASE CommitAnswer(ok) = "committed"
  <2>1. ~loadPending /\ Valid(staging)
    BY <1>1 DEF CommitAnswer
  <2>2. stored' = staging /\ promoting' = TRUE /\ UNCHANGED <<active, staging, loadPending>>
    BY <1>1 DEF Persist
  <2> QED
    BY <1>0, <2>1, <2>2 DEF Sound, ParamsTypeOK, ActiveIsStored, Valid
<1>2. CASE CommitAnswer(ok) # "committed"
  <2>1. stored' = stored /\ promoting' = FALSE /\ UNCHANGED <<active, staging, loadPending>>
    BY <1>2 DEF Persist
  <2> QED
    BY <1>0, <2>1 DEF Sound, ParamsTypeOK, ActiveIsStored, Live, Usable, Valid
<1> QED
  BY <1>1, <1>2

LEMMA PromoteSound ==
  ASSUME Sound, Promote
  PROVE  Sound'
<1>0. ParamsTypeOK /\ promoting /\ Valid(staging) /\ stored = staging
  BY DEF Sound, Promote, ParamsTypeOK
<1>1. active' = staging /\ promoting' = FALSE /\ UNCHANGED <<staging, stored, loadPending>>
  BY DEF Promote
<1>2. staging \in Settings /\ stored # Absent
  BY <1>0, StoreAssumption DEF ParamsTypeOK
<1> QED
  BY <1>0, <1>1, <1>2 DEF Sound, ParamsTypeOK, ActiveIsStored, Live, Usable, Valid

LEMMA RevertSound ==
  ASSUME Sound, ~promoting, Revert
  PROVE  Sound'
  BY DEF Sound, Revert, ParamsTypeOK, ActiveIsStored, Live, Usable, Valid

LEMMA SameSound ==
  ASSUME Sound, UNCHANGED params
  PROVE  Sound'
  BY DEF Sound, params, ParamsTypeOK, ActiveIsStored, Live, Usable, Valid

LEMMA OfItsItems ==
  ASSUME NEW s, IsSeq(s)
  PROVE  s \in Seq({s[i] : i \in 1 .. Len(s)})
<1>1. s \in [1 .. Len(s) -> {s[i] : i \in 1 .. Len(s)}]
  BY DEF IsSeq
<1> QED
  BY <1>1, SeqDef DEF IsSeq

LEMMA IsSeqOf ==
  ASSUME NEW S, NEW s \in Seq(S)
  PROVE  IsSeq(s)
  BY LenProperties DEF IsSeq

(* Frames wait in order: what is sent is a command, what is handled or lost is  *)
(* the oldest.                                                                  *)
LEMMA CommandSets ==
  ASSUME NEW n
  PROVE  LET frame == Frame(n, Command)
         IN frame.body.name = "set" => frame.body.p \in Param
<1>1. CASE op.phase = "rehello"
  BY <1>1 DEF Frame, Command
<1>2. CASE op.phase # "rehello" /\ op.step = "set"
  BY <1>2 DEF Frame, Command, FirstOf, Param
<1>3. CASE op.phase # "rehello" /\ op.step # "set"
  BY <1>3 DEF Frame, Command
<1> QED
  BY <1>1, <1>2, <1>3

LEMMA AppendSets ==
  ASSUME SetsParameters, NEW frame,
         frame.body.name = "set" => frame.body.p \in Param,
         toModule' = Append(toModule, frame)
  PROVE  SetsParameters'
<1> DEFINE S == {toModule[i] : i \in 1 .. Len(toModule)}
           T == S \cup {frame}
<1>1. toModule \in Seq(T) /\ frame \in T
  <2>1. toModule \in Seq(S) /\ S \subseteq T
    BY OfItsItems DEF SetsParameters, OnlySets
  <2> HIDE DEF S
  <2> QED
    BY <2>1, SeqMonotonic
<1> HIDE DEF S, T
<1>2. /\ toModule' \in Seq(T) /\ Len(toModule') = Len(toModule) + 1
      /\ \A i \in 1 .. Len(toModule') :
           toModule'[i] = IF i <= Len(toModule) THEN toModule[i] ELSE frame
  BY <1>1
<1>3. IsSeq(toModule')
  BY <1>2, IsSeqOf
<1>4. \A i \in 1 .. Len(toModule') :
        toModule'[i].body.name = "set" => toModule'[i].body.p \in Param
  BY <1>2 DEF SetsParameters, OnlySets, IsSeq
<1> QED
  BY <1>3, <1>4 DEF SetsParameters, OnlySets, IsSeq

LEMMA TailSets ==
  ASSUME SetsParameters, toModule # <<>>, toModule' = Tail(toModule)
  PROVE  SetsParameters'
<1> DEFINE T == {toModule[i] : i \in 1 .. Len(toModule)}
<1>1. toModule \in Seq(T)
  BY OfItsItems DEF SetsParameters, OnlySets
<1>2. /\ toModule' \in Seq(T) /\ Len(toModule') = Len(toModule) - 1
      /\ \A i \in 1 .. Len(toModule') : toModule'[i] = toModule[i + 1]
  BY <1>1, HeadTailProperties
<1>3. IsSeq(toModule')
  BY <1>2, IsSeqOf
<1>4. \A i \in 1 .. Len(toModule') :
        toModule'[i].body.name = "set" => toModule'[i].body.p \in Param
  BY <1>2 DEF SetsParameters, OnlySets, IsSeq
<1> QED
  BY <1>3, <1>4 DEF SetsParameters, OnlySets, IsSeq

LEMMA NothingSets ==
  OnlySets(<<>>)
<1>1. Len(<<>>) = 0 /\ <<>> \in Seq({})
  BY EmptySeq
<1>2. IsSeq(<<>>)
  BY <1>1, IsSeqOf
<1> QED
  BY <1>1, <1>2 DEF OnlySets

LEMMA HeadSets ==
  ASSUME SetsParameters, toModule # <<>>, Head(toModule).body.name = "set"
  PROVE  Head(toModule).body.p \in Param
  BY DEF SetsParameters, OnlySets, IsSeq

LEMMA HandleKeeps ==
  ASSUME PInv, NEW ok \in BOOLEAN, Handle(ok)
  PROVE  PInv'
<1>0. Sound /\ SetsParameters /\ ~promoting /\ toModule # <<>>
  BY DEF PInv, Handle
<1> DEFINE c == Head(toModule).body
<1>1. Parameters(c, ok) /\ (promoting' => UNCHANGED toModule)
      /\ (~promoting' => toModule' = Tail(toModule))
  BY DEF Handle
<1>2. c.name = "set" => c.p \in Param
  BY <1>0, HeadSets
<1> HIDE DEF c
<1>3. Sound'
  <2>1. CASE UNCHANGED params
    BY <1>0, <2>1, SameSound
  <2>2. CASE c.name = "set" /\ SetParam(c.p, c.v)
    BY <1>0, <1>2, <2>2, SetSound
  <2>3. CASE Persist(ok)
    BY <1>0, <2>3, PersistSound
  <2>4. CASE Revert
    BY <1>0, <2>4, RevertSound
  <2> QED
    BY <1>1, <2>1, <2>2, <2>3, <2>4 DEF Parameters
<1>4. SetsParameters' /\ (promoting' => toModule' # <<>>)
  BY <1>0, <1>1, TailSets DEF SetsParameters, OnlySets, IsSeq
<1> QED
  BY <1>3, <1>4 DEF PInv

(* What reaches neither the parameters nor the requests under way.              *)
LEMMA SameKeeps ==
  ASSUME PInv, UNCHANGED <<params, toModule>>
  PROVE  PInv'
<1>1. Sound'
  BY SameSound DEF PInv
<1>2. promoting' = promoting
  BY DEF params
<1> QED
  BY <1>1, <1>2 DEF PInv, SetsParameters, OnlySets, IsSeq

LEMMA LinkKeeps ==
  ASSUME PInv, \/ \E n \in 0 .. Len(toHost) : Send(n)
               \/ Lose
  PROVE  PInv'
<1>0. SetsParameters /\ UNCHANGED params /\ promoting' = promoting
  BY DEF PInv, Send, Lose, params
<1>1. Sound'
  BY SameSound DEF PInv, Send, Lose
<1>2. CASE \E n \in 0 .. Len(toHost) : Send(n)
  <2>1. PICK seq : toModule' = Append(toModule, Frame(seq, Command))
    BY <1>2 DEF Send
  <2>2. SetsParameters'
    BY <1>0, <2>1, CommandSets, AppendSets
  <2>3. toModule' # <<>>
    <3>1. toModule \in Seq({toModule[i] : i \in 1 .. Len(toModule)})
      BY <1>0, OfItsItems DEF SetsParameters, OnlySets
    <3>2. Len(toModule') = Len(toModule) + 1 /\ Len(toModule) \in Nat
      BY <2>1, <3>1, AppendProperties
    <3>3. Len(toModule') # 0
      BY <3>2
    <3> QED
      BY <3>3, EmptySeq
  <2> QED
    BY <1>1, <2>2, <2>3 DEF PInv
<1>3. CASE Lose
  <2>1. CASE toModule # <<>> /\ ~promoting /\ toModule' = Tail(toModule)
    BY <1>0, <1>1, <2>1, TailSets DEF PInv
  <2>2. CASE UNCHANGED toModule
    BY <1>0, <2>2, SameKeeps
  <2> QED
    BY <1>3, <2>1, <2>2 DEF Lose
<1> QED
  BY <1>2, <1>3

LEMMA FinishKeeps ==
  ASSUME PInv, FinishCommit
  PROVE  PInv'
<1>1. Sound'
  BY PromoteSound DEF PInv, FinishCommit
<1>2. promoting /\ promoting' = FALSE /\ toModule' = Tail(toModule)
  BY DEF FinishCommit, Promote
<1>3. SetsParameters'
  BY <1>2, TailSets DEF PInv
<1> QED
  BY <1>1, <1>2, <1>3 DEF PInv

LEMMA RestartKeeps ==
  ASSUME PInv, NEW ok \in BOOLEAN, Restart(ok)
  PROVE  PInv'
<1>1. Sound'
  BY StartSound DEF PInv, Restart
<1>2. promoting' = FALSE /\ toModule' = <<>>
  BY DEF Restart, StartParams
<1> QED
  BY <1>1, <1>2, NothingSets DEF PInv, SetsParameters

LEMMA PollKeeps ==
  ASSUME PInv, NEW ok \in BOOLEAN, Poll(ok)
  PROVE  PInv'
<1>1. Sound'
  BY PollSound DEF PInv, Poll
<1>2. UNCHANGED <<toModule, promoting>>
  BY DEF Poll, PollLoad, link
<1> QED
  BY <1>1, <1>2 DEF PInv, SetsParameters, OnlySets, IsSeq

(* The inductive invariant of the parameters and the requests under way.        *)
THEOREM ParamsInvariant == Spec => []PInv
<1>1. Init => PInv
  BY ParamsStart, NothingSets DEF Init, PInv, ParamsInit, SetsParameters
<1>2. PInv /\ [Next]_cvars => PInv'
  <2> SUFFICES ASSUME PInv, [Next]_cvars PROVE PInv'
    OBVIOUS
  <2>1. CASE UNCHANGED cvars
    BY <2>1, SameKeeps DEF cvars, link
  <2>2. CASE Operator
    <3>1. UNCHANGED <<params, toModule>>
      BY <2>2 DEF Operator, Click, Edit, link
    <3> QED
      BY <3>1, SameKeeps
  <2>3. CASE Receive \/ SkipReply \/ Timeout \/ StalePort
    <3>1. UNCHANGED <<params, toModule>>
      BY <2>3 DEF Receive, SkipReply, Timeout, StalePort
    <3> QED
      BY <3>1, SameKeeps
  <2> QED
    BY <2>1, <2>2, <2>3, LinkKeeps, HandleKeeps, FinishKeeps, RestartKeeps, PollKeeps
       DEF Next, Host, Module
<1> QED
  BY <1>1, <1>2, PTL DEF Spec

(* Whatever is refused, fails or is cut off by a reset: the module runs by a    *)
(* set that passes the validation, and between two commits by the one the next  *)
(* start would load.                                                            *)
THEOREM ActiveIsDurable == Spec => []ActiveIsStored
<1>1. PInv => ActiveIsStored
  BY DEF PInv, Sound
<1> QED
  BY <1>1, ParamsInvariant, PTL

--------------------------------------------------------------------------------
(* Sequences                                                                    *)

(* What is left of a sequence when its front is taken away.                     *)
Suffix(t, s) ==
  /\ IsSeq(t) /\ IsSeq(s)
  /\ \E n \in 0 .. Len(s) :
       Len(t) = Len(s) - n /\ \A i \in 1 .. Len(t) : t[i] = s[i + n]

LEMMA TailIs ==
  ASSUME NEW s, IsSeq(s), s # <<>>
  PROVE  /\ Suffix(Tail(s), s) /\ Len(Tail(s)) = Len(s) - 1 /\ Len(s) >= 1
         /\ \A i \in 1 .. Len(s) - 1 : Tail(s)[i] = s[i + 1]
         /\ Head(s) = s[1]
<1> DEFINE T == {s[i] : i \in 1 .. Len(s)}
<1>1. s \in Seq(T)
  BY OfItsItems
<1> HIDE DEF T
<1>2. /\ Tail(s) \in Seq(T) /\ Len(Tail(s)) = Len(s) - 1 /\ Len(s) \in Nat
      /\ \A i \in 1 .. Len(Tail(s)) : Tail(s)[i] = s[i + 1]
  BY <1>1, HeadTailProperties
<1>3. Len(s) # 0
  BY <1>1, EmptySeq
<1>4. IsSeq(Tail(s))
  BY <1>2, IsSeqOf
<1>5. Suffix(Tail(s), s)
  <2>1. 1 \in 0 .. Len(s)
    BY <1>2, <1>3
  <2> QED BY <1>2, <1>4, <2>1 DEF Suffix
<1>6. Head(s) = s[1]
  BY <1>1
<1> QED BY <1>2, <1>3, <1>5, <1>6

LEMMA DropIs ==
  ASSUME NEW s, IsSeq(s), NEW n \in 0 .. Len(s)
  PROVE  /\ Suffix(SubSeq(s, n + 1, Len(s)), s)
         /\ Len(SubSeq(s, n + 1, Len(s))) = Len(s) - n
<1> DEFINE T == {s[i] : i \in 1 .. Len(s)}
           d == SubSeq(s, n + 1, Len(s))
<1>1. s \in Seq(T) /\ Len(s) \in Nat
  BY OfItsItems DEF IsSeq
<1> HIDE DEF T
<1>2. /\ d \in Seq(T) /\ Len(d) = Len(s) - n
      /\ \A i \in 1 .. Len(d) : d[i] = s[i + n]
  <2>1. n \in Nat /\ n <= Len(s)
    BY <1>1
  <2>2. \A i \in n + 1 .. Len(s) : s[i] \in T
    BY <1>1, ElementOfSeq
  <2>3. /\ d \in Seq(T)
        /\ Len(d) = IF n + 1 <= Len(s) THEN Len(s) - (n + 1) + 1 ELSE 0
        /\ \A i \in 1 .. Len(s) - (n + 1) + 1 : d[i] = s[n + 1 + i - 1]
    BY <1>1, <2>1, <2>2, SubSeqProperties
  <2> QED BY <1>1, <2>1, <2>3
<1>3. IsSeq(d)
  BY <1>2, IsSeqOf
<1> HIDE DEF d
<1>4. Suffix(d, s)
  BY <1>2, <1>3 DEF Suffix
<1> QED BY <1>2, <1>4 DEF d

LEMMA AppendIs ==
  ASSUME NEW s, IsSeq(s), NEW e
  PROVE  /\ IsSeq(Append(s, e)) /\ Len(Append(s, e)) = Len(s) + 1
         /\ \A i \in 1 .. Len(s) : Append(s, e)[i] = s[i]
         /\ Append(s, e)[Len(s) + 1] = e
<1> DEFINE S == {s[i] : i \in 1 .. Len(s)}
           T == S \cup {e}
<1>1. s \in Seq(T) /\ e \in T
  <2>1. s \in Seq(S) /\ S \subseteq T
    BY OfItsItems
  <2> HIDE DEF S
  <2> QED BY <2>1, SeqMonotonic
<1> HIDE DEF S, T
<1>2. Append(s, e) \in Seq(T)
  BY <1>1
<1>3. IsSeq(Append(s, e))
  BY <1>2, IsSeqOf
<1> QED BY <1>1, <1>3

LEMMA NothingIs == IsSeq(<<>>) /\ Len(<<>>) = 0
<1>1. Len(<<>>) = 0 /\ <<>> \in Seq({})
  BY EmptySeq
<1> QED BY <1>1, IsSeqOf

LEMMA EmptyIs ==
  ASSUME NEW s, IsSeq(s)
  PROVE  s = <<>> <=> Len(s) = 0
<1>1. s \in Seq({s[i] : i \in 1 .. Len(s)})
  BY OfItsItems
<1> QED BY <1>1, EmptySeq

LEMMA SuffixItself ==
  ASSUME NEW s, IsSeq(s)
  PROVE  Suffix(s, s)
<1>1. 0 \in 0 .. Len(s) /\ Len(s) = Len(s) - 0
  BY DEF IsSeq
<1>2. \A i \in 1 .. Len(s) : s[i] = s[i + 0]
  BY DEF IsSeq
<1> QED BY <1>1, <1>2 DEF Suffix

(* Positions of a suffix are positions of the whole, in the same order.         *)
LEMMA SuffixHas ==
  ASSUME NEW t, NEW s, Suffix(t, s)
  PROVE  /\ IsSeq(t) /\ Len(t) <= Len(s)
         /\ \E n \in Nat : \A i \in 1 .. Len(t) :
              i + n \in 1 .. Len(s) /\ t[i] = s[i + n]
<1>1. PICK n \in 0 .. Len(s) :
        Len(t) = Len(s) - n /\ \A i \in 1 .. Len(t) : t[i] = s[i + n]
  BY DEF Suffix
<1>2. Len(s) \in Nat /\ n \in Nat
  BY DEF Suffix, IsSeq
<1>3. \A i \in 1 .. Len(t) : i + n \in 1 .. Len(s) /\ t[i] = s[i + n]
  BY <1>1, <1>2
<1>4. IsSeq(t) /\ Len(t) <= Len(s)
  BY <1>1, <1>2 DEF Suffix
<1> QED BY <1>2, <1>3, <1>4

--------------------------------------------------------------------------------
(* Frames that are lost, skipped or taken                                       *)

(* What holds of the frames under way holds of those that are left.             *)
LEMMA SuffixPlaces ==
  ASSUME NEW t, NEW s, Suffix(t, s)
  PROVE  \E n \in Nat : \A i \in 1 .. Len(t) : i + n \in 1 .. Len(s) /\ t[i] = s[i + n]
BY SuffixHas

LEMMA TokensLess ==
  ASSUME NEW H, NEW M, NEW H2, NEW M2, Suffix(H2, H), Suffix(M2, M), Tokens(H, M)
  PROVE  Tokens(H2, M2)
<1>1. PICK n \in Nat : \A i \in 1 .. Len(H2) : i + n \in 1 .. Len(H) /\ H2[i] = H[i + n]
  BY SuffixHas
<1>2. PICK m \in Nat : \A k \in 1 .. Len(M2) : k + m \in 1 .. Len(M) /\ M2[k] = M[k + m]
  BY SuffixHas
<1>3. ASSUME NEW i \in 1 .. Len(H2), Offers(H2[i])
      PROVE  /\ H2[i].body.challenge # Held
             /\ \A k \in 1 .. Len(M2) : ~Proves(M2[k], H2[i].body.challenge)
             /\ \A j \in 1 .. Len(H2) : j > i =>
                  /\ Offers(H2[j]) => H2[i].body.challenge # H2[j].body.challenge
                  /\ Offers(H2[j]) => H2[i].body.challenge # challenge
                  /\ H2[j].body.name # "auth_ok"
  <2>1. i + n \in 1 .. Len(H) /\ H2[i] = H[i + n] /\ Offers(H[i + n])
    BY <1>1, <1>3
  <2>2. \A k \in 1 .. Len(M2) : ~Proves(M2[k], H2[i].body.challenge)
    BY <1>2, <2>1 DEF Tokens
  <2>3. ASSUME NEW j \in 1 .. Len(H2), j > i
        PROVE  /\ Offers(H2[j]) => H2[i].body.challenge # H2[j].body.challenge
               /\ Offers(H2[j]) => H2[i].body.challenge # challenge
               /\ H2[j].body.name # "auth_ok"
    <3>1. j + n \in 1 .. Len(H) /\ H2[j] = H[j + n] /\ j + n > i + n
      BY <1>1, <2>3
    <3> QED BY <2>1, <3>1 DEF Tokens
  <2> QED BY <2>1, <2>2, <2>3 DEF Tokens
<1>4. (\A i \in 1 .. Len(H) : ~Offers(H[i])) => \A i \in 1 .. Len(H2) : ~Offers(H2[i])
  BY <1>1
<1>5. ASSUME challenge # 0, NEW k \in 1 .. Len(M2), Proves(M2[k], challenge)
      PROVE  Held \in {0, challenge} /\ \A i \in 1 .. Len(H2) : ~Offers(H2[i])
  BY <1>2, <1>4, <1>5 DEF Tokens
<1> QED BY <1>3, <1>4, <1>5 DEF Tokens

LEMMA BeginsLess ==
  ASSUME NEW H, NEW M, NEW H2, NEW M2, Suffix(H2, H), Suffix(M2, M), Begins(H, M)
  PROVE  Begins(H2, M2)
<1>1. PICK n \in Nat : \A i \in 1 .. Len(H2) : i + n \in 1 .. Len(H) /\ H2[i] = H[i + n]
  BY SuffixHas
<1>2. PICK m \in Nat : \A k \in 1 .. Len(M2) : k + m \in 1 .. Len(M) /\ M2[k] = M[k + m]
  BY SuffixHas
<1>3. Unproved(M) => Unproved(M2)
  BY <1>2 DEF Unproved
<1>4. ASSUME NEW j \in 1 .. Len(H2), H2[j].body.name = "hello_ok"
      PROVE  /\ ~authed /\ Unproved(M2)
             /\ challenge # 0 => Held # challenge
             /\ challenge # 0 =>
                  \A i \in 1 .. Len(H2) :
                    i < j /\ Offers(H2[i]) => H2[i].body.challenge # challenge
  <2>1. j + n \in 1 .. Len(H) /\ H2[j] = H[j + n] /\ H[j + n].body.name = "hello_ok"
    BY <1>1, <1>4
  <2>2. ASSUME challenge # 0, NEW i \in 1 .. Len(H2), i < j, Offers(H2[i])
        PROVE  H2[i].body.challenge # challenge
    <3>1. i + n \in 1 .. Len(H) /\ H2[i] = H[i + n] /\ i + n < j + n
      BY <1>1, <2>2
    <3> QED BY <2>1, <2>2, <3>1 DEF Begins
  <2> QED BY <1>3, <2>1, <2>2 DEF Begins
<1>5. ASSUME NEW k \in 1 .. Len(M2), M2[k].body.name = "begin"
      PROVE  /\ ~authed
             /\ challenge # 0 =>
                  \A l \in 1 .. Len(M2) : l < k => ~Proves(M2[l], challenge)
  <2>1. k + m \in 1 .. Len(M) /\ M2[k] = M[k + m] /\ M[k + m].body.name = "begin"
    BY <1>2, <1>5
  <2>2. ASSUME challenge # 0, NEW l \in 1 .. Len(M2), l < k
        PROVE  ~Proves(M2[l], challenge)
    <3>1. l + m \in 1 .. Len(M) /\ M2[l] = M[l + m] /\ l + m < k + m
      BY <1>2, <2>2
    <3> QED BY <2>1, <2>2, <3>1 DEF Begins
  <2> QED BY <2>1, <2>2 DEF Begins
<1> QED BY <1>3, <1>4, <1>5 DEF Begins

LEMMA ProvingLess ==
  ASSUME NEW H, NEW M, NEW H2, NEW M2, Suffix(H2, H), Suffix(M2, M), Proving(H, M)
  PROVE  Proving(H2, M2)
<1>1. PICK n \in Nat : \A i \in 1 .. Len(H2) : i + n \in 1 .. Len(H) /\ H2[i] = H[i + n]
  BY SuffixHas
<1>2. PICK m \in Nat : \A k \in 1 .. Len(M2) : k + m \in 1 .. Len(M) /\ M2[k] = M[k + m]
  BY SuffixHas
<1> SUFFICES ASSUME op # Idle, op.step = "prove" PROVE Proving(H2, M2)
  BY DEF Proving
<1>3. ASSUME NEW i \in 1 .. Len(H2), H2[i].body.name = "auth_ok"
      PROVE  /\ challenge = 0 /\ session # 0
             /\ \A k \in 1 .. Len(M2) : Late(M2[k])
             /\ \A j \in 1 .. Len(H2) : j > i =>
                  H2[j].body.name \notin Success \cup {"hello_required"}
  <2>1. i + n \in 1 .. Len(H) /\ H2[i] = H[i + n] /\ H[i + n].body.name = "auth_ok"
    BY <1>1, <1>3
  <2>2. ASSUME NEW j \in 1 .. Len(H2), j > i
        PROVE  H2[j].body.name \notin Success \cup {"hello_required"}
    <3>1. j + n \in 1 .. Len(H) /\ H2[j] = H[j + n] /\ j + n > i + n
      BY <1>1, <2>2
    <3> QED BY <2>1, <3>1 DEF Proving
  <2>3. \A k \in 1 .. Len(M) : Late(M[k])
    BY <2>1 DEF Proving
  <2> QED BY <1>2, <2>1, <2>2, <2>3 DEF Proving
<1>4. ASSUME NEW k \in 1 .. Len(M2), Proves(M2[k], op.challenge),
             NEW l \in 1 .. Len(M2), l > k
      PROVE  Late(M2[l])
  <2>1. /\ k + m \in 1 .. Len(M) /\ M2[k] = M[k + m]
        /\ l + m \in 1 .. Len(M) /\ M2[l] = M[l + m] /\ l + m > k + m
    BY <1>2, <1>4
  <2> QED BY <1>4, <2>1 DEF Proving
<1> QED BY <1>3, <1>4 DEF Proving

LEMMA WritingLess ==
  ASSUME NEW H, NEW M, NEW H2, NEW M2, Suffix(H2, H), Suffix(M2, M), Writing(H, M)
  PROVE  Writing(H2, M2)
<1>1. PICK n \in Nat : \A i \in 1 .. Len(H2) : i + n \in 1 .. Len(H) /\ H2[i] = H[i + n]
  BY SuffixHas
<1>2. PICK m \in Nat : \A k \in 1 .. Len(M2) : k + m \in 1 .. Len(M) /\ M2[k] = M[k + m]
  BY SuffixHas
<1>3. Forgets(H2) => Forgets(H)
  BY <1>1 DEF Forgets
<1>4. (\A i \in 1 .. Len(H) : ~Succeeds(H[i])) => \A i \in 1 .. Len(H2) : ~Succeeds(H2[i])
  BY <1>1
<1>5. (\A k \in 1 .. Len(M) : Late(M[k]) \/ M[k].body = Wanted)
        => \A k \in 1 .. Len(M2) : Late(M2[k]) \/ M2[k].body = Wanted
  BY <1>2
<1> QED BY <1>3, <1>4, <1>5 DEF Writing

LEMMA NumberedLess ==
  ASSUME NEW H, NEW M, NEW H2, NEW M2, Suffix(H2, H), Suffix(M2, M), Numbered(H, M)
  PROVE  Numbered(H2, M2)
<1>1. PICK n \in Nat : \A i \in 1 .. Len(H2) : i + n \in 1 .. Len(H) /\ H2[i] = H[i + n]
  BY SuffixHas
<1>2. PICK m \in Nat : \A k \in 1 .. Len(M2) : k + m \in 1 .. Len(M) /\ M2[k] = M[k + m]
  BY SuffixHas
<1>3. AboveOne(H, M) => AboveOne(H2, M2)
  BY <1>1, <1>2 DEF AboveOne
<1>4. NoneYet(H, M) => NoneYet(H2, M2)
  BY <1>1, <1>2 DEF NoneYet
<1>5. ASSUME NEW s, LastIs(H, M, s)
      PROVE  LastIs(H2, M2, s)
  <2>1. ASSUME NEW k \in 1 .. Len(M2), IsWrite(M2[k]), M2[k].seq = s,
               NEW l \in 1 .. Len(M2), l > k
        PROVE  ~IsWrite(M2[l])
    <3>1. /\ k + m \in 1 .. Len(M) /\ M2[k] = M[k + m]
          /\ l + m \in 1 .. Len(M) /\ M2[l] = M[l + m] /\ l + m > k + m
      BY <1>2, <2>1
    <3> QED BY <1>5, <2>1, <3>1 DEF LastIs
  <2>2. ASSUME NEW i \in 1 .. Len(H2), Succeeds(H2[i]), H2[i].seq = s
        PROVE  /\ \A j \in 1 .. Len(H2) : j > i => ~Succeeds(H2[j])
               /\ \A k \in 1 .. Len(M2) : ~IsWrite(M2[k])
    <3>1. i + n \in 1 .. Len(H) /\ Succeeds(H[i + n]) /\ H[i + n].seq = s
      BY <1>1, <2>2
    <3>2. \A k \in 1 .. Len(M2) : ~IsWrite(M2[k])
      BY <1>2, <1>5, <3>1 DEF LastIs
    <3>3. ASSUME NEW j \in 1 .. Len(H2), j > i
          PROVE  ~Succeeds(H2[j])
      <4>1. j + n \in 1 .. Len(H) /\ H2[j] = H[j + n] /\ j + n > i + n
        BY <1>1, <3>3
      <4> QED BY <1>5, <3>1, <4>1 DEF LastIs
    <3> QED BY <3>2, <3>3
  <2> QED BY <2>1, <2>2 DEF LastIs
<1> QED BY <1>3, <1>4, <1>5 DEF Numbered

LEMMA MeantLess ==
  ASSUME NEW H, NEW H2, Suffix(H2, H), Meant(H)
  PROVE  Meant(H2)
<1>1. PICK n \in Nat : \A i \in 1 .. Len(H2) : i + n \in 1 .. Len(H) /\ H2[i] = H[i + n]
  BY SuffixHas
<1>2. (\E i \in 1 .. Len(H2) : Succeeds(H2[i])) => \E i \in 1 .. Len(H) : Succeeds(H[i])
  BY <1>1
<1> QED BY <1>2 DEF Meant

LEMMA KeptLess ==
  ASSUME NEW M, NEW M2, Suffix(M2, M), Kept(M)
  PROVE  Kept(M2)
<1>1. PICK m \in Nat : \A k \in 1 .. Len(M2) : k + m \in 1 .. Len(M) /\ M2[k] = M[k + m]
  BY SuffixHas
<1>2. ASSUME NEW p \in accepted, NEW k \in 1 .. Len(M2), M2[k].body.name = "set"
      PROVE  M2[k].body.p # p
  BY <1>1, <1>2 DEF Kept
<1>3. (\A k \in 1 .. Len(M) : ~IsWrite(M[k])) => \A k \in 1 .. Len(M2) : ~IsWrite(M2[k])
  BY <1>1
<1>4. (\A k \in 1 .. Len(M) : M[k].body.name # "revert")
        => \A k \in 1 .. Len(M2) : M2[k].body.name # "revert"
  BY <1>1
<1> QED BY <1>2, <1>3, <1>4 DEF Kept

LEMMA ExchangeLess ==
  ASSUME NEW H, NEW M, NEW H2, NEW M2, Suffix(H2, H), Suffix(M2, M), Exchange(H, M)
  PROVE  Exchange(H2, M2)
BY TokensLess, BeginsLess, ProvingLess, WritingLess, NumberedLess, MeantLess, KeptLess
   DEF Exchange

LEMMA TypedLess ==
  ASSUME NEW H, NEW M, NEW H2, NEW M2, Suffix(H2, H), Suffix(M2, M), AllAnswer(H), AllAsk(M)
  PROVE  AllAnswer(H2) /\ AllAsk(M2)
<1>1. AllAnswer(H2)
  <2>1. PICK n \in Nat : \A i \in 1 .. Len(H2) : i + n \in 1 .. Len(H) /\ H2[i] = H[i + n]
    BY SuffixPlaces
  <2> QED BY <2>1, SuffixHas DEF AllAnswer
<1>2. AllAsk(M2)
  <2>1. PICK m \in Nat : \A k \in 1 .. Len(M2) : k + m \in 1 .. Len(M) /\ M2[k] = M[k + m]
    BY SuffixPlaces
  <2> QED BY <2>1, SuffixHas DEF AllAsk
<1> QED BY <1>1, <1>2

--------------------------------------------------------------------------------
(* Calls                                                                        *)

(* The operations on the call in progress, field by field.                      *)
Becomes(q, o, step, todo, phase, attempt, seq, session0, challenge0) ==
  q = [kind |-> o.kind, step |-> step, todo |-> todo, phase |-> phase,
       attempt |-> attempt, seq |-> seq, session |-> session0, challenge |-> challenge0]

LEMMA CallChanges ==
  ASSUME IsCall(op)
  PROVE  /\ \A step, todo :
              Becomes(Proceed(step, todo), op, step, todo, "command", 1, 0,
                      op.session, op.challenge)
         /\ \A step, todo, n :
              Becomes([Proceed(step, todo) EXCEPT !.session = n], op, step, todo,
                      "command", 1, 0, n, op.challenge)
         /\ \A step, todo, n :
              Becomes([Proceed(step, todo) EXCEPT !.challenge = n], op, step, todo,
                      "command", 1, 0, op.session, n)
         /\ \A step, todo, n, m :
              Becomes([Proceed(step, todo) EXCEPT !.session = n, !.challenge = m], op,
                      step, todo, "command", 1, 0, n, m)
         /\ \A todo :
              Becomes([op EXCEPT !.todo = todo, !.seq = 0, !.attempt = 1,
                                 !.phase = "command"], op, op.step, todo, "command", 1,
                      0, op.session, op.challenge)
         /\ Becomes([op EXCEPT !.attempt = @ + 1, !.seq = 0, !.phase = "command"], op,
                    op.step, op.todo, "command", op.attempt + 1, 0, op.session,
                    op.challenge)
         /\ \A phase :
              Becomes([op EXCEPT !.phase = phase, !.seq = 0], op, op.step, op.todo,
                      phase, op.attempt, 0, op.session, op.challenge)
         /\ \A seq :
              Becomes([op EXCEPT !.seq = seq], op, op.step, op.todo, op.phase,
                      op.attempt, seq, op.session, op.challenge)
<1> DEFINE k == op.kind
           s == op.step
           t == op.todo
           p == op.phase
           a == op.attempt
           n0 == op.seq
           e == op.session
           c == op.challenge
<1>1. op = [kind |-> k, step |-> s, todo |-> t, phase |-> p, attempt |-> a, seq |-> n0,
            session |-> e, challenge |-> c]
  BY DEF IsCall
<1> HIDE DEF k, s, t, p, a, n0, e, c
<1>2. ASSUME NEW step, NEW todo
      PROVE  Proceed(step, todo) =
               [kind |-> k, step |-> step, todo |-> todo, phase |-> "command",
                attempt |-> 1, seq |-> 0, session |-> e, challenge |-> c]
  <2> DEFINE o1 == [op EXCEPT !.step = step]
             o2 == [o1 EXCEPT !.todo = todo]
             o3 == [o2 EXCEPT !.seq = 0]
             o4 == [o3 EXCEPT !.attempt = 1]
  <2>1. Proceed(step, todo) = [o4 EXCEPT !.phase = "command"]
    BY Zenon DEF Proceed
  <2>2. o1 = [kind |-> k, step |-> step, todo |-> t, phase |-> p, attempt |-> a,
              seq |-> n0, session |-> e, challenge |-> c]
    BY <1>1
  <2> HIDE DEF o1
  <2>3. o2 = [kind |-> k, step |-> step, todo |-> todo, phase |-> p, attempt |-> a,
              seq |-> n0, session |-> e, challenge |-> c]
    BY <2>2
  <2> HIDE DEF o2
  <2>4. o3 = [kind |-> k, step |-> step, todo |-> todo, phase |-> p, attempt |-> a,
              seq |-> 0, session |-> e, challenge |-> c]
    BY <2>3
  <2> HIDE DEF o3
  <2>5. o4 = [kind |-> k, step |-> step, todo |-> todo, phase |-> p, attempt |-> 1,
              seq |-> 0, session |-> e, challenge |-> c]
    BY <2>4
  <2> HIDE DEF o4
  <2> QED BY <2>1, <2>5
<1>3. \A step, todo, n : [Proceed(step, todo) EXCEPT !.session = n] =
        [kind |-> k, step |-> step, todo |-> todo, phase |-> "command", attempt |-> 1,
         seq |-> 0, session |-> n, challenge |-> c]
  BY <1>2
<1>4. \A step, todo, n : [Proceed(step, todo) EXCEPT !.challenge = n] =
        [kind |-> k, step |-> step, todo |-> todo, phase |-> "command", attempt |-> 1,
         seq |-> 0, session |-> e, challenge |-> n]
  BY <1>2
<1>5. ASSUME NEW step, NEW todo, NEW n, NEW m
      PROVE  [Proceed(step, todo) EXCEPT !.session = n, !.challenge = m] =
               [kind |-> k, step |-> step, todo |-> todo, phase |-> "command",
                attempt |-> 1, seq |-> 0, session |-> n, challenge |-> m]
  <2> DEFINE o1 == [Proceed(step, todo) EXCEPT !.session = n]
  <2>1. [Proceed(step, todo) EXCEPT !.session = n, !.challenge = m]
          = [o1 EXCEPT !.challenge = m]
    BY Zenon
  <2>2. o1 = [kind |-> k, step |-> step, todo |-> todo, phase |-> "command",
              attempt |-> 1, seq |-> 0, session |-> n, challenge |-> c]
    BY <1>3
  <2> HIDE DEF o1
  <2> QED BY <2>1, <2>2
<1>6. ASSUME NEW todo
      PROVE  [op EXCEPT !.todo = todo, !.seq = 0, !.attempt = 1, !.phase = "command"] =
               [kind |-> k, step |-> s, todo |-> todo, phase |-> "command",
                attempt |-> 1, seq |-> 0, session |-> e, challenge |-> c]
  <2> DEFINE o1 == [op EXCEPT !.todo = todo]
             o2 == [o1 EXCEPT !.seq = 0]
             o3 == [o2 EXCEPT !.attempt = 1]
  <2>1. [op EXCEPT !.todo = todo, !.seq = 0, !.attempt = 1, !.phase = "command"]
          = [o3 EXCEPT !.phase = "command"]
    BY Zenon
  <2>2. o1 = [kind |-> k, step |-> s, todo |-> todo, phase |-> p, attempt |-> a,
              seq |-> n0, session |-> e, challenge |-> c]
    BY <1>1
  <2> HIDE DEF o1
  <2>3. o2 = [kind |-> k, step |-> s, todo |-> todo, phase |-> p, attempt |-> a,
              seq |-> 0, session |-> e, challenge |-> c]
    BY <2>2
  <2> HIDE DEF o2
  <2>4. o3 = [kind |-> k, step |-> s, todo |-> todo, phase |-> p, attempt |-> 1,
              seq |-> 0, session |-> e, challenge |-> c]
    BY <2>3
  <2> HIDE DEF o3
  <2> QED BY <2>1, <2>4
<1>7. [op EXCEPT !.attempt = @ + 1, !.seq = 0, !.phase = "command"] =
        [kind |-> k, step |-> s, todo |-> t, phase |-> "command", attempt |-> a + 1,
         seq |-> 0, session |-> e, challenge |-> c]
  <2> DEFINE o1 == [op EXCEPT !.attempt = @ + 1]
             o2 == [o1 EXCEPT !.seq = 0]
  <2>1. [op EXCEPT !.attempt = @ + 1, !.seq = 0, !.phase = "command"]
          = [o2 EXCEPT !.phase = "command"]
    BY Zenon
  <2>2. o1 = [kind |-> k, step |-> s, todo |-> t, phase |-> p, attempt |-> a + 1,
              seq |-> n0, session |-> e, challenge |-> c]
    BY <1>1
  <2> HIDE DEF o1
  <2>3. o2 = [kind |-> k, step |-> s, todo |-> t, phase |-> p, attempt |-> a + 1,
              seq |-> 0, session |-> e, challenge |-> c]
    BY <2>2
  <2> HIDE DEF o2
  <2> QED BY <2>1, <2>3
<1>8. ASSUME NEW phase
      PROVE  [op EXCEPT !.phase = phase, !.seq = 0] =
               [kind |-> k, step |-> s, todo |-> t, phase |-> phase, attempt |-> a,
                seq |-> 0, session |-> e, challenge |-> c]
  <2> DEFINE o1 == [op EXCEPT !.phase = phase]
  <2>1. [op EXCEPT !.phase = phase, !.seq = 0] = [o1 EXCEPT !.seq = 0]
    BY Zenon
  <2>2. o1 = [kind |-> k, step |-> s, todo |-> t, phase |-> phase, attempt |-> a,
              seq |-> n0, session |-> e, challenge |-> c]
    BY <1>1
  <2> HIDE DEF o1
  <2> QED BY <2>1, <2>2
<1>9. \A seq : [op EXCEPT !.seq = seq] =
        [kind |-> k, step |-> s, todo |-> t, phase |-> p, attempt |-> a,
         seq |-> seq, session |-> e, challenge |-> c]
  BY <1>1
<1> QED BY <1>2, <1>3, <1>4, <1>5, <1>6, <1>7, <1>8, <1>9
           DEF Becomes, k, s, t, p, a, n0, e, c

LEMMA BecomesFields ==
  ASSUME NEW q, NEW o, NEW step, NEW todo, NEW phase, NEW attempt, NEW seq,
         NEW session0, NEW challenge0,
         Becomes(q, o, step, todo, phase, attempt, seq, session0, challenge0)
  PROVE  /\ q.kind = o.kind /\ q.step = step /\ q.todo = todo /\ q.phase = phase
         /\ q.attempt = attempt /\ q.seq = seq /\ q.session = session0
         /\ q.challenge = challenge0
         /\ q = [kind |-> q.kind, step |-> q.step, todo |-> q.todo, phase |-> q.phase,
                 attempt |-> q.attempt, seq |-> q.seq, session |-> q.session,
                 challenge |-> q.challenge]
BY DEF Becomes

LEMMA KindIsCall ==
  ASSUME NEW o, IsCall(o)
  PROVE  o # Idle
<1>1. o.kind # "idle"
  BY DEF IsCall
<1> QED BY <1>1 DEF Idle

--------------------------------------------------------------------------------
(* Steps that leave the exchange alone, and calls that have not yet begun or    *)
(* have nothing to write                                                        *)

(* The frames under way move, and nothing that the exchange is about changes.   *)
LEMMA SameExchange ==
  ASSUME Exchange(toHost', toModule'),
         UNCHANGED <<op, edited, applied, result, accepted, port, params, auth>>
  PROVE  Exchange(toHost, toModule)'
<1> USE DEF auth, params, Exchange
<1>1. Tokens(toHost, toModule)'
  BY DEF Tokens, Held
<1>2. Begins(toHost, toModule)'
  BY DEF Begins, Unproved, Held
<1>3. Proving(toHost, toModule)'
  BY DEF Proving
<1>4. Writing(toHost, toModule)'
  BY DEF Writing, Acting, Wanted, Forgets
<1>5. Numbered(toHost, toModule)'
  BY DEF Numbered, Acting, Ready, Awaited
<1>6. Meant(toHost)'
  BY DEF Meant, Acting, InForce
<1>7. Kept(toModule)'
  BY DEF Kept, InForce
<1> QED BY <1>1, <1>2, <1>3, <1>4, <1>5, <1>6, <1>7

LEMMA KeptFewer ==
  ASSUME Kept(toModule'), accepted' \subseteq accepted, applied' = applied,
         UNCHANGED params, result' # "committed"
  PROVE  Kept(toModule)'
<1>1. /\ staging' = staging /\ loadPending' = loadPending
  BY DEF params
<1>2. \A p \in accepted' :
        /\ staging'[p] = applied'[p]
        /\ \A k \in 1 .. Len(toModule') :
             toModule'[k].body.name = "set" => toModule'[k].body.p # p
  BY <1>1 DEF Kept
<1>3. accepted' # {} => accepted # {}
  OBVIOUS
<1> QED BY <1>1, <1>2, <1>3 DEF Kept

Plain == op = Idle \/ (op.step \in {"hello", "read", "bye"} /\ op.challenge = 0)

LEMMA PlainExchange ==
  ASSUME Exchange(toHost', toModule'), AllAnswer(toHost'), Plain',
         UNCHANGED auth, Kept(toModule)'
  PROVE  Exchange(toHost, toModule)'
<1>0. /\ session' = session /\ authed' = authed /\ challenge' = challenge
      /\ Held' = 0
  BY DEF auth, Plain, Held
<1>1. Tokens(toHost, toModule)'
  <2>1. ASSUME NEW i \in 1 .. Len(toHost'), Offers(toHost'[i])
        PROVE  toHost'[i].body.challenge # 0
    BY <2>1 DEF AllAnswer, Answers, Offers
  <2> QED BY <1>0, <2>1 DEF Exchange, Tokens
<1>2. Begins(toHost, toModule)'
  BY <1>0 DEF Exchange, Begins, Unproved, Plain
<1>3. Proving(toHost, toModule)'
  BY DEF Proving, Plain
<1>4. Acting' = FALSE
  BY DEF Acting, Plain, Writes
<1>5. /\ Writing(toHost, toModule)' /\ Numbered(toHost, toModule)' /\ Meant(toHost)'
  BY <1>4 DEF Writing, Numbered, Meant
<1> QED BY <1>1, <1>2, <1>3, <1>5 DEF Exchange

(* While a call is in progress nothing is reported as committed.                *)
LEMMA CallReportsNothing ==
  ASSUME NEW M, Kept(M), op # Idle
  PROVE  result # "committed"
BY DEF Kept

LEMMA ClickCall ==
  ASSUME NEW kind \in {"detect", "bye", "apply", "commit", "revert"}, NEW todo,
         todo \subseteq Param, kind \in {"detect", "apply"} => todo # {}
  PROVE  /\ IsCall(Call(kind, todo)) /\ Call(kind, todo).kind = kind
         /\ Call(kind, todo).todo = todo /\ Call(kind, todo).seq = 0
         /\ Call(kind, todo).challenge = 0
         /\ Call(kind, todo).step \in {"hello", "bye"}
<1> DEFINE s == IF kind = "bye" THEN "bye" ELSE "hello"
           o == Call(kind, todo)
<1>1. s \in {"hello", "bye"} /\ s \in StepsOf[kind]
  BY DEF StepsOf
<1> HIDE DEF s
<1>2. o = [kind |-> kind, step |-> s, todo |-> todo, phase |-> "command", attempt |-> 1,
           seq |-> 0, session |-> 0, challenge |-> 0]
  BY DEF Call, s
<1> HIDE DEF o
<1>3. 1 <= AttemptsOf(s)
  BY BoundsAssumption DEF AttemptsOf
<1>4. /\ o.kind = kind /\ o.step = s /\ o.todo = todo /\ o.phase = "command"
      /\ o.attempt = 1 /\ o.seq = 0 /\ o.session = 0 /\ o.challenge = 0
  BY <1>2
<1>5. o = [kind |-> o.kind, step |-> o.step, todo |-> o.todo, phase |-> o.phase,
           attempt |-> o.attempt, seq |-> o.seq, session |-> o.session,
           challenge |-> o.challenge]
  BY <1>2
<1>6. IsCall(o)
  <2>1. o.challenge # 0 <=> o.step = "prove"
    BY <1>1, <1>4
  <2>2. o.seq \in 0 .. MaxSeq /\ o.attempt \in Nat
    BY <1>4, BoundsAssumption
  <2> QED BY <1>1, <1>3, <1>4, <1>5, <2>1, <2>2 DEF IsCall
<1> QED BY <1>1, <1>4, <1>6 DEF o

LEMMA OperatorReports ==
  ASSUME RInv, Operator
  PROVE  RInv'
<1>0. /\ LinkTyped /\ TabTyped /\ Bounded /\ Exchange(toHost, toModule) /\ AllAnswer(toHost)
      /\ UNCHANGED <<params, rows, applied, link, auth, accepted>>
      /\ UNCHANGED <<toModule, toHost, port, promoting>>
  BY DEF RInv, LinkTyped, Operator, Click, Edit, link, params
<1>1. PInv'
  BY <1>0, SameKeeps DEF RInv
<1>2. LinkTyped'
  BY <1>0 DEF LinkTyped, auth
<1>3. op = Idle
  BY DEF Operator, Click, Edit
<1>4. CASE \E p \in Param : \E v \in InRange[p] : Edit(p, v)
  <2>0. PICK p \in Param : \E v \in InRange[p] : Edit(p, v)
    BY <1>4
  <2>1. PICK v \in InRange[p] : Edit(p, v)
    BY <2>0
  <2>2. edited' = [edited EXCEPT ![p] = v] /\ op' = op /\ result' = result
        /\ count' = [count EXCEPT !.edits = @ + 1]
    BY <2>1 DEF Edit, Used
  <2>3. edited' \in Settings
    <3>1. edited = [start |-> edited.start, stop |-> edited.stop]
          /\ edited.start \in StartRange /\ edited.stop \in StopRange
      BY <1>0 DEF TabTyped, Settings
    <3>2. CASE p = "start"
      BY <2>0, <2>1, <2>2, <3>1, <3>2 DEF InRange, Settings
    <3>3. CASE p = "stop"
      BY <2>0, <2>1, <2>2, <3>1, <3>3 DEF InRange, Settings
    <3> QED BY <2>0, <3>2, <3>3 DEF Param
  <2>4. TabTyped' /\ OpTyped'
    BY <1>0, <1>3, <2>2, <2>3 DEF TabTyped, OpTyped
  <2>5. Bounded'
    <3>1. /\ count' = [clicks |-> count'.clicks, edits |-> count'.edits, faults |-> count'.faults]
          /\ count'.faults = count.faults
      BY <1>0, <2>2 DEF Bounded
    <3>2. Waiting' = Waiting
      BY <2>2 DEF Waiting
    <3> QED BY <1>0, <3>1, <3>2 DEF Bounded, Crowd
  <2>6. Kept(toModule)'
    BY <1>0, <2>2 DEF Exchange, Kept, InForce, params
  <2>7. Exchange(toHost, toModule)'
    BY <1>0, <1>3, <2>2, <2>6, PlainExchange DEF Plain
  <2> QED BY <1>1, <1>2, <2>4, <2>5, <2>7 DEF RInv
<1>5. CASE \E kind \in {"detect", "bye", "apply", "commit", "revert"}, todo \in {Param, {}, Dirty} :
             /\ Click(kind, todo)
             /\ kind = "detect" => todo = Param
             /\ kind = "apply" => todo = Dirty /\ Dirty # {}
  <2>1. PICK kind \in {"detect", "bye", "apply", "commit", "revert"}, todo \in {Param, {}, Dirty} :
             /\ Click(kind, todo)
             /\ kind = "detect" => todo = Param
             /\ kind = "apply" => todo = Dirty /\ Dirty # {}
    BY <1>5
  <2>2. op' = Call(kind, todo) /\ result' = "none" /\ edited' = edited
        /\ count' = [count EXCEPT !.clicks = @ + 1]
    BY <2>1 DEF Click, Used
  <2>3. todo \subseteq Param /\ (kind \in {"detect", "apply"} => todo # {})
        /\ (kind = "apply" => todo \subseteq rows)
    BY <1>0, <2>1 DEF TabTyped, Dirty, Param
  <2>4. /\ IsCall(op') /\ op'.kind = kind /\ op'.todo = todo /\ op'.seq = 0
        /\ op'.challenge = 0 /\ op'.step \in {"hello", "bye"}
    BY <2>1, <2>2, <2>3, ClickCall
  <2>5. TabTyped'
    BY <1>0, <2>2 DEF TabTyped
  <2>6. OpTyped'
    BY <1>0, <2>3, <2>4 DEF OpTyped
  <2>7. Bounded'
    <3>1. /\ count' = [clicks |-> count'.clicks, edits |-> count'.edits, faults |-> count'.faults]
          /\ count'.faults = count.faults
      BY <1>0, <2>2 DEF Bounded
    <3>2. ~Waiting /\ ~Waiting'
      BY <1>3, <2>4 DEF Waiting
    <3> QED BY <1>0, <3>1, <3>2 DEF Bounded, Crowd
  <2>8. Kept(toModule)'
    <3>1. Kept(toModule')
      BY <1>0 DEF Exchange
    <3> QED BY <1>0, <2>2, <3>1, KeptFewer
  <2>9. Exchange(toHost, toModule)'
    BY <1>0, <2>4, <2>8, PlainExchange DEF Plain
  <2> QED BY <1>1, <1>2, <2>5, <2>6, <2>7, <2>9 DEF RInv
<1> QED BY <1>4, <1>5 DEF Operator

--------------------------------------------------------------------------------
(* Losses, resets and the retry of an unread store                              *)

LEMMA SameStages ==
  ASSUME Exchange(toHost', toModule'), UNCHANGED <<op, edited, port, auth>>
  PROVE  /\ Tokens(toHost, toModule)' /\ Begins(toHost, toModule)'
         /\ Proving(toHost, toModule)' /\ Writing(toHost, toModule)'
         /\ Numbered(toHost, toModule)'
<1> USE DEF auth, Exchange
<1>1. Tokens(toHost, toModule)'
  BY DEF Tokens, Held
<1>2. Begins(toHost, toModule)'
  BY DEF Begins, Unproved, Held
<1>3. Proving(toHost, toModule)'
  BY DEF Proving
<1>4. Writing(toHost, toModule)'
  BY DEF Writing, Acting, Wanted, Forgets
<1>5. Numbered(toHost, toModule)'
  BY DEF Numbered, Acting, Ready, Awaited
<1> QED BY <1>1, <1>2, <1>3, <1>4, <1>5

LEMMA LinkShrinks ==
  ASSUME RInv, PInv', Suffix(toHost', toHost), Suffix(toModule', toModule),
         UNCHANGED <<params, host, port, auth, accepted, count>>,
         ~promoting \/ UNCHANGED toModule
  PROVE  RInv'
<1>0. LinkTyped /\ TabTyped /\ OpTyped /\ Bounded /\ Exchange(toHost, toModule)
  BY DEF RInv
<1>1. promoting' = promoting
      /\ UNCHANGED <<op, edited, applied, result, rows>>
  BY DEF params, host
<1>2. LinkTyped'
  <2>1. AllAnswer(toHost') /\ AllAsk(toModule')
    BY <1>0, TypedLess DEF LinkTyped
  <2> QED BY <1>0, <1>1, <2>1 DEF LinkTyped, auth
<1>3. TabTyped' /\ OpTyped'
  BY <1>0, <1>1 DEF TabTyped, OpTyped
<1>4. Bounded'
  <2>1. Len(toHost') <= Len(toHost) /\ Len(toModule') <= Len(toModule)
    BY SuffixHas
  <2>2. /\ Len(toHost') \in Nat /\ Len(toModule') \in Nat
        /\ Len(toHost) \in Nat /\ Len(toModule) \in Nat
    BY <1>0, <1>2 DEF LinkTyped, AllAsk, AllAnswer, IsSeq
  <2>3. Crowd' = Crowd /\ Crowd \in Nat
    BY <1>0, <1>1, BoundsAssumption DEF Crowd, Waiting, Bounded
  <2> QED BY <1>0, <2>1, <2>2, <2>3 DEF Bounded
<1>5. Exchange(toHost, toModule)'
  <2>1. Exchange(toHost', toModule')
    BY <1>0, ExchangeLess
  <2> QED BY <1>1, <2>1, SameExchange
<1> QED BY <1>2, <1>3, <1>4, <1>5 DEF RInv

LEMMA LinkIs ==
  ASSUME RInv
  PROVE  IsSeq(toModule) /\ IsSeq(toHost) /\ AllAsk(toModule) /\ AllAnswer(toHost)
BY DEF RInv, LinkTyped, AllAsk, AllAnswer

LEMMA LossReports ==
  ASSUME RInv, Lose \/ SkipReply \/ UNCHANGED cvars
  PROVE  RInv'
<1>0. IsSeq(toModule) /\ IsSeq(toHost)
  BY LinkIs
<1>1. UNCHANGED <<params, host, port, auth, accepted, count>>
  BY DEF Lose, SkipReply, cvars, link
<1>2. PInv'
  <2>1. CASE Lose
    BY <2>1, LinkKeeps DEF RInv
  <2>2. CASE SkipReply
    BY <2>2, SameKeeps DEF RInv, SkipReply
  <2>3. CASE UNCHANGED cvars
    BY <2>3, SameKeeps DEF RInv, cvars, link
  <2> QED BY <2>1, <2>2, <2>3
<1>3. /\ Suffix(toHost', toHost) /\ Suffix(toModule', toModule)
      /\ ~promoting \/ UNCHANGED toModule
  <2>1. CASE UNCHANGED <<toModule, toHost>>
    BY <1>0, <2>1, SuffixItself
  <2>2. CASE toModule # <<>> /\ ~promoting /\ toModule' = Tail(toModule) /\ UNCHANGED toHost
    BY <1>0, <2>2, SuffixItself, TailIs
  <2>3. CASE toHost # <<>> /\ toHost' = Tail(toHost) /\ UNCHANGED toModule
    BY <1>0, <2>3, SuffixItself, TailIs
  <2> QED BY <2>1, <2>2, <2>3 DEF Lose, SkipReply, cvars, link
<1> QED BY <1>1, <1>2, <1>3, LinkShrinks

(* One more fault, within the bound.                                            *)
LEMMA FaultCounts ==
  ASSUME count = [clicks |-> count.clicks, edits |-> count.edits, faults |-> count.faults],
         count.faults \in 0 .. MaxFaults, FaultHappens
  PROVE  /\ count' = [clicks |-> count'.clicks, edits |-> count'.edits, faults |-> count'.faults]
         /\ count'.faults = count.faults + 1 /\ count'.faults \in 0 .. MaxFaults
<1>1. count' = [count EXCEPT !.faults = @ + 1] /\ count.faults < MaxFaults
  BY DEF FaultHappens, Used
<1>2. /\ count' = [clicks |-> count'.clicks, edits |-> count'.edits, faults |-> count'.faults]
      /\ count'.faults = count.faults + 1
  BY <1>1
<1> QED BY <1>1, <1>2, BoundsAssumption

LEMMA PollReports ==
  ASSUME RInv, NEW ok \in BOOLEAN, Poll(ok)
  PROVE  RInv'
<1>0. LinkTyped /\ TabTyped /\ OpTyped /\ Bounded /\ Exchange(toHost, toModule)
  BY DEF RInv
<1>1. /\ UNCHANGED <<host, link, auth, accepted>> /\ UNCHANGED promoting
      /\ loadPending
  BY DEF Poll, PollLoad
<1>2. UNCHANGED <<op, edited, applied, result, rows, port, toModule, toHost, auth, accepted>>
  BY <1>1 DEF host, link
<1>3. PInv'
  BY PollKeeps DEF RInv
<1>4. LinkTyped' /\ TabTyped' /\ OpTyped'
  BY <1>0, <1>1, <1>2 DEF LinkTyped, TabTyped, OpTyped, auth
<1>5. Bounded'
  <2>1. Len(toModule) \in Nat /\ Len(toHost) \in Nat
    BY LinkIs DEF IsSeq
  <2>2. /\ count' = [clicks |-> count'.clicks, edits |-> count'.edits, faults |-> count'.faults]
        /\ count'.faults \in {count.faults, count.faults + 1} /\ count'.faults \in 0 .. MaxFaults
    BY <1>0, FaultCounts DEF Poll, Reachable, Bounded
  <2>3. Waiting' = Waiting
    BY <1>2 DEF Waiting
  <2> QED BY <1>0, <1>2, <2>1, <2>2, <2>3, BoundsAssumption DEF Bounded, Crowd
<1>6. Exchange(toHost, toModule)'
  <2>1. Exchange(toHost', toModule')
    BY <1>0, <1>2
  <2>2. /\ Tokens(toHost, toModule)' /\ Begins(toHost, toModule)'
        /\ Proving(toHost, toModule)' /\ Writing(toHost, toModule)'
        /\ Numbered(toHost, toModule)'
    BY <1>2, <2>1, SameStages
  <2>3. Meant(toHost)'
    BY <1>0, <1>1, <1>2 DEF Exchange, Meant, Acting
  <2>4. Kept(toModule)'
    BY <1>0, <1>1, <1>2 DEF Exchange, Kept
  <2> QED BY <2>2, <2>3, <2>4 DEF Exchange
<1> QED BY <1>3, <1>4, <1>5, <1>6 DEF RInv

LEMMA ResetReports ==
  ASSUME RInv, NEW ok \in BOOLEAN, Restart(ok)
  PROVE  RInv'
<1>0. LinkTyped /\ TabTyped /\ OpTyped /\ Bounded /\ Exchange(toHost, toModule)
  BY DEF RInv
<1>1. /\ UNCHANGED <<op, edited, applied, result, rows, port>>
      /\ session' = 0 /\ authed' = FALSE /\ challenge' = 0
      /\ toModule' = <<>> /\ toHost' = <<>> /\ accepted' = {}
      /\ FaultHappens /\ promoting' = FALSE
  BY DEF Restart, host, StartParams
<1>2. /\ Len(toModule') = 0 /\ Len(toHost') = 0 /\ IsSeq(toModule') /\ IsSeq(toHost')
      /\ \A i \in 1 .. Len(toHost') : FALSE /\ \A k \in 1 .. Len(toModule') : FALSE
  BY <1>1, NothingIs
<1>3. PInv'
  BY RestartKeeps DEF RInv
<1>4. LinkTyped'
  BY <1>1, <1>2 DEF LinkTyped, AllAsk, AllAnswer
<1>5. TabTyped' /\ OpTyped'
  BY <1>0, <1>1 DEF TabTyped, OpTyped
<1>6. Bounded'
  BY <1>0, <1>1, <1>2, FaultCounts, BoundsAssumption DEF Bounded, Crowd
<1>7. Exchange(toHost, toModule)'
  <2>1. Tokens(toHost, toModule)'
    BY <1>1, <1>2 DEF Tokens
  <2>2. Begins(toHost, toModule)'
    BY <1>1, <1>2 DEF Begins, Unproved
  <2>3. Proving(toHost, toModule)'
    BY <1>1, <1>2 DEF Proving
  <2>4. Writing(toHost, toModule)'
    BY <1>1, <1>2 DEF Writing
  <2>5. Numbered(toHost, toModule)'
    BY <1>0, <1>1, <1>2
       DEF Exchange, Numbered, Acting, Ready, Awaited, AboveOne, NoneYet, LastIs
  <2>6. Meant(toHost)'
    BY <1>2 DEF Meant
  <2>7. Kept(toModule)'
    BY <1>0, <1>1, <1>2 DEF Exchange, Kept
  <2> QED BY <2>1, <2>2, <2>3, <2>4, <2>5, <2>6, <2>7 DEF Exchange
<1> QED BY <1>3, <1>4, <1>5, <1>6, <1>7 DEF RInv

--------------------------------------------------------------------------------
(* Attempts that fail                                                           *)

LEMMA StepIs ==
  ASSUME NEW o, IsCall(o)
  PROVE  /\ o.step \in {"hello", "begin", "prove", "set", "commit", "revert", "read", "bye"}
         /\ o.step = "read" => o.kind = "detect"
         /\ o.step = "set" <=> o.kind = "apply" /\ o.step \in Writes
         /\ o.step = "commit" => o.kind = "commit"
         /\ o.step = "revert" => o.kind = "revert"
         /\ o.step \in {"begin", "prove"} => o.kind \in {"apply", "commit", "revert"}
BY DEF IsCall, StepsOf, Writes

LEMMA FirstIs ==
  ASSUME NEW todo, todo \subseteq Param, todo # {}
  PROVE  FirstOf(todo) \in todo /\ FirstOf(todo) \in Param
BY DEF FirstOf, Param

(* The same step is tried again.                                                *)
LEMMA RetryReports ==
  ASSUME Exchange(toHost', toModule'), op # Idle, IsCall(op),
         Becomes(op', op, op.step, op.todo, "command", op.attempt + 1, 0, op.session,
                 op.challenge),
         op.attempt < AttemptsOf(op.step), port' = 0,
         UNCHANGED <<params, edited, applied, result, accepted, auth>>
  PROVE  op' # Idle /\ IsCall(op)' /\ Exchange(toHost, toModule)'
<1>1. /\ op'.kind = op.kind /\ op'.step = op.step /\ op'.todo = op.todo
      /\ op'.phase = "command" /\ op'.attempt = op.attempt + 1 /\ op'.seq = 0
      /\ op'.session = op.session /\ op'.challenge = op.challenge
      /\ op' = [kind |-> op'.kind, step |-> op'.step, todo |-> op'.todo,
                phase |-> op'.phase, attempt |-> op'.attempt, seq |-> op'.seq,
                session |-> op'.session, challenge |-> op'.challenge]
  BY BecomesFields
<1>2. op.attempt \in Nat /\ AttemptsOf(op.step) \in Nat
  BY BoundsAssumption DEF IsCall, AttemptsOf
<1>3. IsCall(op')
  <2>1. /\ op'.attempt \in Nat /\ 1 <= op'.attempt /\ op'.attempt <= AttemptsOf(op'.step)
        /\ op'.seq \in 0 .. MaxSeq
    BY <1>1, <1>2, BoundsAssumption DEF IsCall
  <2> QED BY <1>1, <2>1 DEF IsCall
<1>4. op' # Idle
  BY <1>3, KindIsCall
<1>5. Held' = Held /\ Acting' = Acting /\ Wanted' = Wanted
  BY <1>1, <1>4 DEF Held, Acting, Wanted
<1>6. session' = session /\ challenge' = challenge /\ authed' = authed
  BY DEF auth
<1>7. Tokens(toHost, toModule)' /\ Begins(toHost, toModule)' /\ Proving(toHost, toModule)'
  <2>1. Tokens(toHost, toModule)'
    BY <1>5, <1>6 DEF Exchange, Tokens
  <2>2. Begins(toHost, toModule)'
    BY <1>1, <1>4, <1>5, <1>6 DEF Exchange, Begins, Unproved
  <2>3. Proving(toHost, toModule)'
    BY <1>1, <1>4, <1>6 DEF Exchange, Proving
  <2> QED BY <2>1, <2>2, <2>3
<1>8. Writing(toHost, toModule)'
  <2>1. Forgets(toHost)' => Forgets(toHost')
    BY <1>1, <1>6 DEF Forgets
  <2> QED BY <1>5, <1>6, <2>1 DEF Exchange, Writing
<1>9. Numbered(toHost, toModule)'
  <2>1. ASSUME Acting PROVE op.attempt = 1 /\ op'.attempt # 1
    <3>1. AttemptsOf(op.step) <= 2
      BY <2>1, AttemptsAssumption DEF Acting, Writes, AttemptsOf
    <3> QED BY <1>1, <1>2, <3>1 DEF IsCall
  <2>2. Acting => AboveOne(toHost', toModule')
    BY <2>1 DEF Exchange, Numbered
  <2>3. Awaited' = FALSE
    BY <1>1 DEF Awaited
  <2> QED BY <1>5, <2>1, <2>2, <2>3 DEF Numbered
<1>10. Meant(toHost)'
  BY <1>1, <1>5 DEF Exchange, Meant, InForce, params
<1>11. Kept(toModule)'
  <2>1. result' # "committed"
    BY CallReportsNothing DEF Exchange
  <2> QED BY <2>1, KeptFewer DEF Exchange
<1> QED BY <1>3, <1>4, <1>7, <1>8, <1>9, <1>10, <1>11 DEF Exchange

(* The call ends, or goes on with the next parameter to read.                   *)
LEMMA FailedReports ==
  ASSUME Exchange(toHost', toModule'), AllAnswer(toHost'), TabTyped, OpTyped, op # Idle,
         Failed, port' \in {0, port}, UNCHANGED <<params, auth>>
  PROVE  TabTyped' /\ OpTyped' /\ ~Waiting' /\ Exchange(toHost, toModule)'
<1>0. IsCall(op)
  BY DEF OpTyped
<1>1. /\ result' = "failed" /\ rows' \in {rows, {}} /\ accepted' = accepted \cap rows'
      /\ edited' = edited /\ applied' = applied
  BY DEF Failed
<1>2. TabTyped'
  <2>1. 0 \in 0 .. MaxSeq
    BY BoundsAssumption
  <2> QED BY <1>1, <2>1 DEF TabTyped
<1>3. Kept(toModule)'
  BY <1>1, KeptFewer DEF Exchange
<1>4. CASE op' = Idle
  <2>1. OpTyped' /\ ~Waiting' /\ Plain'
    BY <1>4 DEF OpTyped, Waiting, Plain
  <2> QED BY <1>2, <1>3, <2>1, PlainExchange
<1>5. CASE op.step = "read" /\ op.todo # {FirstOf(op.todo)}
  <2> DEFINE todo == op.todo \ {FirstOf(op.todo)}
  <2>1. op' = [op EXCEPT !.todo = todo, !.seq = 0, !.attempt = 1, !.phase = "command"]
    BY <1>5 DEF Failed
  <2>2. op.todo # {} /\ op.todo \subseteq Param
    BY <1>0, <1>5, StepIs DEF IsCall
  <2>3. todo # {} /\ todo \subseteq Param
    BY <1>5, <2>2
  <2> HIDE DEF todo
  <2>4. Becomes(op', op, op.step, todo, "command", 1, 0, op.session, op.challenge)
    BY <1>0, <2>1, CallChanges
  <2>5. /\ op'.kind = op.kind /\ op'.step = op.step /\ op'.todo = todo
        /\ op'.phase = "command" /\ op'.attempt = 1 /\ op'.seq = 0
        /\ op'.session = op.session /\ op'.challenge = op.challenge
        /\ op' = [kind |-> op'.kind, step |-> op'.step, todo |-> op'.todo,
                  phase |-> op'.phase, attempt |-> op'.attempt, seq |-> op'.seq,
                  session |-> op'.session, challenge |-> op'.challenge]
    BY <2>4, BecomesFields
  <2>6. IsCall(op')
    <3>1. 1 \in Nat /\ 1 <= 1 /\ 1 <= AttemptsOf(op'.step) /\ 0 \in 0 .. MaxSeq
      BY BoundsAssumption DEF AttemptsOf
    <3> QED BY <1>0, <2>3, <2>5, <3>1 DEF IsCall
  <2>7. op.kind = "detect"
    BY <1>0, <1>5, StepIs
  <2>8. OpTyped' /\ ~Waiting'
    BY <2>5, <2>6, <2>7 DEF OpTyped, Waiting
  <2>9. Plain'
    <3>1. op.challenge = 0
      BY <1>0, <1>5 DEF IsCall
    <3> QED BY <1>5, <2>5, <3>1 DEF Plain
  <2> QED BY <1>2, <1>3, <2>8, <2>9, PlainExchange
<1> QED BY <1>4, <1>5 DEF Failed

LEMMA AttemptReports ==
  ASSUME Exchange(toHost', toModule'), AllAnswer(toHost'), TabTyped, OpTyped, op # Idle,
         AttemptFails, UNCHANGED <<params, auth>>
  PROVE  TabTyped' /\ OpTyped' /\ ~Waiting' /\ Exchange(toHost, toModule)'
<1>0. IsCall(op) /\ port' = 0
  BY DEF OpTyped, AttemptFails
<1>1. CASE op.attempt < AttemptsOf(op.step)
  <2>1. /\ op' = [op EXCEPT !.attempt = @ + 1, !.seq = 0, !.phase = "command"]
        /\ UNCHANGED <<rows, edited, applied, result, accepted>>
    BY <1>1 DEF AttemptFails
  <2>2. Becomes(op', op, op.step, op.todo, "command", op.attempt + 1, 0, op.session,
                op.challenge)
    BY <1>0, <2>1, CallChanges
  <2>3. op' # Idle /\ IsCall(op)' /\ Exchange(toHost, toModule)'
    BY <1>0, <1>1, <2>1, <2>2, RetryReports
  <2>4. op'.seq = 0 /\ op'.kind = op.kind /\ op'.todo = op.todo
    BY <2>2, BecomesFields
  <2>5. OpTyped' /\ ~Waiting'
    BY <2>1, <2>3, <2>4 DEF OpTyped, Waiting
  <2>6. TabTyped'
    <3>1. 0 \in 0 .. MaxSeq
      BY BoundsAssumption
    <3> QED BY <1>0, <2>1, <3>1 DEF TabTyped
  <2> QED BY <2>3, <2>5, <2>6
<1>2. CASE ~(op.attempt < AttemptsOf(op.step))
  <2>1. Failed
    BY <1>2 DEF AttemptFails
  <2> QED BY <1>0, <2>1, FailedReports
<1> QED BY <1>1, <1>2

LEMMA TimeoutReports ==
  ASSUME RInv, Timeout \/ StalePort
  PROVE  RInv'
<1>0. LinkTyped /\ TabTyped /\ OpTyped /\ Bounded /\ Exchange(toHost, toModule) /\ op # Idle
  BY DEF RInv, Timeout, StalePort, Waiting
<1>1. /\ UNCHANGED <<params, toModule, toHost, auth>> /\ AttemptFails
      /\ promoting' = promoting
  BY DEF Timeout, StalePort, params
<1>2. PInv'
  BY <1>1, SameKeeps DEF RInv
<1>3. LinkTyped'
  BY <1>0, <1>1 DEF LinkTyped, auth
<1>4. TabTyped' /\ OpTyped' /\ ~Waiting' /\ Exchange(toHost, toModule)'
  <2>1. Exchange(toHost', toModule') /\ AllAnswer(toHost')
    BY <1>0, <1>1 DEF LinkTyped
  <2> QED BY <1>0, <1>1, <2>1, AttemptReports
<1>5. Bounded'
  <2>1. Len(toModule) \in Nat /\ Len(toHost) \in Nat
    BY LinkIs DEF IsSeq
  <2>2. CASE Timeout /\ FaultHappens
    BY <1>0, <1>1, <1>4, <2>1, <2>2, FaultCounts, BoundsAssumption DEF Bounded, Crowd
  <2>3. CASE Timeout /\ toModule = <<>> /\ toHost = <<>> /\ UNCHANGED count
    <3>1. Len(toModule) = 0 /\ Len(toHost) = 0
      BY <2>3, LinkIs, EmptyIs
    <3> QED BY <1>0, <1>1, <1>4, <2>3, <3>1, BoundsAssumption DEF Bounded, Crowd
  <2>4. CASE StalePort
    <3>1. ~Waiting /\ UNCHANGED count
      BY <2>4 DEF StalePort, Waiting
    <3> QED BY <1>0, <1>1, <1>4, <2>1, <3>1 DEF Bounded, Crowd
  <2> QED BY <2>2, <2>3, <2>4 DEF Timeout, StalePort
<1> QED BY <1>2, <1>3, <1>4, <1>5 DEF RInv

--------------------------------------------------------------------------------
(* Answers                                                                      *)

(* The next step of a call.                                                     *)
LEMMA NextStep ==
  ASSUME IsCall(op), NEW step, NEW todo, NEW n, NEW c,
         Becomes(op', op, step, todo, "command", 1, 0, n, c),
         step \in StepsOf[op.kind], todo \subseteq Param,
         op.kind \in {"detect", "apply"} => todo # {},
         c # 0 <=> step = "prove"
  PROVE  /\ IsCall(op') /\ op' # Idle /\ ~Waiting'
         /\ op'.kind = op.kind /\ op'.step = step /\ op'.todo = todo
         /\ op'.phase = "command" /\ op'.attempt = 1 /\ op'.seq = 0
         /\ op'.session = n /\ op'.challenge = c
<1>1. /\ op'.kind = op.kind /\ op'.step = step /\ op'.todo = todo
      /\ op'.phase = "command" /\ op'.attempt = 1 /\ op'.seq = 0
      /\ op'.session = n /\ op'.challenge = c
      /\ op' = [kind |-> op'.kind, step |-> op'.step, todo |-> op'.todo,
                phase |-> op'.phase, attempt |-> op'.attempt, seq |-> op'.seq,
                session |-> op'.session, challenge |-> op'.challenge]
  BY BecomesFields
<1>2. 1 \in Nat /\ 1 <= 1 /\ 1 <= AttemptsOf(op'.step) /\ 0 \in 0 .. MaxSeq
  BY BoundsAssumption DEF AttemptsOf
<1>3. IsCall(op')
  BY <1>1, <1>2 DEF IsCall
<1>4. op' # Idle /\ ~Waiting'
  BY <1>1, <1>3, KindIsCall DEF Waiting
<1> QED BY <1>1, <1>3, <1>4

(* Where an answer is taken: it is the oldest, and somebody waits for it.       *)
LEMMA AnswerIs ==
  ASSUME RInv, Receive
  PROVE  /\ op # Idle /\ IsCall(op) /\ op.seq # 0 /\ port # 0
         /\ TabTyped /\ OpTyped /\ AllAnswer(toHost) /\ AllAnswer(toHost')
         /\ Exchange(toHost, toModule) /\ Exchange(toHost', toModule')
         /\ toModule' = toModule /\ UNCHANGED params /\ UNCHANGED auth
         /\ Len(toHost) \in Nat /\ 1 \in 1 .. Len(toHost)
         /\ Len(toHost') = Len(toHost) - 1
         /\ \A i \in 1 .. Len(toHost') : i + 1 \in 1 .. Len(toHost) /\ toHost'[i] = toHost[i + 1]
         /\ Head(toHost) = toHost[1] /\ toHost[1].seq = op.seq
         /\ Suffix(toHost', toHost) /\ result # "committed"
<1>1. /\ op # Idle /\ op.seq # 0 /\ toHost # <<>> /\ Head(toHost).seq = op.seq
      /\ toHost' = Tail(toHost) /\ toModule' = toModule /\ UNCHANGED params /\ UNCHANGED auth
  BY DEF Receive, Waiting
<1>2. /\ TabTyped /\ OpTyped /\ AllAnswer(toHost) /\ Exchange(toHost, toModule)
      /\ AllAsk(toModule) /\ IsSeq(toHost) /\ IsSeq(toModule)
  BY LinkIs DEF RInv
<1>3. /\ Suffix(toHost', toHost) /\ Len(toHost') = Len(toHost) - 1 /\ Len(toHost) >= 1
      /\ \A i \in 1 .. Len(toHost) - 1 : toHost'[i] = toHost[i + 1]
      /\ Head(toHost) = toHost[1]
  BY <1>1, <1>2, TailIs
<1>4. Suffix(toModule', toModule)
  BY <1>1, <1>2, SuffixItself
<1>5. Exchange(toHost', toModule') /\ AllAnswer(toHost')
  BY <1>2, <1>3, <1>4, ExchangeLess, TypedLess
<1>6. IsCall(op) /\ port # 0
  BY <1>1, <1>2 DEF OpTyped
<1>7. Len(toHost) \in Nat
  BY <1>2 DEF IsSeq
<1>8. \A i \in 1 .. Len(toHost') : i + 1 \in 1 .. Len(toHost) /\ toHost'[i] = toHost[i + 1]
  BY <1>3, <1>7
<1>9. result # "committed"
  BY <1>1, <1>2, CallReportsNothing DEF Exchange
<1>10. 1 \in 1 .. Len(toHost)
  BY <1>3, <1>7
<1> QED BY <1>1, <1>2, <1>3, <1>5, <1>6, <1>7, <1>8, <1>9, <1>10

(* What every answer that is taken leaves behind.                               *)
Outcome == TabTyped' /\ OpTyped' /\ ~Waiting' /\ Exchange(toHost, toModule)'

LEMMA HelloOutcome ==
  ASSUME RInv, Receive, port' = port, Head(toHost).body.name = "hello_ok",
         HelloAnswered(Head(toHost).body)
  PROVE  Outcome
<1> DEFINE r == Head(toHost).body
<1>0. /\ op # Idle /\ IsCall(op) /\ TabTyped /\ OpTyped /\ AllAnswer(toHost')
      /\ Exchange(toHost, toModule) /\ Exchange(toHost', toModule')
      /\ toModule' = toModule /\ UNCHANGED params /\ UNCHANGED auth
      /\ result # "committed"
      /\ op.step = "hello" /\ UNCHANGED <<rows, edited, applied, result, accepted>>
  BY AnswerIs DEF HelloAnswered
<1>1. TabTyped'
  BY <1>0 DEF TabTyped
<1>2. Kept(toModule)'
  BY <1>0, KeptFewer DEF Exchange
<1>3. op.challenge = 0 /\ op.todo \subseteq Param /\ (op.kind \in {"detect", "apply"} => op.todo # {})
  BY <1>0 DEF IsCall
<1>4. CASE op.kind = "detect"
  <2>1. Becomes(op', op, "read", op.todo, "command", 1, 0, op.session, op.challenge)
    BY <1>0, <1>4, CallChanges DEF HelloAnswered
  <2>2. "read" \in StepsOf[op.kind]
    BY <1>4 DEF StepsOf
  <2>3. /\ IsCall(op') /\ op' # Idle /\ ~Waiting' /\ op'.kind = op.kind
        /\ op'.step = "read" /\ op'.challenge = 0 /\ op'.seq = 0
    BY <1>0, <1>3, <2>1, <2>2, NextStep
  <2>4. OpTyped' /\ Plain'
    BY <1>4, <2>3 DEF OpTyped, Plain
  <2>5. Exchange(toHost, toModule)'
    BY <1>0, <1>2, <2>4, PlainExchange
  <2> QED BY <1>1, <2>3, <2>4, <2>5 DEF Outcome
<1>5. CASE op.kind # "detect"
  <2> DEFINE n == r.session
  <2>1. op' = [Proceed("begin", op.todo) EXCEPT !.session = n]
    BY <1>5 DEF HelloAnswered
  <2> HIDE DEF n
  <2>2. Becomes(op', op, "begin", op.todo, "command", 1, 0, n, op.challenge)
    BY <1>0, <2>1, CallChanges
  <2>3. "begin" \in StepsOf[op.kind]
    BY <1>0, <1>5 DEF IsCall, StepsOf
  <2>4. /\ IsCall(op') /\ op' # Idle /\ ~Waiting' /\ op'.kind = op.kind
        /\ op'.step = "begin" /\ op'.challenge = 0 /\ op'.seq = 0 /\ op'.todo = op.todo
    BY <1>0, <1>3, <2>2, <2>3, NextStep
  <2>5. OpTyped'
    BY <1>0, <2>4 DEF OpTyped
  <2>6. /\ session' = session /\ challenge' = challenge /\ authed' = authed
        /\ Held' = Held /\ Acting' = FALSE
    BY <1>0, <1>3, <2>4 DEF auth, Held, Acting, Writes
  <2>7. ~authed /\ Unproved(toModule)
    <3>1. 1 \in 1 .. Len(toHost) /\ toHost[1].body.name = "hello_ok"
      BY AnswerIs
    <3> QED BY <1>0, <3>1 DEF Exchange, Begins
  <2>8. Tokens(toHost, toModule)'
    BY <1>0, <2>6 DEF Exchange, Tokens
  <2>9. Begins(toHost, toModule)'
    BY <1>0, <2>6, <2>7 DEF Exchange, Begins, Unproved
  <2>10. /\ Proving(toHost, toModule)' /\ Writing(toHost, toModule)'
         /\ Numbered(toHost, toModule)' /\ Meant(toHost)'
    BY <2>4, <2>6 DEF Proving, Writing, Numbered, Meant
  <2> QED BY <1>1, <1>2, <2>4, <2>5, <2>8, <2>9, <2>10 DEF Outcome, Exchange
<1> QED BY <1>4, <1>5

LEMMA ChallengeOutcome ==
  ASSUME RInv, Receive, port' = port, Head(toHost).body.name = "challenge",
         BeginAnswered(Head(toHost).body)
  PROVE  Outcome
<1> DEFINE c == Head(toHost).body.challenge
<1>0. /\ op # Idle /\ IsCall(op) /\ TabTyped /\ OpTyped /\ AllAnswer(toHost)
      /\ Exchange(toHost, toModule) /\ Exchange(toHost', toModule')
      /\ toModule' = toModule /\ UNCHANGED params /\ UNCHANGED auth
      /\ result # "committed"
      /\ op.step = "begin" /\ UNCHANGED <<rows, edited, applied, result, accepted>>
  BY AnswerIs DEF BeginAnswered
<1>1. /\ 1 \in 1 .. Len(toHost) /\ toHost[1].body.challenge = c /\ Offers(toHost[1])
      /\ \A i \in 1 .. Len(toHost') : i + 1 \in 1 .. Len(toHost) /\ toHost'[i] = toHost[i + 1]
  BY AnswerIs DEF Offers
<1>2. c # 0
  BY <1>0, <1>1 DEF AllAnswer, Answers, Offers
<1>3. op' = [Proceed("prove", op.todo) EXCEPT !.challenge = c]
  BY DEF BeginAnswered
<1> HIDE DEF c
<1>4. Becomes(op', op, "prove", op.todo, "command", 1, 0, op.session, c)
  BY <1>0, <1>3, CallChanges
<1>5. "prove" \in StepsOf[op.kind]
  BY <1>0 DEF IsCall, StepsOf
<1>6. op.todo \subseteq Param /\ (op.kind \in {"detect", "apply"} => op.todo # {})
  BY <1>0 DEF IsCall
<1>7. /\ IsCall(op') /\ op' # Idle /\ ~Waiting' /\ op'.kind = op.kind
      /\ op'.step = "prove" /\ op'.challenge = c /\ op'.seq = 0 /\ op'.todo = op.todo
  BY <1>0, <1>2, <1>4, <1>5, <1>6, NextStep
<1>8. TabTyped' /\ OpTyped'
  BY <1>0, <1>7 DEF TabTyped, OpTyped
<1>9. Kept(toModule)'
  BY <1>0, KeptFewer DEF Exchange
<1>10. /\ session' = session /\ challenge' = challenge /\ authed' = authed
       /\ Held' = c /\ Acting' = FALSE
  BY <1>0, <1>7 DEF auth, Held, Acting, Writes
<1>11. /\ \A k \in 1 .. Len(toModule) : ~Proves(toModule[k], c)
       /\ challenge # 0 => \A k \in 1 .. Len(toModule) : ~Proves(toModule[k], challenge)
       /\ \A j \in 1 .. Len(toHost') :
            /\ Offers(toHost'[j]) => toHost'[j].body.challenge # c /\ c # challenge
            /\ toHost'[j].body.name # "auth_ok"
  <2>1. ASSUME NEW j \in 1 .. Len(toHost')
        PROVE  /\ Offers(toHost'[j]) => toHost'[j].body.challenge # c /\ c # challenge
               /\ toHost'[j].body.name # "auth_ok"
    <3>1. j + 1 \in 1 .. Len(toHost) /\ j + 1 > 1 /\ toHost'[j] = toHost[j + 1]
      BY <1>1, <2>1
    <3> QED BY <1>0, <1>1, <3>1 DEF Exchange, Tokens
  <2>2. \A k \in 1 .. Len(toModule) : ~Proves(toModule[k], c)
    BY <1>0, <1>1 DEF Exchange, Tokens
  <2>3. challenge # 0 => \A k \in 1 .. Len(toModule) : ~Proves(toModule[k], challenge)
    BY <1>0, <1>1 DEF Exchange, Tokens
  <2> QED BY <2>1, <2>2, <2>3
<1>12. Tokens(toHost, toModule)'
  BY <1>0, <1>10, <1>11 DEF Exchange, Tokens
<1>13. Begins(toHost, toModule)'
  <2>1. ASSUME NEW j \in 1 .. Len(toHost'), toHost'[j].body.name = "hello_ok", challenge # 0
        PROVE  c # challenge
    <3>1. j + 1 \in 1 .. Len(toHost) /\ 1 < j + 1 /\ toHost'[j] = toHost[j + 1]
      BY <1>1, <2>1
    <3> QED BY <1>0, <1>1, <2>1, <3>1 DEF Exchange, Begins
  <2> QED BY <1>0, <1>7, <1>10, <2>1 DEF Exchange, Begins, Unproved
<1>14. Proving(toHost, toModule)'
  BY <1>0, <1>7, <1>11 DEF Proving
<1>15. Writing(toHost, toModule)' /\ Numbered(toHost, toModule)' /\ Meant(toHost)'
  BY <1>10 DEF Writing, Numbered, Meant
<1> QED BY <1>7, <1>8, <1>9, <1>12, <1>13, <1>14, <1>15 DEF Outcome, Exchange

LEMMA ProofOutcome ==
  ASSUME RInv, Receive, port' = port, Head(toHost).body.name = "auth_ok", ProveAnswered
  PROVE  Outcome
<1>0. /\ op # Idle /\ IsCall(op) /\ TabTyped /\ OpTyped /\ port # 0
      /\ Exchange(toHost, toModule) /\ Exchange(toHost', toModule') /\ AllAnswer(toHost')
      /\ toModule' = toModule /\ UNCHANGED params /\ UNCHANGED auth
      /\ result # "committed"
      /\ op.step = "prove" /\ UNCHANGED <<rows, edited, applied, result, accepted>>
      /\ op' = [Proceed(Act[op.kind], op.todo) EXCEPT !.session = 0, !.challenge = 0]
  BY AnswerIs DEF ProveAnswered
<1>1. /\ 1 \in 1 .. Len(toHost) /\ toHost[1].body.name = "auth_ok"
      /\ \A i \in 1 .. Len(toHost') : i + 1 \in 1 .. Len(toHost) /\ toHost'[i] = toHost[i + 1]
  BY AnswerIs
<1>2. /\ challenge = 0 /\ session # 0
      /\ \A k \in 1 .. Len(toModule) : Late(toModule[k])
      /\ \A i \in 1 .. Len(toHost') : toHost'[i].body.name \notin Success \cup {"hello_required"}
  <2>1. ASSUME NEW i \in 1 .. Len(toHost')
        PROVE  toHost'[i].body.name \notin Success \cup {"hello_required"}
    <3>1. i + 1 \in 1 .. Len(toHost) /\ i + 1 > 1 /\ toHost'[i] = toHost[i + 1]
      BY <1>1, <2>1
    <3> QED BY <1>0, <1>1, <3>1 DEF Exchange, Proving
  <2> QED BY <1>0, <1>1, <2>1 DEF Exchange, Proving
<1> DEFINE step == Act[op.kind]
<1>3. step \in Writes /\ step \in StepsOf[op.kind] /\ step # "prove"
  BY <1>0, StepIs DEF Act, StepsOf, Writes
<1>4. op' = [Proceed(step, op.todo) EXCEPT !.session = 0, !.challenge = 0]
  BY <1>0
<1> HIDE DEF step
<1>5. Becomes(op', op, step, op.todo, "command", 1, 0, 0, 0)
  <2>1. \A n, m :
          Becomes([Proceed(step, op.todo) EXCEPT !.session = n, !.challenge = m], op,
                  step, op.todo, "command", 1, 0, n, m)
    BY <1>0, CallChanges
  <2> QED BY <1>4, <2>1, Zenon
<1>6. op.todo \subseteq Param /\ (op.kind \in {"detect", "apply"} => op.todo # {})
  BY <1>0 DEF IsCall
<1>7. /\ IsCall(op') /\ op' # Idle /\ ~Waiting' /\ op'.kind = op.kind
      /\ op'.step = step /\ op'.challenge = 0 /\ op'.seq = 0 /\ op'.todo = op.todo
      /\ op'.phase = "command" /\ op'.attempt = 1
  BY <1>0, <1>3, <1>5, <1>6, NextStep
<1>8. TabTyped' /\ OpTyped'
  BY <1>0, <1>7 DEF TabTyped, OpTyped
<1>9. Kept(toModule)'
  BY <1>0, KeptFewer DEF Exchange
<1>10. /\ session' = session /\ challenge' = challenge /\ authed' = authed /\ Held' = 0
  BY <1>0, <1>7 DEF auth, Held
<1>11. Tokens(toHost, toModule)'
  <2>1. ASSUME NEW i \in 1 .. Len(toHost'), Offers(toHost'[i])
        PROVE  toHost'[i].body.challenge # 0
    BY <1>0, <2>1 DEF AllAnswer, Answers, Offers
  <2> QED BY <1>0, <1>10, <2>1 DEF Exchange, Tokens
<1>12. Begins(toHost, toModule)'
  BY <1>0, <1>2, <1>3, <1>7, <1>10 DEF Exchange, Begins, Unproved, Writes
<1>13. Proving(toHost, toModule)'
  BY <1>3, <1>7 DEF Proving
<1>14. \A k \in 1 .. Len(toModule) : ~IsWrite(toModule[k])
  BY <1>2 DEF Late, IsWrite, Writes
<1>15. \A i \in 1 .. Len(toHost') : ~Succeeds(toHost'[i])
  BY <1>2 DEF Succeeds
<1>16. Writing(toHost, toModule)'
  <2>1. ~Forgets(toHost)'
    BY <1>2, <1>7, <1>10 DEF Forgets
  <2> QED BY <1>0, <1>2, <1>10, <2>1 DEF Writing
<1>17. Numbered(toHost, toModule)'
  BY <1>0, <1>7, <1>14, <1>15 DEF Numbered, AboveOne, NoneYet, Ready, Awaited
<1>18. Meant(toHost)'
  BY <1>15 DEF Meant
<1> QED BY <1>7, <1>8, <1>9, <1>11, <1>12, <1>13, <1>16, <1>17, <1>18
           DEF Outcome, Exchange

(* A success that is taken: the module did not forget the session, what it says *)
(* is true, and no write and no other success is left under way.                *)
LEMMA SuccessIs ==
  ASSUME RInv, Receive, op.step \in Writes, Head(toHost).body.name \in Success
  PROVE  /\ ~Forgets(toHost) /\ ~Forgets(toHost') /\ challenge = 0
         /\ op.phase = "command"
         /\ ~loadPending
         /\ op.step = "set" => staging[FirstOf(op.todo)] = edited[FirstOf(op.todo)]
         /\ op.step = "commit" => InForce
         /\ NoneYet(toHost', toModule)
         /\ \A k \in 1 .. Len(toModule) : Late(toModule[k])
<1>0. /\ op # Idle /\ op.seq # 0 /\ Exchange(toHost, toModule)
      /\ 1 \in 1 .. Len(toHost) /\ toHost[1].seq = op.seq
      /\ Head(toHost) = toHost[1]
      /\ \A i \in 1 .. Len(toHost') : i + 1 \in 1 .. Len(toHost) /\ toHost'[i] = toHost[i + 1]
  BY AnswerIs
<1>1. Acting /\ Succeeds(toHost[1])
  BY <1>0 DEF Acting, Succeeds
<1>2. ~Forgets(toHost) /\ challenge = 0
      /\ \A k \in 1 .. Len(toModule) : Late(toModule[k]) \/ toModule[k].body = Wanted
  BY <1>0, <1>1 DEF Exchange, Writing
<1>3. op.phase = "command" /\ Awaited
  BY <1>0, <1>2 DEF Forgets, Awaited
<1>4. LastIs(toHost, toModule, op.seq)
  BY <1>0, <1>1, <1>3 DEF Exchange, Numbered
<1>5. NoneYet(toHost', toModule)
  <2>1. \A k \in 1 .. Len(toModule) : ~IsWrite(toModule[k])
    BY <1>0, <1>1, <1>4 DEF LastIs
  <2>2. ASSUME NEW i \in 1 .. Len(toHost')
        PROVE  ~Succeeds(toHost'[i])
    <3>1. i + 1 \in 1 .. Len(toHost) /\ i + 1 > 1 /\ toHost'[i] = toHost[i + 1]
      BY <1>0, <2>2
    <3> QED BY <1>0, <1>1, <1>4, <3>1 DEF LastIs
  <2> QED BY <2>1, <2>2 DEF NoneYet
<1>6. \A k \in 1 .. Len(toModule) : Late(toModule[k])
  <2>1. Wanted.name \in Writes
    BY <1>1 DEF Wanted, Acting, Writes
  <2> QED BY <1>2, <1>5, <2>1 DEF NoneYet, IsWrite
<1>7. ~Forgets(toHost')
  BY <1>0, <1>2 DEF Forgets
<1>8. /\ ~loadPending
      /\ op.step = "set" => staging[FirstOf(op.todo)] = edited[FirstOf(op.todo)]
      /\ op.step = "commit" => InForce
  BY <1>0, <1>1 DEF Exchange, Meant
<1> QED BY <1>2, <1>3, <1>5, <1>6, <1>7, <1>8

(* The call ends.                                                               *)
LEMMA EndOutcome ==
  ASSUME RInv, Receive, port' = port, op' = Idle, TabTyped', Kept(toModule)'
  PROVE  Outcome
<1>1. Exchange(toHost', toModule') /\ AllAnswer(toHost') /\ UNCHANGED auth
  BY AnswerIs
<1>2. Plain' /\ OpTyped' /\ ~Waiting'
  BY DEF Plain, OpTyped, Waiting
<1> QED BY <1>1, <1>2, PlainExchange DEF Outcome

(* One setting is changed within its range.                                     *)
SetTo(t, s, p, v) == t = [s EXCEPT ![p] = v]

LEMMA SettingChanges ==
  ASSUME NEW s \in Settings, NEW p \in Param, NEW v \in InRange[p],
         NEW t, SetTo(t, s, p, v)
  PROVE  t \in Settings /\ t[p] = v /\ \A q \in Param : q # p => t[q] = s[q]
<1>1. s = [start |-> s.start, stop |-> s.stop] /\ s.start \in StartRange /\ s.stop \in StopRange
  BY DEF Settings
<1>2. CASE p = "start"
  BY <1>1, <1>2 DEF SetTo, InRange, Settings, Param
<1>3. CASE p = "stop"
  BY <1>1, <1>3 DEF SetTo, InRange, Settings, Param
<1> QED BY <1>2, <1>3 DEF Param

LEMMA SettingIs ==
  ASSUME NEW s \in Settings, NEW p \in Param
  PROVE  s[p] \in InRange[p]
BY DEF Settings, Param, InRange

LEMMA SetOutcome ==
  ASSUME RInv, Receive, port' = port, Head(toHost).body.name = "param_set", SetAnswered
  PROVE  Outcome
<1> DEFINE p == FirstOf(op.todo)
<1>0. /\ op # Idle /\ IsCall(op) /\ TabTyped /\ OpTyped /\ port # 0
      /\ Exchange(toHost, toModule) /\ Exchange(toHost', toModule') /\ AllAnswer(toHost')
      /\ toModule' = toModule /\ UNCHANGED params /\ UNCHANGED auth
      /\ result # "committed" /\ op.step = "set"
  BY AnswerIs DEF SetAnswered
<1>1. /\ ~Forgets(toHost') /\ challenge = 0 /\ ~loadPending
      /\ staging[p] = edited[p] /\ NoneYet(toHost', toModule)
      /\ \A k \in 1 .. Len(toModule) : Late(toModule[k])
  BY <1>0, SuccessIs DEF Writes, Success
<1>2. op.kind = "apply" /\ op.todo # {} /\ op.todo \subseteq rows /\ op.todo \subseteq Param
  BY <1>0, StepIs DEF OpTyped, IsCall
<1>3. p \in op.todo /\ p \in Param /\ p \in rows
  BY <1>2, FirstIs
<1>4. /\ applied' = [applied EXCEPT ![p] = edited[p]] /\ accepted' = accepted \cup {p}
      /\ UNCHANGED <<rows, edited>>
      /\ IF op.todo = {p} THEN Done("staged")
         ELSE op' = Proceed("set", op.todo \ {p}) /\ UNCHANGED result
  BY DEF SetAnswered
<1> HIDE DEF p
<1>5. /\ edited \in Settings /\ applied \in Settings /\ edited[p] \in InRange[p]
  BY <1>0, <1>3, SettingIs DEF TabTyped
<1>6. /\ applied' \in Settings /\ applied'[p] = edited[p]
      /\ \A q \in Param : q # p => applied'[q] = applied[q]
  <2> DEFINE v == edited[p]
  <2>1. applied \in Settings /\ p \in Param /\ v \in InRange[p] /\ SetTo(applied', applied, p, v)
    BY <1>3, <1>4, <1>5 DEF SetTo
  <2> HIDE DEF v
  <2>2. applied' \in Settings /\ applied'[p] = v
        /\ \A q \in Param : q # p => applied'[q] = applied[q]
    BY <2>1, SettingChanges
  <2> QED BY <2>2 DEF v
<1>7. TabTyped'
  BY <1>0, <1>3, <1>4, <1>6 DEF TabTyped
<1>8. Kept(toModule)'
  <2>1. result' # "committed"
    BY <1>0, <1>4 DEF Done
  <2>2. \A k \in 1 .. Len(toModule) : toModule[k].body.name \notin {"set", "revert"}
    BY <1>1 DEF Late
  <2>3. ASSUME NEW q \in accepted' PROVE staging[q] = applied'[q]
    <3>1. CASE q = p
      BY <1>1, <1>6, <3>1
    <3>2. CASE q # p
      <4>1. q \in accepted /\ q \in Param
        BY <1>0, <1>4, <2>3, <3>2 DEF TabTyped
      <4> QED BY <1>0, <1>6, <3>2, <4>1 DEF Exchange, Kept
    <3> QED BY <3>1, <3>2
  <2> QED BY <1>0, <1>1, <2>1, <2>2, <2>3 DEF Kept, params
<1>9. CASE op.todo = {p}
  <2>1. op' = Idle
    BY <1>4, <1>9 DEF Done
  <2> QED BY <1>7, <1>8, <2>1, EndOutcome
<1>10. CASE op.todo # {p}
  <2> DEFINE todo == op.todo \ {p}
  <2>1. todo # {} /\ todo \subseteq Param /\ todo \subseteq rows
    BY <1>2, <1>10
  <2>2. op' = Proceed("set", todo)
    BY <1>4, <1>10
  <2> HIDE DEF todo
  <2>3. Becomes(op', op, "set", todo, "command", 1, 0, op.session, op.challenge)
    BY <1>0, <2>2, CallChanges
  <2>4. "set" \in StepsOf[op.kind] /\ op.challenge = 0
    BY <1>0, <1>2 DEF StepsOf, IsCall
  <2>5. /\ IsCall(op') /\ op' # Idle /\ ~Waiting' /\ op'.kind = op.kind
        /\ op'.step = "set" /\ op'.challenge = 0 /\ op'.seq = 0 /\ op'.todo = todo
        /\ op'.phase = "command" /\ op'.attempt = 1
    BY <1>0, <2>1, <2>3, <2>4, NextStep
  <2>6. OpTyped'
    BY <1>4, <2>1, <2>5 DEF OpTyped
  <2>7. /\ session' = session /\ challenge' = challenge /\ authed' = authed /\ Held' = Held
    BY <1>0, <2>4, <2>5 DEF auth, Held
  <2>8. Tokens(toHost, toModule)' /\ Begins(toHost, toModule)' /\ Proving(toHost, toModule)'
    <3>1. Tokens(toHost, toModule)'
      BY <1>0, <2>7 DEF Exchange, Tokens
    <3>2. Begins(toHost, toModule)'
      BY <1>0, <2>5, <2>7 DEF Exchange, Begins, Unproved
    <3>3. Proving(toHost, toModule)'
      BY <2>5 DEF Proving
    <3> QED BY <3>1, <3>2, <3>3
  <2>9. Writing(toHost, toModule)'
    <3>1. ~Forgets(toHost)'
      BY <1>1, <2>5, <2>7 DEF Forgets
    <3> QED BY <1>0, <1>1, <2>7, <3>1 DEF Writing
  <2>10. Numbered(toHost, toModule)'
    BY <1>0, <1>1, <2>5 DEF Numbered, AboveOne, NoneYet, Ready, Awaited
  <2>11. Meant(toHost)'
    BY <1>1 DEF Meant, NoneYet
  <2> QED BY <1>7, <1>8, <2>5, <2>6, <2>8, <2>9, <2>10, <2>11 DEF Outcome, Exchange
<1> QED BY <1>9, <1>10

LEMMA StoreOutcome ==
  ASSUME RInv, Receive, port' = port,
         \/ Head(toHost).body.name = "committed" /\ CommitAnswered
         \/ Head(toHost).body.name = "reverted" /\ RevertAnswered
  PROVE  Outcome
<1>0. /\ TabTyped /\ Exchange(toHost, toModule) /\ Exchange(toHost', toModule')
      /\ toModule' = toModule /\ UNCHANGED params
  BY AnswerIs
<1>1. op' = Idle
  BY DEF CommitAnswered, RevertAnswered, Done
<1>2. TabTyped'
  BY <1>0 DEF TabTyped, CommitAnswered, RevertAnswered
<1>3. CASE Head(toHost).body.name = "committed" /\ CommitAnswered
  <2>1. InForce /\ NoneYet(toHost', toModule)
    BY <1>3, SuccessIs DEF CommitAnswered, Writes, Success
  <2>2. result' = "committed" /\ UNCHANGED <<applied, accepted>>
    BY <1>3 DEF CommitAnswered, Done
  <2>3. Kept(toModule)'
    BY <1>0, <1>1, <2>1, <2>2 DEF Exchange, Kept, NoneYet, InForce, params
  <2> QED BY <1>1, <1>2, <2>3, EndOutcome
<1>4. CASE Head(toHost).body.name = "reverted" /\ RevertAnswered
  <2>1. accepted' = {} /\ result' = "reverted"
    BY <1>4 DEF RevertAnswered, Done
  <2>2. Kept(toModule)'
    BY <2>1 DEF Kept
  <2> QED BY <1>1, <1>2, <2>2, EndOutcome
<1> QED BY <1>3, <1>4

LEMMA ReadOutcome ==
  ASSUME RInv, Receive, port' = port, Head(toHost).body.name = "value",
         ReadAnswered(Head(toHost).body)
  PROVE  Outcome
<1> DEFINE r == Head(toHost).body
<1>0. /\ op # Idle /\ IsCall(op) /\ TabTyped /\ OpTyped
      /\ Exchange(toHost, toModule) /\ Exchange(toHost', toModule')
      /\ AllAnswer(toHost) /\ AllAnswer(toHost')
      /\ toModule' = toModule /\ UNCHANGED params /\ UNCHANGED auth
      /\ result # "committed" /\ op.step = "read"
  BY AnswerIs DEF ReadAnswered
<1>1. r.p \in Param /\ r.value \in InRange[r.p]
  <2>1. 1 \in 1 .. Len(toHost) /\ r = toHost[1].body
    BY AnswerIs
  <2> QED BY <1>0, <2>1 DEF AllAnswer, Answers
<1>2. /\ rows' = rows \cup {r.p} /\ accepted' = accepted \ {r.p}
      /\ edited' = [edited EXCEPT ![r.p] = r.value]
      /\ applied' = [applied EXCEPT ![r.p] = r.value]
      /\ IF op.todo = {FirstOf(op.todo)} THEN Done("detected")
         ELSE op' = Proceed("read", op.todo \ {FirstOf(op.todo)}) /\ UNCHANGED result
  BY DEF ReadAnswered
<1> DEFINE p == r.p
           v == r.value
<1>3. /\ edited' \in Settings /\ applied' \in Settings
      /\ \A q \in Param : q # p => applied'[q] = applied[q]
  <2>1. edited \in Settings /\ applied \in Settings /\ p \in Param /\ v \in InRange[p]
        /\ SetTo(edited', edited, p, v) /\ SetTo(applied', applied, p, v)
    BY <1>0, <1>1, <1>2 DEF TabTyped, SetTo
  <2> HIDE DEF p, v
  <2>2. edited' \in Settings
    BY <2>1, SettingChanges
  <2>3. applied' \in Settings /\ \A q \in Param : q # p => applied'[q] = applied[q]
    BY <2>1, SettingChanges
  <2> QED BY <2>2, <2>3
<1>4. TabTyped'
  BY <1>0, <1>1, <1>2, <1>3 DEF TabTyped
<1>5. Kept(toModule)'
  <2>1. result' # "committed"
    BY <1>0, <1>2 DEF Done
  <2>2. ASSUME NEW q \in accepted'
        PROVE  q \in accepted /\ staging[q] = applied'[q]
    <3>1. q \in accepted /\ q # p /\ q \in Param
      BY <1>0, <1>2, <2>2 DEF TabTyped
    <3> QED BY <1>0, <1>3, <3>1 DEF Exchange, Kept
  <2>3. accepted' # {} => accepted # {}
    BY <2>2
  <2> HIDE DEF p, v, r
  <2> QED BY <1>0, <2>1, <2>2, <2>3 DEF Exchange, Kept, params
<1> HIDE DEF p, v, r
<1>6. CASE op.todo = {FirstOf(op.todo)}
  <2>1. op' = Idle
    BY <1>2, <1>6 DEF Done
  <2> QED BY <1>4, <1>5, <2>1, EndOutcome
<1>7. CASE op.todo # {FirstOf(op.todo)}
  <2> DEFINE todo == op.todo \ {FirstOf(op.todo)}
  <2>1. op.kind = "detect" /\ op.todo # {} /\ op.todo \subseteq Param /\ op.challenge = 0
    BY <1>0, StepIs DEF IsCall
  <2>2. todo # {} /\ todo \subseteq Param /\ op' = Proceed("read", todo)
    BY <1>2, <1>7, <2>1
  <2> HIDE DEF todo
  <2>3. Becomes(op', op, "read", todo, "command", 1, 0, op.session, op.challenge)
    BY <1>0, <2>2, CallChanges
  <2>4. "read" \in StepsOf[op.kind]
    BY <2>1 DEF StepsOf
  <2>5. /\ IsCall(op') /\ op' # Idle /\ ~Waiting' /\ op'.kind = op.kind
        /\ op'.step = "read" /\ op'.challenge = 0 /\ op'.seq = 0
    BY <1>0, <2>1, <2>2, <2>3, <2>4, NextStep
  <2>6. OpTyped' /\ Plain'
    BY <2>1, <2>5 DEF OpTyped, Plain
  <2>7. Exchange(toHost, toModule)'
    BY <1>0, <1>5, <2>6, PlainExchange
  <2> QED BY <1>4, <2>5, <2>6, <2>7 DEF Outcome
<1> QED BY <1>6, <1>7

LEMMA ByeOutcome ==
  ASSUME RInv, Receive, port' = port, ByeAnswered
  PROVE  Outcome
<1>1. /\ op' = Idle /\ rows' = {} /\ accepted' = {} /\ result' = "disconnected"
      /\ UNCHANGED <<edited, applied>>
  BY DEF ByeAnswered, Done
<1>2. TabTyped'
  BY <1>1, AnswerIs DEF TabTyped
<1>3. Kept(toModule)'
  BY <1>1 DEF Kept
<1> QED BY <1>1, <1>2, <1>3, EndOutcome

(* A module that forgot the session is greeted again, and told the same.        *)
LEMMA GreetOutcome ==
  ASSUME RInv, Receive, port' = port,
         Forgotten(Head(toHost).body) \/ Greeted(Head(toHost).body),
         NEW next \in {"rehello", "repeat"},
         Becomes(op', op, op.step, op.todo, next, op.attempt, 0, op.session, op.challenge),
         UNCHANGED <<rows, edited, applied, result, accepted>>
  PROVE  Outcome
<1>0. /\ op # Idle /\ IsCall(op) /\ TabTyped /\ OpTyped
      /\ Exchange(toHost, toModule) /\ Exchange(toHost', toModule')
      /\ toModule' = toModule /\ UNCHANGED params /\ UNCHANGED auth
      /\ result # "committed"
  BY AnswerIs
<1>3. /\ op'.kind = op.kind /\ op'.step = op.step /\ op'.todo = op.todo
      /\ op'.phase = next /\ op'.attempt = op.attempt /\ op'.seq = 0
      /\ op'.session = op.session /\ op'.challenge = op.challenge
      /\ op' = [kind |-> op'.kind, step |-> op'.step, todo |-> op'.todo,
                phase |-> op'.phase, attempt |-> op'.attempt, seq |-> op'.seq,
                session |-> op'.session, challenge |-> op'.challenge]
  BY BecomesFields
<1>4. IsCall(op') /\ op' # Idle /\ ~Waiting'
  <2>1. 0 \in 0 .. MaxSeq
    BY BoundsAssumption
  <2>2. IsCall(op')
    BY <1>0, <1>3, <2>1 DEF IsCall
  <2> QED BY <1>3, <2>2, KindIsCall DEF Waiting
<1>5. TabTyped' /\ OpTyped'
  BY <1>0, <1>3, <1>4 DEF TabTyped, OpTyped
<1>6. /\ session' = session /\ challenge' = challenge /\ authed' = authed
      /\ Held' = Held /\ Acting' = Acting /\ Wanted' = Wanted
  BY <1>0, <1>3, <1>4 DEF auth, Held, Acting, Wanted
<1>7. Acting => ~authed /\ \A i \in 1 .. Len(toHost') : ~Succeeds(toHost'[i])
  <2>1. Forgets(toHost)
    <3>1. 1 \in 1 .. Len(toHost) /\ Head(toHost) = toHost[1]
      BY AnswerIs
    <3> QED BY <3>1 DEF Forgets, Forgotten, Greeted
  <2>2. \A i \in 1 .. Len(toHost') : i + 1 \in 1 .. Len(toHost) /\ toHost'[i] = toHost[i + 1]
    BY AnswerIs
  <2> QED BY <1>0, <2>1, <2>2 DEF Exchange, Writing
<1>8. Tokens(toHost, toModule)'
  BY <1>0, <1>6 DEF Exchange, Tokens
<1>9. Begins(toHost, toModule)'
  BY <1>0, <1>3, <1>6 DEF Exchange, Begins, Unproved
<1>10. Proving(toHost, toModule)'
  BY <1>0, <1>3, <1>6 DEF Exchange, Proving
<1>11. Writing(toHost, toModule)'
  BY <1>0, <1>6, <1>7 DEF Exchange, Writing
<1>12. Numbered(toHost, toModule)'
  <2>1. Ready' = FALSE /\ Awaited' = FALSE
    BY <1>3 DEF Ready, Awaited
  <2> QED BY <1>0, <1>3, <1>6, <2>1 DEF Exchange, Numbered
<1>13. Meant(toHost)'
  BY <1>6, <1>7 DEF Meant
<1>14. Kept(toModule)'
  BY <1>0, KeptFewer DEF Exchange
<1> QED BY <1>4, <1>5, <1>8, <1>9, <1>10, <1>11, <1>12, <1>13, <1>14
           DEF Outcome, Exchange

LEMMA UnderstoodOutcome ==
  ASSUME RInv, Receive, port' = port, Recognised(Head(toHost).body),
         Understood(Head(toHost).body)
  PROVE  Outcome
<1> DEFINE r == Head(toHost).body
<1>1. CASE HelloAnswered(r)
  <2>1. r.name = "hello_ok"
    BY <1>1 DEF HelloAnswered, Recognised, Expected
  <2> QED BY <1>1, <2>1, HelloOutcome
<1>2. CASE BeginAnswered(r)
  <2>1. r.name = "challenge"
    BY <1>2 DEF BeginAnswered, Recognised, Expected
  <2> QED BY <1>2, <2>1, ChallengeOutcome
<1>3. CASE ProveAnswered
  <2>1. r.name = "auth_ok"
    BY <1>3 DEF ProveAnswered, Recognised, Expected
  <2> QED BY <1>3, <2>1, ProofOutcome
<1>4. CASE SetAnswered
  <2>1. r.name = "param_set"
    BY <1>4 DEF SetAnswered, Recognised, Expected
  <2> QED BY <1>4, <2>1, SetOutcome
<1>5. CASE CommitAnswered
  <2>1. r.name = "committed"
    BY <1>5 DEF CommitAnswered, Recognised, Expected
  <2> QED BY <1>5, <2>1, StoreOutcome
<1>6. CASE RevertAnswered
  <2>1. r.name = "reverted"
    BY <1>6 DEF RevertAnswered, Recognised, Expected
  <2> QED BY <1>6, <2>1, StoreOutcome
<1>7. CASE ReadAnswered(r)
  <2>1. r.name = "value"
    BY <1>7 DEF ReadAnswered, Recognised, Expected
  <2> QED BY <1>7, <2>1, ReadOutcome
<1>8. CASE ByeAnswered
  BY <1>8, ByeOutcome
<1> QED BY <1>1, <1>2, <1>3, <1>4, <1>5, <1>6, <1>7, <1>8 DEF Understood

LEMMA ReceiveReports ==
  ASSUME RInv, Receive
  PROVE  RInv'
<1> DEFINE r == Head(toHost).body
<1>0. /\ op # Idle /\ op.seq # 0 /\ TabTyped /\ OpTyped /\ AllAnswer(toHost')
      /\ Exchange(toHost', toModule') /\ toModule' = toModule /\ UNCHANGED <<params, auth>>
      /\ Len(toHost) \in Nat /\ Len(toHost') = Len(toHost) - 1 /\ 1 \in 1 .. Len(toHost)
  BY AnswerIs
<1>1. Reply(r) /\ UNCHANGED count
  BY DEF Receive
<1> HIDE DEF r
<1>2. Outcome
  <2>1. CASE Forgotten(r) \/ Greeted(r)
    <3>1. /\ op' = [op EXCEPT !.phase = IF @ = "command" THEN "rehello" ELSE "repeat", !.seq = 0]
          /\ UNCHANGED <<rows, edited, applied, result, accepted, port, stale>>
      BY <1>1, <2>1 DEF Reply, Forgotten, Greeted
    <3> DEFINE next == IF op.phase = "command" THEN "rehello" ELSE "repeat"
    <3>2. op' = [op EXCEPT !.phase = next, !.seq = 0] /\ next \in {"rehello", "repeat"}
      BY <3>1
    <3> HIDE DEF next
    <3>3. Becomes(op', op, op.step, op.todo, next, op.attempt, 0, op.session, op.challenge)
      BY <1>0, <3>2, AnswerIs, CallChanges
    <3> QED BY <2>1, <3>1, <3>2, <3>3, GreetOutcome DEF r
  <2>2. CASE ~(Forgotten(r) \/ Greeted(r)) /\ op.phase = "rehello"
    <3>1. AttemptFails
      BY <1>1, <2>2 DEF Reply
    <3> QED BY <1>0, <3>1, AttemptReports DEF Outcome
  <2>3. CASE ~(Forgotten(r) \/ Greeted(r)) /\ op.phase # "rehello"
    <3>1. (IF Recognised(r) THEN Understood(r) ELSE Failed) /\ port' = port
      BY <1>1, <2>3 DEF Reply
    <3>2. CASE Recognised(r)
      BY <3>1, <3>2, UnderstoodOutcome DEF r
    <3>3. CASE ~Recognised(r)
      BY <1>0, <3>1, <3>3, FailedReports DEF Outcome
    <3> QED BY <3>2, <3>3
  <2> QED BY <2>1, <2>2, <2>3
<1>3. PInv'
  BY <1>0, SameKeeps DEF RInv
<1>4. LinkTyped'
  BY <1>0, LinkIs DEF RInv, LinkTyped, params, auth
<1>5. Bounded'
  <2>1. Waiting /\ ~Waiting'
    BY <1>0, <1>2 DEF Waiting, Outcome
  <2>2. Len(toModule) \in Nat
    BY LinkIs DEF IsSeq
  <2> QED BY <1>0, <1>1, <2>1, <2>2, BoundsAssumption DEF RInv, Bounded, Crowd
<1> QED BY <1>2, <1>3, <1>4, <1>5 DEF RInv, Outcome

--------------------------------------------------------------------------------
(* A frame is sent                                                              *)

LEMMA CommandIs ==
  ASSUME IsCall(op)
  PROVE  /\ Command.name \in DOMAIN Expected \cup {"bye"}
         /\ Command.name \in {"set", "read"} => Command.p \in Param
         /\ Command.name = "prove" => /\ "challenge" \in DOMAIN Command
                                      /\ Command.challenge = op.challenge
                                      /\ op.step = "prove"
         /\ Command.name = "begin" => op.step = "begin"
         /\ op.step = "prove" => Command.name \in {"prove", "hello"}
         /\ op.step \in Writes => Command.name \in {"prove", "hello"} \/ Command = Wanted
         /\ Command.name = "set" => Undone(Command) = {Command.p}
         /\ Command.name = "revert" => Undone(Command) = Param
<1>0. /\ op.step \in {"hello", "begin", "prove", "set", "commit", "revert", "read", "bye"}
  BY StepIs
<1>1. CASE op.phase = "rehello"
  BY <1>1 DEF Command, Expected
<1>2. CASE op.phase # "rehello" /\ op.step = "prove"
  BY <1>2 DEF Command, Expected, Writes
<1>3. CASE op.phase # "rehello" /\ op.step = "set"
  <2>1. FirstOf(op.todo) \in Param
    BY DEF FirstOf, Param
  <2>2. Command = [name |-> "set", p |-> FirstOf(op.todo), v |-> edited[FirstOf(op.todo)]]
    BY <1>3 DEF Command
  <2> QED BY <1>3, <2>1, <2>2 DEF Expected, Wanted, Undone
<1>4. CASE op.phase # "rehello" /\ op.step = "read"
  <2>1. FirstOf(op.todo) \in Param
    BY DEF FirstOf, Param
  <2>2. Command = [name |-> "read", p |-> FirstOf(op.todo)]
    BY <1>4 DEF Command
  <2> QED BY <1>4, <2>1, <2>2 DEF Expected, Writes
<1>5. CASE op.phase # "rehello" /\ op.step \notin {"prove", "set", "read"}
  <2>1. Command = [name |-> op.step]
    BY <1>5 DEF Command
  <2> QED BY <1>0, <1>5, <2>1 DEF Expected, Wanted, Undone
<1> QED BY <1>1, <1>2, <1>3, <1>4, <1>5

(* Where a frame is sent: nobody waits, and the frame comes last.               *)
LEMMA SendIs ==
  ASSUME RInv, NEW n \in 0 .. Len(toHost), Send(n), port' # 1
  PROVE  /\ op # Idle /\ IsCall(op) /\ op.seq = 0
         /\ LinkTyped /\ TabTyped /\ OpTyped /\ Bounded
         /\ AllAnswer(toHost') /\ Exchange(toHost', toModule)
         /\ Len(toHost) \in Nat /\ Len(toHost') \in Nat /\ Len(toHost') <= Len(toHost)
         /\ \E seq \in 1 .. MaxSeq :
              /\ seq = IF port = 0 THEN 1 ELSE port
              /\ Becomes(op', op, op.step, op.todo, op.phase, op.attempt, seq,
                         op.session, op.challenge)
              /\ toModule' = Append(toModule, Frame(seq, Command))
              /\ port' # 0 /\ port' \in 0 .. MaxSeq
         /\ accepted' = accepted \ Undone(Command)
         /\ UNCHANGED <<params, rows, edited, applied, result, auth, count>>
<1>1. /\ LinkTyped /\ TabTyped /\ OpTyped /\ Bounded /\ Exchange(toHost, toModule)
      /\ AllAnswer(toHost) /\ AllAsk(toModule) /\ IsSeq(toHost) /\ IsSeq(toModule)
  BY LinkIs DEF RInv
<1>2. /\ op # Idle /\ op.seq = 0 /\ accepted' = accepted \ Undone(Command)
      /\ toHost' = SubSeq(toHost, n + 1, Len(toHost))
      /\ UNCHANGED <<params, rows, edited, applied, result, auth, count>>
  BY DEF Send
<1>3. Suffix(toHost', toHost) /\ Suffix(toModule, toModule)
  BY <1>1, <1>2, DropIs, SuffixItself
<1>4. AllAnswer(toHost') /\ Exchange(toHost', toModule)
  BY <1>1, <1>3, ExchangeLess, TypedLess
<1>5. Len(toHost) \in Nat /\ Len(toHost') \in Nat /\ Len(toHost') <= Len(toHost)
  BY <1>1, <1>3, SuffixHas DEF IsSeq
<1>6. IsCall(op)
  BY <1>1, <1>2 DEF OpTyped
<1> DEFINE seq == IF port = 0 THEN 1 ELSE port
<1>7. seq \in 1 .. MaxSeq
  BY <1>1, BoundsAssumption DEF TabTyped
<1>8. /\ op' = [op EXCEPT !.seq = seq] /\ port' = NextSeq(seq)
      /\ toModule' = Append(toModule, Frame(seq, Command))
  BY DEF Send
<1> HIDE DEF seq
<1>9. Becomes(op', op, op.step, op.todo, op.phase, op.attempt, seq, op.session, op.challenge)
  BY <1>6, <1>8, CallChanges
<1>10. port' # 0 /\ port' \in 0 .. MaxSeq
  BY <1>7, <1>8, BoundsAssumption DEF NextSeq
<1> QED BY <1>1, <1>2, <1>4, <1>5, <1>6, <1>7, <1>8, <1>9, <1>10 DEF seq

LEMMA SendReports ==
  ASSUME RInv, NEW n \in 0 .. Len(toHost), Send(n), port' # 1
  PROVE  RInv'
<1>0. /\ op # Idle /\ IsCall(op) /\ op.seq = 0 /\ ~Waiting
      /\ LinkTyped /\ TabTyped /\ OpTyped /\ Bounded
      /\ AllAnswer(toHost') /\ Exchange(toHost', toModule)
      /\ Len(toHost) \in Nat /\ Len(toHost') \in Nat /\ Len(toHost') <= Len(toHost)
      /\ accepted' = accepted \ Undone(Command)
      /\ UNCHANGED <<params, rows, edited, applied, result, auth, count>>
  BY SendIs DEF Waiting
<1>1. PICK seq \in 1 .. MaxSeq :
        /\ seq = IF port = 0 THEN 1 ELSE port
        /\ Becomes(op', op, op.step, op.todo, op.phase, op.attempt, seq,
                   op.session, op.challenge)
        /\ toModule' = Append(toModule, Frame(seq, Command))
        /\ port' # 0 /\ port' \in 0 .. MaxSeq
  BY SendIs
<1> DEFINE f == Frame(seq, Command)
<1>2. f.body = Command /\ f.seq = seq /\ IsFrame(f)
  BY DEF Frame, IsFrame
<1>3. /\ Command.name \in DOMAIN Expected \cup {"bye"}
      /\ Command.name \in {"set", "read"} => Command.p \in Param
      /\ Command.name = "prove" => /\ "challenge" \in DOMAIN Command
                                   /\ Command.challenge = op.challenge
                                   /\ op.step = "prove"
      /\ Command.name = "begin" => op.step = "begin"
      /\ op.step = "prove" => Command.name \in {"prove", "hello"}
      /\ op.step \in Writes => Command.name \in {"prove", "hello"} \/ Command = Wanted
      /\ Command.name = "set" => Undone(Command) = {Command.p}
      /\ Command.name = "revert" => Undone(Command) = Param
  BY <1>0, CommandIs
<1>4. toModule' = Append(toModule, f)
  BY <1>1
<1> HIDE DEF f
<1>5. /\ IsSeq(toModule') /\ Len(toModule) \in Nat /\ Len(toModule') = Len(toModule) + 1
      /\ \A k \in 1 .. Len(toModule) : toModule'[k] = toModule[k]
      /\ toModule'[Len(toModule) + 1] = f
  BY <1>4, LinkIs, AppendIs DEF IsSeq
<1>6. \A k \in 1 .. Len(toModule') :
        \/ k \in 1 .. Len(toModule) /\ toModule'[k] = toModule[k]
        \/ k = Len(toModule) + 1 /\ toModule'[k] = f
  BY <1>5
<1>7. /\ op'.kind = op.kind /\ op'.step = op.step /\ op'.todo = op.todo
      /\ op'.phase = op.phase /\ op'.attempt = op.attempt /\ op'.seq = seq
      /\ op'.session = op.session /\ op'.challenge = op.challenge
      /\ op' = [kind |-> op'.kind, step |-> op'.step, todo |-> op'.todo,
                phase |-> op'.phase, attempt |-> op'.attempt, seq |-> op'.seq,
                session |-> op'.session, challenge |-> op'.challenge]
  BY <1>1, BecomesFields
<1>8. IsCall(op') /\ op' # Idle /\ Waiting'
  <2>1. seq \in 0 .. MaxSeq /\ seq # 0
    BY <1>1
  <2>2. IsCall(op')
    BY <1>0, <1>7, <2>1 DEF IsCall
  <2> QED BY <1>7, <2>1, <2>2, KindIsCall DEF Waiting
<1>9. PInv'
  BY LinkKeeps DEF RInv
<1>10. LinkTyped'
  <2>1. Asks(f)
    BY <1>2, <1>3 DEF Asks
  <2>2. AllAsk(toModule')
    BY <1>0, <1>5, <1>6, <2>1 DEF AllAsk, LinkTyped
  <2>3. promoting' = promoting
    BY <1>0 DEF params
  <2> QED BY <1>0, <1>5, <2>2, <2>3 DEF LinkTyped, auth
<1>11. TabTyped' /\ OpTyped'
  BY <1>0, <1>1, <1>7, <1>8 DEF TabTyped, OpTyped
<1>12. Bounded'
  <2>1. Crowd' = Crowd + 1
    BY <1>0, <1>8, BoundsAssumption DEF Crowd, Bounded
  <2>2. Crowd \in Nat
    BY <1>0, BoundsAssumption DEF Crowd, Bounded
  <2> QED BY <1>0, <1>5, <2>1, <2>2 DEF Bounded
<1>13. /\ session' = session /\ challenge' = challenge /\ authed' = authed
       /\ Held = op.challenge /\ Held' = Held /\ Acting' = Acting /\ Wanted' = Wanted
  BY <1>0, <1>7, <1>8 DEF auth, Held, Acting, Wanted
<1>14. Tokens(toHost, toModule)'
  <2>1. \A c : Proves(f, c) => c = Held
    BY <1>2, <1>3, <1>13 DEF Proves
  <2>2. ASSUME NEW i \in 1 .. Len(toHost'), Offers(toHost'[i]), NEW k \in 1 .. Len(toModule')
        PROVE  ~Proves(toModule'[k], toHost'[i].body.challenge)
    <3>1. CASE k \in 1 .. Len(toModule) /\ toModule'[k] = toModule[k]
      BY <1>0, <2>2, <3>1 DEF Exchange, Tokens
    <3>2. CASE toModule'[k] = f
      BY <1>0, <2>1, <2>2, <3>2 DEF Exchange, Tokens
    <3> QED BY <1>6, <2>2, <3>1, <3>2
  <2>3. ASSUME challenge # 0, NEW k \in 1 .. Len(toModule'), Proves(toModule'[k], challenge)
        PROVE  Held \in {0, challenge} /\ \A i \in 1 .. Len(toHost') : ~Offers(toHost'[i])
    <3>1. CASE k \in 1 .. Len(toModule) /\ toModule'[k] = toModule[k]
      BY <1>0, <2>3, <3>1 DEF Exchange, Tokens
    <3>2. CASE toModule'[k] = f
      BY <1>0, <2>1, <2>3, <3>2 DEF Exchange, Tokens
    <3> QED BY <1>6, <2>3, <3>1, <3>2
  <2> QED BY <1>0, <1>13, <2>2, <2>3 DEF Exchange, Tokens
<1>15. Begins(toHost, toModule)'
  <2>1. \A c : Proves(f, c) => c = Held /\ op.step = "prove"
    BY <1>2, <1>3, <1>13 DEF Proves
  <2>2. Unproved(toModule) /\ ~Proves(f, challenge) => Unproved(toModule')
    BY <1>6 DEF Unproved
  <2>3. (challenge = 0) => Unproved(toModule')
    BY DEF Unproved
  <2>4. ASSUME NEW j \in 1 .. Len(toHost'), toHost'[j].body.name = "hello_ok"
        PROVE  ~authed /\ Unproved(toModule')
    BY <1>0, <2>1, <2>2, <2>3, <2>4 DEF Exchange, Begins
  <2>5. op.step = "begin" => ~authed /\ Unproved(toModule) /\ Unproved(toModule')
    BY <1>0, <2>1, <2>2 DEF Exchange, Begins
  <2>6. ASSUME NEW k \in 1 .. Len(toModule'), toModule'[k].body.name = "begin"
        PROVE  /\ ~authed
               /\ challenge # 0 =>
                    \A l \in 1 .. Len(toModule') : l < k => ~Proves(toModule'[l], challenge)
    <3>1. CASE k \in 1 .. Len(toModule) /\ toModule'[k] = toModule[k]
      <4>1. \A l \in 1 .. Len(toModule') :
              l < k => l \in 1 .. Len(toModule) /\ toModule'[l] = toModule[l]
        BY <1>5, <1>6, <3>1
      <4> QED BY <1>0, <2>6, <3>1, <4>1 DEF Exchange, Begins
    <3>2. CASE k = Len(toModule) + 1 /\ toModule'[k] = f
      <4>1. \A l \in 1 .. Len(toModule') :
              l < k => l \in 1 .. Len(toModule) /\ toModule'[l] = toModule[l]
        BY <1>5, <1>6, <3>2
      <4>2. op.step = "begin"
        BY <1>2, <1>3, <2>6, <3>2
      <4> QED BY <2>5, <4>1, <4>2 DEF Unproved
    <3> QED BY <1>6, <2>6, <3>1, <3>2
  <2> QED BY <1>0, <1>7, <1>13, <2>4, <2>5, <2>6 DEF Exchange, Begins, Unproved
<1>16. Proving(toHost, toModule)'
  <2> SUFFICES ASSUME op.step = "prove" PROVE Proving(toHost, toModule)'
    BY <1>7 DEF Proving
  <2>1. Late(f)
    BY <1>2, <1>3 DEF Late
  <2>2. (\A k \in 1 .. Len(toModule) : Late(toModule[k]))
          => \A k \in 1 .. Len(toModule') : Late(toModule'[k])
    BY <1>6, <2>1
  <2>3. ASSUME NEW k \in 1 .. Len(toModule'), Proves(toModule'[k], op.challenge),
               NEW l \in 1 .. Len(toModule'), l > k
        PROVE  Late(toModule'[l])
    <3>1. CASE l \in 1 .. Len(toModule) /\ toModule'[l] = toModule[l]
      <4>1. k \in 1 .. Len(toModule) /\ toModule'[k] = toModule[k]
        BY <1>5, <1>6, <2>3, <3>1
      <4> QED BY <1>0, <2>3, <3>1, <4>1 DEF Exchange, Proving
    <3>2. CASE toModule'[l] = f
      BY <2>1, <3>2
    <3> QED BY <1>6, <2>3, <3>1, <3>2
  <2> QED BY <1>0, <1>7, <1>13, <2>2, <2>3 DEF Exchange, Proving
<1>17. Writing(toHost, toModule)'
  <2>1. Acting => \A k \in 1 .. Len(toModule') : Late(toModule'[k]) \/ toModule'[k].body = Wanted
    <3>1. Acting => Late(f) \/ f.body = Wanted
      BY <1>2, <1>3 DEF Acting, Late
    <3> QED BY <1>0, <1>6, <3>1 DEF Exchange, Writing
  <2>2. Forgets(toHost)' => Forgets(toHost')
    BY <1>7, <1>13 DEF Forgets
  <2> QED BY <1>0, <1>13, <2>1, <2>2 DEF Exchange, Writing
<1>18. Numbered(toHost, toModule)'
  <2> SUFFICES ASSUME Acting PROVE Numbered(toHost, toModule)'
    BY <1>13 DEF Numbered
  <2>1. /\ op.attempt = 1 => port # 0 /\ seq # 1
        /\ op.attempt = 1 => AboveOne(toHost', toModule)
    BY <1>0, <1>1 DEF Exchange, Numbered, TabTyped
  <2>2. op.attempt = 1 => AboveOne(toHost', toModule')
    BY <1>2, <1>6, <2>1 DEF AboveOne
  <2>3. Ready' = FALSE
    BY <1>1, <1>7 DEF Ready
  <2>4. ASSUME op.phase = "command" PROVE LastIs(toHost', toModule', seq)
    <3>1. Ready
      BY <1>0, <2>4 DEF Ready
    <3>2. /\ \A k \in 1 .. Len(toModule) : IsWrite(toModule[k]) => toModule[k].seq # seq
          /\ \A i \in 1 .. Len(toHost') : Succeeds(toHost'[i]) => toHost'[i].seq # seq
      <4>1. CASE op.attempt = 1
        BY <1>0, <3>1, <4>1 DEF Exchange, Numbered, NoneYet
      <4>2. CASE op.attempt # 1
        BY <1>0, <1>1, <3>1, <4>2 DEF Exchange, Numbered, AboveOne
      <4> QED BY <4>1, <4>2
    <3>3. ASSUME NEW k \in 1 .. Len(toModule'), IsWrite(toModule'[k]), toModule'[k].seq = seq,
                 NEW l \in 1 .. Len(toModule')
          PROVE  ~(l > k)
      <4>1. k = Len(toModule) + 1
        BY <1>6, <3>2, <3>3
      <4> QED BY <1>5, <3>3, <4>1
    <3> QED BY <3>2, <3>3 DEF LastIs
  <2>5. Awaited' => op.phase = "command"
    BY <1>7 DEF Awaited
  <2> QED BY <1>1, <1>7, <2>2, <2>3, <2>4, <2>5 DEF Numbered
<1>19. Meant(toHost)'
  BY <1>0, <1>7, <1>13 DEF Exchange, Meant, InForce, params
<1>20. Kept(toModule)'
  <2>1. result' # "committed"
    BY <1>0, CallReportsNothing DEF Exchange
  <2>2. /\ staging' = staging /\ loadPending' = loadPending /\ applied' = applied
    BY <1>0 DEF params
  <2>3. ASSUME NEW p \in accepted'
        PROVE  /\ p \in accepted /\ p \notin Undone(Command) /\ p \in Param
               /\ staging[p] = applied[p]
    BY <1>0, <2>3 DEF Exchange, Kept, TabTyped
  <2>4. ASSUME NEW p \in accepted', NEW k \in 1 .. Len(toModule'),
               toModule'[k].body.name = "set"
        PROVE  toModule'[k].body.p # p
    <3>1. CASE k \in 1 .. Len(toModule) /\ toModule'[k] = toModule[k]
      BY <1>0, <2>3, <2>4, <3>1 DEF Exchange, Kept
    <3>2. CASE toModule'[k] = f
      BY <1>2, <1>3, <2>3, <2>4, <3>2
    <3> QED BY <1>6, <2>4, <3>1, <3>2
  <2>5. ASSUME accepted' # {}
        PROVE  ~loadPending /\ \A k \in 1 .. Len(toModule') : toModule'[k].body.name # "revert"
    <3>1. f.body.name # "revert"
      BY <1>2, <1>3, <2>3, <2>5
    <3>2. accepted # {}
      BY <2>3, <2>5
    <3> QED BY <1>0, <1>6, <3>1, <3>2 DEF Exchange, Kept
  <2> QED BY <2>1, <2>2, <2>3, <2>4, <2>5 DEF Kept
<1> QED BY <1>9, <1>10, <1>11, <1>12, <1>14, <1>15, <1>16, <1>17, <1>18, <1>19, <1>20
           DEF RInv, Exchange

--------------------------------------------------------------------------------
(* The module answers                                                           *)

(* A number that nobody knows yet.                                              *)
New(n) ==
  /\ n # 0 /\ n # challenge /\ n # Held
  /\ \A i \in 1 .. Len(toHost) : Offers(toHost[i]) => toHost[i].body.challenge # n
  /\ \A k \in 1 .. Len(toModule) : ~Proves(toModule[k], n)

(* What becomes of the session when the oldest request is answered by e.        *)
Replies(e) ==
  LET c == toModule[1].body
  IN \/ /\ c.name = "hello" /\ e.body.name = "hello_ok"
        /\ session' # 0 /\ authed' = FALSE /\ challenge' = 0
     \/ /\ c.name = "begin" /\ e.body.name = "challenge"
        /\ e.body.challenge = challenge' /\ New(challenge')
        /\ session # 0 /\ UNCHANGED <<session, authed>>
     \/ /\ c.name = "prove" /\ e.body.name = IF Proved(c) THEN "auth_ok" ELSE "auth_failed"
        /\ session # 0 /\ session' = session /\ authed' = Proved(c) /\ challenge' = 0
     \/ /\ c.name = "bye" /\ e.body.name = "bye_ok"
        /\ session' = 0 /\ authed' = FALSE /\ challenge' = 0
     \/ /\ c.name \notin {"hello", "bye"} /\ e.body.name = "hello_required"
        /\ session = 0 /\ UNCHANGED auth
     \/ /\ c.name \in Writes \cup {"read"} /\ session # 0 /\ UNCHANGED auth
        /\ e.body.name \notin {"hello_ok", "hello_required", "challenge", "auth_ok"}
        /\ Succeeds(e) => authed /\ c.name \in Writes
Answered(e) ==
  /\ toModule # <<>> /\ toModule' = Tail(toModule) /\ toHost' = Append(toHost, e)
  /\ e.seq = toModule[1].seq
  /\ UNCHANGED <<op, edited, port>>

LEMMA ReplyIs ==
  ASSUME RInv, NEW e, Answered(e)
  PROVE  /\ Len(toModule) \in Nat /\ Len(toHost) \in Nat /\ 1 \in 1 .. Len(toModule)
         /\ Len(toModule') = Len(toModule) - 1 /\ Len(toHost') = Len(toHost) + 1
         /\ Head(toModule) = toModule[1]
         /\ \A k \in 1 .. Len(toModule') :
              k + 1 \in 1 .. Len(toModule) /\ k + 1 > 1 /\ toModule'[k] = toModule[k + 1]
         /\ \A i \in 1 .. Len(toHost') :
              \/ i \in 1 .. Len(toHost) /\ toHost'[i] = toHost[i]
              \/ i = Len(toHost) + 1 /\ toHost'[i] = e
         /\ Exchange(toHost, toModule) /\ Exchange(toHost, toModule')
         /\ IsSeq(toHost') /\ IsSeq(toModule')
         /\ \A i \in 1 .. Len(toHost) : Answers(toHost[i])
         /\ \A k \in 1 .. Len(toModule) : Asks(toModule[k])
         /\ \A k \in 1 .. Len(toModule') : Asks(toModule'[k])
         /\ Held' = Held /\ Acting' = Acting /\ Wanted' = Wanted
<1>1. /\ IsSeq(toHost) /\ IsSeq(toModule) /\ AllAsk(toModule) /\ AllAnswer(toHost)
      /\ Exchange(toHost, toModule) /\ Len(toModule) \in Nat /\ Len(toHost) \in Nat
  BY LinkIs DEF RInv, IsSeq
<1>2. /\ toModule # <<>> /\ toModule' = Tail(toModule) /\ toHost' = Append(toHost, e)
      /\ op' = op /\ edited' = edited
  BY DEF Answered
<1>3. /\ Suffix(toModule', toModule) /\ Len(toModule') = Len(toModule) - 1
      /\ Len(toModule) >= 1 /\ Head(toModule) = toModule[1]
      /\ \A i \in 1 .. Len(toModule) - 1 : toModule'[i] = toModule[i + 1]
  BY <1>1, <1>2, TailIs
<1>4. /\ IsSeq(toHost') /\ Len(toHost') = Len(toHost) + 1
      /\ \A i \in 1 .. Len(toHost) : toHost'[i] = toHost[i]
      /\ toHost'[Len(toHost) + 1] = e
  BY <1>1, <1>2, AppendIs
<1>5. Exchange(toHost, toModule') /\ AllAsk(toModule')
  BY <1>1, <1>3, SuffixItself, ExchangeLess, TypedLess
<1>6. IsSeq(toModule')
  BY <1>5 DEF AllAsk
<1>7. \A k \in 1 .. Len(toModule') :
        k + 1 \in 1 .. Len(toModule) /\ k + 1 > 1 /\ toModule'[k] = toModule[k + 1]
  BY <1>1, <1>3
<1>8. \A i \in 1 .. Len(toHost') :
        \/ i \in 1 .. Len(toHost) /\ toHost'[i] = toHost[i]
        \/ i = Len(toHost) + 1 /\ toHost'[i] = e
  BY <1>1, <1>4
<1>9. 1 \in 1 .. Len(toModule)
  BY <1>1, <1>3
<1>10. Held' = Held /\ Acting' = Acting /\ Wanted' = Wanted
  BY <1>2 DEF Held, Acting, Wanted
<1>11. /\ \A i \in 1 .. Len(toHost) : Answers(toHost[i])
       /\ \A k \in 1 .. Len(toModule) : Asks(toModule[k])
       /\ \A k \in 1 .. Len(toModule') : Asks(toModule'[k])
  BY <1>1, <1>5 DEF AllAnswer, AllAsk
<1> QED BY <1>1, <1>3, <1>4, <1>5, <1>6, <1>7, <1>8, <1>9, <1>10, <1>11

(* How a challenge changes, and when a proof succeeds.                          *)
LEMMA ChallengeIs ==
  ASSUME RInv, NEW e, Answered(e), Replies(e)
  PROVE  /\ \/ challenge' \in {challenge, 0} /\ ~Offers(e)
            \/ /\ New(challenge') /\ e.body.challenge = challenge'
               /\ toModule[1].body.name = "begin" /\ authed' = authed /\ e.body.name = "challenge"
         /\ e.body.name = "auth_ok" =>
              /\ challenge # 0 /\ Proves(toModule[1], challenge)
              /\ session' # 0 /\ challenge' = 0
         /\ authed' => authed \/ (challenge # 0 /\ Proves(toModule[1], challenge))
         /\ authed' => session' # 0
         /\ authed' /\ ~authed => challenge' = 0
<1>1. authed => session # 0
  BY DEF RInv, Exchange, Begins
<1> DEFINE c == toModule[1].body
<1>2. CASE c.name = "prove" /\ e.body.name = (IF Proved(c) THEN "auth_ok" ELSE "auth_failed")
           /\ session # 0 /\ session' = session /\ authed' = Proved(c) /\ challenge' = 0
  <2>1. CASE Proved(c)
    BY <1>2, <2>1 DEF Proves, Proved, Offers
  <2>2. CASE ~Proved(c)
    <3>1. ~authed'
      BY <1>2, <2>2
    <3> QED BY <1>2, <2>2, <3>1 DEF Offers
  <2> QED BY <2>1, <2>2
<1>3. CASE /\ c.name = "begin" /\ e.body.name = "challenge"
           /\ e.body.challenge = challenge' /\ New(challenge')
           /\ session # 0 /\ UNCHANGED <<session, authed>>
  BY <1>3
<1>4. CASE /\ e.body.name \in {"hello_ok", "bye_ok"} /\ authed' = FALSE /\ challenge' = 0
  BY <1>4 DEF Offers
<1>5. CASE UNCHANGED auth /\ e.body.name \notin {"challenge", "auth_ok"}
  BY <1>1, <1>5 DEF auth, Offers
<1> QED BY <1>2, <1>3, <1>4, <1>5 DEF Replies

LEMMA TokensReply ==
  ASSUME RInv, NEW e, Answered(e), Replies(e)
  PROVE  Tokens(toHost, toModule)'
<1>0. /\ \A i \in 1 .. Len(toHost') :
           \/ i \in 1 .. Len(toHost) /\ toHost'[i] = toHost[i]
           \/ i = Len(toHost) + 1 /\ toHost'[i] = e
      /\ Tokens(toHost, toModule) /\ Tokens(toHost, toModule') /\ Held' = Held
      /\ 1 \in 1 .. Len(toModule) /\ Len(toHost) \in Nat /\ Len(toHost') = Len(toHost) + 1
      /\ \A k \in 1 .. Len(toModule') :
           k + 1 \in 1 .. Len(toModule) /\ toModule'[k] = toModule[k + 1]
      /\ \A i \in 1 .. Len(toHost) : Answers(toHost[i])
  BY ReplyIs DEF Exchange
<1>1. /\ \/ challenge' \in {challenge, 0} /\ ~Offers(e)
         \/ New(challenge') /\ e.body.challenge = challenge' /\ e.body.name = "challenge"
      /\ e.body.name = "auth_ok" => challenge # 0 /\ Proves(toModule[1], challenge)
  BY ChallengeIs
<1>2. ASSUME New(challenge') PROVE \A k \in 1 .. Len(toModule') : ~Proves(toModule'[k], challenge')
  BY <1>0, <1>2 DEF New
<1>3. ASSUME NEW i \in 1 .. Len(toHost'), Offers(toHost'[i])
      PROVE  /\ toHost'[i].body.challenge # Held
             /\ \A k \in 1 .. Len(toModule') : ~Proves(toModule'[k], toHost'[i].body.challenge)
             /\ \A j \in 1 .. Len(toHost') : j > i =>
                  /\ Offers(toHost'[j]) => toHost'[i].body.challenge # toHost'[j].body.challenge
                  /\ Offers(toHost'[j]) => toHost'[i].body.challenge # challenge'
                  /\ toHost'[j].body.name # "auth_ok"
  <2>1. CASE i \in 1 .. Len(toHost) /\ toHost'[i] = toHost[i]
    <3>1. /\ toHost[i].body.challenge # 0 /\ toHost[i].body.challenge # Held
          /\ \A k \in 1 .. Len(toModule') : ~Proves(toModule'[k], toHost[i].body.challenge)
          /\ New(challenge') => toHost[i].body.challenge # challenge'
      BY <1>0, <1>3, <2>1 DEF Answers, Offers, Tokens, New
    <3>2. ASSUME NEW j \in 1 .. Len(toHost'), j > i
          PROVE  /\ Offers(toHost'[j]) => toHost[i].body.challenge # toHost'[j].body.challenge
                 /\ Offers(toHost'[j]) => toHost[i].body.challenge # challenge'
                 /\ toHost'[j].body.name # "auth_ok"
      <4>1. CASE j \in 1 .. Len(toHost) /\ toHost'[j] = toHost[j]
        <5>1. /\ Offers(toHost[j]) => toHost[i].body.challenge # toHost[j].body.challenge
              /\ Offers(toHost[j]) => toHost[i].body.challenge # challenge
              /\ toHost[j].body.name # "auth_ok"
          BY <1>0, <1>3, <2>1, <3>2, <4>1 DEF Tokens
        <5> QED BY <1>1, <3>1, <4>1, <5>1
      <4>2. CASE toHost'[j] = e
        <5>1. e.body.name # "auth_ok"
          BY <1>0, <1>1, <1>3, <2>1 DEF Tokens
        <5> QED BY <1>1, <3>1, <4>2, <5>1
      <4> QED BY <1>0, <3>2, <4>1, <4>2
    <3> QED BY <2>1, <3>1, <3>2
  <2>2. CASE i = Len(toHost) + 1 /\ toHost'[i] = e
    <3>1. New(challenge') /\ e.body.challenge = challenge'
      BY <1>1, <1>3, <2>2
    <3>2. \A j \in 1 .. Len(toHost') : ~(j > i)
      BY <1>0, <2>2
    <3> QED BY <1>2, <2>2, <3>1, <3>2 DEF New
  <2> QED BY <1>0, <1>3, <2>1, <2>2
<1>4. ASSUME challenge' # 0, ~New(challenge')
      PROVE  /\ challenge' = challenge
             /\ (\A i \in 1 .. Len(toHost) : ~Offers(toHost[i]))
                  => \A i \in 1 .. Len(toHost') : ~Offers(toHost'[i])
  BY <1>0, <1>1, <1>4
<1>5. ASSUME challenge' # 0, NEW k \in 1 .. Len(toModule'), Proves(toModule'[k], challenge')
      PROVE  Held \in {0, challenge'} /\ \A i \in 1 .. Len(toHost') : ~Offers(toHost'[i])
  <2>1. ~New(challenge')
    BY <1>2, <1>5
  <2> QED BY <1>0, <1>4, <1>5, <2>1 DEF Tokens
<1>6. ASSUME Held = challenge', challenge' # 0
      PROVE  \A i \in 1 .. Len(toHost') : ~Offers(toHost'[i])
  <2>1. ~New(challenge')
    BY <1>6 DEF New
  <2> QED BY <1>0, <1>4, <1>6, <2>1 DEF Tokens
<1> QED BY <1>0, <1>3, <1>5, <1>6 DEF Tokens

LEMMA BeginsReply ==
  ASSUME RInv, NEW e, Answered(e), Replies(e)
  PROVE  Begins(toHost, toModule)'
<1>0. /\ \A i \in 1 .. Len(toHost') :
           \/ i \in 1 .. Len(toHost) /\ toHost'[i] = toHost[i]
           \/ i = Len(toHost) + 1 /\ toHost'[i] = e
      /\ Begins(toHost, toModule) /\ Held' = Held /\ op' = op
      /\ 1 \in 1 .. Len(toModule) /\ Len(toHost) \in Nat
      /\ \A k \in 1 .. Len(toModule') :
           k + 1 \in 1 .. Len(toModule) /\ k + 1 > 1 /\ toModule'[k] = toModule[k + 1]
  BY ReplyIs DEF Exchange, Answered
<1>1. /\ \/ challenge' \in {challenge, 0} /\ ~Offers(e)
         \/ /\ New(challenge') /\ e.body.challenge = challenge'
            /\ toModule[1].body.name = "begin" /\ authed' = authed /\ e.body.name = "challenge"
      /\ authed' => authed \/ (challenge # 0 /\ Proves(toModule[1], challenge))
      /\ authed' => session' # 0
      /\ authed' /\ ~authed => challenge' = 0
  BY ChallengeIs
<1>2. New(challenge') => \A k \in 1 .. Len(toModule') : ~Proves(toModule'[k], challenge')
  BY <1>0 DEF New
<1>3. ASSUME ~authed, Unproved(toModule)
      PROVE  ~authed' /\ Unproved(toModule)'
  <2>1. ~authed'
    BY <1>0, <1>1, <1>3 DEF Unproved
  <2>2. CASE challenge' = challenge
    BY <1>0, <1>3, <2>1, <2>2 DEF Unproved
  <2>3. CASE challenge' = 0 \/ New(challenge')
    BY <1>2, <2>1, <2>3 DEF Unproved
  <2> QED BY <1>1, <2>2, <2>3
<1>4. ASSUME NEW j \in 1 .. Len(toHost'), toHost'[j].body.name = "hello_ok"
      PROVE  /\ ~authed' /\ Unproved(toModule)'
             /\ challenge' # 0 => Held # challenge'
             /\ challenge' # 0 =>
                  \A i \in 1 .. Len(toHost') :
                    i < j /\ Offers(toHost'[i]) => toHost'[i].body.challenge # challenge'
  <2>1. CASE j \in 1 .. Len(toHost) /\ toHost'[j] = toHost[j]
    <3>1. /\ ~authed /\ Unproved(toModule)
          /\ challenge # 0 => Held # challenge
          /\ challenge # 0 =>
               \A i \in 1 .. Len(toHost) :
                 i < j /\ Offers(toHost[i]) => toHost[i].body.challenge # challenge
      BY <1>0, <1>4, <2>1 DEF Begins
    <3>2. \A i \in 1 .. Len(toHost') : i < j => i \in 1 .. Len(toHost) /\ toHost'[i] = toHost[i]
      BY <1>0, <2>1
    <3>3. New(challenge') =>
            /\ Held # challenge'
            /\ \A i \in 1 .. Len(toHost) : Offers(toHost[i]) => toHost[i].body.challenge # challenge'
      BY DEF New
    <3> QED BY <1>1, <1>3, <3>1, <3>2, <3>3
  <2>2. CASE toHost'[j] = e
    <3>1. authed' = FALSE /\ challenge' = 0
      BY <1>4, <2>2 DEF Replies
    <3> QED BY <3>1 DEF Unproved
  <2> QED BY <1>0, <1>4, <2>1, <2>2
<1>5. op # Idle /\ op.step = "begin" => ~authed' /\ Unproved(toModule)'
  BY <1>0, <1>3 DEF Begins
<1>6. ASSUME NEW k \in 1 .. Len(toModule'), toModule'[k].body.name = "begin"
      PROVE  /\ ~authed'
             /\ challenge' # 0 =>
                  \A l \in 1 .. Len(toModule') : l < k => ~Proves(toModule'[l], challenge')
  <2>1. /\ ~authed
        /\ challenge # 0 => \A l \in 1 .. Len(toModule) : l < k + 1 => ~Proves(toModule[l], challenge)
    BY <1>0, <1>6 DEF Begins
  <2>2. ~authed'
    BY <1>0, <1>1, <1>6, <2>1
  <2>3. ASSUME challenge' # 0, NEW l \in 1 .. Len(toModule'), l < k
        PROVE  ~Proves(toModule'[l], challenge')
    <3>1. l + 1 \in 1 .. Len(toModule) /\ l + 1 < k + 1 /\ toModule'[l] = toModule[l + 1]
      BY <1>0, <1>6, <2>3
    <3> QED BY <1>1, <1>2, <2>1, <2>3, <3>1
  <2> QED BY <2>2, <2>3
<1>7. authed' => session' # 0 /\ challenge' = 0
  <2>1. authed => challenge = 0
    BY <1>0 DEF Begins
  <2>2. toModule[1].body.name = "begin" => ~authed
    BY <1>0 DEF Begins
  <2> QED BY <1>1, <2>1, <2>2
<1> QED BY <1>0, <1>4, <1>5, <1>6, <1>7 DEF Begins

LEMMA ProvingReply ==
  ASSUME RInv, NEW e, Answered(e), Replies(e)
  PROVE  Proving(toHost, toModule)'
<1> SUFFICES ASSUME op # Idle, op.step = "prove" PROVE Proving(toHost, toModule)'
  BY DEF Proving, Answered
<1>0. /\ \A i \in 1 .. Len(toHost') :
           \/ i \in 1 .. Len(toHost) /\ toHost'[i] = toHost[i]
           \/ i = Len(toHost) + 1 /\ toHost'[i] = e
      /\ Proving(toHost, toModule) /\ Proving(toHost, toModule') /\ Tokens(toHost, toModule)
      /\ op' = op /\ 1 \in 1 .. Len(toModule) /\ Len(toHost) \in Nat
      /\ Len(toHost') = Len(toHost) + 1
      /\ \A k \in 1 .. Len(toModule') :
           k + 1 \in 1 .. Len(toModule) /\ k + 1 > 1 /\ toModule'[k] = toModule[k + 1]
  BY ReplyIs DEF Exchange, Answered
<1>1. Held = op.challenge /\ op.challenge # 0
  <2>1. IsCall(op)
    BY DEF RInv, OpTyped
  <2> QED BY <2>1 DEF Held, IsCall
<1>2. ASSUME NEW i \in 1 .. Len(toHost'), toHost'[i].body.name = "auth_ok"
      PROVE  /\ challenge' = 0 /\ session' # 0
             /\ \A k \in 1 .. Len(toModule') : Late(toModule'[k])
             /\ \A j \in 1 .. Len(toHost') : j > i =>
                  toHost'[j].body.name \notin Success \cup {"hello_required"}
  <2>1. CASE i \in 1 .. Len(toHost) /\ toHost'[i] = toHost[i]
    <3>1. /\ challenge = 0 /\ session # 0 /\ Late(toModule[1])
          /\ \A k \in 1 .. Len(toModule') : Late(toModule'[k])
          /\ \A j \in 1 .. Len(toHost) : j > i =>
               toHost[j].body.name \notin Success \cup {"hello_required"}
      BY <1>0, <1>2, <2>1 DEF Proving
    <3>2. /\ challenge' = 0 /\ session' # 0
          /\ e.body.name \in {"hello_ok", "auth_ok", "auth_failed"}
      BY <3>1 DEF Replies, Late, Writes
    <3> QED BY <1>0, <3>1, <3>2 DEF Success
  <2>2. CASE i = Len(toHost) + 1 /\ toHost'[i] = e
    <3>1. challenge # 0 /\ Proves(toModule[1], challenge) /\ session' # 0 /\ challenge' = 0
      BY <1>2, <2>2, ChallengeIs
    <3>2. challenge = op.challenge
      BY <1>0, <1>1, <3>1 DEF Tokens
    <3>3. \A k \in 1 .. Len(toModule') : Late(toModule'[k])
      BY <1>0, <3>1, <3>2 DEF Proving
    <3>4. \A j \in 1 .. Len(toHost') : ~(j > i)
      BY <1>0, <2>2
    <3> QED BY <3>1, <3>3, <3>4
  <2> QED BY <1>0, <1>2, <2>1, <2>2
<1> QED BY <1>0, <1>2 DEF Proving

LEMMA WritingReply ==
  ASSUME RInv, NEW e, Answered(e), Replies(e)
  PROVE  Writing(toHost, toModule)'
<1> SUFFICES ASSUME Acting PROVE Writing(toHost, toModule)'
  BY ReplyIs DEF Writing
<1>0. /\ \A i \in 1 .. Len(toHost') :
           \/ i \in 1 .. Len(toHost) /\ toHost'[i] = toHost[i]
           \/ i = Len(toHost) + 1 /\ toHost'[i] = e
      /\ Writing(toHost, toModule) /\ Writing(toHost, toModule') /\ Wanted' = Wanted
      /\ op' = op /\ 1 \in 1 .. Len(toModule)
  BY ReplyIs DEF Exchange, Answered
<1>1. toModule[1].body.name \in {"prove", "hello"} \cup Writes
  <2>1. Wanted.name \in Writes
    BY DEF Wanted, Acting, Writes
  <2> QED BY <1>0, <2>1 DEF Writing, Late
<1>2. challenge = 0 /\ challenge' = 0
  BY <1>0, <1>1 DEF Writing, Replies, auth, Writes
<1>3. /\ session' = 0 => session = 0
      /\ e.body.name = "hello_required" => session = 0
      /\ authed' => authed
      /\ Succeeds(e) => authed
  <2>1. authed' => authed
    BY <1>2, ChallengeIs
  <2> QED BY <1>1, <2>1 DEF Replies, auth, Writes, Succeeds, Success
<1>4. ASSUME Forgets(toHost)'
      PROVE  ~authed' /\ \A i \in 1 .. Len(toHost') : ~Succeeds(toHost'[i])
  <2>1. Forgets(toHost)
    BY <1>0, <1>3, <1>4 DEF Forgets
  <2>2. ~authed /\ \A i \in 1 .. Len(toHost) : ~Succeeds(toHost[i])
    BY <1>0, <2>1 DEF Writing
  <2> QED BY <1>0, <1>3, <2>2
<1> QED BY <1>0, <1>2, <1>4 DEF Writing

(* A success is the answer to a write, and carries its number.                  *)
LEMMA NumberedReply ==
  ASSUME RInv, NEW e, Answered(e), Replies(e)
  PROVE  Numbered(toHost, toModule)'
<1> SUFFICES ASSUME Acting PROVE Numbered(toHost, toModule)'
  BY ReplyIs DEF Numbered
<1>0. /\ \A i \in 1 .. Len(toHost') :
           \/ i \in 1 .. Len(toHost) /\ toHost'[i] = toHost[i]
           \/ i = Len(toHost) + 1 /\ toHost'[i] = e
      /\ Numbered(toHost, toModule) /\ Numbered(toHost, toModule')
      /\ op' = op /\ port' = port /\ 1 \in 1 .. Len(toModule) /\ Len(toHost) \in Nat
      /\ Len(toHost') = Len(toHost) + 1
      /\ \A k \in 1 .. Len(toModule') :
           k + 1 \in 1 .. Len(toModule) /\ k + 1 > 1 /\ toModule'[k] = toModule[k + 1]
      /\ e.seq = toModule[1].seq
  BY ReplyIs DEF Exchange, Answered
<1>1. Succeeds(e) => IsWrite(toModule[1])
  BY DEF Replies, Succeeds, Success, IsWrite
<1>2. AboveOne(toHost, toModule) => AboveOne(toHost', toModule')
  BY <1>0, <1>1 DEF AboveOne
<1>3. NoneYet(toHost, toModule) => NoneYet(toHost', toModule')
  BY <1>0, <1>1 DEF NoneYet
<1>4. ASSUME NEW n, LastIs(toHost, toModule, n), LastIs(toHost, toModule', n)
      PROVE  LastIs(toHost', toModule', n)
  <2>1. ASSUME NEW i \in 1 .. Len(toHost'), Succeeds(toHost'[i]), toHost'[i].seq = n
        PROVE  /\ \A j \in 1 .. Len(toHost') : j > i => ~Succeeds(toHost'[j])
               /\ \A k \in 1 .. Len(toModule') : ~IsWrite(toModule'[k])
    <3>1. CASE i \in 1 .. Len(toHost) /\ toHost'[i] = toHost[i]
      <4>1. /\ \A k \in 1 .. Len(toModule) : ~IsWrite(toModule[k])
            /\ \A j \in 1 .. Len(toHost) : j > i => ~Succeeds(toHost[j])
        BY <1>4, <2>1, <3>1 DEF LastIs
      <4>2. ~Succeeds(e)
        BY <1>0, <1>1, <4>1
      <4> QED BY <1>0, <4>1, <4>2
    <3>2. CASE i = Len(toHost) + 1 /\ toHost'[i] = e
      <4>1. \A l \in 1 .. Len(toModule) : l > 1 => ~IsWrite(toModule[l])
        BY <1>0, <1>1, <1>4, <2>1, <3>2 DEF LastIs
      <4>2. \A j \in 1 .. Len(toHost') : ~(j > i)
        BY <1>0, <3>2
      <4> QED BY <1>0, <4>1, <4>2
    <3> QED BY <1>0, <2>1, <3>1, <3>2
  <2> QED BY <1>4, <2>1 DEF LastIs
<1>5. Ready' = Ready /\ Awaited' = Awaited
  BY <1>0 DEF Ready, Awaited
<1> QED BY <1>0, <1>2, <1>3, <1>4, <1>5 DEF Numbered

(* What is answered while a call waits for a write that succeeded.              *)
LEMMA AskedIs ==
  ASSUME RInv, Acting, toModule # <<>>
  PROVE  Late(toModule[1]) \/ toModule[1].body = Wanted
<1>1. 1 \in 1 .. Len(toModule)
  <2>1. Len(toModule) # 0 /\ Len(toModule) \in Nat
    BY LinkIs, EmptyIs DEF IsSeq
  <2> QED BY <2>1
<1> QED BY <1>1 DEF RInv, Exchange, Writing

LEMMA FreshIs ==
  ASSUME RInv, NEW c, Drawable(c), c.name \in {"hello", "begin"}
  PROVE  Fresh \in Nat /\ New(Fresh)
<1>1. Fresh \in 1 .. MaxDrawn /\ Fresh \notin Known
  <2>1. \E n \in 1 .. MaxDrawn : n \notin Known
    BY DEF Drawable
  <2> QED BY <2>1 DEF Fresh
<1> DEFINE n == Fresh
<1>2. n \in 1 .. MaxDrawn /\ n \notin Known /\ n \in Nat
  BY <1>1, BoundsAssumption
<1> HIDE DEF n
<1>3. /\ n # challenge /\ n \notin Carried(op)
      /\ n \notin CarriedBy(toModule) /\ n \notin CarriedBy(toHost)
  BY <1>2 DEF Known
<1>4. n # 0
  BY <1>3 DEF Carried
<1>5. n # Held
  <2>1. CASE op = Idle
    BY <1>4, <2>1 DEF Held
  <2>2. CASE op # Idle
    <3>1. "challenge" \in DOMAIN op
      BY <2>2 DEF RInv, OpTyped, IsCall
    <3>2. op["challenge"] \in Carried(op)
      BY <3>1 DEF Carried
    <3> QED BY <1>3, <2>2, <3>2 DEF Held
  <2> QED BY <2>1, <2>2
<1>6. /\ IsSeq(toModule) /\ IsSeq(toHost) /\ AllAsk(toModule) /\ AllAnswer(toHost)
  BY LinkIs
<1>7. ASSUME NEW s, IsSeq(s), n \notin CarriedBy(s), NEW i \in 1 .. Len(s),
             "challenge" \in DOMAIN s[i].body
      PROVE  s[i].body.challenge # n
  <2>1. i \in DOMAIN s
    BY <1>7 DEF IsSeq
  <2>2. s[i].body["challenge"] \in Carried(s[i].body)
    BY <1>7 DEF Carried
  <2>3. s[i].body["challenge"] \in CarriedBy(s)
    BY <2>1, <2>2 DEF CarriedBy
  <2> QED BY <1>7, <2>3
<1>8. \A i \in 1 .. Len(toHost) : Offers(toHost[i]) => toHost[i].body.challenge # n
  BY <1>3, <1>6, <1>7 DEF AllAnswer, Answers, Offers
<1>9. \A k \in 1 .. Len(toModule) : ~Proves(toModule[k], n)
  BY <1>3, <1>6, <1>7 DEF AllAsk, Asks, Proves
<1> QED BY <1>2, <1>3, <1>4, <1>5, <1>8, <1>9 DEF New, n

(* What becomes of the parameters.                                              *)
Stores(e) ==
  LET c == toModule[1].body
  IN \/ UNCHANGED params /\ ~Succeeds(e)
     \/ /\ c.name = "set" /\ e.body.name = "param_set" /\ ~loadPending
        /\ c.v \in InRange[c.p] /\ SetTo(staging', staging, c.p, c.v)
        /\ UNCHANGED <<active, stored, loadPending>>
     \/ /\ c.name = "revert" /\ e.body.name = "reverted" /\ ~loadPending
        /\ UNCHANGED <<active, stored, loadPending>>
     \/ /\ c.name = "commit" /\ e.body.name = "committed" /\ ~loadPending
        /\ InForce' /\ UNCHANGED <<staging, loadPending>>

LEMMA MeantReply ==
  ASSUME RInv, NEW e, Answered(e), Stores(e)
  PROVE  Meant(toHost)'
<1> SUFFICES ASSUME Acting, NEW i0 \in 1 .. Len(toHost'), Succeeds(toHost'[i0])
             PROVE  /\ ~loadPending'
                    /\ op.step = "set" => staging'[FirstOf(op.todo)] = edited[FirstOf(op.todo)]
                    /\ op.step = "commit" => InForce'
  <2>1. op' = op /\ edited' = edited /\ Acting' = Acting
    BY ReplyIs DEF Answered
  <2> QED BY <2>1 DEF Meant
<1>0. /\ \A i \in 1 .. Len(toHost') :
           \/ i \in 1 .. Len(toHost) /\ toHost'[i] = toHost[i]
           \/ i = Len(toHost) + 1 /\ toHost'[i] = e
      /\ Meant(toHost) /\ Asks(toModule[1]) /\ toModule # <<>>
  BY ReplyIs DEF Exchange, Answered
<1> DEFINE c == toModule[1].body
<1>1. c.name \in Writes => c = Wanted /\ c.name = op.step
  BY <1>0, AskedIs DEF Late, Writes, Wanted
<1>2. CASE UNCHANGED params /\ ~Succeeds(e)
  <2>1. i0 \in 1 .. Len(toHost) /\ Succeeds(toHost[i0])
    BY <1>0, <1>2
  <2> QED BY <1>0, <1>2, <2>1 DEF Meant, InForce, params
<1>3. CASE /\ c.name = "set" /\ e.body.name = "param_set" /\ ~loadPending
           /\ c.v \in InRange[c.p] /\ SetTo(staging', staging, c.p, c.v)
           /\ UNCHANGED <<active, stored, loadPending>>
  <2>1. c = Wanted /\ op.step = "set"
    BY <1>1, <1>3 DEF Writes
  <2>2. c.p = FirstOf(op.todo) /\ c.v = edited[FirstOf(op.todo)]
    BY <2>1 DEF Wanted
  <2>3. c.p \in Param /\ staging \in Settings
    BY <1>0, <1>3 DEF Asks, RInv, PInv, Sound, ParamsTypeOK
  <2> DEFINE p == c.p
             v == c.v
  <2>4. p \in Param /\ v \in InRange[p] /\ SetTo(staging', staging, p, v)
    BY <1>3, <2>3
  <2> HIDE DEF p, v
  <2>5. staging'[p] = v
    BY <2>3, <2>4, SettingChanges
  <2> QED BY <1>3, <2>1, <2>2, <2>5 DEF p, v
<1>4. CASE /\ c.name = "revert" /\ ~loadPending
           /\ UNCHANGED <<active, stored, loadPending>>
  BY <1>1, <1>4 DEF Writes
<1>5. CASE /\ c.name = "commit" /\ ~loadPending
           /\ InForce' /\ UNCHANGED <<staging, loadPending>>
  BY <1>1, <1>5 DEF Writes
<1> QED BY <1>2, <1>3, <1>4, <1>5 DEF Stores

LEMMA KeptReply ==
  ASSUME RInv, NEW e, Answered(e), Stores(e), UNCHANGED <<applied, accepted, result>>
  PROVE  Kept(toModule)'
<1>0. /\ Kept(toModule) /\ Kept(toModule') /\ op' = op /\ 1 \in 1 .. Len(toModule)
      /\ Asks(toModule[1]) /\ accepted \subseteq Param
  BY ReplyIs DEF Exchange, Answered, RInv, TabTyped
<1> DEFINE c == toModule[1].body
<1>1. CASE UNCHANGED params /\ ~Succeeds(e)
  BY <1>0, <1>1 DEF Kept, InForce, params
<1>2. ASSUME c.name \in Writes, loadPending' = loadPending,
             \A p \in accepted : staging'[p] = staging[p]
      PROVE  Kept(toModule)'
  <2>1. accepted # {} => result # "committed"
    BY <1>0, <1>2 DEF Kept, IsWrite
  <2> QED BY <1>0, <1>2, <2>1 DEF Kept
<1>3. CASE /\ c.name = "set" /\ ~loadPending
           /\ c.v \in InRange[c.p] /\ SetTo(staging', staging, c.p, c.v)
           /\ UNCHANGED <<active, stored, loadPending>>
  <2> DEFINE p0 == c.p
             v == c.v
  <2>1. p0 \in Param /\ v \in InRange[p0] /\ SetTo(staging', staging, p0, v) /\ staging \in Settings
    BY <1>0, <1>3 DEF Asks, RInv, PInv, Sound, ParamsTypeOK
  <2>2. \A p \in accepted : p # p0
    BY <1>0, <1>3 DEF Kept
  <2> HIDE DEF p0, v
  <2>3. \A p \in accepted : staging'[p] = staging[p]
    BY <1>0, <2>1, <2>2, SettingChanges
  <2> QED BY <1>2, <1>3, <2>3 DEF Writes
<1>4. CASE /\ c.name = "revert" /\ UNCHANGED <<active, stored, loadPending>>
  <2>1. accepted = {}
    BY <1>0, <1>4 DEF Kept
  <2> QED BY <1>2, <1>4, <2>1 DEF Writes
<1>5. CASE /\ c.name = "commit" /\ UNCHANGED <<staging, loadPending>>
  BY <1>2, <1>5 DEF Writes
<1> QED BY <1>1, <1>3, <1>4, <1>5 DEF Stores

LEMMA ReplyReports ==
  ASSUME RInv, PInv', NEW e, Answered(e), Replies(e), Stores(e), Answers(e), ~promoting',
         UNCHANGED <<rows, applied, accepted, result>>, UNCHANGED count \/ FaultHappens
  PROVE  RInv'
<1>0. TabTyped /\ OpTyped /\ Bounded /\ op' = op /\ port' = port /\ edited' = edited
  BY DEF RInv, Answered
<1>1. /\ Len(toModule) \in Nat /\ Len(toHost) \in Nat
      /\ Len(toModule') = Len(toModule) - 1 /\ Len(toHost') = Len(toHost) + 1
      /\ \A i \in 1 .. Len(toHost') :
           \/ i \in 1 .. Len(toHost) /\ toHost'[i] = toHost[i]
           \/ i = Len(toHost) + 1 /\ toHost'[i] = e
      /\ IsSeq(toHost') /\ IsSeq(toModule')
      /\ \A i \in 1 .. Len(toHost) : Answers(toHost[i])
      /\ \A k \in 1 .. Len(toModule') : Asks(toModule'[k])
  BY ReplyIs
<1>2. LinkTyped'
  BY <1>1 DEF LinkTyped, AllAsk, AllAnswer
<1>3. TabTyped' /\ OpTyped'
  BY <1>0 DEF TabTyped, OpTyped
<1>4. Bounded'
  <2>1. /\ count' = [clicks |-> count'.clicks, edits |-> count'.edits, faults |-> count'.faults]
        /\ count'.faults \in {count.faults, count.faults + 1} /\ count'.faults \in 0 .. MaxFaults
    BY <1>0, FaultCounts DEF Bounded
  <2>2. Waiting' = Waiting
    BY <1>0 DEF Waiting
  <2> QED BY <1>0, <1>1, <2>1, <2>2, BoundsAssumption DEF Bounded, Crowd
<1>5. Exchange(toHost, toModule)'
  BY TokensReply, BeginsReply, ProvingReply, WritingReply, NumberedReply,
     MeantReply, KeptReply
     DEF Exchange
<1> QED BY <1>2, <1>3, <1>4, <1>5 DEF RInv

LEMMA FinishReports ==
  ASSUME RInv, FinishCommit
  PROVE  RInv'
<1>1. /\ promoting /\ promoting' = FALSE /\ active' = staging
      /\ UNCHANGED <<staging, stored, loadPending>>
      /\ toModule' = Tail(toModule)
      /\ toHost' = Append(toHost, [Head(toModule) EXCEPT !.body = [name |-> "committed"]])
      /\ UNCHANGED <<host, port, stale, auth, accepted, count>>
  BY DEF FinishCommit, Promote
<1>2. /\ authed /\ Len(toModule) # 0 /\ toModule[1].body.name = "commit"
      /\ session # 0 /\ ~loadPending /\ stored = staging /\ Valid(staging)
  BY <1>1 DEF RInv, LinkTyped, Exchange, Begins, PInv, Sound, ParamsTypeOK
<1>3. toModule # <<>> /\ Head(toModule) = toModule[1] /\ Asks(toModule[1])
  <2>1. IsSeq(toModule) /\ AllAsk(toModule) /\ toModule # <<>> /\ Len(toModule) \in Nat
    BY <1>2, LinkIs, EmptyIs DEF IsSeq
  <2> QED BY <1>2, <2>1, TailIs DEF AllAsk
<1> DEFINE a == toModule[1]
           e == [a EXCEPT !.body = [name |-> "committed"]]
<1>4. e.seq = a.seq /\ e.body.name = "committed" /\ Answers(e)
  BY <1>3 DEF Asks, IsFrame, Answers
<1>5. toHost' = Append(toHost, e)
  BY <1>1, <1>3
<1> HIDE DEF e
<1>6. Answered(e)
  BY <1>1, <1>3, <1>4, <1>5 DEF Answered, host
<1>7. Replies(e)
  BY <1>1, <1>2, <1>4 DEF Replies, Writes, Succeeds, Success
<1>8. Stores(e)
  BY <1>1, <1>2, <1>4 DEF Stores, InForce, Valid
<1>9. PInv'
  BY FinishKeeps DEF RInv
<1> QED BY <1>1, <1>4, <1>6, <1>7, <1>8, <1>9, ReplyReports DEF host

(* What is answered, request by request.                                        *)
LEMMA AnswerNames ==
  ASSUME RInv, NEW ok \in BOOLEAN, NEW c, NEW b, b = Answer(c, ok), Session(c),
         Parameters(c, ok), Drawable(c), ~promoting, ~promoting',
         c.name \in DOMAIN Expected \cup {"bye"}, c.name \in {"set", "read"} => c.p \in Param,
         toModule[1].body = c, NEW e, e.body = b
  PROVE  /\ Replies(e) /\ Stores(e)
         /\ b.name = "value" => b.p \in Param /\ b.value \in InRange[b.p]
         /\ b.name = "challenge" => "challenge" \in DOMAIN b /\ b.challenge # 0
<1>0. /\ active \in Settings /\ staging \in Settings /\ promoting \in BOOLEAN
      /\ loadPending \in BOOLEAN
  BY DEF RInv, PInv, Sound, ParamsTypeOK
<1>1. CASE NoSession(c)
  <2>1. b = [name |-> "hello_required"] /\ UNCHANGED auth /\ UNCHANGED params
    BY <1>1 DEF Answer, Session, Parameters
  <2> QED BY <1>1, <2>1 DEF NoSession, Replies, Stores, Succeeds, Success
<1>2. CASE ~NoSession(c) /\ Refused(c)
  <2>1. b = [name |-> "not_authorized"] /\ UNCHANGED auth /\ UNCHANGED params
    BY <1>2 DEF Answer, Session, Parameters, Refused, Writes
  <2> QED BY <1>2, <2>1
             DEF NoSession, Refused, Replies, Stores, Succeeds, Success, Writes
<1>3. CASE ~NoSession(c) /\ c.name = "hello"
  <2>1. /\ b = [name |-> "hello_ok", session |-> session'] /\ UNCHANGED params
        /\ session' = Fresh /\ authed' = FALSE /\ challenge' = 0
    BY <1>3 DEF Answer, Session, Parameters, Refused, Writes
  <2>2. Fresh # 0
    BY <1>3, FreshIs DEF New
  <2> QED BY <1>3, <2>1, <2>2 DEF Replies, Stores, Succeeds, Success
<1>4. CASE ~NoSession(c) /\ c.name = "begin"
  <2>1. /\ b = [name |-> "challenge", challenge |-> challenge'] /\ UNCHANGED params
        /\ challenge' = Fresh /\ UNCHANGED <<session, authed>>
    BY <1>4 DEF Answer, Session, Parameters, Refused, Writes
  <2>2. New(challenge')
    BY <1>4, <2>1, FreshIs
  <2>3. b.name = "challenge" /\ b.challenge = challenge' /\ "challenge" \in DOMAIN b
    BY <2>1
  <2>4. challenge' # 0
    BY <2>2 DEF New
  <2> QED BY <1>4, <2>1, <2>2, <2>3, <2>4
             DEF Replies, Stores, Succeeds, Success, NoSession
<1>5. CASE ~NoSession(c) /\ c.name = "prove"
  <2>1. /\ b = [name |-> IF Proved(c) THEN "auth_ok" ELSE "auth_failed"] /\ UNCHANGED params
        /\ authed' = Proved(c) /\ challenge' = 0 /\ UNCHANGED session
    BY <1>5 DEF Answer, Session, Parameters, Refused, Writes
  <2>2. session # 0
    BY <1>5 DEF NoSession
  <2>3. b.name = IF Proved(c) THEN "auth_ok" ELSE "auth_failed"
    BY <2>1
  <2>4. Replies(e)
    BY <1>5, <2>1, <2>2, <2>3 DEF Replies
  <2>5. b.name \in {"auth_ok", "auth_failed"}
    BY <2>3
  <2> QED BY <2>1, <2>4, <2>5 DEF Stores, Succeeds, Success
<1>6. CASE ~NoSession(c) /\ c.name = "bye"
  <2>1. /\ b = [name |-> "bye_ok"] /\ UNCHANGED params
        /\ session' = 0 /\ authed' = FALSE /\ challenge' = 0
    BY <1>6 DEF Answer, Session, Parameters, Refused, Writes
  <2> QED BY <1>6, <2>1 DEF Replies, Stores, Succeeds, Success
<1>7. CASE ~NoSession(c) /\ c.name = "read"
  <2>1. /\ b = [name |-> "value", p |-> c.p, value |-> active[c.p]] /\ UNCHANGED params
        /\ UNCHANGED auth
    BY <1>7 DEF Answer, Session, Parameters, Refused, Writes
  <2>2. b.name = "value" /\ b.p = c.p /\ b.value = active[c.p]
    BY <2>1
  <2>3. c.p \in Param /\ active[c.p] \in InRange[c.p]
    BY <1>0, <1>7, SettingIs
  <2> QED BY <1>7, <2>1, <2>2, <2>3 DEF Replies, Stores, Succeeds, Success, NoSession
<1>8. CASE ~NoSession(c) /\ ~Refused(c) /\ c.name = "set"
  <2>1. /\ b = [name |-> SetAnswer(c.p, c.v)] /\ UNCHANGED auth /\ SetParam(c.p, c.v)
        /\ session # 0 /\ authed
    BY <1>8 DEF Answer, Session, Parameters, Refused, Writes, NoSession
  <2>2. b.name = SetAnswer(c.p, c.v) /\ b.name \in {"not_ready", "param_set", "bad_request"}
    BY <2>1 DEF SetAnswer
  <2>3. Replies(e)
    BY <1>8, <2>1, <2>2 DEF Replies, Writes
  <2>4. CASE b.name = "param_set"
    <3>1. ~loadPending /\ c.v \in InRange[c.p]
      BY <2>2, <2>4 DEF SetAnswer
    <3>2. /\ SetTo(staging', staging, c.p, c.v) /\ UNCHANGED <<active, stored, loadPending>>
      BY <2>1, <2>2, <2>4 DEF SetParam, SetTo
    <3> QED BY <1>8, <2>3, <2>4, <3>1, <3>2 DEF Stores
  <2>5. CASE b.name # "param_set"
    <3>1. UNCHANGED params
      BY <2>1, <2>2, <2>5 DEF SetParam, params
    <3> QED BY <2>2, <2>3, <2>5, <3>1 DEF Stores, Succeeds, Success
  <2> QED BY <2>4, <2>5
<1>9. CASE ~NoSession(c) /\ ~Refused(c) /\ c.name = "commit"
  <2>1. /\ b = [name |-> CommitAnswer(ok)] /\ UNCHANGED auth /\ Persist(ok)
        /\ session # 0 /\ authed
    BY <1>9 DEF Answer, Session, Parameters, Refused, Writes, NoSession
  <2>2. b.name = CommitAnswer(ok) /\ b.name \in {"not_ready", "commit_failed"}
    BY <2>1 DEF CommitAnswer, Persist
  <2>3. Replies(e)
    BY <1>9, <2>1, <2>2 DEF Replies, Writes
  <2>4. UNCHANGED params
    BY <1>0, <2>1, <2>2 DEF Persist, params
  <2> QED BY <2>2, <2>3, <2>4 DEF Stores, Succeeds, Success
<1>10. CASE ~NoSession(c) /\ ~Refused(c) /\ c.name = "revert"
  <2>1. /\ b = [name |-> RevertAnswer] /\ UNCHANGED auth /\ Revert
        /\ session # 0 /\ authed
    BY <1>10 DEF Answer, Session, Parameters, Refused, Writes, NoSession
  <2>2. b.name = RevertAnswer /\ b.name \in {"not_ready", "reverted"}
    BY <2>1 DEF RevertAnswer
  <2>3. Replies(e)
    BY <1>10, <2>1, <2>2 DEF Replies, Writes
  <2>4. Stores(e)
    BY <1>10, <2>1, <2>2 DEF Revert, RevertAnswer, Stores, Succeeds, Success, params
  <2> QED BY <2>2, <2>3, <2>4
<1> QED BY <1>1, <1>2, <1>3, <1>4, <1>5, <1>6, <1>7, <1>8, <1>9, <1>10 DEF Expected

LEMMA HandleReports ==
  ASSUME RInv, NEW ok \in BOOLEAN, Handle(ok)
  PROVE  RInv'
<1> DEFINE a == toModule[1]
           c == Head(toModule).body
<1>1. /\ ~promoting /\ toModule # <<>> /\ Drawable(c) /\ Session(c) /\ Parameters(c, ok)
      /\ UNCHANGED <<host, port, stale, accepted>>
      /\ UNCHANGED count \/ FaultHappens
      /\ ok => UNCHANGED count
  BY DEF Handle, Reachable
<1>2. Head(toModule) = a /\ Asks(a) /\ Len(toModule) # 0
  <2>1. IsSeq(toModule) /\ AllAsk(toModule) /\ Len(toModule) \in Nat
    BY LinkIs DEF IsSeq
  <2>2. 1 \in 1 .. Len(toModule)
    BY <1>1, <2>1, TailIs
  <2> QED BY <1>1, <2>1, <2>2, TailIs DEF AllAsk
<1>3. c = a.body
  BY <1>2
<1>4. PInv'
  BY HandleKeeps DEF RInv
<1>5. CASE ~promoting'
  <2> DEFINE b == Answer(c, ok)
             e == [a EXCEPT !.body = b]
  <2>1. toModule' = Tail(toModule) /\ toHost' = Append(toHost, e)
    BY <1>2, <1>5 DEF Handle
  <2>2. c.name \in DOMAIN Expected \cup {"bye"} /\ (c.name \in {"set", "read"} => c.p \in Param)
    BY <1>2, <1>3 DEF Asks
  <2>3. Answer(c, ok) = b
    OBVIOUS
  <2> HIDE DEF b, c
  <2>4. /\ e = [seq |-> a.seq, body |-> b] /\ a.seq \in 1 .. MaxSeq
    BY <1>2 DEF Asks, IsFrame
  <2> HIDE DEF e
  <2>5. e.seq = a.seq /\ e.body = b /\ IsFrame(e)
    BY <2>4 DEF IsFrame
  <2>6. /\ Replies(e) /\ Stores(e)
        /\ b.name = "value" => b.p \in Param /\ b.value \in InRange[b.p]
        /\ b.name = "challenge" => "challenge" \in DOMAIN b /\ b.challenge # 0
    BY <1>1, <1>3, <1>5, <2>2, <2>3, <2>5, AnswerNames
  <2>7. Answers(e)
    BY <2>5, <2>6 DEF Answers
  <2>8. Answered(e)
    BY <1>1, <2>1, <2>5 DEF Answered, host
  <2> QED BY <1>1, <1>4, <1>5, <2>6, <2>7, <2>8, ReplyReports DEF host
<1>6. CASE promoting'
  <2>0. LinkTyped /\ TabTyped /\ OpTyped /\ Bounded /\ Exchange(toHost, toModule)
    BY DEF RInv
  <2>1. UNCHANGED <<toModule, toHost>>
    BY <1>6 DEF Handle
  <2>2. ~NoSession(c) /\ ~Refused(c) /\ c.name = "commit"
    BY <1>1, <1>6 DEF Parameters, params, SetParam, Revert
  <2>3. UNCHANGED auth /\ Persist(ok)
    BY <1>1, <2>2 DEF Session, Parameters
  <2>4. /\ stored' = staging /\ ~loadPending /\ Valid(staging) /\ ok
        /\ UNCHANGED <<active, staging, loadPending>>
    BY <1>6, <2>3 DEF Persist, CommitAnswer
  <2>5. authed
    BY <2>2 DEF Refused, Writes
  <2>6. /\ UNCHANGED <<op, edited, applied, result, rows, port, accepted>>
    BY <1>1 DEF host
  <2>7. LinkTyped'
    BY <1>2, <1>3, <2>0, <2>1, <2>2, <2>3, <2>5 DEF LinkTyped, auth
  <2>8. TabTyped' /\ OpTyped'
    BY <2>0, <2>6 DEF TabTyped, OpTyped
  <2>9. Bounded'
    BY <1>1, <2>0, <2>1, <2>4, <2>6 DEF Bounded, Crowd, Waiting
  <2>10. /\ Tokens(toHost, toModule)' /\ Begins(toHost, toModule)'
         /\ Proving(toHost, toModule)' /\ Writing(toHost, toModule)'
         /\ Numbered(toHost, toModule)'
    BY <2>0, <2>1, <2>3, <2>6, SameStages
  <2>11. Meant(toHost)'
    BY <2>0, <2>1, <2>4, <2>6 DEF Exchange, Meant, Acting, InForce
  <2>12. Kept(toModule)'
    <3>1. IsWrite(toModule[1]) /\ 1 \in 1 .. Len(toModule)
      <4>1. Len(toModule) \in Nat
        BY LinkIs DEF IsSeq
      <4> QED BY <1>2, <1>3, <2>2, <4>1 DEF IsWrite, Writes
    <3>2. result = "committed" => accepted = {}
      BY <2>0, <3>1 DEF Exchange, Kept
    <3> QED BY <2>0, <2>1, <2>4, <2>6, <3>2 DEF Exchange, Kept
  <2> QED BY <1>4, <2>7, <2>8, <2>9, <2>10, <2>11, <2>12 DEF RInv, Exchange
<1> QED BY <1>5, <1>6

--------------------------------------------------------------------------------
LEMMA ReportsStart == Init => RInv
<1> SUFFICES ASSUME Init PROVE RInv
  OBVIOUS
<1>1. /\ toModule = <<>> /\ toHost = <<>> /\ op = Idle /\ result = "none" /\ port = 0
      /\ session = 0 /\ authed = FALSE /\ challenge = 0 /\ accepted = {} /\ rows = {}
      /\ edited = Pair(Defaults) /\ applied = Pair(Defaults) /\ promoting = FALSE
      /\ count = [clicks |-> 0, edits |-> 0, faults |-> 0]
  BY DEF Init, ParamsInit
<1>2. /\ Len(toModule) = 0 /\ Len(toHost) = 0 /\ IsSeq(toModule) /\ IsSeq(toHost)
      /\ \A i \in 1 .. Len(toHost) : FALSE /\ \A k \in 1 .. Len(toModule) : FALSE
  BY <1>1, NothingIs
<1>3. PInv
  BY ParamsStart, NothingSets DEF Init, PInv, ParamsInit, SetsParameters
<1>4. LinkTyped
  BY <1>1, <1>2 DEF LinkTyped, AllAsk, AllAnswer
<1>5. TabTyped /\ OpTyped
  BY <1>1, DefaultsValid, BoundsAssumption DEF TabTyped, OpTyped
<1>6. Bounded
  BY <1>1, <1>2, BoundsAssumption DEF Bounded, Crowd, Waiting
<1>7. /\ Tokens(toHost, toModule) /\ Begins(toHost, toModule) /\ Kept(toModule)
  BY <1>1, <1>2 DEF Tokens, Begins, Unproved, Kept, Idle
<1>8. /\ Proving(toHost, toModule) /\ Writing(toHost, toModule)
      /\ Numbered(toHost, toModule) /\ Meant(toHost)
  BY <1>1 DEF Proving, Writing, Numbered, Meant, Acting
<1> QED BY <1>3, <1>4, <1>5, <1>6, <1>7, <1>8 DEF RInv, Exchange

(* The inductive invariant of the exchange between the tab and the module.      *)
THEOREM ExchangeInvariant == UnwrappedSpec => []RInv
<1>1. RInv /\ [Next /\ port' # 1]_cvars => RInv'
  <2> SUFFICES ASSUME RInv, [Next /\ port' # 1]_cvars PROVE RInv'
    OBVIOUS
  <2>1. CASE UNCHANGED cvars \/ Lose \/ SkipReply
    BY <2>1, LossReports
  <2>2. CASE (\E n \in 0 .. Len(toHost) : Send(n)) /\ port' # 1
    BY <2>2, SendReports
  <2>3. CASE Module
    BY <2>3, HandleReports, PollReports DEF Module
  <2>4. CASE \E ok \in BOOLEAN : Restart(ok)
    BY <2>4, ResetReports
  <2> QED
    BY <2>1, <2>2, <2>3, <2>4, OperatorReports, ReceiveReports, TimeoutReports,
       FinishReports
       DEF Next, Host
<1> QED BY <1>1, ReportsStart, PTL DEF UnwrappedSpec

(* Whatever is lost, late, repeated or reset on the way: as long as the number  *)
(* does not come back to one while the port stays open, a row that was answered *)
(* is staged with its value, and after a commit that is reported as done it is  *)
(* active and stored.                                                           *)
THEOREM DoneIsTrue == UnwrappedSpec => []ReportedIsDone
<1>1. RInv => ReportedIsDone
  <2> SUFFICES ASSUME RInv PROVE ReportedIsDone
    OBVIOUS
  <2>0. /\ TabTyped /\ OpTyped /\ Bounded /\ Kept(toModule) /\ Begins(toHost, toModule)
        /\ ParamsTypeOK /\ Len(toModule) \in Nat /\ Len(toHost) \in Nat
    BY LinkIs DEF RInv, Exchange, PInv, Sound, IsSeq
  <2>1. Len(toModule) + Len(toHost) <= MaxFaults + 1
    BY <2>0, BoundsAssumption DEF Bounded, Crowd
  <2>2. op = Idle \/ op.step \in DOMAIN Expected \cup {"bye"}
    BY <2>0, StepIs DEF OpTyped, Expected
  <2>3. CTypeOK
    BY <2>0, <2>1, <2>2 DEF CTypeOK, TabTyped, Begins
  <2>4. \A p \in accepted : staging[p] = applied[p]
    BY <2>0 DEF Kept
  <2>5. ASSUME result = "committed", NEW p \in accepted
        PROVE  Usable /\ stored[p] = applied[p] /\ active[p] = applied[p]
    <3>1. InForce /\ staging[p] = applied[p]
      BY <2>0, <2>5 DEF Kept
    <3>2. staging # Absent
      BY <2>0, StoreAssumption DEF ParamsTypeOK
    <3> QED BY <3>1, <3>2 DEF InForce, Usable
  <2> QED BY <2>3, <2>4, <2>5 DEF ReportedIsDone
<1> QED BY <1>1, ExchangeInvariant, PTL
================================================================================
