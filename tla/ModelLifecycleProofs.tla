-------------------------- MODULE ModelLifecycleProofs --------------------------
(***************************************************************************)
(* Proofs about ModelLifecycle, for every cap, retrain period, batch size  *)
(* and bound of the registry.                                              *)
(*                                                                         *)
(* Every step of the service is a step of Retrain or leaves it alone, so   *)
(* the lemmas of RetrainProofs carry over.  DiskOrder says what is on disk *)
(* before what names it; SaveOrder and PointersForward that tags, pointers *)
(* and the histories of finished retrains move in one order.               *)
(***************************************************************************)
EXTENDS ModelLifecycle, RetrainProofs

\* One step of Retrain, with a batch of one of the sizes.
RetrainSteps ==
    \/ \E rows \in BatchSizes : EndCycle(rows)
    \/ RetrainTaskStep
    \/ RetrainRestart
    \/ UNCHANGED retrainVars

\* Every step of the service is a step of Retrain or leaves it alone.
LEMMA ServiceStepsRetrain == [Next]_lifecycleVars => RetrainSteps
<1> SUFFICES ASSUME [Next]_lifecycleVars PROVE RetrainSteps
    OBVIOUS
<1>1. CASE Bootstrap \/ NoBootstrap \/ BootstrapStep
    BY <1>1 DEF Bootstrap, NoBootstrap, BootstrapStep, RetrainSteps
<1>2. CASE LoadLegacy \/ LoadModern
    BY <1>2 DEF LoadLegacy, LoadModern, RetrainSteps
<1>3. ASSUME NEW rows \in BatchSizes, CycleTail(rows) PROVE RetrainSteps
    BY <1>3 DEF CycleTail, RetrainSteps
<1>4. CASE TrainNext \/ TrainStep \/ TrainFault
    BY <1>4 DEF TrainNext, TrainStep, TrainFault, RetrainSteps
<1>5. CASE Swap \/ Register \/ GiveUp
    BY <1>5 DEF Swap, Register, GiveUp, RetrainTaskStep, RetrainSteps
<1>6. CASE Redeploy \/ Restart
    BY <1>6 DEF Redeploy, Restart, NewProcess, RetrainSteps
<1>7. CASE UNCHANGED lifecycleVars
    BY <1>7 DEF lifecycleVars, RetrainSteps
<1>8. QED
    BY <1>1, <1>2, <1>3, <1>4, <1>5, <1>6, <1>7 DEF Next, RetrainStep

-----------------------------------------------------------------------------
(* What a load finds.                                                      *)

Started == {"set", "set opened", "latest", "latest opened"}

\* What is on disk before what names it: a bundle is listed before it is complete,
\* and complete before a pointer names it.
FilesInOrder ==
    /\ Complete \subseteq manifests
    /\ \A p \in Pointers : pointer[p] \in Tags => pointer[p] \in Complete

SavesInOrder ==
    \A s \in Savers : /\ save[s].at \in SaveSteps => save[s].tag \in Tags
                      /\ save[s].at = "manifest" => save[s].tag \in manifests
                      /\ save[s].at \in Started => save[s].tag \in Complete

DiskOrder == FilesInOrder /\ SavesInOrder

LEMMA CompleteAreTags == RegistryTypeOK => Complete \subseteq Tags
BY DEF RegistryTypeOK, Complete

\* Whatever a load returns is complete, and comes from the pointer of the feature
\* set, from the latest pointer, or there is no latest pointer at all.
LEMMA LoadReturns ==
    ASSUME RegistryTypeOK, NEW f \in FeatureSets, LoadForFeatureSet(f) # NoModel
    PROVE  /\ LoadForFeatureSet(f) \in Complete
           /\ \/ LoadForFeatureSet(f) = pointer[f]
              \/ LoadForFeatureSet(f) = pointer["latest"]
              \/ pointer["latest"] = Absent
<1>1. CASE pointer[f] \in manifests
    BY <1>1, Zenon DEF LoadForFeatureSet, Load
<1>2. CASE pointer[f] \notin manifests
  <2>1. LoadForFeatureSet(f) = Load(CurrentVersion) /\ Load(CurrentVersion) # NoModel
      BY <1>2, Zenon DEF LoadForFeatureSet
  <2>2. LoadForFeatureSet(f) = CurrentVersion /\ CurrentVersion \in Complete
      BY <2>1, Zenon DEF Load
  <2>3. NoModel \notin Complete
      BY CompleteAreTags, RegistryAssumption DEF Tags
  <2>4. pointer["latest"] # Empty
      BY <2>2, <2>3, RegistryAssumption DEF CurrentVersion
  <2>5. QED
      BY <2>2, <2>4 DEF CurrentVersion
<1>3. QED
    BY <1>1, <1>2

\* A load finds a model when one of its two pointers names a version.
LEMMA LoadFinds ==
    ASSUME RegistryTypeOK, DiskOrder, NEW f \in FeatureSets,
           pointer[f] \in Tags \/ pointer["latest"] \in Tags
    PROVE  LoadForFeatureSet(f) # NoModel
<1>1. f \in Pointers /\ "latest" \in Pointers /\ manifests \subseteq Tags
    BY DEF Pointers, RegistryTypeOK
<1>2. NoModel \notin Tags /\ Absent \notin Tags /\ Empty \notin Tags
    BY RegistryAssumption DEF Tags
<1>3. CASE pointer[f] \in manifests
  <2>1. pointer[f] \in Tags /\ pointer[f] \in Complete
      BY <1>1, <1>3 DEF DiskOrder, FilesInOrder
  <2>2. LoadForFeatureSet(f) = pointer[f]
      BY <1>3, <2>1, Zenon DEF LoadForFeatureSet, Load
  <2>3. QED
      BY <1>2, <2>1, <2>2
<1>4. CASE pointer[f] \notin manifests
  <2>1. pointer[f] \notin Tags
      BY <1>1, <1>4 DEF DiskOrder, FilesInOrder
  <2>2. pointer["latest"] \in Tags /\ pointer["latest"] \in Complete
      BY <1>1, <2>1 DEF DiskOrder, FilesInOrder
  <2>3. CurrentVersion = pointer["latest"]
      BY <1>2, <2>2 DEF CurrentVersion
  <2>4. LoadForFeatureSet(f) = pointer["latest"]
      BY <1>4, <2>2, <2>3, Zenon DEF LoadForFeatureSet, Load
  <2>5. QED
      BY <1>2, <2>2, <2>4
<1>5. QED
    BY <1>3, <1>4

-----------------------------------------------------------------------------
(* The operations of the registry keep its files in order.                 *)

RegistryInv == RegistryTypeOK /\ DiskOrder

SaveStates == SaveSteps \cup {"no", "skipped", "saved", "failed"}
SaveRecords == [at : SaveStates, tag : 0 .. MaxTags, set : FeatureSets]

LEMMA NoneIsATag == Absent \notin Tags /\ Empty \notin Tags /\ NoModel \notin Tags
BY RegistryAssumption DEF Tags

LEMMA RecordGoes ==
    ASSUME NEW r \in SaveRecords, NEW a \in SaveStates
    PROVE  /\ [r EXCEPT !.at = a] \in SaveRecords
           /\ [r EXCEPT !.at = a].at = a
           /\ [r EXCEPT !.at = a].tag = r.tag
           /\ [r EXCEPT !.at = a].set = r.set
BY DEF SaveRecords

\* A save that goes on changes its place only.
LEMMA GoesOK ==
    ASSUME RegistryTypeOK, NEW s \in Savers, NEW a \in SaveStates, Goes(s, a)
    PROVE  /\ save' \in [Savers -> SaveRecords]
           /\ \A t \in Savers : /\ save'[t].at = IF t = s THEN a ELSE save[t].at
                                /\ save'[t].tag = save[t].tag
                                /\ save'[t].set = save[t].set
<1> DEFINE r == [save[s] EXCEPT !.at = a]
<1>1. save \in [Savers -> SaveRecords]
    BY DEF RegistryTypeOK, SaveRecords, SaveStates
<1>2. save' = [save EXCEPT ![s] = r]
    BY DEF Goes
<1>3. /\ r \in SaveRecords /\ r.at = a
      /\ r.tag = save[s].tag /\ r.set = save[s].set
    BY <1>1, RecordGoes
<1> HIDE DEF r
<1>4. \A t \in Savers : save'[t] = IF t = s THEN r ELSE save[t]
    BY <1>1, <1>2
<1>5. save' \in [Savers -> SaveRecords]
    BY <1>1, <1>2, <1>3
<1>6. QED
    BY <1>3, <1>4, <1>5

LEMMA WritesOK ==
    ASSUME RegistryTypeOK, NEW p \in Pointers, NEW value \in Tags \cup {Absent, Empty},
           Writes(p, value)
    PROVE  /\ pointer' \in [Pointers -> Tags \cup {Absent, Empty}]
           /\ \A q \in Pointers : pointer'[q] = IF q = p THEN value ELSE pointer[q]
BY DEF RegistryTypeOK, Writes

\* Types of the disk, of the saves and of the active pair.
DiskTypeOK ==
    /\ bundles \subseteq [tag : Tags, set : FeatureSets]
    /\ manifests \subseteq Tags
    /\ pointer \in [Pointers -> Tags \cup {Absent, Empty}]
    /\ tags \in 0 .. MaxTags

LEMMA TypesApart ==
    RegistryTypeOK <=> /\ DiskTypeOK
                       /\ save \in [Savers -> SaveRecords]
                       /\ active \in [FeatureSets -> Tags \cup {NoModel}]
BY DEF RegistryTypeOK, DiskTypeOK, SaveRecords, SaveStates

LEMMA EmptyDiskOK ==
    ASSUME bundles = {}, manifests = {}, pointer = [p \in Pointers |-> Absent], tags = 0
    PROVE  DiskTypeOK /\ FilesInOrder
<1>1. MaxTags \in Nat
    BY RegistryAssumption
<1>2. \A p \in Pointers : pointer[p] \notin Tags
    BY NoneIsATag
<1>3. Complete = {}
    BY DEF Complete
<1>4. QED
    BY <1>1, <1>2, <1>3 DEF DiskTypeOK, FilesInOrder

LEMMA NotSavingOK ==
    /\ NotSaving \in SaveRecords /\ NotSaving.at = "no"
    /\ [NotSaving EXCEPT !.at = "skipped"] \in SaveRecords
    /\ [NotSaving EXCEPT !.at = "skipped"].at = "skipped"
BY RegistryAssumption DEF NotSaving, SaveRecords, SaveStates, FeatureSets

LEMMA RegistryInitOK == RegistryInit => RegistryInv
<1> SUFFICES ASSUME RegistryInit PROVE RegistryInv
    OBVIOUS
<1>1. DiskTypeOK /\ FilesInOrder
    BY EmptyDiskOK DEF RegistryInit
<1>2. /\ save \in [Savers -> SaveRecords]
      /\ \A s \in Savers : save[s].at = "no"
    BY NotSavingOK DEF RegistryInit
<1>3. active \in [FeatureSets -> Tags \cup {NoModel}]
    BY DEF RegistryInit
<1>4. SavesInOrder
    BY <1>2 DEF SavesInOrder, SaveSteps, Started
<1>5. QED
    BY <1>1, <1>2, <1>3, <1>4, TypesApart DEF RegistryInv, DiskOrder

LEMMA BeginSaveOK ==
    ASSUME RegistryInv, NEW s \in Savers, NEW f \in FeatureSets, BeginSave(s, f)
    PROVE  RegistryInv'
<1> DEFINE r == [at |-> "files", tag |-> tags + 1, set |-> f]
<1> USE DEF RegistryInv
<1>1. tags + 1 \in Tags /\ tags + 1 \in 0 .. MaxTags
  <2>1. tags \in 0 .. MaxTags /\ tags < MaxTags
      BY Zenon DEF RegistryTypeOK, BeginSave
  <2>2. MaxTags \in Nat
      BY RegistryAssumption
  <2>3. QED
      BY <2>1, <2>2 DEF Tags
<1>2. r \in SaveRecords /\ r.at = "files" /\ r.tag \in Tags
    BY <1>1 DEF SaveRecords, SaveStates, SaveSteps
<1>3. save' = [save EXCEPT ![s] = r] /\ save \in [Savers -> SaveRecords]
    BY TypesApart DEF BeginSave
<1> HIDE DEF r
<1>4. /\ save' \in [Savers -> SaveRecords]
      /\ \A t \in Savers : save'[t] = IF t = s THEN r ELSE save[t]
    BY <1>2, <1>3
<1>5. tags' \in 0 .. MaxTags /\ UNCHANGED <<bundles, manifests, pointer, active>>
    BY <1>1 DEF BeginSave
<1>6. RegistryTypeOK'
    BY <1>4, <1>5 DEF RegistryTypeOK, SaveRecords, SaveStates
<1>7. DiskOrder'
    BY <1>2, <1>4, <1>5 DEF DiskOrder, FilesInOrder, SavesInOrder, Started, Complete
<1>8. QED
    BY <1>6, <1>7

LEMMA Sets == /\ "legacy" \in FeatureSets /\ "modern" \in FeatureSets
              /\ "bootstrap" \in Savers /\ "retrain" \in Savers
              /\ FeatureSets \subseteq Pointers /\ "latest" \in Pointers
BY DEF FeatureSets, Savers, Pointers

\* A save that raises leaves the disk as it is.
LEMMA SaveGivesUpOK ==
    ASSUME RegistryInv, NEW s \in Savers, Goes(s, "failed"),
           UNCHANGED <<bundles, manifests, pointer, tags, active>>
    PROVE  RegistryInv'
<1> USE DEF RegistryInv
<1>1. /\ save' \in [Savers -> SaveRecords]
      /\ \A t \in Savers : /\ save'[t].at = IF t = s THEN "failed" ELSE save[t].at
                           /\ save'[t].tag = save[t].tag
    BY GoesOK DEF SaveStates
<1>2. RegistryTypeOK'
    BY <1>1 DEF RegistryTypeOK, SaveRecords, SaveStates
<1>3. Complete' = Complete
    BY DEF Complete
<1>4. FilesInOrder'
    BY <1>3 DEF DiskOrder, FilesInOrder
<1>5. SavesInOrder'
  <2> SUFFICES ASSUME NEW t \in Savers
               PROVE  /\ save'[t].at \in SaveSteps => save'[t].tag \in Tags
                      /\ save'[t].at = "manifest" => save'[t].tag \in manifests'
                      /\ save'[t].at \in Started => save'[t].tag \in Complete'
      BY DEF SavesInOrder
  <2>1. save'[t].at \in SaveSteps \cup Started => save'[t].at = save[t].at
      BY <1>1 DEF SaveSteps, Started
  <2>2. save'[t].tag = save[t].tag
      BY <1>1
  <2>3. QED
      BY <1>3, <2>1, <2>2 DEF DiskOrder, SavesInOrder, SaveSteps, Started
<1>6. QED
    BY <1>2, <1>4, <1>5 DEF DiskOrder

\* One step of a save: it writes its manifest, or a pointer once it is complete.
LEMMA SaveStepOK ==
    ASSUME RegistryInv, NEW s \in Savers, SaveStep(s) \/ SaveFailed(s)
    PROVE  RegistryInv'
<1> USE DEF RegistryInv
<1>1. /\ save[s].at \in SaveSteps /\ save[s].tag \in Tags
      /\ save[s].set \in FeatureSets
      /\ save \in [Savers -> SaveRecords]
  <2>1. save \in [Savers -> SaveRecords]
      BY TypesApart
  <2>2. save[s].set \in FeatureSets
      BY <2>1 DEF SaveRecords
  <2>3. save[s].at \in SaveSteps
      BY DEF SaveStep, SaveFailed, OpenManifest, WriteManifest, OpenSetPointer,
             WriteSetPointer, OpenLatest, WriteLatest, SaveSteps
  <2>4. QED
      BY <2>1, <2>2, <2>3 DEF DiskOrder, SavesInOrder
<1>2. ASSUME NEW a \in SaveStates, Goes(s, a)
      PROVE  /\ save' \in [Savers -> SaveRecords]
             /\ \A t \in Savers : /\ save'[t].at = IF t = s THEN a ELSE save[t].at
                                  /\ save'[t].tag = save[t].tag
    BY <1>2, GoesOK
<1>3. CASE OpenManifest(s)
  <2>1. /\ save' \in [Savers -> SaveRecords]
        /\ \A t \in Savers : /\ save'[t].at = IF t = s THEN "manifest" ELSE save[t].at
                             /\ save'[t].tag = save[t].tag
      BY <1>2, <1>3 DEF OpenManifest, SaveStates, SaveSteps
  <2>2. manifests' = manifests \cup {save[s].tag} /\ UNCHANGED <<bundles, pointer, tags, active>>
      BY <1>3 DEF OpenManifest
  <2>3. RegistryTypeOK'
      BY <1>1, <2>1, <2>2 DEF RegistryTypeOK, SaveRecords, SaveStates
  <2>4. FilesInOrder'
      BY <2>2 DEF DiskOrder, FilesInOrder, Complete
  <2>5. SavesInOrder'
      BY <1>1, <2>1, <2>2 DEF DiskOrder, SavesInOrder, Complete, Started
  <2>6. QED
      BY <2>3, <2>4, <2>5 DEF DiskOrder
<1>4. CASE WriteManifest(s)
  <2> DEFINE b == [tag |-> save[s].tag, set |-> save[s].set]
  <2>1. /\ save' \in [Savers -> SaveRecords]
        /\ \A t \in Savers : /\ save'[t].at = IF t = s THEN "set" ELSE save[t].at
                             /\ save'[t].tag = save[t].tag
      BY <1>2, <1>4 DEF WriteManifest, SaveStates, SaveSteps
  <2>2. b \in [tag : Tags, set : FeatureSets] /\ b.tag = save[s].tag
      BY <1>1
  <2>3. bundles' = bundles \cup {b} /\ UNCHANGED <<manifests, pointer, tags, active>>
      BY <1>4 DEF WriteManifest
  <2> HIDE DEF b
  <2>4. Complete' = Complete \cup {save[s].tag}
      BY <2>2, <2>3 DEF Complete
  <2>5. RegistryTypeOK'
      BY <2>1, <2>2, <2>3 DEF RegistryTypeOK, SaveRecords, SaveStates
  <2>6. save[s].tag \in manifests
      BY <1>4 DEF WriteManifest, DiskOrder, SavesInOrder
  <2>7. FilesInOrder'
      BY <2>3, <2>4, <2>6 DEF DiskOrder, FilesInOrder
  <2>8. SavesInOrder'
      BY <1>1, <2>1, <2>3, <2>4 DEF DiskOrder, SavesInOrder, Started, SaveSteps
  <2>9. QED
      BY <2>5, <2>7, <2>8 DEF DiskOrder
<1>5. ASSUME NEW p \in Pointers, NEW value \in {Empty, save[s].tag}, Writes(p, value),
             NEW a \in Started \cup {"saved"}, Goes(s, a), save[s].at \in Started,
             UNCHANGED <<bundles, manifests, tags, active>>
      PROVE  RegistryInv'
  <2>1. /\ save' \in [Savers -> SaveRecords]
        /\ \A t \in Savers : /\ save'[t].at = IF t = s THEN a ELSE save[t].at
                             /\ save'[t].tag = save[t].tag
      BY <1>2, <1>5 DEF Started, SaveStates, SaveSteps
  <2>2. value \in Tags \cup {Absent, Empty}
      BY <1>1, <1>5
  <2>3. /\ pointer' \in [Pointers -> Tags \cup {Absent, Empty}]
        /\ \A q \in Pointers : pointer'[q] = IF q = p THEN value ELSE pointer[q]
      BY <1>5, <2>2, WritesOK
  <2>4. RegistryTypeOK'
      BY <1>5, <2>1, <2>3 DEF RegistryTypeOK, SaveRecords, SaveStates
  <2>5. Complete' = Complete
      BY <1>5 DEF Complete
  <2>6. value \in Tags => value \in Complete
      BY <1>5, NoneIsATag DEF DiskOrder, SavesInOrder
  <2>7. FilesInOrder'
      BY <1>5, <2>3, <2>5, <2>6 DEF DiskOrder, FilesInOrder
  <2>8. SavesInOrder'
      BY <1>1, <1>5, <2>1, <2>5 DEF DiskOrder, SavesInOrder, Started, SaveSteps
  <2>9. QED
      BY <2>4, <2>7, <2>8 DEF DiskOrder
<1>6. CASE \/ OpenSetPointer(s) \/ WriteSetPointer(s) \/ OpenLatest(s) \/ WriteLatest(s)
  <2>1. save[s].set \in Pointers /\ "latest" \in Pointers
      BY <1>1 DEF Pointers
  <2>2. CASE OpenSetPointer(s)
      BY <1>5, <2>1, <2>2 DEF OpenSetPointer, Started
  <2>3. CASE WriteSetPointer(s)
      BY <1>5, <2>1, <2>3 DEF WriteSetPointer, Started
  <2>4. CASE OpenLatest(s)
      BY <1>5, <2>1, <2>4 DEF OpenLatest, Started
  <2>5. CASE WriteLatest(s)
      BY <1>5, <2>1, <2>5 DEF WriteLatest, Started
  <2>6. QED
      BY <1>6, <2>2, <2>3, <2>4, <2>5
<1>7. CASE SaveFailed(s)
  <2>1. Goes(s, "failed") /\ UNCHANGED <<bundles, manifests, pointer, tags, active>>
      BY <1>7, Zenon DEF SaveFailed, diskVars
  <2>2. QED
      BY <2>1, SaveGivesUpOK, Sets
<1>8. QED
    BY <1>3, <1>4, <1>6, <1>7 DEF SaveStep

LEMMA LoadSlotOK ==
    ASSUME RegistryInv, NEW f \in FeatureSets, LoadSlot(f)
    PROVE  RegistryInv'
<1> USE DEF RegistryInv
<1>1. LoadForFeatureSet(f) # NoModel => LoadForFeatureSet(f) \in Tags
    BY LoadReturns, CompleteAreTags
<1>2. UNCHANGED <<bundles, manifests, pointer, tags, save>>
    BY DEF LoadSlot, diskVars
<1>3. active' \in [FeatureSets -> Tags \cup {NoModel}]
    BY <1>1 DEF RegistryTypeOK, LoadSlot
<1>4. RegistryTypeOK' /\ DiskOrder'
    BY <1>2, <1>3 DEF RegistryTypeOK, DiskOrder, FilesInOrder, SavesInOrder, Complete
<1>5. QED
    BY <1>4

-----------------------------------------------------------------------------
(* The service keeps the registry in order.                                *)

\* The thread is over: its save is forgotten, what is on disk stays.
LEMMA ThreadGoneOK ==
    ASSUME RegistryInv, save' = ThreadGone, UNCHANGED diskVars,
           active' \in [FeatureSets -> Tags \cup {NoModel}]
    PROVE  RegistryInv'
<1>1. save \in [Savers -> SaveRecords]
    BY TypesApart DEF RegistryInv
<1> HIDE DEF NotSaving
<1>2. /\ save' \in [Savers -> SaveRecords]
      /\ \A t \in Savers : save'[t] = IF t = "retrain" THEN NotSaving ELSE save[t]
    BY <1>1, NotSavingOK DEF ThreadGone
<1>3. UNCHANGED <<bundles, manifests, pointer, tags>>
    BY DEF diskVars
<1>4. RegistryTypeOK'
    BY <1>2, <1>3 DEF RegistryInv, RegistryTypeOK, SaveRecords, SaveStates
<1>5. DiskOrder'
    BY <1>2, <1>3, NotSavingOK
       DEF RegistryInv, DiskOrder, FilesInOrder, SavesInOrder, SaveSteps, Started, Complete
<1>6. QED
    BY <1>4, <1>5 DEF RegistryInv

\* A new process has no save under way, whatever the disk it finds.
LEMMA NewProcessOK ==
    ASSUME NewProcess, (DiskTypeOK /\ FilesInOrder)'
    PROVE  /\ RegistryInv'
           /\ \A s \in Savers : save'[s].at \in {"no", "skipped"}
           /\ save'["retrain"].at = "no"
<1> HIDE DEF NotSaving
<1>1. /\ save' \in [Savers -> SaveRecords]
      /\ \A s \in Savers : save'[s].at \in {"no", "skipped"}
      /\ save'["retrain"].at = "no"
  <2>1. \A s \in Savers : save'[s] \in {NotSaving, [NotSaving EXCEPT !.at = "skipped"]}
      BY DEF NewProcess, AtStartup
  <2>2. save'["retrain"] = NotSaving
      BY Sets DEF NewProcess, AtStartup
  <2>3. save' = [s \in Savers |-> save'[s]]
      BY DEF NewProcess, AtStartup
  <2> DEFINE skipped == [NotSaving EXCEPT !.at = "skipped"]
  <2>4. NotSaving \in SaveRecords /\ skipped \in SaveRecords
        /\ NotSaving.at = "no" /\ skipped.at = "skipped"
      BY NotSavingOK
  <2> HIDE DEF skipped
  <2>5. \A s \in Savers : save'[s] \in {NotSaving, skipped}
      BY <2>1 DEF skipped
  <2>6. QED
      BY <2>2, <2>3, <2>4, <2>5
<1>2. active' \in [FeatureSets -> Tags \cup {NoModel}]
    BY DEF NewProcess
<1>3. SavesInOrder'
    BY <1>1 DEF SavesInOrder, SaveSteps, Started
<1>4. RegistryTypeOK'
    BY <1>1, <1>2 DEF DiskTypeOK, RegistryTypeOK, SaveRecords, SaveStates
<1>5. QED
    BY <1>1, <1>3, <1>4 DEF RegistryInv, DiskOrder

LEMMA DiskFoundOK ==
    ASSUME RegistryInv, Redeploy \/ Restart
    PROVE  (DiskTypeOK /\ FilesInOrder)'
<1>1. CASE Redeploy
  <2>1. (/\ bundles = {} /\ manifests = {}
         /\ pointer = [p \in Pointers |-> Absent] /\ tags = 0)'
      BY <1>1 DEF Redeploy
  <2>2. (/\ bundles = {} /\ manifests = {}
         /\ pointer = [p \in Pointers |-> Absent] /\ tags = 0
         => DiskTypeOK /\ FilesInOrder)'
      BY EmptyDiskOK, PTL
  <2>3. QED
      BY <2>1, <2>2
<1>2. CASE Restart
  <2>1. DiskTypeOK /\ FilesInOrder
      BY TypesApart DEF RegistryInv, DiskOrder
  <2>2. UNCHANGED <<bundles, manifests, pointer, tags>>
      BY <1>2 DEF Restart, diskVars
  <2>3. QED
      BY <2>1, <2>2 DEF DiskTypeOK, FilesInOrder, Complete
<1>3. QED
    BY <1>1, <1>2

\* Every step keeps the registry's files in order.
LEMMA RegistryKept ==
    ASSUME RegistryInv, Next
    PROVE  RegistryInv'
<1>1. CASE Bootstrap
    BY <1>1, BeginSaveOK, Sets DEF Bootstrap
<1>2. CASE NoBootstrap
  <2>1. Goes("bootstrap", "failed") /\ UNCHANGED <<bundles, manifests, pointer, tags, active>>
      BY <1>2, Zenon DEF NoBootstrap, diskVars
  <2>2. QED
      BY <2>1, SaveGivesUpOK, Sets
<1>3. CASE BootstrapStep
    BY <1>3, SaveStepOK, Sets DEF BootstrapStep
<1>4. CASE LoadLegacy
    BY <1>4, LoadSlotOK, Sets DEF LoadLegacy
<1>5. CASE LoadModern
    BY <1>5, LoadSlotOK, Sets DEF LoadModern
<1>6. CASE (\E rows \in BatchSizes : CycleTail(rows)) \/ Register
  <2>1. UNCHANGED registryVars
      BY <1>6 DEF CycleTail, Register
  <2>2. QED
      BY <2>1 DEF registryVars, diskVars, RegistryInv, RegistryTypeOK, DiskOrder,
                  FilesInOrder, SavesInOrder, Complete
<1>7. CASE TrainNext
  <2>1. PICK f \in FeatureSets : BeginSave("retrain", f)
      BY <1>7, Sets DEF TrainNext
  <2>2. QED
      BY <2>1, BeginSaveOK, Sets
<1>8. CASE TrainStep \/ TrainFault
    BY <1>8, SaveStepOK, Sets DEF TrainStep, TrainFault
<1>9. CASE Swap \/ GiveUp
  <2>1. save' = ThreadGone /\ UNCHANGED diskVars /\ (ResetActiveModel \/ active' = active)
      BY <1>9 DEF Swap, GiveUp
  <2>2. active' \in [FeatureSets -> Tags \cup {NoModel}]
      BY <2>1 DEF ResetActiveModel, RegistryInv, RegistryTypeOK
  <2>3. QED
      BY <2>1, <2>2, ThreadGoneOK
<1>10. CASE Redeploy \/ Restart
  <2>1. NewProcess
      BY <1>10 DEF Redeploy, Restart
  <2>2. QED
      BY <1>10, <2>1, DiskFoundOK, NewProcessOK
<1>11. QED
    BY <1>1, <1>2, <1>3, <1>4, <1>5, <1>6, <1>7, <1>8, <1>9, <1>10
       DEF Next, RetrainStep

\* A save that goes on moves one place and rewrites at most one pointer.
Moves(s, from, to, p, value) ==
    /\ save[s].at = from
    /\ save'[s].at = to
    /\ \A q \in Pointers : pointer'[q] = IF q = p THEN value ELSE pointer[q]

LEMMA SaveStepMoves ==
    ASSUME RegistryInv, NEW s \in Savers, SaveStep(s) \/ SaveFailed(s)
    PROVE  /\ tags' = tags /\ active' = active /\ save[s].at \in SaveSteps
           /\ \A t \in Savers : /\ save'[t].tag = save[t].tag /\ save'[t].set = save[t].set
                                /\ t # s => save'[t].at = save[t].at
           /\ \/ UNCHANGED pointer /\ save'[s].at \in {"manifest", "set", "failed"}
              \/ Moves(s, "set", "set opened", save[s].set, Empty)
              \/ Moves(s, "set opened", "latest", save[s].set, save[s].tag)
              \/ Moves(s, "latest", "latest opened", "latest", Empty)
              \/ Moves(s, "latest opened", "saved", "latest", save[s].tag)
<1> USE DEF RegistryInv
<1>1. save[s].set \in Pointers /\ "latest" \in Pointers
  <2>1. save \in [Savers -> SaveRecords]
      BY TypesApart
  <2>2. QED
      BY <2>1, Sets DEF SaveRecords
<1>2. save[s].at \in SaveSteps => save[s].tag \in Tags
    BY DEF DiskOrder, SavesInOrder
<1>3. \A p \in Pointers, value \in Tags \cup {Absent, Empty} :
        Writes(p, value) => \A q \in Pointers : pointer'[q] = IF q = p THEN value ELSE pointer[q]
    BY WritesOK
<1>4. \A a \in SaveStates : Goes(s, a) =>
        /\ save'[s].at = a
        /\ \A t \in Savers : /\ save'[t].tag = save[t].tag /\ save'[t].set = save[t].set
                             /\ t # s => save'[t].at = save[t].at
    BY GoesOK
<1> USE DEF SaveStates, SaveSteps
<1>5. CASE OpenManifest(s)
    BY <1>4, <1>5 DEF OpenManifest
<1>6. CASE WriteManifest(s)
    BY <1>4, <1>6 DEF WriteManifest
<1>7. CASE OpenSetPointer(s)
    BY <1>1, <1>3, <1>4, <1>7 DEF OpenSetPointer, Moves
<1>8. CASE WriteSetPointer(s)
    BY <1>1, <1>2, <1>3, <1>4, <1>8 DEF WriteSetPointer, Moves
<1>9. CASE OpenLatest(s)
    BY <1>1, <1>3, <1>4, <1>9 DEF OpenLatest, Moves
<1>10. CASE WriteLatest(s)
    BY <1>1, <1>2, <1>3, <1>4, <1>10 DEF WriteLatest, Moves
<1>11. CASE SaveFailed(s)
    BY <1>4, <1>11 DEF SaveFailed, diskVars
<1>12. QED
    BY <1>5, <1>6, <1>7, <1>8, <1>9, <1>10, <1>11 DEF SaveStep

\* Until latest.txt exists the pair of a process that has served stays loaded: the
\* pair is dropped only after a save that wrote it.
ServedPairStays ==
    /\ cycle = "legacy loaded" => active["legacy"] # NoModel
    /\ save["retrain"].at = "saved" => pointer["latest"] # Absent
    /\ served /\ pointer["latest"] = Absent => \A f \in FeatureSets : active[f] # NoModel

ServedInv == RegistryInv /\ ServedPairStays

LEMMA SaveKeepsServed ==
    ASSUME ServedInv, NEW s \in Savers, SaveStep(s) \/ SaveFailed(s), UNCHANGED <<cycle, served>>
    PROVE  ServedPairStays'
<1>1. "latest" \in Pointers /\ save[s].set # "latest" /\ save[s].tag \in Nat
  <2>1. save[s] \in SaveRecords
      BY TypesApart DEF ServedInv, RegistryInv
  <2>2. QED
      BY <2>1, Sets, RegistryAssumption DEF SaveRecords, FeatureSets
<1>2. save[s].tag # Absent /\ Empty # Absent
    BY <1>1, RegistryAssumption
<1>3. /\ active' = active
      /\ \A t \in Savers : t # s => save'[t].at = save[t].at
      /\ \/ UNCHANGED pointer /\ save'[s].at \in {"manifest", "set", "failed"}
         \/ Moves(s, "set", "set opened", save[s].set, Empty)
         \/ Moves(s, "set opened", "latest", save[s].set, save[s].tag)
         \/ Moves(s, "latest", "latest opened", "latest", Empty)
         \/ Moves(s, "latest opened", "saved", "latest", save[s].tag)
    BY SaveStepMoves DEF ServedInv
<1>4. /\ pointer'["latest"] = Absent => pointer["latest"] = Absent
      /\ save'[s].at = "saved" => pointer'["latest"] # Absent
    BY <1>1, <1>2, <1>3 DEF Moves
<1>5. QED
    BY <1>3, <1>4, Sets DEF ServedInv, ServedPairStays

LEMMA ServedInvariance == Spec => []ServedInv
<1>1. Init => ServedInv
  <2> SUFFICES ASSUME Init PROVE ServedInv
      OBVIOUS
  <2>1. save["retrain"].at = "no"
      BY NotSavingOK, Sets DEF Init, RegistryInit
  <2>2. QED
      BY <2>1, RegistryInitOK DEF Init, ServedInv, ServedPairStays
<1>2. ServedInv /\ [Next]_lifecycleVars => ServedInv'
  <2> SUFFICES ASSUME ServedInv, [Next]_lifecycleVars PROVE ServedInv'
      OBVIOUS
  <2> USE Sets DEF ServedInv
  <2>1. RegistryInv'
    <3>1. CASE UNCHANGED lifecycleVars
        BY <3>1 DEF lifecycleVars, registryVars, diskVars, RegistryInv, RegistryTypeOK,
                    DiskOrder, FilesInOrder, SavesInOrder, Complete
    <3>2. QED
        BY <3>1, RegistryKept
  <2>2. CASE Bootstrap \/ TrainNext
    <3>1. PICK s \in Savers, f \in FeatureSets : BeginSave(s, f)
        BY <2>2 DEF Bootstrap, TrainNext
    <3>2. UNCHANGED <<pointer, active, cycle, served>>
        BY <2>2, <3>1 DEF Bootstrap, TrainNext, BeginSave
    <3>3. save'["retrain"].at \in {save["retrain"].at, "files"}
        BY <3>1 DEF BeginSave, RegistryInv, RegistryTypeOK
    <3>4. QED
        BY <2>1, <3>2, <3>3 DEF ServedPairStays
  <2>3. CASE NoBootstrap
    <3>1. UNCHANGED <<pointer, active, cycle, served>> /\ Goes("bootstrap", "failed")
        BY <2>3 DEF NoBootstrap, diskVars
    <3>2. save'["retrain"].at = save["retrain"].at
        BY <3>1, GoesOK DEF RegistryInv, SaveStates, Savers
    <3>3. QED
        BY <2>1, <3>1, <3>2 DEF ServedPairStays
  <2>4. CASE BootstrapStep
      BY <2>1, <2>4, SaveKeepsServed DEF BootstrapStep
  <2>5. CASE TrainStep \/ TrainFault
      BY <2>1, <2>5, SaveKeepsServed DEF TrainStep, TrainFault
  <2>6. CASE LoadLegacy \/ LoadModern
    <3>1. PICK f \in FeatureSets : LoadSlot(f)
        BY <2>6 DEF LoadLegacy, LoadModern
    <3>2. \A g \in FeatureSets : active[g] # NoModel => active'[g] # NoModel
        BY <3>1 DEF LoadSlot, RegistryInv, RegistryTypeOK
    <3>3. UNCHANGED <<pointer, save>>
        BY <3>1 DEF LoadSlot, diskVars
    <3>4. cycle' = "legacy loaded" => active'["legacy"] # NoModel
        BY <2>6 DEF LoadLegacy, LoadModern
    <3>5. served' => served \/ \A g \in FeatureSets : active'[g] # NoModel
        BY <2>6, <3>2 DEF LoadLegacy, LoadModern, ServedPairStays, FeatureSets
    <3>6. QED
        BY <2>1, <3>2, <3>3, <3>4, <3>5 DEF ServedPairStays
  <2>7. CASE \/ \E rows \in BatchSizes : CycleTail(rows)
             \/ Register
             \/ UNCHANGED lifecycleVars
    <3>1. UNCHANGED <<pointer, save, active, served>> /\ cycle' \in {cycle, "no"}
        BY <2>7 DEF CycleTail, Register, lifecycleVars, registryVars, diskVars
    <3>2. QED
        BY <2>1, <3>1 DEF ServedPairStays
  <2>8. CASE Swap
    <3>1. save["retrain"].at = "saved" /\ UNCHANGED <<pointer, cycle>> /\ cycle # "legacy loaded"
        BY <2>8 DEF Swap, diskVars
    <3>2. QED
        BY <2>1, <3>1 DEF ServedPairStays
  <2>9. CASE GiveUp
    <3>1. UNCHANGED <<pointer, active, cycle, served>> /\ save' = ThreadGone
        BY <2>9 DEF GiveUp, diskVars
    <3>2. save'["retrain"].at = "no"
        BY <3>1, NotSavingOK DEF ThreadGone, RegistryInv, RegistryTypeOK
    <3>3. QED
        BY <2>1, <3>1, <3>2 DEF ServedPairStays
  <2>10. CASE Redeploy \/ Restart
    <3>1. NewProcess
        BY <2>10 DEF Redeploy, Restart
    <3>2. save'["retrain"].at = "no"
        BY <2>10, <3>1, DiskFoundOK, NewProcessOK
    <3>3. cycle' = "no" /\ served' = FALSE
        BY <3>1 DEF NewProcess
    <3>4. QED
        BY <2>1, <3>2, <3>3 DEF ServedPairStays
  <2>11. QED
      BY <2>2, <2>3, <2>4, <2>5, <2>6, <2>7, <2>8, <2>9, <2>10 DEF Next, RetrainStep
<1>3. QED
    BY <1>1, <1>2, PTL DEF Spec

\* Once a process has served, every slot keeps its model or finds one, with saves
\* that raise or die at any file: what a pointer names is complete, and the pair is
\* dropped only after latest.txt was written.  Left out are the feature sets without
\* a pointer of their own while latest.txt is empty, which a failed write leaves so.
THEOREM ServedStaysServed == Spec => []ModelsStayServed
<1>1. ServedInv => ModelsStayServed
  <2> SUFFICES ASSUME ServedInv, served, NEW f \in FeatureSets, active[f] = NoModel
               PROVE  \/ LoadForFeatureSet(f) # NoModel
                      \/ pointer["latest"] = Empty /\ pointer[f] \in {Absent, Empty}
      BY DEF ModelsStayServed
  <2>1. pointer["latest"] # Absent
      BY DEF ServedInv, ServedPairStays
  <2>2. /\ pointer["latest"] \in Tags \cup {Absent, Empty}
        /\ pointer[f] \in Tags \cup {Absent, Empty}
      BY Sets DEF ServedInv, RegistryInv, RegistryTypeOK
  <2>3. CASE pointer[f] \in Tags \/ pointer["latest"] \in Tags
      BY <2>3, LoadFinds DEF ServedInv, RegistryInv
  <2>4. QED
      BY <2>1, <2>2, <2>3
<1>2. QED
    BY <1>1, ServedInvariance, PTL

-----------------------------------------------------------------------------
(* A finished retrain's models replace all older ones.                     *)

Histories == {fresh, finished}
Under(n) == \A h \in Histories, f \in FeatureSets : h[f] < n

BootstrapOver == save["bootstrap"].at \in {"skipped", "saved", "failed"}

\* The order of the saves: a retrain comes after the bootstrap, the tag of a save is
\* newer than every bundle of a retrain before, and pointers only move forward.
SaveOrder ==
    /\ ~BootstrapOver => ~(training > 0)
    /\ ~(training > 0) => save["retrain"].at = "no"
    /\ Under(tags + 1)
    /\ \A s \in Savers :
          /\ save[s].at \in SaveSteps => Under(save[s].tag) /\ save[s].tag <= tags
          /\ save[s].at \in {"latest", "latest opened"} =>
                pointer[save[s].set] = save[s].tag

\* One save at a time.
Alone(s) == \A t \in Savers : t # s => save[t].at \notin SaveSteps

\* What a pointer names is no older than the retrained bundles it stands for.
PointersForward ==
    /\ \A h \in Histories, f \in FeatureSets :
          /\ pointer[f] \in Tags => h[f] <= pointer[f]
          /\ pointer["latest"] \in Tags => h[f] <= pointer["latest"]
          /\ pointer["latest"] = Absent => h[f] = 0

HistoryTypeOK == Histories \subseteq [FeatureSets -> 0 .. MaxTags]

VersionInv ==
    RegistryInv /\ HistoryTypeOK /\ SaveOrder /\ PointersForward /\ RetrainedModelsAreUsed

-----------------------------------------------------------------------------
(* Every step keeps the versions in order.                                 *)

LEMMA HistoryIsNat ==
    ASSUME HistoryTypeOK
    PROVE  /\ MaxTags \in Nat
           /\ \A f \in FeatureSets : fresh[f] \in Nat /\ finished[f] \in Nat
BY RegistryAssumption DEF HistoryTypeOK, Histories

LEMMA TagTypes ==
    ASSUME RegistryInv
    PROVE  /\ tags \in Nat /\ tags \in 0 .. MaxTags
           /\ \A s \in Savers : /\ save[s].tag \in Nat /\ save[s].tag \in 0 .. MaxTags
                                /\ save[s].set \in FeatureSets
<1>1. tags \in 0 .. MaxTags
    BY DEF RegistryInv, RegistryTypeOK
<1>2. save \in [Savers -> SaveRecords]
    BY DEF RegistryInv, RegistryTypeOK, SaveRecords, SaveStates
<1>3. MaxTags \in Nat
    BY RegistryAssumption
<1>4. \A s \in Savers : save[s].tag \in 0 .. MaxTags /\ save[s].set \in FeatureSets
    BY <1>2 DEF SaveRecords
<1>5. QED
    BY <1>1, <1>3, <1>4

OrderKept == HistoryTypeOK /\ SaveOrder /\ PointersForward /\ RetrainedModelsAreUsed

\* The bootstrap and the training thread never save at once.
LEMMA SaveIsAlone ==
    ASSUME VersionInv, NEW s \in Savers,
           save[s].at \in SaveSteps \/ (s = "retrain" /\ training > 0)
                                    \/ (s = "bootstrap" /\ ~BootstrapOver)
    PROVE  /\ Alone(s)
           /\ s = "retrain" => training > 0 /\ BootstrapOver
           /\ s = "bootstrap" => ~BootstrapOver /\ ~(training > 0)
<1> USE DEF VersionInv, SaveOrder, SaveSteps
<1>1. CASE s = "retrain"
  <2>1. training > 0 /\ BootstrapOver
      BY <1>1
  <2>2. QED
      BY <1>1, <2>1 DEF Alone, Savers, BootstrapOver
<1>2. CASE s = "bootstrap"
  <2>1. ~BootstrapOver /\ ~(training > 0) /\ save["retrain"].at = "no"
      BY <1>2 DEF BootstrapOver
  <2>2. QED
      BY <1>2, <2>1 DEF Alone, Savers
<1>3. QED
    BY <1>1, <1>2 DEF Savers

\* A save that begins takes a tag newer than all before.
LEMMA BeginKeepsOrder ==
    ASSUME VersionInv, NEW s \in Savers, NEW f \in FeatureSets, BeginSave(s, f),
           (s = "retrain" /\ training > 0) \/ (s = "bootstrap" /\ ~BootstrapOver),
           UNCHANGED <<training, fresh, finished>>
    PROVE  OrderKept'
<1> USE Sets DEF VersionInv
<1>1. /\ Alone(s)
      /\ s = "retrain" => training > 0 /\ BootstrapOver
      /\ s = "bootstrap" => ~(training > 0)
    BY SaveIsAlone
<1>2. UNCHANGED <<pointer, active>>
    BY DEF BeginSave
<1>3. /\ tags' = tags + 1 /\ tags \in Nat
      /\ save'[s].at = "files" /\ save'[s].tag = tags + 1
      /\ \A t \in Savers : t # s => save'[t] = save[t]
    BY TagTypes DEF BeginSave, RegistryInv, RegistryTypeOK
<1>4. HistoryTypeOK' /\ PointersForward' /\ RetrainedModelsAreUsed'
    BY <1>2 DEF HistoryTypeOK, Histories, PointersForward, RetrainedModelsAreUsed
<1>5. Under(tags + 1)' /\ \A h \in Histories', g \in FeatureSets : h[g] < tags + 1
  <2>1. \A g \in FeatureSets : /\ fresh[g] < tags + 1 /\ finished[g] < tags + 1
                               /\ fresh[g] \in Nat /\ finished[g] \in Nat
      BY HistoryIsNat DEF SaveOrder, Under, Histories
  <2>2. QED
      BY <1>3, <2>1 DEF Under, Histories
<1>6. SaveOrder'
  <2>1. ASSUME NEW t \in Savers
        PROVE  /\ save'[t].at \in SaveSteps => Under(save[t].tag)' /\ save'[t].tag <= tags'
               /\ save'[t].at \in {"latest", "latest opened"} =>
                     pointer'[save'[t].set] = save'[t].tag
    <3>1. CASE t = s
      <4>1. save'[t].tag = tags + 1
          BY <1>3, <3>1
      <4>2. Under(save[t].tag)'
          BY <1>5, <4>1 DEF Under
      <4>3. save'[t].tag <= tags'
          BY <1>3, <4>1
      <4>4. save'[t].at = "files"
          BY <1>3, <3>1
      <4>5. QED
          BY <4>2, <4>3, <4>4
    <3>2. CASE t # s
        BY <1>1, <1>3, <3>2 DEF Alone, SaveSteps
    <3>3. QED
        BY <3>1, <3>2
  <2>2. ~BootstrapOver' => ~(training' > 0)
      BY <1>1, <1>3 DEF BootstrapOver, SaveOrder, Savers
  <2>3. ~(training' > 0) => save'["retrain"].at = "no"
      BY <1>1, <1>3 DEF SaveOrder, Savers
  <2>4. QED
      BY <1>5, <2>1, <2>2, <2>3 DEF SaveOrder
<1>7. QED
    BY <1>4, <1>6 DEF OrderKept

\* A cycle loads nothing older than the retrain that finished.
LEMMA LoadsKeepOrder ==
    ASSUME VersionInv, NEW f \in FeatureSets, LoadSlot(f), UNCHANGED <<training, fresh, finished>>
    PROVE  OrderKept'
<1> USE DEF VersionInv
<1>1. UNCHANGED <<pointer, tags, save>>
    BY DEF LoadSlot, diskVars
<1>2. HistoryTypeOK' /\ SaveOrder' /\ PointersForward'
    BY <1>1 DEF HistoryTypeOK, Histories, SaveOrder, PointersForward, Under, BootstrapOver
<1>3. ASSUME LoadForFeatureSet(f) # NoModel PROVE LoadForFeatureSet(f) >= finished[f]
  <2>1. LoadForFeatureSet(f) \in Tags /\ LoadForFeatureSet(f) \in Nat
      BY <1>3, LoadReturns, CompleteAreTags DEF RegistryInv, Tags
  <2>2. /\ pointer[f] \in Tags => finished[f] <= pointer[f]
        /\ pointer["latest"] \in Tags => finished[f] <= pointer["latest"]
        /\ pointer["latest"] = Absent => finished[f] = 0
      BY DEF PointersForward, Histories
  <2>3. \/ LoadForFeatureSet(f) = pointer[f]
        \/ LoadForFeatureSet(f) = pointer["latest"]
        \/ pointer["latest"] = Absent
      BY <1>3, LoadReturns DEF RegistryInv
  <2>4. finished[f] \in Nat
      BY HistoryIsNat
  <2>5. QED
      BY <2>1, <2>2, <2>3, <2>4
<1>4. RetrainedModelsAreUsed'
    BY <1>3 DEF RetrainedModelsAreUsed, LoadSlot, RegistryInv, RegistryTypeOK
<1>5. QED
    BY <1>2, <1>4 DEF OrderKept

\* A step of a save: the pointers move on to its tag.
LEMMA SaveStepKeepsOrder ==
    ASSUME VersionInv, NEW s \in Savers, SaveStep(s) \/ SaveFailed(s),
           UNCHANGED <<training, finished>>,
           fresh' \in [FeatureSets -> 0 .. MaxTags],
           \A f \in FeatureSets :
              \/ fresh'[f] = fresh[f]
              \/ save'[s].at = "saved" /\ f = save[s].set /\ fresh'[f] = save[s].tag
    PROVE  OrderKept'
<1> DEFINE set == save[s].set
           tag == save[s].tag
<1> USE DEF VersionInv
<1>1. /\ set \in FeatureSets /\ tag \in Nat /\ tag \in 0 .. MaxTags
      /\ tags \in Nat /\ set \in Pointers /\ "latest" \in Pointers /\ set # "latest"
    BY TagTypes, Sets DEF FeatureSets
<1>2. /\ tags' = tags /\ active' = active /\ save[s].at \in SaveSteps
      /\ \A t \in Savers : /\ save'[t].tag = save[t].tag /\ save'[t].set = save[t].set
                           /\ t # s => save'[t].at = save[t].at
      /\ \/ UNCHANGED pointer /\ save'[s].at \in {"manifest", "set", "failed"}
         \/ Moves(s, "set", "set opened", set, Empty)
         \/ Moves(s, "set opened", "latest", set, tag)
         \/ Moves(s, "latest", "latest opened", "latest", Empty)
         \/ Moves(s, "latest opened", "saved", "latest", tag)
    BY SaveStepMoves
<1>3. /\ Alone(s)
      /\ s = "retrain" => training > 0 /\ BootstrapOver
      /\ s = "bootstrap" => ~BootstrapOver /\ ~(training > 0)
    BY <1>2, SaveIsAlone
<1>4. \A f \in FeatureSets : fresh[f] \in Nat /\ finished[f] \in Nat
    BY HistoryIsNat
<1>5. /\ \A f \in FeatureSets : fresh[f] < tag /\ finished[f] < tag
      /\ tag <= tags
    BY <1>2 DEF SaveOrder, Under, Histories
<1>6. \A f \in FeatureSets :
        \/ fresh'[f] = fresh[f]
        \/ save'[s].at = "saved" /\ f = set /\ fresh'[f] = tag
    OBVIOUS
<1>7. save[s].at \in {"latest", "latest opened"} => pointer[set] = tag
    BY DEF SaveOrder
<1>8. save'[s].tag = tag /\ save'[s].set = set
    BY <1>2
<1> HIDE DEF set, tag
<1>9. HistoryTypeOK' /\ RetrainedModelsAreUsed'
    BY <1>2 DEF HistoryTypeOK, Histories, RetrainedModelsAreUsed
<1>10. SaveOrder'
  <2>1. Under(tags + 1)'
    <3>1. \A f \in FeatureSets : fresh'[f] < tags + 1 /\ finished[f] < tags + 1
        BY <1>1, <1>4, <1>5, <1>6
    <3>2. QED
        BY <1>2, <3>1 DEF Under, Histories
  <2>2. save'[s].at \in SaveSteps => Under(save[s].tag)' /\ save'[s].tag <= tags'
    <3>1. ASSUME save'[s].at \in SaveSteps
          PROVE  \A f \in FeatureSets : fresh'[f] < tag /\ finished'[f] < tag
        BY <3>1, <1>5, <1>6 DEF SaveSteps
    <3>2. QED
        BY <1>2, <1>5, <1>8, <3>1 DEF Under, Histories
  <2>3. save'[s].at \in {"latest", "latest opened"} => pointer'[save'[s].set] = save'[s].tag
      BY <1>1, <1>2, <1>7, <1>8 DEF Moves
  <2>4. ASSUME NEW t \in Savers, t # s
        PROVE  save'[t].at \notin SaveSteps
      BY <1>2, <1>3, <2>4 DEF Alone
  <2>5. \A t \in Savers :
          /\ save'[t].at \in SaveSteps => Under(save[t].tag)' /\ save'[t].tag <= tags'
          /\ save'[t].at \in {"latest", "latest opened"} =>
                pointer'[save'[t].set] = save'[t].tag
      BY <2>2, <2>3, <2>4 DEF SaveSteps
  <2>6. ~BootstrapOver' => ~(training' > 0)
      BY <1>2, <1>3, Sets DEF BootstrapOver, Savers
  <2>7. ~(training' > 0) => save'["retrain"].at = "no"
      BY <1>2, <1>3, Sets DEF SaveOrder, Savers
  <2>8. QED
      BY <2>1, <2>5, <2>6, <2>7 DEF SaveOrder
<1>11. PointersForward'
  <2> SUFFICES ASSUME NEW f \in FeatureSets
               PROVE  \A n \in {fresh'[f], finished[f]} :
                        /\ pointer'[f] \in Tags => n <= pointer'[f]
                        /\ pointer'["latest"] \in Tags => n <= pointer'["latest"]
                        /\ pointer'["latest"] = Absent => n = 0
      BY DEF PointersForward, Histories
  <2>1. \A n \in {fresh[f], finished[f]} :
          /\ n \in Nat /\ n < tag
          /\ pointer[f] \in Tags => n <= pointer[f]
          /\ pointer["latest"] \in Tags => n <= pointer["latest"]
          /\ pointer["latest"] = Absent => n = 0
      BY <1>4, <1>5 DEF PointersForward, Histories
  <2>2. f \in Pointers /\ f # "latest"
      BY DEF Pointers, FeatureSets
  <2>3. CASE Moves(s, "set", "set opened", set, Empty) \/ Moves(s, "set opened", "latest", set, tag)
    <3>1. fresh'[f] = fresh[f]
        BY <1>6, <2>3 DEF Moves
    <3>2. pointer'["latest"] = pointer["latest"] /\ pointer'[f] \in {pointer[f], Empty, tag}
        BY <1>1, <2>2, <2>3 DEF Moves
    <3>3. QED
        BY <1>1, <2>1, <3>1, <3>2, NoneIsATag
  <2>4. CASE Moves(s, "latest", "latest opened", "latest", Empty)
    <3>1. fresh'[f] = fresh[f] /\ pointer'["latest"] = Empty /\ pointer'[f] = pointer[f]
        BY <1>1, <1>6, <2>2, <2>4 DEF Moves
    <3>2. Empty \notin Tags /\ Empty # Absent
        BY NoneIsATag, RegistryAssumption
    <3>3. QED
        BY <2>1, <3>1, <3>2
  <2>5. CASE Moves(s, "latest opened", "saved", "latest", tag)
    <3>1. /\ fresh'[f] = fresh[f] \/ (f = set /\ fresh'[f] = tag)
          /\ pointer'["latest"] = tag /\ pointer'[f] = pointer[f]
        BY <1>1, <1>6, <2>2, <2>5 DEF Moves
    <3>2. f = set => pointer[f] = tag
        BY <1>7, <2>5 DEF Moves
    <3>3. tag # Absent
        BY <1>1, RegistryAssumption
    <3>4. QED
        BY <1>1, <2>1, <3>1, <3>2, <3>3
  <2>6. CASE UNCHANGED pointer /\ save'[s].at \in {"manifest", "set", "failed"}
    <3>1. fresh'[f] = fresh[f]
        BY <1>6, <2>6
    <3>2. QED
        BY <2>1, <2>6, <3>1
  <2>7. QED
      BY <1>2, <2>3, <2>4, <2>5, <2>6
<1>12. QED
    BY <1>9, <1>10, <1>11 DEF OrderKept

\* The bootstrap's save.
LEMMA BootstrapKeepsOrder ==
    ASSUME VersionInv, Bootstrap \/ NoBootstrap \/ BootstrapStep
    PROVE  OrderKept'
<1> USE Sets
<1>1. UNCHANGED <<training, fresh, finished>>
    BY DEF Bootstrap, NoBootstrap, BootstrapStep, retrainVars
<1>2. CASE Bootstrap
  <2>1. BeginSave("bootstrap", "modern") /\ ~BootstrapOver
      BY <1>2 DEF Bootstrap, BootstrapOver
  <2>2. QED
      BY <1>1, <2>1, BeginKeepsOrder
<1>3. CASE NoBootstrap
  <2>1. Goes("bootstrap", "failed") /\ UNCHANGED <<pointer, tags, active>>
      BY <1>3 DEF NoBootstrap, diskVars
  <2>2. ~(training > 0)
      BY <1>3 DEF NoBootstrap, VersionInv, SaveOrder, BootstrapOver
  <2>3. \A t \in Savers : /\ save'[t].at = IF t = "bootstrap" THEN "failed" ELSE save[t].at
                          /\ save'[t].tag = save[t].tag
                          /\ save'[t].set = save[t].set
      BY <2>1, GoesOK DEF VersionInv, RegistryInv, SaveStates
  <2>4. "bootstrap" # "retrain"
      OBVIOUS
  <2>5. SaveOrder'
    <3>1. ASSUME NEW t \in Savers
          PROVE  /\ save'[t].at \in SaveSteps => Under(save[t].tag)' /\ save'[t].tag <= tags'
                 /\ save'[t].at \in {"latest", "latest opened"} =>
                       pointer'[save'[t].set] = save'[t].tag
      <4>1. CASE t = "bootstrap"
          BY <2>3, <4>1 DEF SaveSteps
      <4>2. CASE t # "bootstrap"
          BY <1>1, <2>1, <2>3, <4>2 DEF VersionInv, SaveOrder, Under, Histories
      <4>3. QED
          BY <4>1, <4>2
    <3>2. Under(tags + 1)' /\ save'["retrain"].at = "no"
        BY <1>1, <2>1, <2>2, <2>3, <2>4 DEF VersionInv, SaveOrder, Under, Histories
    <3>3. QED
        BY <1>1, <2>2, <3>1, <3>2 DEF SaveOrder
  <2>6. HistoryTypeOK' /\ PointersForward' /\ RetrainedModelsAreUsed'
      BY <1>1, <2>1
         DEF VersionInv, HistoryTypeOK, Histories, PointersForward, RetrainedModelsAreUsed
  <2>7. QED
      BY <2>5, <2>6 DEF OrderKept
<1>4. CASE BootstrapStep
  <2>1. SaveStep("bootstrap") \/ SaveFailed("bootstrap")
      BY <1>4 DEF BootstrapStep
  <2>2. fresh' \in [FeatureSets -> 0 .. MaxTags]
      BY <1>1 DEF VersionInv, HistoryTypeOK, Histories
  <2>3. QED
      BY <1>1, <2>1, <2>2, SaveStepKeepsOrder
<1>5. QED
    BY <1>2, <1>3, <1>4

\* The training thread's saves.
LEMMA TrainKeepsOrder ==
    ASSUME VersionInv, TrainNext \/ TrainStep \/ TrainFault
    PROVE  OrderKept'
<1> USE Sets
<1>1. UNCHANGED <<training, finished>> /\ training > 0
    BY DEF TrainNext, TrainStep, TrainFault, retrainVars
<1>2. CASE TrainNext
  <2>1. PICK f \in FeatureSets : BeginSave("retrain", f)
      BY <1>2 DEF TrainNext
  <2>2. UNCHANGED fresh
      BY <1>2 DEF TrainNext
  <2>3. QED
      BY <1>1, <2>1, <2>2, BeginKeepsOrder
<1>3. CASE TrainStep \/ TrainFault
  <2>1. SaveStep("retrain") \/ SaveFailed("retrain")
      BY <1>3 DEF TrainStep, TrainFault
  <2>2. /\ fresh \in [FeatureSets -> 0 .. MaxTags]
        /\ save["retrain"].tag \in 0 .. MaxTags
      BY TagTypes DEF VersionInv, HistoryTypeOK, Histories
  <2>3. \/ fresh' = fresh
        \/ /\ save'["retrain"].at = "saved"
           /\ fresh' = [fresh EXCEPT ![save["retrain"].set] = save["retrain"].tag]
      BY <1>3 DEF TrainStep, TrainFault
  <2>4. /\ fresh' \in [FeatureSets -> 0 .. MaxTags]
        /\ \A f \in FeatureSets :
              \/ fresh'[f] = fresh[f]
              \/ /\ save'["retrain"].at = "saved" /\ f = save["retrain"].set
                 /\ fresh'[f] = save["retrain"].tag
      BY <2>2, <2>3
  <2>5. QED
      BY <1>1, <2>1, <2>4, SaveStepKeepsOrder
<1>4. QED
    BY <1>2, <1>3

\* The thread is over: its bundles are the finished ones, or are given up.
LEMMA ThreadEndKeepsOrder ==
    ASSUME VersionInv, Swap \/ GiveUp
    PROVE  OrderKept'
<1> USE DEF VersionInv
<1>1. /\ save'["bootstrap"] = save["bootstrap"]
      /\ save'["retrain"].at = "no"
      /\ UNCHANGED <<pointer, tags>>
  <2>1. save' = ThreadGone /\ UNCHANGED <<pointer, tags>>
      BY DEF Swap, GiveUp, diskVars
  <2>2. save \in [Savers -> SaveRecords] /\ NotSaving.at = "no"
      BY TypesApart, NotSavingOK DEF RegistryInv
  <2>3. "retrain" \in Savers /\ "bootstrap" \in Savers /\ "retrain" # "bootstrap"
      BY DEF Savers
  <2>4. save'["retrain"] = NotSaving /\ save'["bootstrap"] = save["bootstrap"]
      BY <2>1, <2>2, <2>3 DEF ThreadGone
  <2>5. QED
      BY <2>1, <2>2, <2>4
<1>2. BootstrapOver /\ BootstrapOver'
  <2>1. training > 0
      BY DEF Swap, GiveUp, Trained, TrainingFailed
  <2>2. QED
      BY <1>1, <2>1 DEF SaveOrder, BootstrapOver
<1>3. \A f \in FeatureSets : /\ fresh'[f] = 0
                             /\ finished'[f] \in {fresh[f], finished[f]}
                             /\ fresh[f] \in 0 .. MaxTags /\ finished[f] \in 0 .. MaxTags
    BY DEF Swap, GiveUp, HistoryTypeOK, Histories
<1>4. MaxTags \in Nat
    BY RegistryAssumption
<1>5. HistoryTypeOK'
  <2>1. fresh' \in [FeatureSets -> 0 .. MaxTags]
    <3>1. fresh' = [f \in FeatureSets |-> 0]
        BY Zenon DEF Swap, GiveUp
    <3>2. 0 \in 0 .. MaxTags
        BY <1>4
    <3>3. QED
        BY <3>1, <3>2, Zenon
  <2>2. finished' \in [FeatureSets -> 0 .. MaxTags]
      BY <1>3 DEF Swap, GiveUp, HistoryTypeOK, Histories
  <2>3. QED
      BY <2>1, <2>2 DEF HistoryTypeOK, Histories
<1>6. ASSUME NEW f \in FeatureSets, NEW h \in {fresh', finished'}
      PROVE  /\ h[f] < tags + 1
             /\ pointer[f] \in Tags => h[f] <= pointer[f]
             /\ pointer["latest"] \in Tags => h[f] <= pointer["latest"]
             /\ pointer["latest"] = Absent => h[f] = 0
  <2>1. h[f] \in {0, fresh[f], finished[f]}
      BY <1>3, <1>6
  <2>2. \A n \in {fresh[f], finished[f]} :
          /\ n < tags + 1
          /\ pointer[f] \in Tags => n <= pointer[f]
          /\ pointer["latest"] \in Tags => n <= pointer["latest"]
          /\ pointer["latest"] = Absent => n = 0
      BY DEF SaveOrder, PointersForward, Under, Histories
  <2>3. tags \in Nat /\ Tags \subseteq Nat
      BY TagTypes DEF Tags
  <2>4. \A p \in {f, "latest"} : pointer[p] \in Tags => 0 <= pointer[p]
    <3>1. \A n \in Tags : 0 <= n
        BY <1>4 DEF Tags
    <3>2. QED
        BY <3>1, Zenon
  <2>5. QED
      BY <2>1, <2>2, <2>3, <2>4
<1>7. SaveOrder'
  <2>1. Under(tags + 1)'
      BY <1>1, <1>6 DEF Under, Histories
  <2>2. \A t \in Savers : save'[t].at \notin SaveSteps
      BY <1>1, <1>2 DEF Savers, SaveSteps, BootstrapOver
  <2>3. QED
      BY <1>1, <1>2, <2>1, <2>2 DEF SaveOrder, SaveSteps
<1>8. PointersForward'
    BY <1>1, <1>6 DEF PointersForward, Histories
<1>9. RetrainedModelsAreUsed'
  <2>1. CASE Swap
      BY <2>1 DEF Swap, ResetActiveModel, RetrainedModelsAreUsed
  <2>2. CASE GiveUp
      BY <2>2 DEF GiveUp, RetrainedModelsAreUsed
  <2>3. QED
      BY <2>1, <2>2
<1>10. QED
    BY <1>5, <1>7, <1>8, <1>9 DEF OrderKept

\* The steps that touch neither the registry nor the histories.
LEMMA TailKeepsOrder ==
    ASSUME VersionInv, RetrainTypeOK,
           \/ \E rows \in BatchSizes : CycleTail(rows)
           \/ Register
           \/ UNCHANGED lifecycleVars
    PROVE  OrderKept'
<1> USE DEF VersionInv
<1>1. UNCHANGED <<registryVars, fresh, finished>>
    BY DEF CycleTail, Register, lifecycleVars
<1>2. HistoryTypeOK' /\ PointersForward' /\ RetrainedModelsAreUsed'
    BY <1>1 DEF registryVars, diskVars, HistoryTypeOK, Histories, PointersForward, RetrainedModelsAreUsed
<1>3. training' = training \/ (BootstrapOver /\ training' > 0)
    BY DEF CycleTail, Register, Registered, EndCycle, lifecycleVars, retrainVars,
           RetrainTypeOK, BootstrapOver
<1>4. /\ BootstrapOver' = BootstrapOver
      /\ save' = save /\ pointer' = pointer /\ tags' = tags /\ Histories' = Histories
    BY <1>1 DEF registryVars, diskVars, BootstrapOver, Histories
<1>5. SaveOrder'
    BY <1>3, <1>4 DEF SaveOrder, Under
<1>6. QED
    BY <1>2, <1>5 DEF OrderKept

\* Nothing is saved or loaded yet, and what is on disk is in order.
LEMMA StartOrder ==
    ASSUME \A s \in Savers : save[s].at \in {"no", "skipped"}, save["retrain"].at = "no",
           \A f \in FeatureSets : active[f] = NoModel,
           training = 0, HistoryTypeOK, Under(tags + 1), PointersForward
    PROVE  OrderKept
<1>1. SaveOrder
  <2>1. \A s \in Savers : save[s].at \notin SaveSteps
      BY DEF SaveSteps
  <2>2. save["retrain"].at = "no" /\ ~(training > 0)
      OBVIOUS
  <2>3. QED
      BY <2>1, <2>2, Zenon DEF SaveOrder, SaveSteps
<1>2. RetrainedModelsAreUsed
    BY DEF RetrainedModelsAreUsed
<1>3. QED
    BY <1>1, <1>2 DEF OrderKept

\* An empty disk, and no retrain before.
LEMMA EmptyDiskOrder ==
    ASSUME pointer = [p \in Pointers |-> Absent], tags = 0,
           fresh = [f \in FeatureSets |-> 0], finished = [f \in FeatureSets |-> 0]
    PROVE  HistoryTypeOK /\ Under(tags + 1) /\ PointersForward
<1>1. HistoryTypeOK
    BY RegistryAssumption DEF HistoryTypeOK, Histories
<1>2. \A h \in Histories, f \in FeatureSets : h[f] = 0
    BY DEF Histories
<1>3. Under(tags + 1)
    BY <1>2 DEF Under
<1>4. \A p \in Pointers : pointer[p] \notin Tags
    BY NoneIsATag
<1>5. QED
    BY <1>1, <1>2, <1>3, <1>4, Sets DEF PointersForward

\* A disk that is kept: what retrains finished is still on it.
LEMMA KeptDiskOrder ==
    ASSUME VersionInv, UNCHANGED <<pointer, tags, finished>>,
           fresh' = [f \in FeatureSets |-> 0]
    PROVE  (HistoryTypeOK /\ Under(tags + 1) /\ PointersForward)'
<1> USE DEF VersionInv
<1>1. \A h \in Histories', f \in FeatureSets : h[f] = 0 \/ h[f] = finished[f]
    BY DEF Histories
<1>2. MaxTags \in Nat /\ tags \in Nat /\ Tags \subseteq Nat
    BY TagTypes, RegistryAssumption DEF Tags
<1>3. HistoryTypeOK'
    BY <1>2 DEF HistoryTypeOK, Histories
<1>4. \A f \in FeatureSets :
        /\ finished[f] < tags + 1
        /\ pointer[f] \in Tags => finished[f] <= pointer[f]
        /\ pointer["latest"] \in Tags => finished[f] <= pointer["latest"]
        /\ pointer["latest"] = Absent => finished[f] = 0
    BY DEF SaveOrder, Under, PointersForward, Histories
<1>5. Under(tags + 1)'
    BY <1>1, <1>2, <1>4 DEF Under
<1>6. PointersForward'
  <2> SUFFICES ASSUME NEW h \in Histories', NEW f \in FeatureSets
               PROVE  /\ pointer[f] \in Tags => h[f] <= pointer[f]
                      /\ pointer["latest"] \in Tags => h[f] <= pointer["latest"]
                      /\ pointer["latest"] = Absent => h[f] = 0
      BY DEF PointersForward
  <2>1. \A n \in Tags : 0 <= n
      BY <1>2 DEF Tags
  <2>2. QED
      BY <1>1, <1>4, <2>1
<1>7. QED
    BY <1>3, <1>5, <1>6

LEMMA NewProcessKeepsOrder ==
    ASSUME VersionInv, Redeploy \/ Restart
    PROVE  OrderKept'
<1>1. NewProcess
    BY DEF Redeploy, Restart
<1>2. /\ \A s \in Savers : save'[s].at \in {"no", "skipped"}
      /\ save'["retrain"].at = "no"
    BY <1>1, DiskFoundOK, NewProcessOK DEF VersionInv
<1>3. /\ \A f \in FeatureSets : active'[f] = NoModel
      /\ training' = 0 /\ fresh' = [f \in FeatureSets |-> 0]
    BY <1>1 DEF NewProcess, RetrainRestart
<1>4. (HistoryTypeOK /\ Under(tags + 1) /\ PointersForward)'
  <2>1. CASE Redeploy
    <3>1. (/\ pointer = [p \in Pointers |-> Absent] /\ tags = 0
           /\ fresh = [f \in FeatureSets |-> 0] /\ finished = [f \in FeatureSets |-> 0])'
        BY <1>3, <2>1 DEF Redeploy
    <3>2. (/\ pointer = [p \in Pointers |-> Absent] /\ tags = 0
           /\ fresh = [f \in FeatureSets |-> 0] /\ finished = [f \in FeatureSets |-> 0]
           => HistoryTypeOK /\ Under(tags + 1) /\ PointersForward)'
        BY EmptyDiskOrder, PTL
    <3>3. QED
        BY <3>1, <3>2
  <2>2. CASE Restart
      BY <1>3, <2>2, KeptDiskOrder DEF Restart, diskVars
  <2>3. QED
      BY <2>1, <2>2
<1>5. (/\ \A s \in Savers : save[s].at \in {"no", "skipped"}
       /\ save["retrain"].at = "no"
       /\ \A f \in FeatureSets : active[f] = NoModel
       /\ training = 0 /\ HistoryTypeOK /\ Under(tags + 1) /\ PointersForward
       => OrderKept)'
    BY StartOrder, PTL
<1>6. QED
    BY <1>2, <1>3, <1>4, <1>5

LifecycleInv == RetrainTypeOK /\ OneRetrainAtATime /\ VersionInv

LEMMA LifecycleInvariance == Spec => []LifecycleInv
<1> DEFINE Inv == LifecycleInv
<1> USE DEF LifecycleInv
<1>1. Init => Inv
  <2> SUFFICES ASSUME Init PROVE Inv
      OBVIOUS
  <2>1. RegistryInv
      BY RegistryInitOK DEF Init
  <2>2. \A s \in Savers : save[s].at = "no"
      BY NotSavingOK DEF Init, RegistryInit
  <2>3. HistoryTypeOK /\ Under(tags + 1) /\ PointersForward
      BY EmptyDiskOrder DEF Init, RegistryInit
  <2>4. OrderKept
      BY <2>2, <2>3, StartOrder, Sets DEF Init, RegistryInit, RetrainInit
  <2>5. QED
      BY <2>1, <2>4, RetrainInitOK DEF Init, VersionInv, OrderKept
<1>2. Inv /\ [Next]_lifecycleVars => Inv'
  <2>1. ASSUME Inv, [Next]_lifecycleVars PROVE RetrainTypeOK' /\ OneRetrainAtATime'
    <3>1. RetrainSteps
        BY <2>1, ServiceStepsRetrain
    <3>2. ASSUME NEW rows \in BatchSizes, EndCycle(rows)
          PROVE  RetrainTypeOK' /\ OneRetrainAtATime'
      <4>1. rows \in Nat
          BY LifecycleAssumption
      <4>2. QED
          BY <2>1, <3>2, <4>1, EndCycleOK
    <3>3. QED
        BY <2>1, <3>1, <3>2, RetrainTaskOK DEF RetrainSteps
  <2>2. ASSUME Inv, [Next]_lifecycleVars PROVE RegistryInv'
    <3>1. CASE UNCHANGED lifecycleVars
        BY <2>2, <3>1 DEF VersionInv, lifecycleVars, registryVars, diskVars, RegistryInv,
                          RegistryTypeOK, DiskOrder, FilesInOrder, SavesInOrder, Complete
    <3>2. QED
        BY <2>2, <3>1, RegistryKept DEF VersionInv
  <2>3. ASSUME Inv, [Next]_lifecycleVars
        PROVE  OrderKept'
    <3>1. CASE Bootstrap \/ NoBootstrap \/ BootstrapStep
        BY <2>3, <3>1, BootstrapKeepsOrder
    <3>2. CASE LoadLegacy \/ LoadModern
      <4>1. PICK f \in FeatureSets : LoadSlot(f)
          BY <3>2, Sets DEF LoadLegacy, LoadModern
      <4>2. UNCHANGED <<training, fresh, finished>>
          BY <3>2 DEF LoadLegacy, LoadModern, retrainVars
      <4>3. QED
          BY <2>3, <4>1, <4>2, LoadsKeepOrder
    <3>3. CASE \/ \E rows \in BatchSizes : CycleTail(rows)
               \/ Register
               \/ UNCHANGED lifecycleVars
        BY <2>3, <3>3, TailKeepsOrder
    <3>4. CASE TrainNext \/ TrainStep \/ TrainFault
        BY <2>3, <3>4, TrainKeepsOrder
    <3>5. CASE Swap \/ GiveUp
        BY <2>3, <3>5, ThreadEndKeepsOrder
    <3>6. CASE Redeploy \/ Restart
        BY <2>3, <3>6, NewProcessKeepsOrder
    <3>7. QED
        BY <2>3, <3>1, <3>2, <3>3, <3>4, <3>5, <3>6 DEF Next, RetrainStep
  <2>4. QED
      BY <2>1, <2>2, <2>3 DEF VersionInv, OrderKept
<1>3. QED
    BY <1>1, <1>2, PTL DEF Spec

\* After a finished retrain no cycle predicts with a model that it replaced, for
\* any number of retrains, saves and failures: tags grow, a pointer never goes
\* back, and the active pair is dropped when the thread is over.
THEOREM RetrainedModelsReplaceOld == Spec => []RetrainedModelsAreUsed
<1>1. LifecycleInv => RetrainedModelsAreUsed
    BY DEF LifecycleInv, VersionInv
<1>2. QED
    BY <1>1, LifecycleInvariance, PTL

\* At most one retrain task is alive, whatever the cycles, the bootstrap and the
\* failures of the training thread do meanwhile, and the flag says whether one is.
THEOREM OneRetrainTask == Spec => []OneRetrainAtATime
<1>1. LifecycleInv => OneRetrainAtATime
    BY DEF LifecycleInv
<1>2. QED
    BY <1>1, LifecycleInvariance, PTL

\* Types of the composed state, for every bound.
THEOREM LifecycleTypeCorrect == Spec => []LifecycleTypeOK
<1> DEFINE Own == /\ cycle \in {"no", "legacy loaded", "predicted"}
                  /\ splits \subseteq FeatureSets
                  /\ frames \in Seq(BatchSizes)
                  /\ served \in BOOLEAN
<1>1. Init => Own
  <2> SUFFICES ASSUME Init PROVE Own
      OBVIOUS
  <2>1. frames \in Seq(BatchSizes)
      BY DEF Init
  <2>2. cycle = "no" /\ splits = {} /\ served \in BOOLEAN
      BY Zenon DEF Init
  <2>3. QED
      BY <2>1, <2>2, Zenon
<1>2. Own /\ [Next]_lifecycleVars => Own'
  <2> SUFFICES ASSUME Own, [Next]_lifecycleVars PROVE Own'
      OBVIOUS
  <2>1. CASE Bootstrap \/ NoBootstrap \/ BootstrapStep \/ TrainStep \/ TrainFault \/ Register
      BY <2>1 DEF Bootstrap, NoBootstrap, BootstrapStep, TrainStep, TrainFault, Register
  <2>2. CASE LoadLegacy \/ LoadModern
      BY <2>2 DEF LoadLegacy, LoadModern
  <2>3. ASSUME NEW rows \in BatchSizes, CycleTail(rows) PROVE Own'
    <3>1. frames' \in Seq(BatchSizes)
        BY <2>3, AppendProperties DEF CycleTail
    <3>2. splits' \subseteq FeatureSets /\ cycle' = "no" /\ served' = served
        BY <2>3 DEF CycleTail
    <3>3. QED
        BY <3>1, <3>2
  <2>4. CASE TrainNext \/ Swap \/ GiveUp
      BY <2>4 DEF TrainNext, Swap, GiveUp
  <2>5. CASE Redeploy \/ Restart
    <3>1. frames' \in Seq(BatchSizes)
      <4>1. frames' = << >>
          BY <2>5, Zenon DEF Redeploy, Restart, NewProcess
      <4>2. << >> \in Seq(BatchSizes)
          BY EmptySeq
      <4>3. QED
          BY <4>1, <4>2, Zenon
    <3>2. cycle' = "no" /\ splits' = {} /\ served' \in BOOLEAN
        BY <2>5, Zenon DEF Redeploy, Restart, NewProcess
    <3>3. QED
        BY <3>1, <3>2, Zenon
  <2>6. CASE UNCHANGED lifecycleVars
      BY <2>6 DEF lifecycleVars
  <2>7. QED
      BY <2>1, <2>2, <2>3, <2>4, <2>5, <2>6 DEF Next, RetrainStep
<1>3. LifecycleInv /\ Own => LifecycleTypeOK
    BY DEF LifecycleInv, VersionInv, RegistryInv, HistoryTypeOK, Histories, LifecycleTypeOK
<1>4. QED
    BY <1>1, <1>2, <1>3, LifecycleInvariance, PTL DEF Spec

-----------------------------------------------------------------------------
(* The buffer.                                                             *)

\* What the trimming leaves, with nothing kept before the first cycle.
BufferInv == Longest(frames, buffer) \/ (frames = << >> /\ buffer = << >>)

LEMMA BufferStep ==
    ASSUME LifecycleTypeOK, BufferInv, [Next]_lifecycleVars
    PROVE  BufferInv'
<1>1. CASE UNCHANGED <<frames, buffer>>
    BY <1>1 DEF BufferInv, Longest, RowsFrom
<1>2. ASSUME NEW rows \in BatchSizes, CycleTail(rows)
      PROVE  BufferInv'
  <2>1. frames \in Seq(Nat) /\ buffer \in Seq(Nat) /\ rows \in Nat
    <3>1. frames \in Seq(BatchSizes) /\ buffer \in Seq(Nat)
        BY DEF LifecycleTypeOK, RetrainTypeOK
    <3>2. BatchSizes \subseteq Nat
        BY LifecycleAssumption
    <3>3. Len(frames) \in Nat /\ \A i \in 1 .. Len(frames) : frames[i] \in Nat
        BY <3>1, <3>2, LenProperties, ElementOfSeq
    <3>4. SubSeq(frames, 1, Len(frames)) \in Seq(Nat)
        BY <3>3, SubSeqProperties
    <3>5. QED
        BY <3>1, <3>2, <3>4, SubSeqFull
  <2>2. frames' = Append(frames, rows) /\ buffer' = Trimmed(Append(buffer, rows))
      BY <1>2 DEF CycleTail, EndCycle
  <2>3. Longest(Append(frames, rows), Trimmed(Append(buffer, rows)))
      BY <2>1, CycleKeepsLongest DEF BufferInv
  <2>4. Longest(frames', buffer')
      BY <2>2, <2>3
  <2>5. QED
      BY <2>4, Zenon DEF BufferInv, Longest, RowsFrom
<1>3. CASE Redeploy \/ Restart
    BY <1>3 DEF Redeploy, Restart, NewProcess, RetrainRestart, BufferInv
<1>4. CASE Bootstrap \/ NoBootstrap \/ BootstrapStep \/ LoadLegacy \/ LoadModern \/ TrainNext
           \/ TrainStep \/ TrainFault
    BY <1>1, <1>4 DEF Bootstrap, NoBootstrap, BootstrapStep, LoadLegacy, LoadModern, TrainNext,
                      TrainStep, TrainFault, retrainVars
<1>5. CASE Swap \/ Register \/ GiveUp
    BY <1>1, <1>5 DEF Swap, Register, GiveUp, Trained, Registered, TrainingFailed
<1>6. CASE UNCHANGED lifecycleVars
    BY <1>1, <1>6 DEF lifecycleVars, retrainVars
<1>7. QED
    BY <1>2, <1>3, <1>4, <1>5, <1>6 DEF Next, RetrainStep

\* However many cycles, and whatever was dropped in earlier ones, the buffer a retrain
\* trains on is the longest run of newest batches that fits the cap.
THEOREM BufferStaysLongest == Spec => []BufferIsLongestSuffix
<1>1. Init => BufferInv
    BY DEF Init, RetrainInit, BufferInv
<1>2. LifecycleTypeOK /\ BufferInv /\ [Next]_lifecycleVars => BufferInv'
    BY BufferStep
<1>3. LifecycleTypeOK /\ BufferInv => BufferIsLongestSuffix
  <2> SUFFICES ASSUME LifecycleTypeOK, BufferInv PROVE BufferIsLongestSuffix
      OBVIOUS
  <2>1. CASE Longest(frames, buffer)
      BY <2>1 DEF Longest, RowsFrom, BufferIsLongestSuffix
  <2>2. CASE frames = << >>
      BY <2>2, EmptySeq DEF BufferIsLongestSuffix
  <2>3. QED
      BY <2>1, <2>2 DEF BufferInv
<1>4. QED
    BY <1>1, <1>2, <1>3, LifecycleTypeCorrect, PTL DEF Spec
=============================================================================
