---------------------------- MODULE ModelRegistry ----------------------------
(***************************************************************************)
(* src/model/versioning.py: the registry of trained bundles on disk, which *)
(* threads save to while the event loop loads from it; and the pair of     *)
(* active models that src/model/predict.py keeps until it is reset.        *)
(*                                                                         *)
(* A bundle is the tag of its save, in the order of the saves, and its     *)
(* feature set.  The manifest and the pointers are written by write_text,  *)
(* in two steps: open leaves an empty file, then its text is written.  The *)
(* process may die, or the disk be full, between the two.  A version is    *)
(* listed from the moment its manifest exists, and can be loaded once that *)
(* is written.                                                             *)
(***************************************************************************)
EXTENDS Naturals

CONSTANTS
    MaxTags,        \* bound: saves
    Absent,         \* a pointer file that does not exist
    Empty,          \* a pointer file just truncated
    NoModel

FeatureSets == {"legacy", "modern"}
Pointers == FeatureSets \cup {"latest"}
Savers == {"bootstrap", "retrain"}
Tags == 1 .. MaxTags

ASSUME RegistryAssumption ==
    /\ MaxTags \in Nat
    /\ {Absent, Empty, NoModel} \cap Nat = {}
    /\ Absent # Empty

VARIABLES
    bundles,        \* bundles with all their files written: [tag, set]
    manifests,      \* tags with a manifest file, be it an empty one
    pointer,        \* latest_legacy.txt, latest_modern.txt and latest.txt
    tags,           \* saves begun
    save,           \* each thread's save: where it is, its tag and its feature set
    active          \* _active_legacy and _active_modern

diskVars == <<bundles, manifests, pointer, tags>>
registryVars == <<diskVars, save, active>>

NotSaving == [at |-> "no", tag |-> 0, set |-> "modern"]

RegistryInit ==
    /\ bundles = {}
    /\ manifests = {}
    /\ pointer = [p \in Pointers |-> Absent]
    /\ tags = 0
    /\ save = [s \in Savers |-> NotSaving]
    /\ active = [f \in FeatureSets |-> NoModel]

-----------------------------------------------------------------------------
(* Load.                                                                   *)

Complete == {b.tag : b \in bundles}
Newest(ts) == CHOOSE t \in ts : \A u \in ts : u <= t

\* current_version: the newest version listed when there is no pointer, None when
\* it is empty.
CurrentVersion ==
    CASE pointer["latest"] = Absent -> IF manifests = {} THEN NoModel ELSE Newest(manifests)
      [] pointer["latest"] = Empty -> NoModel
      [] OTHER -> pointer["latest"]

\* load: raises unless every file of the version is there and can be read.
Load(version) == IF version \in Complete THEN version ELSE NoModel

\* Mutant: the pointer of the feature set is believed even when it is empty.
LoadByPointer(f) == IF pointer[f] = Absent THEN Load(CurrentVersion) ELSE Load(pointer[f])

\* The generic pointer is the fallback of a version that is not there; a manifest
\* that cannot be read raises another error, and has none.
LoadForFeatureSet(f) ==
    IF pointer[f] \in manifests THEN Load(pointer[f]) ELSE Load(CurrentVersion)

\* _load_models, one slot: kept once loaded.
LoadSlot(f) ==
    /\ active' = [active EXCEPT ![f] = IF @ = NoModel THEN LoadForFeatureSet(f) ELSE @]
    /\ UNCHANGED <<diskVars, save>>

\* Mutant: only one of the two slots is reset.
ResetLegacyOnly == active' = [active EXCEPT !["legacy"] = NoModel]

ResetActiveModel == active' = [f \in FeatureSets |-> NoModel]

-----------------------------------------------------------------------------
(* Save.                                                                   *)

Goes(s, at) == save' = [save EXCEPT ![s].at = at]
Writes(p, value) == pointer' = [pointer EXCEPT ![p] = value]

BeginSave(s, f) ==
    /\ tags < MaxTags
    /\ tags' = tags + 1
    /\ save' = [save EXCEPT ![s] = [at |-> "files", tag |-> tags + 1, set |-> f]]
    /\ UNCHANGED <<bundles, manifests, pointer, active>>

\* Model and scaler, and the manifest opened: the version is listed.
OpenManifest(s) ==
    /\ save[s].at = "files"
    /\ manifests' = manifests \cup {save[s].tag}
    /\ Goes(s, "manifest")
    /\ UNCHANGED <<bundles, pointer, tags, active>>

WriteManifest(s) ==
    /\ save[s].at = "manifest"
    /\ bundles' = bundles \cup {[tag |-> save[s].tag, set |-> save[s].set]}
    /\ Goes(s, "set")
    /\ UNCHANGED <<manifests, pointer, tags, active>>

OpenSetPointer(s) ==
    /\ save[s].at = "set"
    /\ Writes(save[s].set, Empty)
    /\ Goes(s, "set opened")
    /\ UNCHANGED <<bundles, manifests, tags, active>>

WriteSetPointer(s) ==
    /\ save[s].at = "set opened"
    /\ Writes(save[s].set, save[s].tag)
    /\ Goes(s, "latest")
    /\ UNCHANGED <<bundles, manifests, tags, active>>

OpenLatest(s) ==
    /\ save[s].at = "latest"
    /\ Writes("latest", Empty)
    /\ Goes(s, "latest opened")
    /\ UNCHANGED <<bundles, manifests, tags, active>>

WriteLatest(s) ==
    /\ save[s].at = "latest opened"
    /\ Writes("latest", save[s].tag)
    /\ Goes(s, "saved")
    /\ UNCHANGED <<bundles, manifests, tags, active>>

SaveSteps == {"files", "manifest", "set", "set opened", "latest", "latest opened"}

\* The disk refuses a file or its text: save raises, and what was written or
\* opened before stays as it is.
SaveFailed(s) ==
    /\ save[s].at \in SaveSteps
    /\ Goes(s, "failed")
    /\ UNCHANGED <<diskVars, active>>

SaveStep(s) ==
    \/ OpenManifest(s)
    \/ WriteManifest(s)
    \/ OpenSetPointer(s)
    \/ WriteSetPointer(s)
    \/ OpenLatest(s)
    \/ WriteLatest(s)

-----------------------------------------------------------------------------
(* Properties.                                                             *)

\* Types of the registry's files, of the saves and of the active pair.
RegistryTypeOK ==
    /\ bundles \subseteq [tag : Tags, set : FeatureSets]
    /\ manifests \subseteq Tags
    /\ pointer \in [Pointers -> Tags \cup {Absent, Empty}]
    /\ tags \in 0 .. MaxTags
    /\ save \in [Savers -> [at : SaveSteps \cup {"no", "skipped", "saved", "failed"},
                            tag : 0 .. MaxTags, set : FeatureSets]]
    /\ active \in [FeatureSets -> Tags \cup {NoModel}]
=============================================================================
