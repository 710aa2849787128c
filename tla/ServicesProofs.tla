-------------------------- MODULE ServicesProofs --------------------------
(***************************************************************************)
(* Proofs about the files of a session, for any number of uploads and any  *)
(* quota.  What an upload has read of the index before its await is what   *)
(* the three invariants turn on: the snapshot was under the quota, its     *)
(* files are on the disk, and whatever has been answered since is either   *)
(* in it or will be seen to have overlapped.                               *)
(***************************************************************************)
EXTENDS MCServices, PackageProofs, SettingsProofs, TLAPS

(* what holds of the snapshots that are out *)
SnapshotsAreShort == \A h \in Holding : Len(snapshot[h]) < MaxFiles
SnapshotsAreStored ==
  \A h \in Uploads : /\ upload[h] \in {"buffering", "sending"} => ToSet(snapshot[h]) \subseteq stored
                     /\ upload[h] = "sending" => h \in stored
OvertakenLately(u) == \E v \in beside[u] : upload[v] = "answered"
SnapshotsMissOnlyOverlapped ==
  \A h \in Holding : \A u \in Uploads :
    upload[u] = "answered" => u \in ToSet(snapshot[h]) \/ h \in beside[u] \/ OvertakenLately(u)

\* What the files of an index become when a record is put behind them.
LEMMA AppendedFiles ==
  ASSUME NEW S, NEW s \in Seq(S), NEW e \in S
  PROVE  ToSet(Append(s, e)) = ToSet(s) \union {e}
<1>1. ToSet(Append(s, e)) \subseteq ToSet(s) \union {e}
  BY DEF ToSet
<1>2. ToSet(s) \subseteq ToSet(Append(s, e))
  <2> SUFFICES ASSUME NEW i \in DOMAIN s
               PROVE  s[i] \in ToSet(Append(s, e))
    BY DEF ToSet
  <2>1. i \in DOMAIN Append(s, e) /\ Append(s, e)[i] = s[i]
    OBVIOUS
  <2> QED BY <2>1 DEF ToSet
<1>3. e \in ToSet(Append(s, e))
  <2>1. Len(s) + 1 \in DOMAIN Append(s, e) /\ Append(s, e)[Len(s) + 1] = e
    OBVIOUS
  <2> QED BY <2>1 DEF ToSet
<1> QED BY <1>1, <1>2, <1>3

\* The state of the upload route and of the index on disk is well typed.
THEOREM FilesTypeCorrect == FilesSpec => []FilesTypeOK
<1>1. FilesInit => FilesTypeOK
  <2>1. <<>> \in Seq(Uploads) /\ FALSE \in BOOLEAN
    OBVIOUS
  <2> QED BY <2>1 DEF FilesInit, FilesTypeOK
<1>2. FilesTypeOK /\ [FilesNext]_filesVars => FilesTypeOK'
  <2> SUFFICES ASSUME FilesTypeOK, [FilesNext]_filesVars
               PROVE  FilesTypeOK'
    OBVIOUS
  <2> USE DEF FilesTypeOK
  <2>1. ASSUME NEW u \in Uploads, UploadBegins(u) PROVE FilesTypeOK'
    BY <2>1 DEF UploadBegins
  <2>2. ASSUME NEW u \in Uploads, UploadInvalid(u) PROVE FilesTypeOK'
    BY <2>2 DEF UploadInvalid
  <2>3. ASSUME NEW u \in Uploads, UploadReadsIndex(u) PROVE FilesTypeOK'
    BY <2>3 DEF UploadReadsIndex
  <2>4. ASSUME NEW u \in Uploads, UploadStores(u) PROVE FilesTypeOK'
    <3>1. CASE Record(u) BY <2>4, <3>1 DEF UploadStores, Record, Holding
    <3>2. CASE ~Record(u) BY <2>4, <3>2 DEF UploadStores
    <3> QED BY <3>1, <3>2
  <2>5. ASSUME NEW u \in Uploads, UploadSent(u) PROVE FilesTypeOK'
    BY <2>5 DEF UploadSent, Record, Holding
  <2>6. CASE ShareSession BY <2>6 DEF ShareSession
  <2>7. CASE DeleteSession BY <2>7 DEF DeleteSession
  <2>8. CASE FilesCrash BY <2>8 DEF FilesCrash
  <2>9. CASE UNCHANGED filesVars BY <2>9 DEF filesVars
  <2> QED BY <2>1, <2>2, <2>3, <2>4, <2>5, <2>6, <2>7, <2>8, <2>9 DEF FilesNext
<1> QED BY <1>1, <1>2, PTL DEF FilesSpec

\* The quota of the session's files holds though it is checked before an
\* await and used after it (sessions.ts:1390, 1453).
THEOREM QuotaIsKept == FilesSpec => []QuotaHolds
<1> DEFINE Inv == QuotaHolds /\ SnapshotsAreShort
<1>1. FilesInit => Inv
  BY MaxFilesIsPositive DEF FilesInit, QuotaHolds, SnapshotsAreShort, Holding
<1>2. FilesTypeOK /\ Inv /\ [FilesNext]_filesVars => Inv'
  <2> SUFFICES ASSUME FilesTypeOK, Inv, [FilesNext]_filesVars
               PROVE  Inv'
    OBVIOUS
  <2> USE MaxFilesIsPositive DEF FilesTypeOK, QuotaHolds, SnapshotsAreShort, Holding
  <2>1. ASSUME NEW u \in Uploads, UploadBegins(u) PROVE Inv'
    BY <2>1 DEF UploadBegins
  <2>2. ASSUME NEW u \in Uploads, UploadInvalid(u) PROVE Inv'
    BY <2>2 DEF UploadInvalid
  <2>3. ASSUME NEW u \in Uploads, UploadReadsIndex(u) PROVE Inv'
    BY <2>3 DEF UploadReadsIndex, QuotaReached
  <2>4. ASSUME NEW u \in Uploads, u \in Holding, Record(u), UNCHANGED snapshot PROVE Inv'
    <3>1. Len(index') = Len(snapshot[u]) + 1
      BY <2>4 DEF Record
    <3> QED BY <2>4, <3>1 DEF Record
  <2>5. ASSUME NEW u \in Uploads, UploadStores(u) PROVE Inv'
    <3>1. CASE Record(u) BY <3>1, <2>4, <2>5 DEF UploadStores
    <3>2. CASE ~Record(u) BY <3>2, <2>5 DEF UploadStores
    <3> QED BY <3>1, <3>2
  <2>6. ASSUME NEW u \in Uploads, UploadSent(u) PROVE Inv'
    BY <2>4, <2>6 DEF UploadSent
  <2>7. CASE ShareSession BY <2>7 DEF ShareSession
  <2>8. CASE DeleteSession BY <2>8 DEF DeleteSession
  <2>9. CASE FilesCrash BY <2>9 DEF FilesCrash
  <2>10. CASE UNCHANGED filesVars BY <2>10 DEF filesVars
  <2> QED BY <2>1, <2>2, <2>3, <2>5, <2>6, <2>7, <2>8, <2>9, <2>10 DEF FilesNext
<1> QED BY <1>1, <1>2, FilesTypeCorrect, PTL DEF FilesSpec

\* Every file that is listed has been written, after a crash too
\* (sessions.ts:1413, 1489).
THEOREM ListedFilesAreStored == FilesSpec => []ListedIsStored
<1> DEFINE Inv == ListedIsStored /\ SnapshotsAreStored
<1>1. FilesInit => Inv
  BY DEF FilesInit, ListedIsStored, SnapshotsAreStored, ToSet
<1>2. FilesTypeOK /\ Inv /\ [FilesNext]_filesVars => Inv'
  <2> SUFFICES ASSUME FilesTypeOK, Inv, [FilesNext]_filesVars
               PROVE  Inv'
    OBVIOUS
  <2> USE DEF FilesTypeOK, ListedIsStored, SnapshotsAreStored
  <2>1. ASSUME NEW u \in Uploads, UploadBegins(u) PROVE Inv'
    BY <2>1 DEF UploadBegins
  <2>2. ASSUME NEW u \in Uploads, UploadInvalid(u) PROVE Inv'
    BY <2>2 DEF UploadInvalid
  <2>3. ASSUME NEW u \in Uploads, UploadReadsIndex(u) PROVE Inv'
    BY <2>3 DEF UploadReadsIndex
  <2>4. ASSUME NEW u \in Uploads, upload[u] \in {"buffering", "sending"}, Record(u),
               stored \subseteq stored', u \in stored', UNCHANGED snapshot
        PROVE  Inv'
    <3>1. ToSet(index') = ToSet(snapshot[u]) \union {u}
      BY <2>4, AppendedFiles DEF Record
    <3> QED BY <2>4, <3>1 DEF Record
  <2>5. ASSUME NEW u \in Uploads, UploadStores(u) PROVE Inv'
    <3>1. CASE Record(u) BY <3>1, <2>4, <2>5 DEF UploadStores
    <3>2. CASE ~Record(u) BY <3>2, <2>5 DEF UploadStores
    <3> QED BY <3>1, <3>2
  <2>6. ASSUME NEW u \in Uploads, UploadSent(u) PROVE Inv'
    BY <2>4, <2>6 DEF UploadSent
  <2>7. CASE ShareSession BY <2>7 DEF ShareSession
  <2>8. CASE DeleteSession BY <2>8 DEF DeleteSession
  <2>9. CASE FilesCrash BY <2>9 DEF FilesCrash
  <2>10. CASE UNCHANGED filesVars BY <2>10 DEF filesVars
  <2> QED BY <2>1, <2>2, <2>3, <2>5, <2>6, <2>7, <2>8, <2>9, <2>10 DEF FilesNext
<1> QED BY <1>1, <1>2, FilesTypeCorrect, PTL DEF FilesSpec

\* A file whose upload was answered is missing from the list only when an
\* upload that overlapped it has been answered too (sessions.ts:1389, 1453).
THEOREM OnlyOverlapLosesFiles == FilesSpec => []OnlyOverlappedUploadsAreLost
<1> DEFINE Inv == OnlyOverlappedUploadsAreLost /\ SnapshotsMissOnlyOverlapped
<1>1. FilesInit => Inv
  BY DEF FilesInit, OnlyOverlappedUploadsAreLost, SnapshotsMissOnlyOverlapped, Holding
<1>2. FilesTypeOK /\ Inv /\ [FilesNext]_filesVars => Inv'
  <2> SUFFICES ASSUME FilesTypeOK, Inv, [FilesNext]_filesVars
               PROVE  Inv'
    OBVIOUS
  <2> USE DEF FilesTypeOK, OnlyOverlappedUploadsAreLost, SnapshotsMissOnlyOverlapped,
              OvertakenLately, Holding
  <2>1. ASSUME NEW u \in Uploads, UploadBegins(u) PROVE Inv'
    BY <2>1 DEF UploadBegins
  <2>2. ASSUME NEW u \in Uploads, UploadInvalid(u) PROVE Inv'
    BY <2>2 DEF UploadInvalid
  <2>3. ASSUME NEW u \in Uploads, UploadReadsIndex(u) PROVE Inv'
    <3>1. \A v \in Uploads : upload'[v] = "answered" <=> upload[v] = "answered"
      BY <2>3 DEF UploadReadsIndex
    <3>2. \A v \in Uploads : OvertakenLately(v)' <=> OvertakenLately(v)
      BY <2>3, <3>1 DEF UploadReadsIndex
    <3>3. OnlyOverlappedUploadsAreLost'
      BY <2>3, <3>1, <3>2 DEF UploadReadsIndex
    <3>4. ASSUME NEW h \in Holding', NEW v \in Uploads, upload'[v] = "answered"
          PROVE  v \in ToSet(snapshot'[h]) \/ h \in beside'[v] \/ OvertakenLately(v)'
      <4>1. CASE h = u
        <5>1. snapshot'[h] = index
          BY <2>3, <3>4, <4>1 DEF UploadReadsIndex
        <5> QED BY <3>1, <3>2, <3>4, <5>1
      <4>2. CASE h # u
        <5>1. snapshot'[h] = snapshot[h] /\ h \in Holding /\ beside' = beside
          BY <2>3, <3>4, <4>2 DEF UploadReadsIndex
        <5> QED BY <3>1, <3>2, <3>4, <5>1
      <4> QED BY <4>1, <4>2
    <3> QED BY <3>3, <3>4
  <2>4. ASSUME NEW u \in Uploads, upload[u] \in {"buffering", "sending"}, Record(u),
               UNCHANGED snapshot
        PROVE  Inv'
    <3>1. ToSet(index') = ToSet(snapshot[u]) \union {u}
      BY <2>4, AppendedFiles DEF Record
    <3>2. /\ \A v \in Uploads : upload'[v] = IF v = u THEN "answered" ELSE upload[v]
          /\ \A v \in Uploads : beside'[v] = IF v = u THEN Holding \ {u} ELSE beside[v]
      BY <2>4 DEF Record
    <3>3. \A v \in Uploads : OvertakenLately(v) /\ v # u => OvertakenLately(v)'
      BY <3>2
    <3>4. \A v \in Uploads : v # u /\ u \in beside[v] => OvertakenLately(v)'
      BY <3>2
    <3>5. ASSUME NEW v \in Uploads, upload'[v] = "answered", v \notin ToSet(index')
          PROVE  OvertakenLately(v)'
      <4>1. v # u /\ upload[v] = "answered" /\ v \notin ToSet(snapshot[u])
        BY <3>1, <3>2, <3>5
      <4>2. u \in beside[v] \/ OvertakenLately(v)
        BY <2>4, <4>1
      <4> QED BY <3>3, <3>4, <4>1, <4>2
    <3>6. ASSUME NEW h \in Holding', NEW v \in Uploads, upload'[v] = "answered"
          PROVE  v \in ToSet(snapshot'[h]) \/ h \in beside'[v] \/ OvertakenLately(v)'
      <4>1. h # u /\ h \in Holding
        BY <3>2, <3>6
      <4>2. CASE v = u
        BY ZenonT(40), <3>2, <4>1, <4>2
      <4>3. CASE v # u
        <5>1. v \in ToSet(snapshot[h]) \/ h \in beside[v] \/ OvertakenLately(v)
          BY <3>2, <3>6, <4>1, <4>3
        <5> QED BY <2>4, <3>2, <3>3, <4>3, <5>1
      <4> QED BY <4>2, <4>3
    <3> QED BY <3>5, <3>6
  <2>5. ASSUME NEW u \in Uploads, UploadStores(u) PROVE Inv'
    <3>1. CASE Record(u) BY <3>1, <2>4, <2>5 DEF UploadStores
    <3>2. CASE ~Record(u)
      <4>1. /\ UNCHANGED <<index, snapshot, beside>>
            /\ \A v \in Uploads : upload'[v] = "answered" <=> upload[v] = "answered"
            /\ Holding' = Holding
        BY <2>5, <3>2 DEF UploadStores
      <4> QED BY <4>1
    <3> QED BY <3>1, <3>2
  <2>6. ASSUME NEW u \in Uploads, UploadSent(u) PROVE Inv'
    BY <2>4, <2>6 DEF UploadSent
  <2>7. CASE ShareSession BY <2>7 DEF ShareSession
  <2>8. CASE DeleteSession BY <2>8 DEF DeleteSession
  <2>9. CASE FilesCrash BY <2>9 DEF FilesCrash
  <2>10. CASE UNCHANGED filesVars BY <2>10 DEF filesVars
  <2> QED BY <2>1, <2>2, <2>3, <2>5, <2>6, <2>7, <2>8, <2>9, <2>10 DEF FilesNext
<1> QED BY <1>1, <1>2, FilesTypeCorrect, PTL DEF FilesSpec

-----------------------------------------------------------------------------
(* the services together: each runs as it does alone *)
servicesVars ==
  <<part, filesVars, validationVars, extensionVars, environmentsVars, secretsVars, githubVars, modelsVars, catalogVars, pageVars>>

(* one of them runs *)
OneOfServices == part \in ServicesParts

\* Seen from the session's files, what the services do is what they do, or nothing.
LEMMA FilesRuns == ServicesSpec => FilesSpec
<1>1. ServicesInit => FilesInit
  BY DEF ServicesInit
<1>2. [ServicesNext]_servicesVars => [FilesNext]_filesVars
  <2> SUFFICES ASSUME [ServicesNext]_servicesVars PROVE FilesNext \/ UNCHANGED filesVars
    OBVIOUS
  <2> QED BY DEF ServicesNext, servicesVars
<1> QED BY <1>1, <1>2, PTL DEF ServicesSpec, servicesVars, FilesSpec

\* So it is seen from the validation of packages,
LEMMA ValidationRuns == ServicesSpec => ValidationSpec
<1>1. ServicesInit => ValidationInit
  BY DEF ServicesInit
<1>2. [ServicesNext]_servicesVars => [ValidationNext]_validationVars
  <2> SUFFICES ASSUME [ServicesNext]_servicesVars PROVE ValidationNext \/ UNCHANGED validationVars
    OBVIOUS
  <2> QED BY DEF ServicesNext, servicesVars
<1> QED BY <1>1, <1>2, PTL DEF ServicesSpec, servicesVars, ValidationSpec

\* from the configuration of extensions,
LEMMA ExtensionRuns == ServicesSpec => ExtensionSpec
<1>1. ServicesInit => ExtensionInit
  BY DEF ServicesInit
<1>2. [ServicesNext]_servicesVars => [ExtensionNext]_extensionVars
  <2> SUFFICES ASSUME [ServicesNext]_servicesVars PROVE ExtensionNext \/ UNCHANGED extensionVars
    OBVIOUS
  <2> QED BY DEF ServicesNext, servicesVars
<1> QED BY <1>1, <1>2, PTL DEF ServicesSpec, servicesVars, ExtensionSpec

\* from the environments,
LEMMA EnvironmentsRuns == ServicesSpec => EnvironmentsSpec
<1>1. ServicesInit => EnvironmentsInit
  BY DEF ServicesInit
<1>2. [ServicesNext]_servicesVars => [EnvironmentsNext]_environmentsVars
  <2> SUFFICES ASSUME [ServicesNext]_servicesVars PROVE EnvironmentsNext \/ UNCHANGED environmentsVars
    OBVIOUS
  <2> QED BY DEF ServicesNext, servicesVars
<1> QED BY <1>1, <1>2, PTL DEF ServicesSpec, servicesVars, EnvironmentsSpec

\* from the secrets,
LEMMA SecretsRuns == ServicesSpec => SecretsSpec
<1>1. ServicesInit => SecretsInit
  BY DEF ServicesInit
<1>2. [ServicesNext]_servicesVars => [SecretsNext]_secretsVars
  <2> SUFFICES ASSUME [ServicesNext]_servicesVars PROVE SecretsNext \/ UNCHANGED secretsVars
    OBVIOUS
  <2> QED BY DEF ServicesNext, servicesVars
<1> QED BY <1>1, <1>2, PTL DEF ServicesSpec, servicesVars, SecretsSpec

\* from GitHub's settings,
LEMMA GitHubRuns == ServicesSpec => GitHubSpec
<1>1. ServicesInit => GitHubInit
  BY DEF ServicesInit
<1>2. [ServicesNext]_servicesVars => [GitHubNext]_githubVars
  <2> SUFFICES ASSUME [ServicesNext]_servicesVars PROVE GitHubNext \/ UNCHANGED githubVars
    OBVIOUS
  <2> QED BY DEF ServicesNext, servicesVars
<1> QED BY <1>1, <1>2, PTL DEF ServicesSpec, servicesVars, GitHubSpec

\* from the models of a session's inputs,
LEMMA ModelsRuns == ServicesSpec => ModelsSpec
<1>1. ServicesInit => ModelsInit
  BY DEF ServicesInit
<1>2. [ServicesNext]_servicesVars => [ModelsNext]_modelsVars
  <2> SUFFICES ASSUME [ServicesNext]_servicesVars PROVE ModelsNext \/ UNCHANGED modelsVars
    OBVIOUS
  <2> QED BY DEF ServicesNext, servicesVars
<1> QED BY <1>1, <1>2, PTL DEF ServicesSpec, servicesVars, ModelsSpec

\* from the catalog of packages,
LEMMA CatalogRuns == ServicesSpec => CatalogSpec
<1>1. ServicesInit => CatalogInit
  BY DEF ServicesInit
<1>2. [ServicesNext]_servicesVars => [CatalogNext]_catalogVars
  <2> SUFFICES ASSUME [ServicesNext]_servicesVars PROVE CatalogNext \/ UNCHANGED catalogVars
    OBVIOUS
  <2> QED BY DEF ServicesNext, servicesVars
<1> QED BY <1>1, <1>2, PTL DEF ServicesSpec, servicesVars, CatalogSpec

\* and from the page of extensions.
LEMMA PageRuns == ServicesSpec => PageSpec
<1>1. ServicesInit => PageInit
  BY DEF ServicesInit
<1>2. [ServicesNext]_servicesVars => [PageNext]_pageVars
  <2> SUFFICES ASSUME [ServicesNext]_servicesVars PROVE PageNext \/ UNCHANGED pageVars
    OBVIOUS
  <2> QED BY DEF ServicesNext, servicesVars
<1> QED BY <1>1, <1>2, PTL DEF ServicesSpec, servicesVars, PageSpec

\* The state of every service keeps its types, whichever of them runs.
THEOREM ServicesTypesCorrect == ServicesSpec => []ServicesTypeOK
<1>1. ServicesSpec => []OneOfServices
  <2>1. ServicesInit => OneOfServices
    BY DEF ServicesInit, OneOfServices
  <2>2. OneOfServices /\ [ServicesNext]_servicesVars => OneOfServices'
    BY DEF ServicesNext, servicesVars, OneOfServices
  <2> QED BY <2>1, <2>2, PTL DEF ServicesSpec, servicesVars
<1>2. /\ OneOfServices
      /\ FilesTypeOK /\ ValidationTypeOK /\ ExtensionTypeOK /\ EnvironmentsTypeOK /\ SecretsTypeOK
      /\ GitHubTypeOK /\ ModelsTypeOK /\ (CatalogTypeOK /\ CatalogInv) /\ PageTypeOK
      => ServicesTypeOK
  BY DEF ServicesTypeOK, OneOfServices
<1> QED BY <1>1, <1>2, FilesRuns, ValidationRuns, ExtensionRuns, EnvironmentsRuns, SecretsRuns, GitHubRuns,
           ModelsRuns, CatalogRuns, PageRuns, FilesTypeCorrect, ValidationTypeCorrect, ExtensionsTypeCorrect,
           EnvironmentsTypeCorrect, SecretsTypeCorrect, GitHubTypeCorrect, ModelsTypeCorrect, CatalogCorrect,
           PageTypeCorrect, PTL

(* what the services promise, one conjunct each *)
ServicesKeepTheirWord ==
  /\ OnlyOverlappedUploadsAreLost
  /\ CanceledIsNotAdded /\ OnlyRacesRunBeside
  /\ OutOfDateIsMarked
  /\ SavedWasProbed /\ OnlyMovedSandboxesStay
  /\ OnlyStaleRowsMislead
  /\ TokenAndIdentityAreOne
  /\ ServedModelsAreCurrent
  /\ CatalogIsAsOldAsItSays
  /\ OnlyOvertakenListsMislead

\* Whichever of the services runs, all of them keep what they promise.
THEOREM ServicesAreSafe == ServicesSpec => []ServicesKeepTheirWord
<1>1. /\ OnlyOverlappedUploadsAreLost /\ CanceledIsNotAdded /\ OnlyRacesRunBeside /\ OutOfDateIsMarked
      /\ SavedWasProbed /\ OnlyMovedSandboxesStay /\ OnlyStaleRowsMislead /\ TokenAndIdentityAreOne
      /\ ServedModelsAreCurrent /\ CatalogIsAsOldAsItSays /\ OnlyOvertakenListsMislead
      => ServicesKeepTheirWord
  BY DEF ServicesKeepTheirWord
<1> QED BY <1>1, FilesRuns, ValidationRuns, ExtensionRuns, EnvironmentsRuns, SecretsRuns, GitHubRuns,
           ModelsRuns, CatalogRuns, PageRuns, OnlyOverlapLosesFiles, CanceledStaysOut, OnlyRacesOverlap,
           OutOfDateStaysMarked, ProbedIsSaved, OnlyMovedStay, StaleRowsMislead, TokenAndIdentityAgree,
           ModelsServedAreCurrent, CatalogAge, OvertakenListsMislead, PTL
=============================================================================
