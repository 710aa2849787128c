---------------------------- MODULE PackageProofs ----------------------------
(***************************************************************************)
(* Packages of extensions: what a session resolves of them, the caches they *)
(* are listed from, the trial that validates them, and their page.         *)
(***************************************************************************)
EXTENDS Extensions, PackageCatalog, PackageValidation, ExtensionsPage, FiniteSetTheorems, TLAPS

-----------------------------------------------------------------------------
(***************************************************************************)
(* Proofs about the configuration of extensions, for any packages and any  *)
(* number of activations and restarts under way.  While one of them has    *)
(* written the settings and not ended, every change of the rows counts as  *)
(* missed: so whoever takes the mark away leaves settings that are those   *)
(* of the rows, or were missed.                                            *)
(***************************************************************************)

(* what carries no mark, or is about to lose it, is up to date *)
UpToDate == (~stale \/ Writers # {}) /\ ~missed => settings = Resolved

\* Two configurations, merged, are one.
LEMMA MergeType ==
  ASSUME NEW prev \in Configs, NEW next \in Configs
  PROVE  Merge(prev, next) \in Configs
<1>1. PICK F \in SUBSET Fields : prev \in [F -> Values]
  BY DEF Configs
<1>2. PICK G \in SUBSET Fields : next \in [G -> Values]
  BY DEF Configs
<1>3. Merge(prev, next) \in [F \union G -> Values]
  BY <1>1, <1>2 DEF Merge
<1> QED BY <1>3 DEF Configs

\* A configuration that sets nothing is one.
LEMMA NoConfig == <<>> \in Configs
<1>1. <<>> \in [{} -> Values]
  OBVIOUS
<1> QED BY <1>1 DEF Configs

\* Rows resolve to packages and their configurations.
LEMMA ResolvedType ==
  ASSUME ExtensionTypeOK
  PROVE  \E P \in SUBSET Packages : Resolved \in [P -> Configs]
<1>1. PICK K \in SUBSET (Scopes \X Packages) : rows \in [K -> Configs]
  BY DEF ExtensionTypeOK
<1>2. \A where, p : ConfigIn(where, p) \in Configs
  BY <1>1, NoConfig DEF ConfigIn
<1>3. \A p : Merge(Merge(ConfigIn("global", p), ConfigIn(Mode, p)), ConfigIn("session", p)) \in Configs
  BY <1>2, MergeType
<1>4. {k[2] : k \in Relevant} \subseteq Packages
  BY <1>1 DEF Relevant
<1> QED BY <1>3, <1>4 DEF Resolved

\* A row more, or another configuration in one, leaves a table.
LEMMA PutType ==
  ASSUME NEW K \in SUBSET (Scopes \X Packages), rows \in [K -> Configs],
         NEW k \in Scopes \X Packages, NEW config \in Configs
  PROVE  \E L \in SUBSET (Scopes \X Packages) : Put(k, config) \in [L -> Configs]
<1>1. Put(k, config) \in [K \union {k} -> Configs]
  BY DEF Put
<1> QED BY <1>1

\* The rows of scopes that do not concern the session are not among those that resolve.
LEMMA OthersDoNotResolve ==
  ASSUME NEW k, ~Affected(k[1]), DOMAIN rows' \ {k} = DOMAIN rows \ {k},
         \A l \in DOMAIN rows \ {k} : rows'[l] = rows[l]
  PROVE  Resolved' = Resolved
<1>1. Relevant' = Relevant
  BY DEF Relevant, Affected
<1>2. \A where \in {"global", Mode, "session"} : \A p : ConfigIn(where, p)' = ConfigIn(where, p)
  <2> SUFFICES ASSUME NEW where \in {"global", Mode, "session"}, NEW p
               PROVE  ConfigIn(where, p)' = ConfigIn(where, p)
    OBVIOUS
  <2>1. <<where, p>> # k
    BY DEF Affected
  <2> QED BY <2>1 DEF ConfigIn
<1>3. \A p : Merge(Merge(ConfigIn("global", p)', ConfigIn(Mode, p)'), ConfigIn("session", p)')
             = Merge(Merge(ConfigIn("global", p), ConfigIn(Mode, p)), ConfigIn("session", p))
  BY <1>2
<1> QED BY <1>1, <1>3 DEF Resolved

\* Settings that are written are those of the rows.
LEMMA WritingBringsUpToDate ==
  ASSUME WriteSettings, UNCHANGED rows
  PROVE  UpToDate' /\ settings' = Resolved /\ missed' = FALSE
<1>1. Resolved' = Resolved
  BY DEF Resolved, Relevant, ConfigIn
<1> QED BY <1>1 DEF WriteSettings, UpToDate

\* A change of one row marks the session, is missed, or does not concern it.
LEMMA ChangesAreMarked ==
  ASSUME ExtensionTypeOK, UpToDate, NEW k, MarkStale(k[1]),
         DOMAIN rows' \ {k} = DOMAIN rows \ {k}, \A l \in DOMAIN rows \ {k} : rows'[l] = rows[l]
  PROVE  UpToDate'
<1>1. Writers' = Writers
  BY DEF MarkStale, Writers
<1>2. CASE missed \/ status # "active" \/ Writers # {}
  <2>1. missed'
    BY <1>2 DEF MarkStale
  <2> QED BY <2>1 DEF UpToDate
<1>3. CASE ~missed /\ status = "active" /\ Writers = {}
  <2>1. CASE Affected(k[1])
    BY <1>1, <1>3, <2>1 DEF MarkStale, UpToDate
  <2>2. CASE ~Affected(k[1])
    <3>1. Resolved' = Resolved
      BY <2>2, OthersDoNotResolve
    <3>2. (stale' <=> stale) /\ settings' = settings
      BY <2>2 DEF MarkStale
    <3> QED BY <1>1, <1>3, <3>1, <3>2 DEF UpToDate
  <2> QED BY <2>1, <2>2
<1> QED BY <1>2, <1>3

\* The rows, the settings and the requests under way are well typed.
THEOREM ExtensionsTypeCorrect == ExtensionSpec => []ExtensionTypeOK
<1>1. ExtensionInit => ExtensionTypeOK
  <2> SUFFICES ASSUME ExtensionInit PROVE ExtensionTypeOK
    OBVIOUS
  <2>1. <<>> \in [{} -> Configs]
    OBVIOUS
  <2>2. {} \in SUBSET (Scopes \X Packages) /\ {} \in SUBSET Packages
    OBVIOUS
  <2> QED BY <2>1, <2>2 DEF ExtensionInit, ExtensionTypeOK
<1>2. ExtensionTypeOK /\ [ExtensionNext]_extensionVars => ExtensionTypeOK'
  <2> SUFFICES ASSUME ExtensionTypeOK, [ExtensionNext]_extensionVars PROVE ExtensionTypeOK'
    OBVIOUS
  <2> DEFINE K == DOMAIN rows
             RowsOK == \E L \in SUBSET (Scopes \X Packages) : rows \in [L -> Configs]
             SettingsOK == \E P \in SUBSET Packages : settings \in [P -> Configs]
  <2>0. RowsOK /\ SettingsOK /\ K \in SUBSET (Scopes \X Packages) /\ rows \in [K -> Configs]
    BY DEF ExtensionTypeOK
  <2>w. ASSUME WriteSettings PROVE SettingsOK' /\ missed' \in BOOLEAN
    BY <2>w, ResolvedType DEF WriteSettings
  <2>s. ASSUME UNCHANGED settings PROVE SettingsOK'
    BY <2>0, <2>s
  <2>r. ASSUME UNCHANGED rows PROVE RowsOK'
    BY <2>0, <2>r
  <2> DEFINE OthersOK == /\ status \in {"creating", "active", "idle", "error"}
                         /\ request \in [Requests -> {"unsent", "resuming", "terminating", "authorising", "starting", "done"}]
                         /\ seen \in [Requests -> BOOLEAN]
                         /\ stale \in BOOLEAN /\ missed \in BOOLEAN
  <2>o. OthersOK
    BY DEF ExtensionTypeOK
  <2>m. ASSUME NEW where, MarkStale(where) PROVE OthersOK' /\ SettingsOK'
    <3>1. UNCHANGED <<status, request, seen, settings>> /\ stale' \in BOOLEAN /\ missed' \in BOOLEAN
      BY <2>m DEF MarkStale
    <3> QED BY <2>o, <2>s, <3>1
  <2>q. OthersOK' /\ SettingsOK' /\ RowsOK' => ExtensionTypeOK'
    BY DEF ExtensionTypeOK
  <2> HIDE DEF RowsOK, SettingsOK
  <2>1. ASSUME NEW where \in Scopes, NEW p \in Packages, AddPackage(where, p) PROVE ExtensionTypeOK'
    <3>1. MarkStale(where)
      BY <2>1 DEF AddPackage
    <3>2. CASE UNCHANGED rows
      BY <2>m, <2>q, <2>r, <3>1, <3>2
    <3>3. ASSUME NEW config \in Configs, rows' = Put(<<where, p>>, config) PROVE RowsOK'
      BY <2>0, <3>3, PutType DEF RowsOK
    <3> QED BY <2>1, <2>m, <2>q, <3>1, <3>2, <3>3 DEF AddPackage
  <2>2. ASSUME NEW k \in K, DeletePackage(k) \/ UpdateConfig(k) PROVE ExtensionTypeOK'
    <3>1. MarkStale(k[1])
      BY <2>2 DEF DeletePackage, UpdateConfig
    <3>2. rows' \in [K \ {k} -> Configs] \/ rows' \in [K -> Configs]
      BY <2>0, <2>2 DEF DeletePackage, UpdateConfig
    <3>3. RowsOK'
      BY <2>0, <3>2 DEF RowsOK
    <3> QED BY <2>m, <2>q, <3>1, <3>3
  <2>3. ASSUME FirstProvisioned \/ ReaperIdlesSession PROVE ExtensionTypeOK'
    <3>1. OthersOK' /\ UNCHANGED <<rows, settings>>
      BY <2>3, <2>o DEF FirstProvisioned, ReaperIdlesSession
    <3> QED BY <2>q, <2>r, <2>s, <3>1
  <2>4. ASSUME NEW q \in Requests, ActivationBegins(q) PROVE ExtensionTypeOK'
    <3>1. WriteSettings /\ UNCHANGED rows
      BY <2>4 DEF ActivationBegins
    <3>2. OthersOK'
      BY <2>4, <2>o, <2>w, <3>1 DEF ActivationBegins
    <3> QED BY <2>q, <2>r, <2>w, <3>1, <3>2
  <2>5. ASSUME NEW q \in Requests,
               ActivationEnds(q) \/ RestartReads(q) \/ RestartCreates(q) \/ RestartProvisioned(q)
        PROVE  ExtensionTypeOK'
    <3>1. OthersOK' /\ UNCHANGED <<rows, settings>>
      BY <2>5, <2>o DEF ActivationEnds, RestartReads, RestartCreates, RestartProvisioned
    <3> QED BY <2>q, <2>r, <2>s, <3>1
  <2>6. ASSUME NEW q \in Requests, RestartWrites(q) PROVE ExtensionTypeOK'
    <3>1. WriteSettings /\ UNCHANGED rows
      BY <2>6 DEF RestartWrites
    <3>2. OthersOK'
      BY <2>6, <2>o, <2>w, <3>1 DEF RestartWrites
    <3> QED BY <2>q, <2>r, <2>w, <3>1, <3>2
  <2>7. CASE UNCHANGED extensionVars
    <3>1. OthersOK' /\ UNCHANGED <<rows, settings>>
      BY <2>7, <2>o DEF extensionVars
    <3> QED BY <2>q, <2>r, <2>s, <3>1
  <2> QED BY <2>1, <2>2, <2>3, <2>4, <2>5, <2>6, <2>7 DEF ExtensionNext
<1> QED BY <1>1, <1>2, PTL DEF ExtensionSpec

\* An active session whose settings are out of date carries the mark, unless the
\* change came when no mark would stay (sessions.ts:812, 1221).
THEOREM OutOfDateStaysMarked == ExtensionSpec => []OutOfDateIsMarked
<1>1. ExtensionInit => UpToDate
  <2> SUFFICES ASSUME ExtensionInit PROVE settings = Resolved
    BY DEF UpToDate
  <2>1. DOMAIN rows = {}
    BY DEF ExtensionInit
  <2>2. {k[2] : k \in Relevant} = {}
    BY <2>1 DEF Relevant
  <2>3. Resolved \in [{} -> Configs]
    BY <2>2 DEF Resolved
  <2>4. <<>> \in [{} -> Configs] /\ \A f, g \in [{} -> Configs] : f = g
    OBVIOUS
  <2> QED BY <2>3, <2>4 DEF ExtensionInit
<1>2. ExtensionTypeOK /\ UpToDate /\ [ExtensionNext]_extensionVars => UpToDate'
  <2> SUFFICES ASSUME ExtensionTypeOK, UpToDate, [ExtensionNext]_extensionVars PROVE UpToDate'
    OBVIOUS
  <2>0. ASSUME UNCHANGED rows PROVE Resolved' = Resolved
    BY <2>0 DEF Resolved, Relevant, ConfigIn
  <2>1. ASSUME NEW where \in Scopes, NEW p \in Packages, AddPackage(where, p) PROVE UpToDate'
    <3> DEFINE k == <<where, p>>
    <3>1. MarkStale(k[1])
      BY <2>1 DEF AddPackage
    <3>2. DOMAIN rows' \ {k} = DOMAIN rows \ {k} /\ \A l \in DOMAIN rows \ {k} : rows'[l] = rows[l]
      BY <2>1 DEF AddPackage, Put
    <3> HIDE DEF k
    <3> QED BY <3>1, <3>2, ChangesAreMarked
  <2>2. ASSUME NEW k \in DOMAIN rows, DeletePackage(k) \/ UpdateConfig(k) PROVE UpToDate'
    <3>1. MarkStale(k[1])
      BY <2>2 DEF DeletePackage, UpdateConfig
    <3>2. DOMAIN rows' \ {k} = DOMAIN rows \ {k} /\ \A l \in DOMAIN rows \ {k} : rows'[l] = rows[l]
      BY <2>2 DEF DeletePackage, UpdateConfig, ExtensionTypeOK
    <3> QED BY <3>1, <3>2, ChangesAreMarked
  <2>3. ASSUME FirstProvisioned \/ ReaperIdlesSession \/ UNCHANGED extensionVars PROVE UpToDate'
    <3>1. UNCHANGED <<rows, stale, settings, request, missed>>
      BY <2>3 DEF FirstProvisioned, ReaperIdlesSession, extensionVars
    <3>2. Writers' = Writers
      BY <3>1 DEF Writers
    <3> QED BY <2>0, <3>1, <3>2 DEF UpToDate
  <2>4. ASSUME NEW q \in Requests, ActivationBegins(q) \/ RestartWrites(q) PROVE UpToDate'
    BY <2>4, WritingBringsUpToDate DEF ActivationBegins, RestartWrites
  <2>5. ASSUME NEW q \in Requests,
               ActivationEnds(q) \/ RestartReads(q) \/ RestartCreates(q) \/ RestartProvisioned(q)
        PROVE  UpToDate'
    <3>1. UNCHANGED <<rows, settings, missed>>
      BY <2>5 DEF ActivationEnds, RestartReads, RestartCreates, RestartProvisioned
    <3>2. DOMAIN request = Requests
      BY DEF ExtensionTypeOK
    <3>3. Writers' \subseteq Writers \union {q}
      BY <2>5, <3>2 DEF Writers, ActivationEnds, RestartReads, RestartCreates, RestartProvisioned
    <3>4. ~RestartReads(q) => q \in Writers
      BY <2>5 DEF Writers, ActivationEnds, RestartCreates, RestartProvisioned
    <3>5. RestartReads(q) => q \notin Writers' /\ stale' = stale
      BY <3>2 DEF Writers, RestartReads
    <3>6. CASE q \in Writers
      BY <2>0, <3>1, <3>6 DEF UpToDate
    <3>7. CASE RestartReads(q)
      <4>1. Writers' \subseteq Writers
        BY <3>3, <3>5, <3>7
      <4> QED BY <2>0, <3>1, <3>5, <3>7, <4>1 DEF UpToDate
    <3> QED BY <3>4, <3>6, <3>7
  <2> QED BY <2>1, <2>2, <2>3, <2>4, <2>5 DEF ExtensionNext
<1>3. UpToDate => OutOfDateIsMarked
  BY DEF UpToDate, OutOfDateIsMarked
<1> QED BY <1>1, <1>2, <1>3, ExtensionsTypeCorrect, PTL DEF ExtensionSpec

-----------------------------------------------------------------------------
(***************************************************************************)
(* Proofs about the two caches behind the page of extensions, for any      *)
(* number of requests, any TTL and any length of time.  Why the TTLs do    *)
(* not add up: a manifest that is taken from its cache was asked for less  *)
(* than one TTL ago, and the packages are stamped with a time before that. *)
(***************************************************************************)

(* an entry is as old as it says, a manifest was read after it was asked for *)
IsCurrent(e) == e.read + Ttl > e.at
ReadSince(m) == \A t \in m.read : t >= m.at

(* a request under way has gone through its times in their order *)
TimesInOrder(r) ==
  /\ \A e \in r.kept \union r.result : IsCurrent(e)
  /\ r.began <= r.searched \/ r.at \notin {"packument", "schema"} \/ r.for # "packages"
  /\ r.began <= r.asked \/ r.at \notin {"packument", "schema"} \/ r.for # "packages"
  /\ r.asked <= r.read \/ r.at # "schema"
  /\ r.for # "none" \/ r.at \notin {"search", "packument", "schema"}
  /\ r.began <= time /\ r.searched <= time /\ r.asked <= time /\ r.read <= time

CatalogInv ==
  /\ \A e \in catalog : IsCurrent(e)
  /\ \A m \in manifest : ReadSince(m)
  /\ \A g \in Gets : TimesInOrder(get[g])

\* Times are numbers.
LEMMA TimesAreNumbers ==
  (\A t \in Times : t \in Nat) /\ 0 \in Times /\ MaxTime \in Nat /\ Ttl \in Nat /\ Ttl > 0
BY CatalogAssumption DEF Times

\* A request that has not asked anything is well typed and in order.
LEMMA NothingAsked ==
  ASSUME time \in Times
  PROVE  NotAsked \in CatalogGet /\ TimesInOrder(NotAsked)
BY TimesAreNumbers DEF NotAsked, CatalogGet, TimesInOrder, Times

\* What a request is when it has ended.
LEMMA EndedGet ==
  ASSUME time \in Times, NEW r \in CatalogGet,
         NEW at \in {"done", "failed"}, NEW result \in SUBSET Entry, \A e \in result : IsCurrent(e)
  PROVE  Ended(r, at, result) \in CatalogGet /\ TimesInOrder(Ended(r, at, result))
BY NothingAsked, TimesAreNumbers DEF Ended, NotAsked, CatalogGet, TimesInOrder

\* Replacing one request by another that is in order keeps them all so.
LEMMA GoneTo ==
  ASSUME CatalogTypeOK, CatalogInv, NEW g \in Gets, NEW r \in CatalogGet, TimesInOrder(r),
         GoesTo(g, r), UNCHANGED time
  PROVE  get' \in [Gets -> CatalogGet] /\ \A h \in Gets : TimesInOrder(get[h])'
<1>1. get' = [get EXCEPT ![g] = r]
  BY DEF GoesTo
<1>2. get' \in [Gets -> CatalogGet] /\ \A h \in Gets : get'[h] = IF h = g THEN r ELSE get[h]
  BY <1>1 DEF CatalogTypeOK
<1>3. \A h \in Gets : TimesInOrder(get'[h])
  BY <1>2 DEF CatalogInv
<1>4. \A h \in Gets : TimesInOrder(get[h])' <=> TimesInOrder(get'[h])
  BY DEF TimesInOrder
<1> QED BY <1>2, <1>3, <1>4

\* A search that is described yields packages as old as they say.
LEMMA DescribedIsCurrent ==
  ASSUME CatalogTypeOK, CatalogInv, NEW g \in Gets, NEW r \in CatalogGet, NEW read \in SUBSET Times,
         r.began <= r.searched \/ r.for # "packages",
         r.for = "packages" => \A t \in read : t + Ttl > r.began,
         r.for # "none", Described(g, r, read), UNCHANGED time
  PROVE  /\ catalog' \subseteq Entry /\ \A e \in catalog' : IsCurrent(e)
         /\ get' \in [Gets -> CatalogGet] /\ \A h \in Gets : TimesInOrder(get[h])'
<1>a. time \in Times
  BY DEF CatalogTypeOK
<1>1. CASE r.for = "manifest"
  <2>1. GoesTo(g, Ended(r, "done", {})) /\ catalog' = catalog
    BY <1>1 DEF Described
  <2>2. Ended(r, "done", {}) \in CatalogGet /\ TimesInOrder(Ended(r, "done", {}))
    BY <1>a, EndedGet
  <2>3. get' \in [Gets -> CatalogGet] /\ \A h \in Gets : TimesInOrder(get[h])'
    BY <2>1, <2>2, GoneTo
  <2> QED BY <2>1, <2>3 DEF CatalogTypeOK, CatalogInv
<1>2. CASE r.for = "packages"
  <2> DEFINE e == [read |-> IF read = {} THEN r.searched ELSE CHOOSE t \in read : TRUE, at |-> r.began]
  <2>1. catalog' = {e} /\ GoesTo(g, Ended(r, "done", {e}))
    BY <1>2 DEF Described, Stamped
  <2>2. r.began \in Times /\ r.searched \in Times
    BY DEF CatalogGet
  <2>3. e.read \in Times /\ e.read + Ttl > e.at
    <3>1. CASE read = {}
      <4>1. e.read = r.searched /\ e.at = r.began
        BY <3>1
      <4>2. r.searched \in Nat /\ r.began \in Nat /\ Ttl \in Nat /\ Ttl > 0 /\ r.began <= r.searched
        BY <1>2, <2>2, TimesAreNumbers
      <4>3. r.searched + Ttl > r.began
        BY <4>2
      <4> QED BY <2>2, <4>1, <4>3
    <3>2. CASE read # {}
      <4>1. (CHOOSE t \in read : TRUE) \in read
        BY <3>2
      <4> QED BY <1>2, <3>2, <4>1
    <3> QED BY <3>1, <3>2
  <2>4. e \in Entry /\ IsCurrent(e)
    BY <2>2, <2>3 DEF Entry, IsCurrent
  <2> HIDE DEF e
  <2>5. Ended(r, "done", {e}) \in CatalogGet /\ TimesInOrder(Ended(r, "done", {e}))
    BY <1>a, <2>4, EndedGet
  <2>6. get' \in [Gets -> CatalogGet] /\ \A h \in Gets : TimesInOrder(get[h])'
    BY <2>1, <2>5, GoneTo
  <2> QED BY <2>1, <2>4, <2>6
<1> QED BY <1>1, <1>2 DEF CatalogGet

\* A manifest that is fresh was read less than one TTL before now.
LEMMA ManifestTaken ==
  ASSUME CatalogTypeOK, CatalogInv, NEW g \in Gets, NEW r \in CatalogGet, r.for # "none",
         r.began <= r.searched, TimesInOrder(r), GetManifest(g, r), UNCHANGED time
  PROVE  /\ catalog' \subseteq Entry /\ (\A e \in catalog' : IsCurrent(e)) /\ manifest' = manifest
         /\ get' \in [Gets -> CatalogGet] /\ \A h \in Gets : TimesInOrder(get[h])'
<1>a. time \in Nat /\ r.began \in Nat /\ r.began <= time /\ time \in Times
  BY TimesAreNumbers DEF CatalogTypeOK, CatalogGet, TimesInOrder
<1>1. CASE Fresh(manifest) = {}
  <2> DEFINE q == [r EXCEPT !.at = "packument", !.asked = time]
  <2>1. GoesTo(g, q) /\ catalog' = catalog /\ manifest' = manifest
    BY <1>1 DEF GetManifest
  <2>2. q \in CatalogGet /\ TimesInOrder(q)
    <3>1. /\ q.for = r.for /\ q.at = "packument" /\ q.kept = r.kept /\ q.began = r.began
          /\ q.searched = r.searched /\ q.asked = time /\ q.read = r.read /\ q.result = r.result
      BY DEF CatalogGet
    <3>2. q \in CatalogGet
      BY <1>a DEF CatalogGet
    <3>3. r.searched \in Nat
      BY TimesAreNumbers DEF CatalogGet
    <3> QED BY <1>a, <3>1, <3>2, <3>3 DEF TimesInOrder
  <2>3. get' \in [Gets -> CatalogGet] /\ \A h \in Gets : TimesInOrder(get[h])'
    BY <2>1, <2>2, GoneTo
  <2> QED BY <2>1, <2>3 DEF CatalogTypeOK, CatalogInv
<1>2. CASE Fresh(manifest) # {}
  <2>1. PICK m \in Fresh(manifest) : Described(g, r, m.read)
    BY <1>2 DEF GetManifest
  <2>2. m \in manifest /\ time - m.at < Ttl
    BY <2>1 DEF Fresh
  <2>3. m.read \in SUBSET Times /\ m.at \in Times
    BY <2>2 DEF CatalogTypeOK
  <2>4. \A t \in m.read : t >= m.at
    BY <2>2 DEF CatalogInv, ReadSince
  <2>5. ASSUME NEW t \in m.read PROVE t + Ttl > r.began
    <3>1. t \in Nat /\ m.at \in Nat /\ t >= m.at
      BY <2>3, <2>4, TimesAreNumbers
    <3> QED BY <1>a, <2>2, <3>1, TimesAreNumbers
  <2>6. manifest' = manifest
    BY DEF GetManifest
  <2> QED BY <2>1, <2>3, <2>5, <2>6, DescribedIsCurrent
<1> QED BY <1>1, <1>2

\* The caches and the requests are well typed, and what is kept and served
\* was read less than one TTL before the time it is kept since.
THEOREM CatalogCorrect == CatalogSpec => [](CatalogTypeOK /\ CatalogInv)
<1>1. CatalogInit => CatalogTypeOK /\ CatalogInv
  BY TimesAreNumbers, NothingAsked DEF CatalogInit, CatalogTypeOK, CatalogInv
<1>2. CatalogTypeOK /\ CatalogInv /\ [CatalogNext]_catalogVars => CatalogTypeOK' /\ CatalogInv'
  <2> SUFFICES ASSUME CatalogTypeOK, CatalogInv, [CatalogNext]_catalogVars
               PROVE  CatalogTypeOK' /\ CatalogInv'
    OBVIOUS
  <2>a. time \in Times /\ time \in Nat /\ \A g \in Gets : get[g] \in CatalogGet /\ TimesInOrder(get[g])
    BY TimesAreNumbers DEF CatalogTypeOK, CatalogInv
  <2>b. ASSUME UNCHANGED <<time, manifest>>, catalog' \subseteq Entry, \A e \in catalog' : IsCurrent(e),
               get' \in [Gets -> CatalogGet], \A h \in Gets : TimesInOrder(get[h])'
        PROVE  CatalogTypeOK' /\ CatalogInv'
    BY <2>b DEF CatalogTypeOK, CatalogInv, IsCurrent
  <2>1. CASE TimePasses
    <3>1. time' \in Times /\ time <= time'
      BY <2>1, <2>a, TimesAreNumbers DEF TimePasses, Times
    <3>2. UNCHANGED <<catalog, manifest, get>>
      BY <2>1 DEF TimePasses
    <3>3. \A g \in Gets : TimesInOrder(get[g])'
      <4> SUFFICES ASSUME NEW g \in Gets PROVE TimesInOrder(get[g])'
        OBVIOUS
      <4>1. /\ get[g].began \in Nat /\ get[g].searched \in Nat /\ get[g].asked \in Nat
            /\ get[g].read \in Nat /\ time' \in Nat
        BY <2>a, <3>1, TimesAreNumbers DEF CatalogGet
      <4> QED BY <2>a, <3>1, <3>2, <4>1 DEF TimesInOrder
    <3> QED BY <3>1, <3>2, <3>3 DEF CatalogTypeOK, CatalogInv
  <2>2. ASSUME NEW g \in Gets, Search(g) PROVE CatalogTypeOK' /\ CatalogInv'
    <3> DEFINE r == [NotAsked EXCEPT !.for = "packages"]
               q == [r EXCEPT !.at = "search", !.kept = catalog, !.began = time]
    <3>1. UNCHANGED <<time, catalog, manifest>> /\ catalog \subseteq Entry
          /\ \A e \in catalog : IsCurrent(e)
      BY <2>2 DEF Search, CatalogTypeOK, CatalogInv
    <3>2. r \in CatalogGet
      BY <2>a, NothingAsked DEF CatalogGet, NotAsked
    <3>3. q \in CatalogGet /\ TimesInOrder(q)
      <4>1. /\ r.for = "packages" /\ r.searched = 0 /\ r.asked = 0 /\ r.read = 0 /\ r.result = {}
        BY DEF NotAsked
      <4>2. /\ q.for = r.for /\ q.at = "search" /\ q.kept = catalog /\ q.began = time
            /\ q.searched = r.searched /\ q.asked = r.asked /\ q.read = r.read /\ q.result = r.result
        BY <3>2 DEF CatalogGet
      <4>3. q \in CatalogGet
        BY <2>a, <3>1, <3>2 DEF CatalogGet
      <4> HIDE DEF q, r
      <4> QED BY <2>a, <3>1, <4>1, <4>2, <4>3 DEF TimesInOrder
    <3>4. Ended(r, "done", catalog) \in CatalogGet /\ TimesInOrder(Ended(r, "done", catalog))
      BY <2>a, <3>1, <3>2, EndedGet
    <3>5. GoesTo(g, Ended(r, "done", catalog)) \/ GoesTo(g, q)
      BY <2>2 DEF Search
    <3>6. get' \in [Gets -> CatalogGet] /\ \A h \in Gets : TimesInOrder(get[h])'
      BY <3>1, <3>3, <3>4, <3>5, GoneTo
    <3> QED BY <2>b, <3>1, <3>6
  <2>3. ASSUME NEW g \in Gets, NpmSearched(g) PROVE CatalogTypeOK' /\ CatalogInv'
    <3> DEFINE r == [get[g] EXCEPT !.searched = time]
    <3>1. get[g].at = "search" /\ GetManifest(g, r) /\ time' = time
      BY <2>3 DEF NpmSearched
    <3>2. r \in CatalogGet /\ TimesInOrder(r) /\ r.began <= r.searched
      BY <2>a, <3>1, TimesAreNumbers DEF CatalogGet, TimesInOrder
    <3>3. r.for # "none"
      BY <2>a, <3>1 DEF CatalogGet, TimesInOrder
    <3> QED BY <2>b, <3>1, <3>2, <3>3, ManifestTaken
  <2>4. ASSUME NEW g \in Gets, ListByScope(g) PROVE CatalogTypeOK' /\ CatalogInv'
    <3> DEFINE r == [NotAsked EXCEPT !.for = "manifest"]
    <3>1. GetManifest(g, r) /\ time' = time
      BY <2>4 DEF ListByScope
    <3>2. r = [for |-> "manifest", at |-> "none", kept |-> {}, began |-> 0,
               searched |-> 0, asked |-> 0, read |-> 0, result |-> {}]
      BY DEF NotAsked
    <3>3. r \in CatalogGet
      BY <3>2, TimesAreNumbers DEF CatalogGet
    <3>4. TimesInOrder(r) /\ r.began <= r.searched /\ r.for # "none"
      BY <2>a, <3>2 DEF TimesInOrder
    <3> QED BY <2>b, <3>1, <3>3, <3>4, ManifestTaken DEF GetManifest
  <2>c. ASSUME NEW g \in Gets, get[g].at \in {"packument", "schema"},
               NEW read \in SUBSET Times, \A t \in read : t >= get[g].asked, UNCHANGED time,
               manifest' = {[read |-> read, at |-> get[g].asked]}, Described(g, get[g], read)
        PROVE  CatalogTypeOK' /\ CatalogInv'
    <3>1. /\ get[g].began \in Nat /\ get[g].asked \in Nat /\ get[g].asked \in Times /\ read \subseteq Nat
          /\ get[g].for # "none"
      BY <2>a, <2>c, TimesAreNumbers DEF CatalogGet, TimesInOrder
    <3>2. /\ get[g].began <= get[g].searched \/ get[g].for # "packages"
          /\ get[g].began <= get[g].asked \/ get[g].for # "packages"
      BY <2>a, <2>c DEF TimesInOrder
    <3>3. ASSUME get[g].for = "packages", NEW t \in read PROVE t + Ttl > get[g].began
      <4>1. t >= get[g].asked /\ get[g].began <= get[g].asked
        BY <2>c, <3>2, <3>3
      <4>2. t \in Nat /\ Ttl \in Nat /\ Ttl > 0 /\ get[g].began \in Nat /\ get[g].asked \in Nat
        BY <3>1, <3>3, TimesAreNumbers
      <4> QED BY <4>1, <4>2
    <3>4. /\ catalog' \subseteq Entry /\ \A e \in catalog' : IsCurrent(e)
          /\ get' \in [Gets -> CatalogGet] /\ \A h \in Gets : TimesInOrder(get[h])'
      BY <2>a, <2>c, <3>1, <3>2, <3>3, DescribedIsCurrent
    <3>5. manifest' \subseteq [read : SUBSET Times, at : Times] /\ \A m \in manifest' : ReadSince(m)
      BY <2>c, <3>1 DEF ReadSince
    <3> QED BY <2>c, <3>4, <3>5 DEF CatalogTypeOK, CatalogInv, IsCurrent, ReadSince
  <2>5. ASSUME NEW g \in Gets, PackumentRead(g) PROVE CatalogTypeOK' /\ CatalogInv'
    <3> DEFINE q == [get[g] EXCEPT !.at = "schema", !.read = time]
    <3>1. CASE GoesTo(g, q) /\ UNCHANGED <<catalog, manifest>>
      <4>1. /\ q.for = get[g].for /\ q.at = "schema" /\ q.kept = get[g].kept
            /\ q.began = get[g].began /\ q.searched = get[g].searched /\ q.asked = get[g].asked
            /\ q.read = time /\ q.result = get[g].result
        BY <2>a DEF CatalogGet
      <4>2. q \in CatalogGet
        BY <2>a DEF CatalogGet
      <4>3. get[g].at = "packument" /\ time' = time
        BY <2>5 DEF PackumentRead
      <4>4. TimesInOrder(q)
        BY <2>a, <4>1, <4>3 DEF TimesInOrder
      <4>5. get' \in [Gets -> CatalogGet] /\ \A h \in Gets : TimesInOrder(get[h])'
        BY <3>1, <4>2, <4>3, <4>4, GoneTo
      <4> QED BY <2>b, <3>1, <4>3, <4>5 DEF CatalogTypeOK, CatalogInv
    <3>2. CASE manifest' = {[read |-> {}, at |-> get[g].asked]} /\ Described(g, get[g], {})
      <4>1. get[g].at = "packument" /\ time' = time
        BY <2>5 DEF PackumentRead
      <4>2. {} \in SUBSET Times /\ \A t \in {} : t >= get[g].asked
        OBVIOUS
      <4> QED BY <2>c, <3>2, <4>1, <4>2
    <3> QED BY <2>5, <3>1, <3>2 DEF PackumentRead
  <2>6. ASSUME NEW g \in Gets, FetchSchema(g) PROVE CatalogTypeOK' /\ CatalogInv'
    <3>1. /\ get[g].at = "schema" /\ time' = time
          /\ manifest' = {[read |-> {get[g].read}, at |-> get[g].asked]}
          /\ Described(g, get[g], {get[g].read})
      BY <2>6 DEF FetchSchema
    <3>2. get[g].read \in Times /\ get[g].asked <= get[g].read
      BY <2>a, <3>1 DEF CatalogGet, TimesInOrder
    <3>3. get[g].read \in Nat /\ get[g].asked \in Nat
      BY <2>a, TimesAreNumbers DEF CatalogGet
    <3>4. {get[g].read} \in SUBSET Times /\ \A t \in {get[g].read} : t >= get[g].asked
      BY <3>2, <3>3
    <3> QED BY <2>c, <3>1, <3>2, <3>4
  <2>7. ASSUME NEW g \in Gets, NpmFails(g) PROVE CatalogTypeOK' /\ CatalogInv'
    <3> DEFINE at == IF get[g].kept = {} THEN "failed" ELSE "done"
    <3>1. GoesTo(g, Ended(get[g], at, get[g].kept)) /\ UNCHANGED <<time, catalog, manifest>>
      BY <2>7 DEF NpmFails
    <3>2. get[g].kept \in SUBSET Entry /\ \A e \in get[g].kept : IsCurrent(e)
      BY <2>a DEF CatalogGet, TimesInOrder
    <3>3. Ended(get[g], at, get[g].kept) \in CatalogGet /\ TimesInOrder(Ended(get[g], at, get[g].kept))
      BY <2>a, <3>2, EndedGet
    <3>4. get' \in [Gets -> CatalogGet] /\ \A h \in Gets : TimesInOrder(get[h])'
      BY <3>1, <3>3, GoneTo
    <3> QED BY <2>b, <3>1, <3>4 DEF CatalogTypeOK, CatalogInv
  <2>8. ASSUME NEW g \in Gets, Answered(g) PROVE CatalogTypeOK' /\ CatalogInv'
    <3>1. GoesTo(g, NotAsked) /\ UNCHANGED <<time, catalog, manifest>>
      BY <2>8 DEF Answered
    <3>2. get' \in [Gets -> CatalogGet] /\ \A h \in Gets : TimesInOrder(get[h])'
      BY <2>a, <3>1, NothingAsked, GoneTo
    <3> QED BY <2>b, <3>1, <3>2 DEF CatalogTypeOK, CatalogInv
  <2>9. CASE UNCHANGED catalogVars
    BY <2>9 DEF catalogVars, CatalogTypeOK, CatalogInv, IsCurrent, ReadSince, TimesInOrder
  <2> QED BY <2>1, <2>2, <2>3, <2>4, <2>5, <2>6, <2>7, <2>8, <2>9 DEF CatalogNext
<1> QED BY <1>1, <1>2, PTL DEF CatalogSpec

\* Packages are served as npm had them less than one TTL before the time
\* that is shown beside them, though one cache is filled from the other
\* (package-catalog.service.ts:100, 121).
THEOREM CatalogAge == CatalogSpec => []CatalogIsAsOldAsItSays
<1>1. CatalogInv => CatalogIsAsOldAsItSays
  BY DEF CatalogInv, TimesInOrder, IsCurrent, CatalogIsAsOldAsItSays
<1> QED BY <1>1, CatalogCorrect, PTL

-----------------------------------------------------------------------------
(***************************************************************************)
(* Proofs about the validation of packages, for any number of requests.    *)
(* The lock is cleared by every validation that ends, whoever holds it,    *)
(* and is still never held by one that is over.                            *)
(***************************************************************************)

(* a request that was canceled in time is still at work, or was refused *)
HeededAreRefused ==
  /\ \A v \in heeded : v \in aborted /\ trial[v] \in {"booting", "probing", "installing", "refused"}
  /\ \A v \in added : trial[v] = "answered"

(* without a race and a cancelation: one validation at a time, and nobody past the check beside it *)
OneAtATime ==
  raced = {} /\ aborted = {}
    => /\ \A v \in Validating : active = v
       /\ \A v \in Validating : Asking = {}

\* The lock, the requests and the observations are well typed.
THEOREM ValidationTypeCorrect == ValidationSpec => []ValidationTypeOK
<1>1. ValidationInit => ValidationTypeOK
  BY DEF ValidationInit, ValidationTypeOK
<1>2. ValidationTypeOK /\ [ValidationNext]_validationVars => ValidationTypeOK'
  <2> SUFFICES ASSUME ValidationTypeOK, [ValidationNext]_validationVars
               PROVE  ValidationTypeOK'
    OBVIOUS
  <2> USE DEF ValidationTypeOK, Goes, LockCleared
  <2>1. ASSUME NEW v \in Validations, ValidationBusy(v) PROVE ValidationTypeOK'
    BY <2>1 DEF ValidationBusy
  <2>2. ASSUME NEW v \in Validations, ValidationAsks(v) PROVE ValidationTypeOK'
    BY <2>2 DEF ValidationAsks
  <2>3. ASSUME NEW v \in Validations, ValidationSkipped(v) PROVE ValidationTypeOK'
    BY <2>3 DEF ValidationSkipped
  <2>4. ASSUME NEW v \in Validations, ValidationStarts(v) PROVE ValidationTypeOK'
    BY <2>4 DEF ValidationStarts, Asking
  <2>5. ASSUME NEW v \in Validations, ValidationBoots(v) PROVE ValidationTypeOK'
    BY <2>5 DEF ValidationBoots
  <2>6. ASSUME NEW v \in Validations, ValidationProbed(v) PROVE ValidationTypeOK'
    BY <2>6 DEF ValidationProbed
  <2>7. ASSUME NEW v \in Validations, ValidationInstalled(v) PROVE ValidationTypeOK'
    BY <2>7 DEF ValidationInstalled
  <2>8. ASSUME NEW v \in Validations, ValidationSucceeds(v) PROVE ValidationTypeOK'
    BY <2>8 DEF ValidationSucceeds
  <2>9. ASSUME NEW v \in Validations, ValidationFails(v) PROVE ValidationTypeOK'
    BY <2>9 DEF ValidationFails
  <2>10. CASE CancelValidation BY <2>10 DEF CancelValidation
  <2>11. CASE UNCHANGED validationVars BY <2>11 DEF validationVars
  <2> QED BY <2>1, <2>2, <2>3, <2>4, <2>5, <2>6, <2>7, <2>8, <2>9, <2>10, <2>11 DEF ValidationNext
<1> QED BY <1>1, <1>2, PTL DEF ValidationSpec

\* The lock never outlives the validation that took it, so that no failure
\* and no cancelation keeps later packages from being validated
\* (manager.ts:184, 204, 210).
THEOREM LockIsOwned == ValidationSpec => []LockHasOwner
<1>1. ValidationInit => LockHasOwner
  BY DEF ValidationInit, LockHasOwner
<1>2. ValidationTypeOK /\ LockHasOwner /\ [ValidationNext]_validationVars => LockHasOwner'
  <2> SUFFICES ASSUME ValidationTypeOK, LockHasOwner, [ValidationNext]_validationVars
               PROVE  LockHasOwner'
    OBVIOUS
  <2> USE NoValidationIsNone DEF ValidationTypeOK, LockHasOwner, Goes, LockCleared, Validating
  <2>1. ASSUME NEW v \in Validations, ValidationBusy(v) PROVE LockHasOwner'
    BY <2>1 DEF ValidationBusy
  <2>2. ASSUME NEW v \in Validations, ValidationAsks(v) PROVE LockHasOwner'
    BY <2>2 DEF ValidationAsks
  <2>3. ASSUME NEW v \in Validations, ValidationSkipped(v) PROVE LockHasOwner'
    BY <2>3 DEF ValidationSkipped
  <2>4. ASSUME NEW v \in Validations, ValidationStarts(v) PROVE LockHasOwner'
    BY <2>4 DEF ValidationStarts
  <2>5. ASSUME NEW v \in Validations, ValidationBoots(v) PROVE LockHasOwner'
    BY <2>5 DEF ValidationBoots
  <2>6. ASSUME NEW v \in Validations, ValidationProbed(v) PROVE LockHasOwner'
    BY <2>6 DEF ValidationProbed
  <2>7. ASSUME NEW v \in Validations, ValidationInstalled(v) PROVE LockHasOwner'
    BY <2>7 DEF ValidationInstalled
  <2>8. ASSUME NEW v \in Validations, ValidationSucceeds(v) PROVE LockHasOwner'
    BY <2>8 DEF ValidationSucceeds
  <2>9. ASSUME NEW v \in Validations, ValidationFails(v) PROVE LockHasOwner'
    BY <2>9 DEF ValidationFails
  <2>10. CASE CancelValidation BY <2>10 DEF CancelValidation
  <2>11. CASE UNCHANGED validationVars BY <2>11 DEF validationVars
  <2> QED BY <2>1, <2>2, <2>3, <2>4, <2>5, <2>6, <2>7, <2>8, <2>9, <2>10, <2>11 DEF ValidationNext
<1> QED BY <1>1, <1>2, ValidationTypeCorrect, PTL DEF ValidationSpec

\* A package whose validation was canceled before the install had ended is
\* never added (manager.ts:210, provider.ts:168).
THEOREM CanceledStaysOut == ValidationSpec => []CanceledIsNotAdded
<1>1. ValidationInit => HeededAreRefused
  BY DEF ValidationInit, HeededAreRefused
<1>2. ValidationTypeOK /\ LockHasOwner /\ HeededAreRefused /\ [ValidationNext]_validationVars
        => HeededAreRefused'
  <2> SUFFICES ASSUME ValidationTypeOK, LockHasOwner, HeededAreRefused,
                      [ValidationNext]_validationVars
               PROVE  HeededAreRefused'
    OBVIOUS
  <2> USE DEF ValidationTypeOK, HeededAreRefused, Goes
  <2>1. ASSUME NEW v \in Validations, ValidationBusy(v) PROVE HeededAreRefused'
    BY <2>1 DEF ValidationBusy
  <2>2. ASSUME NEW v \in Validations, ValidationAsks(v) PROVE HeededAreRefused'
    BY <2>2 DEF ValidationAsks
  <2>3. ASSUME NEW v \in Validations, ValidationSkipped(v) PROVE HeededAreRefused'
    BY <2>3 DEF ValidationSkipped
  <2>4. ASSUME NEW v \in Validations, ValidationStarts(v) PROVE HeededAreRefused'
    BY <2>4 DEF ValidationStarts
  <2>5. ASSUME NEW v \in Validations, ValidationBoots(v) PROVE HeededAreRefused'
    BY <2>5 DEF ValidationBoots
  <2>6. ASSUME NEW v \in Validations, ValidationProbed(v) PROVE HeededAreRefused'
    BY <2>6 DEF ValidationProbed
  <2>7. ASSUME NEW v \in Validations, ValidationInstalled(v) PROVE HeededAreRefused'
    BY <2>7 DEF ValidationInstalled, InstallMayEnd
  <2>8. ASSUME NEW v \in Validations, ValidationSucceeds(v) PROVE HeededAreRefused'
    BY <2>8 DEF ValidationSucceeds
  <2>9. ASSUME NEW v \in Validations, ValidationFails(v) PROVE HeededAreRefused'
    BY <2>9 DEF ValidationFails
  <2>10. CASE CancelValidation
    BY <2>10 DEF CancelValidation, LockHasOwner, Validating
  <2>11. CASE UNCHANGED validationVars BY <2>11 DEF validationVars
  <2> QED BY <2>1, <2>2, <2>3, <2>4, <2>5, <2>6, <2>7, <2>8, <2>9, <2>10, <2>11 DEF ValidationNext
<1>3. HeededAreRefused => CanceledIsNotAdded
  BY DEF HeededAreRefused, CanceledIsNotAdded
<1> QED BY <1>1, <1>2, <1>3, ValidationTypeCorrect, LockIsOwned, PTL DEF ValidationSpec

\* Two validations run side by side only once two requests have passed the
\* check together, or one has been canceled (manager.ts:184, 210).
THEOREM OnlyRacesOverlap == ValidationSpec => []OnlyRacesRunBeside
<1>1. ValidationInit => OneAtATime
  BY DEF ValidationInit, OneAtATime, Validating
<1>2. ValidationTypeOK /\ OneAtATime /\ [ValidationNext]_validationVars => OneAtATime'
  <2> SUFFICES ASSUME ValidationTypeOK, OneAtATime, [ValidationNext]_validationVars
               PROVE  OneAtATime'
    OBVIOUS
  <2> USE NoValidationIsNone DEF ValidationTypeOK, OneAtATime, Goes, Asking, Validating
  <2>1. ASSUME NEW v \in Validations, ValidationBusy(v) PROVE OneAtATime'
    BY <2>1 DEF ValidationBusy
  <2>2. ASSUME NEW v \in Validations, ValidationAsks(v) PROVE OneAtATime'
    BY <2>2 DEF ValidationAsks, NoneActive
  <2>3. ASSUME NEW v \in Validations, ValidationSkipped(v) PROVE OneAtATime'
    BY <2>3 DEF ValidationSkipped
  <2>4. ASSUME NEW v \in Validations, ValidationStarts(v) PROVE OneAtATime'
    BY <2>4 DEF ValidationStarts
  <2>5. ASSUME NEW v \in Validations, ValidationBoots(v) PROVE OneAtATime'
    BY <2>5 DEF ValidationBoots
  <2>6. ASSUME NEW v \in Validations, ValidationProbed(v) PROVE OneAtATime'
    BY <2>6 DEF ValidationProbed
  <2>7. ASSUME NEW v \in Validations, ValidationInstalled(v) PROVE OneAtATime'
    BY <2>7 DEF ValidationInstalled
  <2>8. ASSUME NEW v \in Validations, ValidationSucceeds(v) PROVE OneAtATime'
    BY <2>8 DEF ValidationSucceeds, LockCleared
  <2>9. ASSUME NEW v \in Validations, ValidationFails(v) PROVE OneAtATime'
    BY <2>9 DEF ValidationFails, LockCleared
  <2>10. CASE CancelValidation BY <2>10 DEF CancelValidation
  <2>11. CASE UNCHANGED validationVars BY <2>11 DEF validationVars
  <2> QED BY <2>1, <2>2, <2>3, <2>4, <2>5, <2>6, <2>7, <2>8, <2>9, <2>10, <2>11 DEF ValidationNext
<1>3. OneAtATime => OnlyRacesRunBeside
  <2> SUFFICES ASSUME OneAtATime, raced = {}, aborted = {}
               PROVE  ~(Cardinality(Validating) > 1)
    BY DEF OnlyRacesRunBeside
  <2>1. Validating \subseteq {active}
    BY DEF OneAtATime
  <2>2. IsFiniteSet({active}) /\ Cardinality({active}) = 1
    BY FS_Singleton
  <2>3. Cardinality(Validating) <= 1 /\ Cardinality(Validating) \in Nat
    BY <2>1, <2>2, FS_Subset, FS_CardinalityType
  <2> QED BY <2>3
<1> QED BY <1>1, <1>2, <1>3, ValidationTypeCorrect, PTL DEF ValidationSpec

-----------------------------------------------------------------------------
(***************************************************************************)
(* The page of extensions, for any scopes, queries and requests: a list    *)
(* that was not overtaken has one request under way at most, and it is for *)
(* what the page shows (ListInOrder).                                      *)
(***************************************************************************)

PageLoad == [list : {"none", "installed", "discover"}, of : SUBSET (PageScopes \union Queries),
             installs : BOOLEAN]

(* requests are for what was chosen; a slot that is not used holds nothing *)
LoadsAreSent ==
  \A l \in Loads :
    /\ load[l].list = "none" => load[l] = NoLoad
    /\ load[l].list = "installed" => \E s \in PageScopes : load[l].of = {s}
    /\ load[l].list = "discover" => \E q \in Queries : load[l].of = {q}

(* A list that was not overtaken has one request at most; as long as its tab  *)
(* is shown that request is for what is chosen, and so is the list without it *)
ListInOrder(list, chosen, shown) ==
  list \notin overtaken =>
    /\ \A l, o \in Loads : load[l].list = list /\ load[o].list = list => l = o
    /\ view = list =>
         /\ \A l \in Loads : load[l].list = list => load[l].of = {chosen}
         /\ shown \subseteq {chosen} \/ \E l \in Loads : load[l].list = list

PageInv ==
  /\ LoadsAreSent
  /\ ListInOrder("installed", scope, configs)
  /\ ListInOrder("discover", query, packages)

(* One more request: a slot holds it, the others are as they were left, and it *)
(* is not overtaken only if it is alone and for what is chosen.                *)
LoadBegun(left, list, of) ==
  /\ load' \in [Loads -> PageLoad]
  /\ \E l \in Loads : /\ left[l] = NoLoad /\ load'[l].list = list /\ load'[l].of = {of}
                      /\ \A o \in Loads : o # l => load'[o] = left[o]
  /\ overtaken' \subseteq {"installed", "discover"}
  /\ overtaken' \in {overtaken \union {list}, overtaken \ {list}}
  /\ list \notin overtaken' =>
       /\ \A l \in Loads : left[l].list # list
       /\ list = "installed" => of = scope'

\* Whatever begins a request begins one more.
LEMMA OneMoreLoad ==
  ASSUME NEW left \in [Loads -> PageLoad], overtaken \subseteq {"installed", "discover"},
         NEW list \in {"installed", "discover"}, NEW of \in PageScopes \union Queries,
         NEW installs \in BOOLEAN, BeginLoad(left, list, of, installs)
  PROVE  LoadBegun(left, list, of)
<1>1. PICK l \in Loads : left[l] = NoLoad /\ load' = [left EXCEPT ![l] = Sent(list, of, installs)]
  BY DEF BeginLoad
<1>2. Sent(list, of, installs) \in PageLoad
  BY DEF Sent, PageLoad
<1>3. /\ load' \in [Loads -> PageLoad]
      /\ load'[l].list = list /\ load'[l].of = {of}
      /\ \A o \in Loads : o # l => load'[o] = left[o]
  BY <1>1, <1>2 DEF Sent
<1>a. overtaken' \in {overtaken \union {list}, overtaken \ {list}}
  BY DEF BeginLoad
<1>4. /\ overtaken' \subseteq {"installed", "discover"}
      /\ overtaken' \in {overtaken \union {list}, overtaken \ {list}}
  BY <1>a
<1>5. list \notin overtaken' =>
        /\ \A o \in Loads : left[o].list # list
        /\ list = "installed" => of = scope'
  <2>1. \A o \in Loads : left[o].list = list => list \in overtaken'
    BY DEF BeginLoad
  <2>2. list = "installed" /\ of # scope' => list \in overtaken'
    BY DEF BeginLoad
  <2> QED BY <2>1, <2>2
<1> QED BY <1>1, <1>3, <1>4, <1>5 DEF LoadBegun

\* The effect of a tab that is shown anew: both lists are in order again, when
\* nothing but answered requests has been taken from the slots.
LEMMA EffectKeepsOrder ==
  ASSUME PageTypeOK, PageInv, NEW left \in [Loads -> PageLoad],
         \A l \in Loads : left[l] = load[l] \/ left[l] = NoLoad,
         view' \in {"installed", "discover"}, scope' \in PageScopes, query' \in Queries,
         Effect(left),
         view' = "installed" => UNCHANGED query,
         view' = "discover" /\ view = "installed" => UNCHANGED scope
  PROVE  /\ load' \in [Loads -> PageLoad] /\ overtaken' \subseteq {"installed", "discover"}
         /\ PageInv'
<1> USE DEF PageTypeOK, PageInv
<1>0. NoLoad.list = "none"
  BY DEF NoLoad
<1>1. CASE view' = "installed"
  <2>1. BeginLoad(left, "installed", scope', FALSE) /\ scope' \in PageScopes \union Queries
    BY <1>1 DEF Effect, LoadOf
  <2>2. LoadBegun(left, "installed", scope')
    BY <2>1, OneMoreLoad
  <2>3. PICK l \in Loads : /\ left[l] = NoLoad /\ load'[l].list = "installed" /\ load'[l].of = {scope'}
                           /\ \A o \in Loads : o # l => load'[o] = left[o]
    BY <2>2 DEF LoadBegun
  <2>4. LoadsAreSent'
    BY <2>3, <1>0 DEF LoadsAreSent
  <2>5. ListInOrder("installed", scope, configs)'
    BY SMTT(20), <2>2, <2>3, <1>0 DEF ListInOrder, LoadBegun
  <2>6. ListInOrder("discover", query, packages)'
    BY <1>1, <2>2, <2>3, <1>0 DEF ListInOrder, LoadBegun
  <2> QED BY <2>2, <2>4, <2>5, <2>6 DEF LoadBegun
<1>2. CASE view' = "discover"
  <2>1. BeginLoad(left, "discover", query', FALSE) /\ query' \in PageScopes \union Queries
    BY <1>2 DEF Effect, LoadOf
  <2>2. LoadBegun(left, "discover", query')
    BY <2>1, OneMoreLoad
  <2>3. PICK l \in Loads : /\ left[l] = NoLoad /\ load'[l].list = "discover" /\ load'[l].of = {query'}
                           /\ \A o \in Loads : o # l => load'[o] = left[o]
    BY <2>2 DEF LoadBegun
  <2>4. LoadsAreSent'
    BY <2>3, <1>0 DEF LoadsAreSent
  <2>5. ListInOrder("discover", query, packages)'
    BY <2>2, <2>3, <1>0 DEF ListInOrder, LoadBegun
  <2>6. ListInOrder("installed", scope, configs)'
    BY <1>2, <2>2, <2>3, <1>0 DEF ListInOrder, LoadBegun
  <2> QED BY <2>2, <2>4, <2>5, <2>6 DEF LoadBegun
<1> QED BY <1>1, <1>2

\* The state of the page keeps its types, and its lists stay in order.
LEMMA PageStaysInOrder ==
  ASSUME PageTypeOK, PageInv, [PageNext]_pageVars
  PROVE  PageTypeOK' /\ PageInv'
<1> USE DEF PageTypeOK
<1>0. load \in [Loads -> PageLoad]
  BY DEF PageLoad
<1>1. CASE UNCHANGED pageVars
  BY <1>1 DEF pageVars, PageInv, LoadsAreSent, ListInOrder
<1>2. ASSUME NEW v \in {"installed", "discover"}, SetView(v)
      PROVE  PageTypeOK' /\ PageInv'
  BY <1>0, <1>2, EffectKeepsOrder DEF SetView, PageLoad
<1>3. ASSUME NEW s \in PageScopes, SetScope(s)
      PROVE  PageTypeOK' /\ PageInv'
  BY <1>0, <1>3, EffectKeepsOrder DEF SetScope, PageLoad
<1>4. ASSUME NEW q \in Queries, SetQuery(q)
      PROVE  PageTypeOK' /\ PageInv'
  BY <1>0, <1>4, EffectKeepsOrder DEF SetQuery, PageLoad
<1>5. ASSUME NEW e \in Edits, HandleEdit(e)
      PROVE  PageTypeOK' /\ PageInv'
  <2>1. [of |-> scope, installs |-> view = "discover"] \in [of : PageScopes, installs : BOOLEAN]
    OBVIOUS
  <2>2. PageTypeOK'
    BY <1>5, <2>1 DEF HandleEdit
  <2> QED BY <1>5, <2>2 DEF HandleEdit, PageInv, LoadsAreSent, ListInOrder
<1>6. ASSUME NEW e \in Edits, EditAnswered(e)
      PROVE  PageTypeOK' /\ PageInv'
  <2>1. CASE UNCHANGED <<load, overtaken>>
    BY <1>6, <2>1 DEF EditAnswered, PageInv, LoadsAreSent, ListInOrder
  <2>2. ASSUME NEW was \in edit[e], BeginLoad(load, "installed", was.of, was.installs)
        PROVE  PageTypeOK' /\ PageInv'
    <3>1. was.of \in PageScopes /\ was.of \in PageScopes \union Queries /\ was.installs \in BOOLEAN
      OBVIOUS
    <3>2. LoadBegun(load, "installed", was.of)
      BY <1>0, <2>2, <3>1, OneMoreLoad
    <3>3. PICK l \in Loads : /\ load[l] = NoLoad /\ load'[l].list = "installed" /\ load'[l].of = {was.of}
                             /\ \A o \in Loads : o # l => load'[o] = load[o]
      BY <3>2 DEF LoadBegun
    <3>4. PageTypeOK'
      BY <1>6, <3>2 DEF EditAnswered, PageLoad, LoadBegun
    <3>5. NoLoad.list = "none"
      BY DEF NoLoad
    <3>6. LoadsAreSent'
      BY <3>1, <3>3 DEF LoadsAreSent, PageInv
    <3>7. ListInOrder("installed", scope, configs)'
      BY <3>2, <3>3, <3>5 DEF ListInOrder, LoadBegun
    <3>8. ListInOrder("discover", query, packages)'
      BY <1>6, <3>2, <3>3, <3>5 DEF ListInOrder, PageInv, EditAnswered, LoadBegun
    <3> QED BY <3>4, <3>6, <3>7, <3>8 DEF PageInv
  <2> QED BY <1>6, <2>1, <2>2 DEF EditAnswered
<1>7. ASSUME NEW l \in Loads, LoadAnswered(l)
      PROVE  PageTypeOK' /\ PageInv'
  <2> DEFINE left == [load EXCEPT ![l] = NoLoad]
  <2>1. NoLoad \in PageLoad /\ NoLoad.list = "none"
    BY DEF NoLoad, PageLoad
  <2>2. /\ left \in [Loads -> PageLoad] /\ left[l] = NoLoad
        /\ \A o \in Loads : o # l => left[o] = load[o]
    BY <1>0, <2>1
  <2>3. /\ load[l].list # "none"
        /\ load[l].list = "installed" => \E s \in PageScopes : load[l].of = {s}
        /\ load[l].list = "discover" => \E q \in Queries : load[l].of = {q}
    BY <1>7 DEF LoadAnswered, PageInv, LoadsAreSent
  <2>4. /\ UNCHANGED <<scope, query, edit>>
        /\ configs' \subseteq PageScopes /\ packages' \subseteq Queries
        /\ load[l].list = "installed" => configs' \subseteq load[l].of /\ UNCHANGED packages
        /\ load[l].list = "discover" => packages' \subseteq load[l].of /\ UNCHANGED configs
    BY <1>7, <2>3 DEF LoadAnswered
  <2>5. CASE load[l].installs /\ view # "installed"
    <3>1. view' = "installed" /\ Effect(left)
      BY <1>7, <2>5 DEF LoadAnswered
    <3>2. load' \in [Loads -> PageLoad] /\ overtaken' \subseteq {"installed", "discover"} /\ PageInv'
      <4> HIDE DEF left
      <4> QED BY <2>2, <2>4, <3>1, EffectKeepsOrder
    <3> QED BY <2>4, <3>1, <3>2 DEF PageLoad
  <2>6. CASE ~(load[l].installs /\ view # "installed")
    <3>1. load' = left /\ UNCHANGED <<view, overtaken>>
      BY <1>7, <2>6 DEF LoadAnswered
    <3>2. PageTypeOK'
      BY <2>2, <2>4, <3>1 DEF PageLoad
    <3> HIDE DEF left
    <3>3. LoadsAreSent'
      BY <2>1, <2>2, <3>1 DEF LoadsAreSent, PageInv
    <3>4. ListInOrder("installed", scope, configs)'
      BY <2>1, <2>2, <2>3, <2>4, <3>1 DEF ListInOrder, PageInv
    <3>5. ListInOrder("discover", query, packages)'
      BY <2>1, <2>2, <2>3, <2>4, <3>1 DEF ListInOrder, PageInv
    <3> QED BY <3>2, <3>3, <3>4, <3>5 DEF PageInv
  <2> QED BY <2>5, <2>6
<1> QED BY <1>1, <1>2, <1>3, <1>4, <1>5, <1>6, <1>7 DEF PageNext

\* The state of the page of extensions is well typed.
LEMMA PageBegins == PageInit => PageTypeOK /\ PageInv
<1> SUFFICES ASSUME PageInit PROVE PageTypeOK /\ PageInv
  OBVIOUS
<1>1. PICK l \in Loads :
        load = [o \in Loads |-> IF o = l THEN Sent("installed", scope, FALSE) ELSE NoLoad]
  BY DEF PageInit
<1>2. PageTypeOK
  BY <1>1 DEF PageInit, PageTypeOK, Sent, NoLoad
<1>3. PageInv
  BY <1>1 DEF PageInit, PageInv, LoadsAreSent, ListInOrder, Sent, NoLoad
<1> QED BY <1>2, <1>3

\* The page of extensions, its lists and the requests for them are well typed.
THEOREM PageTypeCorrect == PageSpec => []PageTypeOK
BY PageBegins, PageStaysInOrder, PTL DEF PageSpec

\* A list that was not overtaken is of the scope, or the query, that the page
\* shows, once its requests are answered (settings-extensions.tsx: fetchConfigs,
\* the effect of the tab, handleInstall).
THEOREM OvertakenListsMislead == PageSpec => []OnlyOvertakenListsMislead
<1>1. PageInv => OnlyOvertakenListsMislead
  BY DEF PageInv, ListInOrder, OnlyOvertakenListsMislead
<1> QED BY <1>1, PageBegins, PageStaysInOrder, PTL DEF PageSpec
=============================================================================
