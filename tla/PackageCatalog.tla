----------------------------- MODULE PackageCatalog ----------------------------
(***************************************************************************)
(* The two caches behind the page of extensions: searches of npm, kept per *)
(* query, whose packages are described by manifests, kept per package.     *)
(* Both caches keep a TTL, and one of them what the other has kept.        *)
(* npm is external: what it says is known by the time it was read, and any *)
(* request to it may fail.  There is one query and one package, whose      *)
(* manifest is also read for the list of what is installed.  Searches are  *)
(* spaced out by a timer, which adds to the time that a step may take.     *)
(***************************************************************************)
EXTENDS Naturals, FiniteSets

CONSTANTS
  Gets,         \* requests under way: GET /packages, and those that need a manifest
  Ttl,          \* of both caches
  MaxTime       \* (a bound)

ASSUME CatalogAssumption == Ttl \in Nat \ {0} /\ MaxTime \in Nat

VARIABLES
  time,
  catalog,      \* {} or when the packages were read, and since when they are kept
  manifest,     \* {} or the same of the manifest; "read" is {} of one that npm has not
  get           \* requests: how far they are, what they have read

catalogVars == <<time, catalog, manifest, get>>

Times == 0..MaxTime
Entry == [read : Times, at : Times]
CatalogGet ==
  [for : {"none", "packages", "manifest"},
   at : {"none", "search", "packument", "schema", "done", "failed"},
   kept : SUBSET Entry, began : Times, searched : Times, asked : Times, read : Times,
   result : SUBSET Entry]
NotAsked == [for |-> "none", at |-> "none", kept |-> {}, began |-> 0, searched |-> 0,
             asked |-> 0, read |-> 0, result |-> {}]

CatalogInit ==
  /\ time = 0 /\ catalog = {} /\ manifest = {}
  /\ get = [g \in Gets |-> NotAsked]

TimePasses ==
  /\ time < MaxTime /\ time' = time + 1
  /\ UNCHANGED <<catalog, manifest, get>>

(* the time is taken before npm is asked, and what it said is kept as of then *)
Fresh(kept) == {e \in kept : time - e.at < Ttl}
StampedLate(r) == time
Stamped(r) == r.began

GoesTo(g, fields) == get' = [get EXCEPT ![g] = fields]
Ended(r, at, result) == [NotAsked EXCEPT !.for = r.for, !.at = at, !.result = result]

(* a search ends: the packages are as their manifest says, else as npm found them *)
Described(g, r, read) ==
  IF r.for = "manifest" THEN GoesTo(g, Ended(r, "done", {})) /\ UNCHANGED catalog
  ELSE LET entry == [read |-> IF read = {} THEN r.searched ELSE CHOOSE t \in read : TRUE,
                     at |-> Stamped(r)]
       IN catalog' = {entry} /\ GoesTo(g, Ended(r, "done", {entry}))

GetManifest(g, r) ==
  /\ IF Fresh(manifest) = {}
     THEN GoesTo(g, [r EXCEPT !.at = "packument", !.asked = time]) /\ UNCHANGED catalog
     ELSE \E m \in Fresh(manifest) : Described(g, r, m.read)
  /\ UNCHANGED manifest

Search(g) ==
  /\ get[g] = NotAsked
  /\ LET r == [NotAsked EXCEPT !.for = "packages"] IN
     IF Fresh(catalog) # {} THEN GoesTo(g, Ended(r, "done", catalog))
     ELSE GoesTo(g, [r EXCEPT !.at = "search", !.kept = catalog, !.began = time])
  /\ UNCHANGED <<time, catalog, manifest>>
NpmSearched(g) ==
  /\ get[g].at = "search"
  /\ GetManifest(g, [get[g] EXCEPT !.searched = time])
  /\ UNCHANGED time
ListByScope(g) ==
  /\ get[g] = NotAsked
  /\ GetManifest(g, [NotAsked EXCEPT !.for = "manifest"])
  /\ UNCHANGED time

PackumentRead(g) ==
  /\ get[g].at = "packument"
  /\ \/ /\ GoesTo(g, [get[g] EXCEPT !.at = "schema", !.read = time])
        /\ UNCHANGED <<catalog, manifest>>
     \/ /\ manifest' = {[read |-> {}, at |-> get[g].asked]}
        /\ Described(g, get[g], {})
  /\ UNCHANGED time
FetchSchema(g) ==
  /\ get[g].at = "schema"
  /\ manifest' = {[read |-> {get[g].read}, at |-> get[g].asked]}
  /\ Described(g, get[g], {get[g].read})
  /\ UNCHANGED time
(* a search that fails answers with what was kept when it began *)
NpmFails(g) ==
  /\ get[g].at \in {"search", "packument", "schema"}
  /\ GoesTo(g, Ended(get[g], IF get[g].kept = {} THEN "failed" ELSE "done", get[g].kept))
  /\ UNCHANGED <<time, catalog, manifest>>
Answered(g) ==
  /\ get[g].at \in {"done", "failed"} /\ GoesTo(g, NotAsked)
  /\ UNCHANGED <<time, catalog, manifest>>

CatalogNext ==
  \/ TimePasses
  \/ \E g \in Gets :
       \/ Search(g) \/ NpmSearched(g) \/ ListByScope(g) \/ PackumentRead(g) \/ FetchSchema(g)
       \/ NpmFails(g) \/ Answered(g)

CatalogSpec == CatalogInit /\ [][CatalogNext]_catalogVars

-----------------------------------------------------------------------------
CatalogTypeOK ==
  /\ time \in Times /\ catalog \subseteq Entry
  /\ manifest \subseteq [read : SUBSET Times, at : Times]
  /\ get \in [Gets -> CatalogGet]

(***************************************************************************)
(* Packages are served as npm had them less than one TTL before the time   *)
(* that is shown beside them (settings-extensions.tsx:418), though one     *)
(* cache is filled from the other, requests overlap and take their time,   *)
(* and a failure brings back what was kept                                 *)
(* (package-catalog.service.ts:100, 121).                                  *)
(***************************************************************************)
CatalogIsAsOldAsItSays ==
  \A g \in Gets : \A e \in get[g].result : e.read + Ttl > e.at
=============================================================================
