--------------------------------- MODULE Secrets -------------------------------
(***************************************************************************)
(* The secrets of the relay, the page that edits them, and how a sandbox   *)
(* is given them: whole, or, where a Gondolin sandbox can tell hosts       *)
(* apart, only for the domains that the secret is restricted to.           *)
(* A secret is known by its variable, which is unique; its value, which is *)
(* encrypted when it is stored and decrypted when it is read, is left out. *)
(***************************************************************************)
EXTENDS Naturals, FiniteSets

CONSTANTS
  Variables,   \* environment variables that name secrets
  Domains,     \* what may be written as a domain
  BadDomains,  \* those that normalizeDomains refuses
  MaxUnderWay  \* requests, and lists, under way (a bound)

ASSUME SecretsAssumption == BadDomains \subseteq Domains /\ MaxUnderWay \in Nat

VARIABLES
  secret,      \* rows: {} or whether it is enabled, and its domains
  listing,     \* the rows as the page last loaded them
  drawn,       \* rows of the page: {} or the domains that one shows
  edits,       \* requests under way
  lists,       \* answers of GET /secrets under way
  loose        \* observation: variables whose edits or lists overlapped, or went stale

secretsVars == <<secret, listing, drawn, edits, lists, loose>>

Kept == [enabled : BOOLEAN, domains : SUBSET Domains]
Bodies ==
  [what : {"create"}, enabled : BOOLEAN, domains : SUBSET Domains]
    \union [what : {"toggle"}, enabled : BOOLEAN]
    \union [what : {"domains"}, domains : SUBSET Domains]
    \union [what : {"value", "delete"}]

SecretsInit ==
  /\ secret = [v \in Variables |-> {}] /\ listing = secret
  /\ drawn = [v \in Variables |-> {}]
  /\ edits = {} /\ lists = {} /\ loose = {}

(***************************************************************************)
(* The relay: SecretsService and its routes.  Each request runs in one     *)
(* turn: the awaits between its reads and writes are of calls that are     *)
(* synchronous underneath.                                                 *)
(***************************************************************************)
NormalizedDomains(domains) == domains \cap BadDomains = {}

CreateSecret(v, body) ==
  /\ secret[v] = {} /\ NormalizedDomains(body.domains)
  /\ secret' = [secret EXCEPT ![v] = {[enabled |-> body.enabled, domains |-> body.domains]}]
UpdateSecret(v, body) ==
  /\ secret[v] # {}
  /\ body.what = "domains" => NormalizedDomains(body.domains)
  /\ secret' = [secret EXCEPT ![v] =
       {CASE body.what = "toggle" -> [s EXCEPT !.enabled = body.enabled]
          [] body.what = "domains" -> [s EXCEPT !.domains = body.domains]
          [] OTHER -> s : s \in secret[v]}]
Delete(v) == secret[v] # {} /\ secret' = [secret EXCEPT ![v] = {}]

Served(v, body) ==
  CASE body.what = "create" -> CreateSecret(v, body)
    [] body.what = "delete" -> Delete(v)
    [] OTHER -> UpdateSecret(v, body)

ServerAnswers(r) ==
  /\ r \in edits /\ r.answer = "none"
  /\ \/ /\ Served(r.of, r.body)
        /\ edits' = (edits \ {r}) \union {[r EXCEPT !.answer = "ok"]}
     \/ /\ CASE r.body.what = "create" -> secret[r.of] # {} \/ ~NormalizedDomains(r.body.domains)
             [] r.body.what = "domains" -> secret[r.of] = {} \/ ~NormalizedDomains(r.body.domains)
             [] OTHER -> secret[r.of] = {}
        /\ edits' = (edits \ {r}) \union {[r EXCEPT !.answer = "error"]}
        /\ UNCHANGED secret
  /\ UNCHANGED <<listing, drawn, lists, loose>>

(* getSecretMaterial: what a sandbox is given whole, and what only for hosts *)
Enabled(v) == \E s \in secret[v] : s.enabled
Restricted(v) == \E s \in secret[v] : s.domains # {}
DirectEnv(provider) == {v \in Variables : Enabled(v) /\ ~(provider = "gondolin" /\ Restricted(v))}
GondolinHookSecrets == {v \in Variables : Enabled(v) /\ Restricted(v)}

(***************************************************************************)
(* The page.  A row keeps the domains it was first drawn with, and those   *)
(* that it saved; a list that is loaded later does not change them.        *)
(***************************************************************************)
UnderWay(v) == {r \in edits : r.of = v}
Ask(v, body) ==
  /\ Cardinality(edits) + Cardinality(lists) < MaxUnderWay
  /\ edits' = edits \union {[of |-> v, body |-> body, answer |-> "none"]}
  /\ loose' = IF UnderWay(v) # {} \/ lists # {} THEN loose \union {v} ELSE loose
  /\ UNCHANGED <<secret, listing, drawn, lists>>

HandleAddSecret(v) ==
  \E enabled \in BOOLEAN, domains \in SUBSET Domains :
    Ask(v, [what |-> "create", enabled |-> enabled, domains |-> domains])
HandleToggle(v) ==
  \E s \in listing[v] :
    /\ \A r \in UnderWay(v) : r.body.what # "toggle"
    /\ Ask(v, [what |-> "toggle", enabled |-> ~s.enabled])
HandleUpdateValue(v) ==
  /\ listing[v] # {} /\ \A r \in UnderWay(v) : r.body.what # "value"
  /\ Ask(v, [what |-> "value"])
HandleDelete(v) ==
  /\ listing[v] # {} /\ \A r \in UnderWay(v) : r.body.what # "delete"
  /\ Ask(v, [what |-> "delete"])
(* one domain more, or one less, than the row shows *)
HandleSaveDomains(v) ==
  \E domains \in drawn[v], d \in Domains :
    Ask(v, [what |-> "domains",
            domains |-> IF d \in domains THEN domains \ {d} ELSE domains \union {d}])

ShowsAnyway(r) == TRUE
ShowsIfSaved(r) == r.answer = "ok"
PageHears(r) ==
  /\ r \in edits /\ r.answer # "none"
  /\ edits' = edits \ {r}
  /\ IF r.body.what = "domains"
     THEN /\ drawn' = [drawn EXCEPT ![r.of] =
               IF ShowsIfSaved(r) THEN {r.body.domains : d \in @} ELSE @]
          /\ UNCHANGED lists
     ELSE /\ lists' = IF r.answer = "ok" THEN lists \union {secret} ELSE lists
          /\ UNCHANGED drawn
  /\ loose' = IF r.answer = "ok" /\ lists # {} THEN Variables ELSE loose
  /\ UNCHANGED <<secret, listing>>

(* rows that were not there are drawn, those that are gone are not *)
LoadSecrets(l) ==
  /\ l \in lists /\ lists' = lists \ {l}
  /\ listing' = l
  /\ drawn' = [v \in Variables |->
       IF l[v] = {} THEN {}
       ELSE IF drawn[v] = {} THEN {s.domains : s \in l[v]} ELSE drawn[v]]
  /\ loose' = loose \union {v \in Variables : UnderWay(v) # {}}
  /\ UNCHANGED <<secret, edits>>

(* another kind is shown, and this one again: its rows are drawn anew from  *)
(* the list, which saved domains do not load again                          *)
ShowAnotherKind ==
  /\ drawn' = [v \in Variables |-> {s.domains : s \in listing[v]}]
  /\ loose' = loose \union {v \in Variables : listing[v] # secret[v] \/ UnderWay(v) # {}}
  /\ UNCHANGED <<secret, listing, edits, lists>>

SecretsNext ==
  \/ \E v \in Variables :
       HandleAddSecret(v) \/ HandleToggle(v) \/ HandleUpdateValue(v) \/ HandleDelete(v) \/ HandleSaveDomains(v)
  \/ \E r \in edits : ServerAnswers(r) \/ PageHears(r)
  \/ \E l \in lists : LoadSecrets(l)
  \/ ShowAnotherKind

SecretsSpec == SecretsInit /\ [][SecretsNext]_secretsVars

-----------------------------------------------------------------------------
SecretsTypeOK ==
  /\ secret \in [Variables -> SUBSET Kept] /\ listing \in [Variables -> SUBSET Kept]
  /\ drawn \in [Variables -> SUBSET SUBSET Domains]
  /\ edits \subseteq [of : Variables, body : Bodies, answer : {"none", "ok", "error"}]
  /\ lists \subseteq [Variables -> SUBSET Kept]
  /\ loose \subseteq Variables

(***************************************************************************)
(* What the page shows of a secret is how a Gondolin sandbox is given it   *)
(* (settings.tsx:121), unless its edits or lists overlapped, or its row    *)
(* was drawn from a list that is older than an edit of its domains.        *)
(***************************************************************************)
OnlyStaleRowsMislead ==
  \A v \in Variables \ loose :
    UnderWay(v) = {} /\ lists = {} =>
      /\ v \in GondolinHookSecrets
           <=> (\E s \in listing[v] : s.enabled) /\ (\E domains \in drawn[v] : domains # {})
      /\ v \in DirectEnv("gondolin")
           <=> (\E s \in listing[v] : s.enabled) /\ {} \in drawn[v]
=============================================================================
