----------------------------- MODULE Extensions -----------------------------
(***************************************************************************)
(* Extension packages and their configuration: rows by scope, how they     *)
(* resolve for a session, the settings file that is written for it when it *)
(* is created, activated or restarted, and the mark that tells its users   *)
(* to restart.  One session; the rows of other sessions are the scope      *)
(* "other".                                                                *)
(***************************************************************************)
EXTENDS Naturals, FiniteSets

CONSTANTS
  Mode,           \* the session's mode, "chat" or "code"
  Packages,
  Fields,         \* of a configuration
  Values,
  MaxRows,        \* rows at a time
  Requests        \* activations and restarts

ASSUME ExtensionsAssumption == Mode \in {"chat", "code"} /\ MaxRows \in Nat

Scopes == {"global", "chat", "code", "session", "other"}

(* a configuration sets some of the fields *)
Configs == UNION {[F -> Values] : F \in SUBSET Fields}

VARIABLES
  rows,       \* the table: scope and package to configuration
  status,     \* of the session: "creating", "active", "idle", "error"
  stale,      \* its extensionsStale
  settings,   \* its settings.json: package to configuration
  request,    \* where each activation or restart is
  seen,       \* an activation has read a session that is not active, or stale
  missed      \* observation: rows changed when no mark would stay, settings unwritten since

extensionVars == <<rows, status, stale, settings, request, seen, missed>>

(* { ...prev, ...next } *)
Merge(prev, next) ==
  [f \in DOMAIN prev \union DOMAIN next |-> IF f \in DOMAIN next THEN next[f] ELSE prev[f]]

(* the rows that concern the session *)
Relevant == {k \in DOMAIN rows : k[1] \in {"global", Mode, "session"}}

ConfigIn(where, p) == IF <<where, p>> \in DOMAIN rows THEN rows[<<where, p>>] ELSE <<>>

(* merged in the order of scopePriority *)
Resolved ==
  [p \in {k[2] : k \in Relevant} |->
     Merge(Merge(ConfigIn("global", p), ConfigIn(Mode, p)), ConfigIn("session", p))]

ExtensionInit ==
  /\ rows = <<>>
  /\ status = "creating"
  /\ stale = FALSE
  /\ settings = <<>>
  /\ request = [q \in Requests |-> "unsent"]
  /\ seen = [q \in Requests |-> FALSE]
  /\ missed = FALSE

(***************************************************************************)
(* Changes of the rows.  Sessions that are active are marked.              *)
(***************************************************************************)
(* marks the sessions of the mode alone *)
AffectedByMode(where) == where = Mode

Affected(where) == where \in {"global", "session", Mode}

(* requests whose settings are written and whose end is to come *)
Writers == {q \in Requests : request[q] \in {"resuming", "authorising", "starting"}}

MarkStale(where) ==
  /\ stale' = (stale \/ (status = "active" /\ Affected(where)))
  /\ missed' = (missed \/ status # "active" \/ Writers # {})
  /\ UNCHANGED <<status, settings, request, seen>>

Put(k, config) == [l \in DOMAIN rows \union {k} |-> IF l = k THEN config ELSE rows[l]]

(* POST: a package that is there keeps its configuration unless one is sent *)
AddPackage(where, p) ==
  /\ \/ \E config \in Configs : rows' = Put(<<where, p>>, config)
     \/ <<where, p>> \in DOMAIN rows /\ UNCHANGED rows
  /\ Cardinality(DOMAIN rows') <= MaxRows
  /\ MarkStale(where)

UpdateConfig(k) ==
  /\ \E config \in Configs : rows' = [rows EXCEPT ![k] = config]
  /\ MarkStale(k[1])

DeletePackage(k) ==
  /\ rows' = [l \in DOMAIN rows \ {k} |-> rows[l]]
  /\ MarkStale(k[1])

(***************************************************************************)
(* The session.  Its settings are those of the rows when it was created.   *)
(***************************************************************************)
WriteSettings == settings' = Resolved /\ missed' = FALSE

FirstProvisioned ==
  /\ status = "creating"
  /\ \A q \in Requests : request[q] # "starting"
  /\ status' \in {"active", "error"}
  /\ UNCHANGED <<rows, stale, settings, request, seen, missed>>

ReaperIdlesSession ==
  /\ status = "active"
  /\ status' = "idle"
  /\ UNCHANGED <<rows, stale, settings, request, seen, missed>>

ActivationBegins(q) ==
  /\ request[q] = "unsent"
  /\ status \in {"active", "idle"}
  /\ request' = [request EXCEPT ![q] = "resuming"]
  /\ seen' = [seen EXCEPT ![q] = status # "active" \/ stale]
  /\ WriteSettings
  /\ UNCHANGED <<rows, status, stale>>

(* decided by what was read before the sandbox was resumed *)
ActivationEnds(q) ==
  /\ request[q] = "resuming"
  /\ request' = [request EXCEPT ![q] = "done"]
  /\ \/ /\ status' = IF seen[q] THEN "active" ELSE status
        /\ stale' = (stale /\ ~seen[q])
     \/ UNCHANGED <<status, stale>>         \* the sandbox cannot be resumed
  /\ UNCHANGED <<rows, settings, seen, missed>>

RestartReads(q) ==
  /\ request[q] = "unsent"
  /\ request' = [request EXCEPT ![q] = "terminating"]
  /\ UNCHANGED <<rows, status, stale, settings, seen, missed>>

RestartWrites(q) ==
  /\ request[q] = "terminating"
  /\ request' = [request EXCEPT ![q] = "authorising"]
  /\ WriteSettings
  /\ UNCHANGED <<rows, status, stale, seen>>

RestartCreates(q) ==
  /\ request[q] = "authorising"
  /\ request' = [request EXCEPT ![q] = "starting"]
  /\ status' = "creating"
  /\ UNCHANGED <<rows, stale, settings, seen, missed>>

RestartProvisioned(q) ==
  /\ request[q] = "starting"
  /\ request' = [request EXCEPT ![q] = "done"]
  /\ \/ status' = "active" /\ stale' = FALSE
     \/ status' = "error" /\ UNCHANGED stale
  /\ UNCHANGED <<rows, settings, seen, missed>>

ExtensionNext ==
  \/ \E where \in Scopes, p \in Packages : AddPackage(where, p)
  \/ \E k \in DOMAIN rows : DeletePackage(k) \/ UpdateConfig(k)
  \/ FirstProvisioned \/ ReaperIdlesSession
  \/ \E q \in Requests :
       \/ ActivationBegins(q) \/ ActivationEnds(q)
       \/ RestartReads(q) \/ RestartWrites(q) \/ RestartCreates(q) \/ RestartProvisioned(q)

ExtensionSpec == ExtensionInit /\ [][ExtensionNext]_extensionVars

-----------------------------------------------------------------------------
ExtensionTypeOK ==
  /\ \E K \in SUBSET (Scopes \X Packages) : rows \in [K -> Configs]
  /\ status \in {"creating", "active", "idle", "error"}
  /\ \E P \in SUBSET Packages : settings \in [P -> Configs]
  /\ request \in [Requests -> {"unsent", "resuming", "terminating", "authorising", "starting", "done"}]
  /\ seen \in [Requests -> BOOLEAN]
  /\ {stale, missed} \subseteq BOOLEAN

(***************************************************************************)
(* An active session whose settings are out of date carries the mark,      *)
(* unless the change came while it was not active, or between the settings *)
(* and the end of an activation or restart, which then takes the mark away *)
(* (extension-configs.ts:348, sessions.ts:812, 1221).                      *)
(***************************************************************************)
OutOfDateIsMarked ==
  status = "active" /\ ~stale /\ ~missed => settings = Resolved
=============================================================================
