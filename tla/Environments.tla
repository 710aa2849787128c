------------------------------ MODULE Environments -----------------------------
(***************************************************************************)
(* Sandbox environments: the rows of the relay, the dialog of the          *)
(* dashboard that writes them once a probe has found their configuration   *)
(* available, and the sandboxes of sessions, which the relay finds again   *)
(* through what the row of their environment says by then.                 *)
(* A configuration is the type its fields belong to, the place they name   *)
(* (an image, a worker or a path of assets, 0 for none) and a secret.      *)
(* Left out is which row the dashboard offers first, the default.          *)
(***************************************************************************)
EXTENDS Naturals, FiniteSets

CONSTANTS
  Envs,       \* environments
  Homes,      \* sessions
  Keys,       \* secrets; 0 for none
  Paths,      \* what a configuration may name
  Types,      \* among "docker", "cloudflare" and "gondolin"
  MaxOpens,   \* dialogs opened (a bound)
  MaxProbes   \* probes under way (a bound)

ASSUME EnvironmentsAssumption ==
  /\ Paths # {} /\ Paths \subseteq Nat \ {0} /\ Keys \subseteq Nat \ {0}
  /\ Types \subseteq {"docker", "cloudflare", "gondolin"} /\ MaxOpens \in Nat /\ MaxProbes \in Nat

VARIABLES
  env,        \* rows: {} or a type and a configuration
  key,        \* secrets: "right" for the worker, "wrong" or "gone"
  dialog,     \* {} or the dialog that is open
  opens,      \* dialogs opened so far
  probe,      \* probes under way
  save,       \* requests to save under way
  home        \* sessions: {} or an environment and the place of the sandbox

environmentsVars ==
  <<env, key, dialog, opens, probe, save, home>>

Config == [kind : Types, place : Paths \union {0}, secret : Keys \union {0}]
Row == [type : Types, config : Config]
Form == [id : Envs \union {"new"}, type : Types, place : [Types -> Paths \union {0}],
         secret : Keys \union {0}, status : {"none", "probing", "available", "unavailable"},
         found : SUBSET Config,  \* observation: what the probe had asked about
         saving : BOOLEAN, installing : BOOLEAN]

ProbeRequest == [config : Config, live : BOOLEAN, answer : {"none", "available", "unavailable"}]
SaveRequest == [id : Envs \union {"new"}, type : Types, config : Config,
                found : SUBSET Config,  \* observation, as above
                answer : {"none", "done", "error"}]
Housed == [env : Envs, place : Paths \union {0}, state : {"live", "archived", "deleted"},
           left : BOOLEAN,   \* observation: a sandbox of it is still there
           moved : BOOLEAN]  \* observation: its environment has been changed

EnvironmentsInit ==
  /\ env = [e \in Envs |-> {}]
  /\ key = [k \in Keys |-> "right"]
  /\ dialog = {} /\ opens = 0 /\ probe = {} /\ save = {}
  /\ home = [h \in Homes |-> {}]

(***************************************************************************)
(* The relay.                                                              *)
(***************************************************************************)
ValidateConfig(type, config) ==
  CASE type = "docker" -> config.kind = "docker" /\ config.place # 0
    [] type = "cloudflare" -> config.kind = "cloudflare" /\ config.place # 0 /\ config.secret # 0
    [] OTHER -> TRUE

(* the sessions of environments that have changed, as they are marked here *)
Moved(es) ==
  [h \in Homes |-> {IF s.env \in es THEN [s EXCEPT !.moved = TRUE] ELSE s : s \in home[h]}]

(* a configuration sent for a new row, and one sent for a row there is *)
Create(s) ==
  /\ s.id = "new" /\ ValidateConfig(s.type, s.config)
  /\ \E e \in {o \in Envs : env[o] = {}} :
       env' = [env EXCEPT ![e] = {[type |-> s.type, config |-> s.config]}]
  /\ UNCHANGED home
Update(s) ==
  /\ s.id \in Envs
  /\ \E row \in env[s.id] :
       /\ ValidateConfig(row.type, s.config)
       /\ env' = [env EXCEPT ![s.id] = {[row EXCEPT !.config = s.config]}]
       /\ home' = IF row.config = s.config THEN home ELSE Moved({s.id})
Refused(s) ==
  IF s.id = "new" THEN ~ValidateConfig(s.type, s.config)
  ELSE \A row \in env[s.id] : ~ValidateConfig(row.type, s.config)

ServerSaves(s) ==
  /\ s \in save /\ s.answer = "none"
  /\ \/ (Create(s) \/ Update(s)) /\ save' = (save \ {s}) \union {[s EXCEPT !.answer = "done"]}
     \/ Refused(s) /\ save' = (save \ {s}) \union {[s EXCEPT !.answer = "error"]}
        /\ UNCHANGED <<env, home>>
  /\ UNCHANGED <<key, dialog, opens, probe>>

(* a row that a session refers to cannot be deleted *)
ReferencedByNone(e) == FALSE
Referenced(e) == \E h \in Homes : \E s \in home[h] : s.env = e /\ s.state # "deleted"
DeleteEnvironment(e) ==
  /\ env[e] # {} /\ ~Referenced(e)
  /\ env' = [env EXCEPT ![e] = {}]
  /\ UNCHANGED <<key, dialog, opens, probe, save, home>>

(* resolveEnvConfig, and the provider that is built from it *)
ResolveEnvConfig(row) ==
  [type |-> row.type,
   place |-> IF row.config.kind = row.type THEN row.config.place ELSE 0,
   token |-> IF row.type = "cloudflare" /\ row.config.kind = row.type /\ row.config.secret # 0
             THEN key[row.config.secret] ELSE "none"]

GetProvider(row) ==
  LET found == ResolveEnvConfig(row) IN
  found.type = "cloudflare" => found.place # 0 /\ found.token \notin {"none", "gone"}

(* Docker has one daemon, a worker its sandboxes, a path of assets its provider *)
Reaches(row, sandbox) ==
  LET found == ResolveEnvConfig(row) IN
  /\ GetProvider(row)
  /\ found.type = "docker" \/ found.place = sandbox.place
  /\ found.type = "cloudflare" => found.token = "right"

CreateSession(h, e) ==
  /\ home[h] = {}
  /\ \E row \in env[e] :
       /\ Reaches(row, [place |-> ResolveEnvConfig(row).place])
       /\ home' = [home EXCEPT ![h] = {[env |-> e, place |-> ResolveEnvConfig(row).place,
                                        state |-> "live", left |-> FALSE, moved |-> FALSE]}]
  /\ UNCHANGED <<env, key, dialog, opens, probe, save>>

(* terminateByProviderId: what fails is logged *)
Terminated(s) ==
  [s EXCEPT !.left = @ \/ (s.state = "live" /\ ~\E row \in env[s.env] : Reaches(row, s))]

ArchiveSession(h) ==
  /\ \E s \in home[h] :
       s.state = "live" /\ home' = [home EXCEPT ![h] = {[Terminated(s) EXCEPT !.state = "archived"]}]
  /\ UNCHANGED <<env, key, dialog, opens, probe, save>>
DeleteHome(h) ==
  /\ \E s \in home[h] :
       s.state # "deleted" /\ home' = [home EXCEPT ![h] = {[Terminated(s) EXCEPT !.state = "deleted"]}]
  /\ UNCHANGED <<env, key, dialog, opens, probe, save>>
(* the new sandbox is made where the row says now *)
RestartSession(h) ==
  /\ \E s \in home[h] : \E row \in env[s.env] :
       /\ s.state = "live" /\ Reaches(row, [place |-> ResolveEnvConfig(row).place])
       /\ home' = [home EXCEPT ![h] = {[Terminated(s) EXCEPT !.place = ResolveEnvConfig(row).place]}]
  /\ UNCHANGED <<env, key, dialog, opens, probe, save>>

ReplaceSecret(k) ==
  /\ key[k] # "gone"
  /\ \E to \in {"right", "wrong", "gone"} \ {key[k]} : key' = [key EXCEPT ![k] = to]
  /\ home' = Moved({e \in Envs : \E row \in env[e] : row.config.secret = k})
  /\ UNCHANGED <<env, dialog, opens, probe, save>>

(***************************************************************************)
(* The page, which loads the rows after each of its requests, and its      *)
(* dialog.                                                                 *)
(***************************************************************************)
(* a change of the configuration, or another dialog, cancels its probe *)
Cancelled == {[p EXCEPT !.live = FALSE] : p \in probe}
Blank == [t \in Types |-> IF t = "docker" THEN CHOOSE p \in Paths : TRUE ELSE 0]

OpenDialog(form) ==
  /\ opens < MaxOpens /\ opens' = opens + 1
  /\ dialog' = {form} /\ probe' = Cancelled
  /\ UNCHANGED <<env, key, save, home>>
OpenCreate ==
  \E t \in Types :
    OpenDialog([id |-> "new", type |-> t, place |-> Blank, secret |-> 0,
                status |-> "none", found |-> {}, saving |-> FALSE, installing |-> FALSE])
OpenEdit(e) ==
  \E row \in env[e] :
    OpenDialog([id |-> e, type |-> row.type, secret |-> row.config.secret,
                place |-> [Blank EXCEPT ![row.config.kind] = row.config.place],
                status |-> "none", found |-> {}, saving |-> FALSE, installing |-> FALSE])
CloseDialog ==
  /\ dialog # {} /\ dialog' = {} /\ probe' = Cancelled
  /\ UNCHANGED <<env, key, opens, save, home>>

Reconfigure(form) ==
  /\ dialog' = {[form EXCEPT !.status = "none", !.found = {}]} /\ probe' = Cancelled
  /\ UNCHANGED <<env, key, opens, save, home>>
ChooseType == \E d \in dialog, t \in Types : t # d.type /\ Reconfigure([d EXCEPT !.type = t])
ChoosePlace ==
  \E d \in dialog, p \in Paths : p # d.place[d.type] /\ Reconfigure([d EXCEPT !.place[d.type] = p])
ChooseSecret ==
  \E d \in dialog, k \in Keys :
    d.type = "cloudflare" /\ k # d.secret /\ key[k] # "gone" /\ Reconfigure([d EXCEPT !.secret = k])
(* without a path the assets go to a directory of the relay, which then is *)
(* the path; with one nothing changes but what the page says of them       *)
HandleInstallAssets ==
  /\ \E d \in dialog :
       /\ d.type = "gondolin" /\ d.place["gondolin"] = 0 /\ ~d.installing
       /\ dialog' = {[d EXCEPT !.installing = TRUE]}
  /\ UNCHANGED <<env, key, opens, probe, save, home>>
AssetsInstalled ==
  \E d \in dialog :
    /\ d.installing
    /\ \E p \in Paths : Reconfigure([d EXCEPT !.installing = FALSE, !.place["gondolin"] = p])
AssetsNotInstalled ==
  /\ \E d \in dialog : d.installing /\ dialog' = {[d EXCEPT !.installing = FALSE]}
  /\ UNCHANGED <<env, key, opens, probe, save, home>>

Shown(d) ==
  [kind |-> d.type, place |-> d.place[d.type], secret |-> IF d.type = "cloudflare" THEN d.secret ELSE 0]
Complete(d) ==
  CASE d.type = "docker" -> d.place["docker"] # 0
    [] d.type = "cloudflare" -> d.place["cloudflare"] # 0 /\ d.secret # 0
    [] OTHER -> TRUE

(* the timer of the probe, the answer of the relay, what the page makes of it *)
Probe ==
  /\ \E d \in dialog :
       /\ d.status = "none" /\ Complete(d) /\ Cardinality(probe) < MaxProbes
       /\ dialog' = {[d EXCEPT !.status = "probing"]}
       /\ probe' = probe \union {[config |-> Shown(d), live |-> TRUE, answer |-> "none"]}
  /\ UNCHANGED <<env, key, opens, save, home>>
ServerProbes(p) ==
  /\ p \in probe /\ p.answer = "none"
  /\ \E answer \in {"available", "unavailable"} :
       /\ answer = "available" =>
            GetProvider([type |-> p.config.kind, config |-> p.config])
       /\ probe' = (probe \ {p}) \union {[p EXCEPT !.answer = answer]}
  /\ UNCHANGED <<env, key, dialog, opens, save, home>>
AskedOnce(p) == TRUE
Asked(p) == p.live
ProbeAnswered(p) ==
  /\ p \in probe /\ p.answer # "none"
  /\ probe' = probe \ {p}
  /\ dialog' = {IF Asked(p) THEN [d EXCEPT !.status = p.answer, !.found = {p.config}] ELSE d : d \in dialog}
  /\ UNCHANGED <<env, key, opens, save, home>>

(* the type goes only with a new row *)
HandleSubmit ==
  /\ \E d \in dialog :
       /\ Complete(d) /\ d.status = "available" /\ ~d.saving
       /\ dialog' = {[d EXCEPT !.saving = TRUE]}
       /\ save' = save \union {[id |-> d.id, type |-> d.type, config |-> Shown(d),
                                found |-> d.found, answer |-> "none"]}
  /\ UNCHANGED <<env, key, opens, probe, home>>
(* whichever dialog is open by then is closed *)
SaveAnswered(s) ==
  /\ s \in save /\ s.answer # "none"
  /\ save' = save \ {s}
  /\ IF s.answer = "done" THEN dialog' = {} /\ probe' = Cancelled
     ELSE dialog' = {[d EXCEPT !.saving = FALSE] : d \in dialog} /\ UNCHANGED probe
  /\ UNCHANGED <<env, key, opens, home>>

EnvironmentsNext ==
  \/ OpenCreate \/ CloseDialog \/ ChooseType \/ ChoosePlace \/ ChooseSecret
  \/ HandleInstallAssets \/ AssetsInstalled \/ AssetsNotInstalled \/ Probe \/ HandleSubmit
  \/ \E p \in probe : ServerProbes(p) \/ ProbeAnswered(p)
  \/ \E s \in save : ServerSaves(s) \/ SaveAnswered(s)
  \/ \E e \in Envs : OpenEdit(e) \/ DeleteEnvironment(e) \/ (\E h \in Homes : CreateSession(h, e))
  \/ \E h \in Homes : ArchiveSession(h) \/ DeleteHome(h) \/ RestartSession(h)
  \/ \E k \in Keys : ReplaceSecret(k)

EnvironmentsSpec == EnvironmentsInit /\ [][EnvironmentsNext]_environmentsVars

-----------------------------------------------------------------------------
EnvironmentsTypeOK ==
  /\ env \in [Envs -> SUBSET Row]
  /\ key \in [Keys -> {"right", "wrong", "gone"}]
  /\ dialog \subseteq Form /\ Cardinality(dialog) <= 1 /\ opens \in 0..MaxOpens
  /\ probe \subseteq ProbeRequest /\ save \subseteq SaveRequest
  /\ home \in [Homes -> SUBSET Housed]

(***************************************************************************)
(* Whatever is changed while its probe is under way, the dialog saves no   *)
(* configuration but one a probe found available (environments.tsx:157).   *)
(***************************************************************************)
SavedWasProbed == \A s \in save : s.found = {s.config}

(***************************************************************************)
(* A sandbox outlives its session, or the one that replaces it, only when   *)
(* the environment it was made from has been changed since, or the secret   *)
(* of that environment: the relay has no other way to find it               *)
(* (manager.ts:379-397).                                                    *)
(***************************************************************************)
OnlyMovedSandboxesStay ==
  \A h \in Homes : \A s \in home[h] : s.left => s.moved
=============================================================================
