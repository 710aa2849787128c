---------------------------------- MODULE GitHub -------------------------------
(***************************************************************************)
(* How the relay speaks to GitHub: as an app that is connected with an id  *)
(* and a private key, or with a personal access token to fall back on.     *)
(* Who a session's commits are by, and with what it may push, is resolved  *)
(* in a sequence of requests, before each of which the settings are read   *)
(* again; they may be changed between any two.                             *)
(* GitHub is external: each request to it may succeed, refuse or fail.     *)
(***************************************************************************)
EXTENDS Naturals, FiniteSets

CONSTANTS
  Apps,      \* apps of GitHub
  Pats,      \* personal access tokens
  Jobs       \* requests of the relay that use GitHub

VARIABLES
  config,    \* github_app_config: {} or the app of the id
  pem,       \* the secret of the private key: {} or the app it is of, and whether it is enabled
  pat,       \* github_repos_access_token: {} or a token
  posted,    \* tokens that POST /token is validating
  job,       \* per job: what it is for, how far it is, and what it has found
  authStatus,    \* the page: what it knows of app and token
  repos      \* the page: by what auth the repositories it lists were found

githubVars == <<config, pem, pat, posted, job, authStatus, repos>>

Steps == {"none", "status", "installation", "token", "repos", "identity", "pat", "done", "failed"}
Idle == [for |-> "none", at |-> "none", app |-> {}, mode |-> "none", token |-> {}, identity |-> {},
         changed |-> FALSE]

GitHubInit ==
  /\ config = {} /\ pem = {} /\ pat = {} /\ posted = {}
  /\ job = [j \in Jobs |-> Idle]
  /\ authStatus = [app |-> FALSE, pat |-> FALSE] /\ repos = "none"

(***************************************************************************)
(* Settings.  connect writes the id and then the key, in one turn: a       *)
(* secret that someone has disabled stays so.                              *)
(***************************************************************************)
Disturbed == [j \in Jobs |-> IF job[j].at \in {"none", "done", "failed"} THEN job[j]
                              ELSE [job[j] EXCEPT !.changed = TRUE]]

Connect(a) ==
  /\ config' = {a}
  /\ pem' = {[of |-> a, enabled |-> \A key \in pem : key.enabled]}
  /\ job' = Disturbed
  /\ UNCHANGED <<pat, posted, authStatus, repos>>
Disconnect ==
  /\ config' = {} /\ pem' = {}
  /\ config # {} \/ pem # {}
  /\ job' = Disturbed
  /\ UNCHANGED <<pat, posted, authStatus, repos>>
(* the key is a secret like others: it can be switched off, or deleted *)
EditKey ==
  /\ \/ pem' = {[key EXCEPT !.enabled = ~@] : key \in pem}
     \/ pem' = {}
  /\ pem # {} /\ job' = Disturbed
  /\ UNCHANGED <<config, pat, posted, authStatus, repos>>

(* a token is kept once GitHub has found it valid *)
PostToken(t) ==
  /\ t \notin posted /\ posted' = posted \union {t}
  /\ UNCHANGED <<config, pem, pat, job, authStatus, repos>>
TokenValidated(t) ==
  /\ t \in posted /\ posted' = posted \ {t}
  /\ pat' \in {pat, {t}}
  /\ UNCHANGED <<config, pem, job, authStatus, repos>>
DeleteToken ==
  /\ pat # {} /\ pat' = {}
  /\ UNCHANGED <<config, pem, posted, job, authStatus, repos>>

(***************************************************************************)
(* What is read of the settings at one moment.                             *)
(***************************************************************************)
PrivateKey == {key.of : key \in {k \in pem : k.enabled}}
Configured == config # {} /\ PrivateKey # {}

(* GitHub knows an app by its id and by the key that is really its own *)
Knows == config # {} /\ config = PrivateKey
(* getAppMetadata: the name, or nothing where it fails *)
AppSlug == IF Knows THEN {config, {}} ELSE {{}}

(***************************************************************************)
(* A job: the auth of a repository, for a session, or the repositories     *)
(* that can be listed, for a page.                                         *)
(***************************************************************************)
JobGoes(j, fields) == job' = [job EXCEPT ![j] = fields]
Settings == UNCHANGED <<config, pem, pat, posted, authStatus, repos>>

Begin(j, what) ==
  /\ job[j] = Idle
  /\ JobGoes(j, [Idle EXCEPT !.for = what, !.at = "status"])
  /\ Settings

(* the token to fall back on is read when the app has failed *)
FallsBack(was) ==
  IF pat = {} THEN [was EXCEPT !.at = "failed"]
  ELSE [was EXCEPT !.at = "pat", !.mode = "pat", !.token = pat]

(* getStatus, which asks for the name of the app but does without it *)
GetStatus(j) ==
  /\ job[j].at = "status"
  /\ JobGoes(j, IF Configured THEN [job[j] EXCEPT !.at = "installation"] ELSE FallsBack(job[j]))
  /\ Settings
(* getRepoInstallationId, listInstallations: of the app that is configured by now *)
GetInstallation(j) ==
  /\ job[j].at = "installation"
  /\ \/ Knows /\ JobGoes(j, [job[j] EXCEPT !.at = "token", !.app = config])
     \/ JobGoes(j, FallsBack(job[j]))
  /\ Settings
(* the token of an installation, which is refused to any other app *)
GetInstallationToken(j) ==
  /\ job[j].at = "token"
  /\ \/ /\ Knows /\ config = job[j].app
        /\ JobGoes(j, [job[j] EXCEPT !.at = IF job[j].for = "auth" THEN "identity" ELSE "repos",
                                  !.mode = "app", !.token = config])
     \/ JobGoes(j, FallsBack(job[j]))
  /\ Settings
(* getActorIdentity reads the status once more; it never fails *)
GetActorIdentity(j) ==
  /\ job[j].at = "identity"
  /\ \E slug \in AppSlug : JobGoes(j, [job[j] EXCEPT !.at = "done", !.identity = slug])
  /\ Settings
ListInstallationRepos(j) ==
  /\ job[j].at = "repos"
  /\ \E result \in {[job[j] EXCEPT !.at = "done"], FallsBack(job[j])} : JobGoes(j, result)
  /\ Settings

(* who a token is of is asked with that token; a session does without an answer *)
PatOfNow(token) == pat
PatActor(token) == token
UsePat(j) ==
  /\ job[j].at = "pat"
  /\ IF job[j].for = "auth"
     THEN \E who \in {PatActor(job[j].token), {}} : JobGoes(j, [job[j] EXCEPT !.at = "done", !.identity = who])
     ELSE \E end \in {"done", "failed"} : JobGoes(j, [job[j] EXCEPT !.at = end])
  /\ Settings

(***************************************************************************)
(* The page: what it knows is loaded after each change of its own, and the *)
(* repositories whenever what it knows has changed.                        *)
(***************************************************************************)
Reload ==
  /\ authStatus' = [app |-> Configured, pat |-> pat # {}]
  /\ authStatus' # authStatus
  /\ UNCHANGED <<config, pem, pat, posted, job, repos>>
FetchRepos(j) == (authStatus.app \/ authStatus.pat) /\ Begin(j, "repos")
ReposFetched(j) ==
  /\ job[j].for = "repos" /\ job[j].at \in {"done", "failed"}
  /\ repos' = IF job[j].at = "done" THEN job[j].mode ELSE "none"
  /\ job' = [job EXCEPT ![j] = Idle]
  /\ UNCHANGED <<config, pem, pat, posted, authStatus>>
SessionIsMade(j) ==
  /\ job[j].for = "auth" /\ job[j].at \in {"done", "failed"}
  /\ job' = [job EXCEPT ![j] = Idle]
  /\ Settings

GitHubNext ==
  \/ \E a \in Apps : Connect(a)
  \/ Disconnect \/ EditKey \/ DeleteToken \/ Reload
  \/ \E t \in Pats : PostToken(t) \/ TokenValidated(t)
  \/ \E j \in Jobs :
       \/ Begin(j, "auth") \/ FetchRepos(j) \/ GetStatus(j) \/ GetInstallation(j)
       \/ GetInstallationToken(j) \/ GetActorIdentity(j) \/ ListInstallationRepos(j) \/ UsePat(j)
       \/ ReposFetched(j) \/ SessionIsMade(j)

GitHubSpec == GitHubInit /\ [][GitHubNext]_githubVars

-----------------------------------------------------------------------------
GitHubTypeOK ==
  /\ config \subseteq Apps /\ pem \subseteq [of : Apps, enabled : BOOLEAN]
  /\ pat \subseteq Pats /\ posted \subseteq Pats
  /\ job \in [Jobs -> [for : {"none", "auth", "repos"}, at : Steps, app : SUBSET Apps,
                       mode : {"none", "app", "pat"}, token : SUBSET (Apps \union Pats),
                       identity : SUBSET (Apps \union Pats), changed : BOOLEAN]]
  /\ authStatus \in [app : BOOLEAN, pat : BOOLEAN] /\ repos \in {"none", "app", "pat"}

(***************************************************************************)
(* A session commits as the one it pushes as: the identity is that of the  *)
(* token, or of nobody (github.service.ts:266-287), unless the app was     *)
(* changed while the auth was resolved; a personal token answers for       *)
(* itself whatever happens.                                                *)
(***************************************************************************)
TokenAndIdentityAreOne ==
  \A j \in Jobs :
    job[j].for = "auth" /\ job[j].at = "done" =>
      \/ job[j].identity \in {{}, job[j].token}
      \/ job[j].mode = "app" /\ job[j].changed
=============================================================================
