--------------------------- MODULE SessionLifecycle ---------------------------
(***************************************************************************)
(* The life of ONE session whose sandbox is a Docker container: the REST   *)
(* calls that create, activate, restart, archive and delete it             *)
(* (routes/sessions.ts, services/session.service.ts), the provisioning     *)
(* those start and do not await, the idle reaper (services/idle-reaper.ts) *)
(* and the Docker provider (sandbox/manager.ts, sandbox/docker.ts).        *)
(*                                                                         *)
(* Each call is a process that reads the session's row, awaits, and later  *)
(* writes the row without reading it again; a step here is the code        *)
(* between two awaits. A Docker operation and the handle's status it sets  *)
(* are one step, taken at some moment of the await.                        *)
(***************************************************************************)
EXTENDS Naturals, FiniteSets

CONSTANTS
  Calls,       \* REST calls that may be under way together (a bound)
  Tasks,       \* provisionings that may be under way together (a bound)
  Containers,  \* the containers Docker may ever make for the session (a bound)
  Reaper,      \* the idle reaper, of which there is one
  None         \* null

ASSUME LifecycleConstants ==
  /\ Reaper \notin Calls \union Tasks
  /\ Calls \cap Tasks = {}
  /\ None \notin Containers

VARIABLES
  status,      \* the row's status; "unborn" and "deleted" when there is no row
  providerId,  \* the row's sandboxProviderId
  container,   \* Docker's state of every container; "made" until a provisioning has
               \* returned it, whatever its process does
  handle,      \* the provider's cached handle: its container and _status
  call,        \* every call: its operation, where it awaits, what it read
  task,        \* every provisioning: who started it, where it awaits, its container
  reaper,      \* the reaper: where it awaits, the container it read
  connected,   \* the session's hub has a client
  attaching    \* the container the hub is attaching to, None when it is not

VARIABLES      \* observations, read by no action
  late,        \* who was under way when the session was archived
  lateClient,  \* the client connected while the reaper was suspending the session
  abandoned    \* a row was left "creating" by a failed create or a crash

row       == <<status, providerId>>
docker    == <<container, handle>>
processes == <<call, task, reaper>>
observed  == <<lateClient, abandoned>>
hub       == <<connected, attaching>>
vars      == <<row, docker, processes, hub, observed, late>>

Statuses == {"unborn", "creating", "active", "idle", "error", "archived", "deleted"}
Operations == {"activate", "restart", "archive", "delete"}

Resting   == [op |-> None, at |-> "resting", box |-> None, writes |-> FALSE]
Unused    == [at |-> "resting", box |-> None]
Unspawned == [chain |-> None, at |-> "resting", box |-> None]

RowExists == status \notin {"unborn", "deleted"}
UnderWay  == {c \in Calls : call[c].at # "resting"}
               \union {t \in Tasks : task[t].at # "resting"}
               \union (IF reaper.at = "resting" THEN {} ELSE {Reaper})

Init ==
  /\ status = "unborn" /\ providerId = None
  /\ container = [b \in Containers |-> "unmade"]
  /\ handle = Unused
  /\ call = [c \in Calls |-> Resting]
  /\ task = [t \in Tasks |-> Unspawned]
  /\ reaper = Unused
  /\ connected = FALSE /\ attaching = None
  /\ late = {} /\ lateClient = FALSE /\ abandoned = FALSE

\* Who is under way when the session is archived, until it is done.
NoteLate ==
  late' = CASE status' # "archived" -> {}
            [] status' = "archived" /\ status # "archived" -> UnderWay'
            [] OTHER -> late \intersect UnderWay'

-----------------------------------------------------------------------------
(* The row (session.service.ts).                                           *)

\* update() throws when the row is gone, and looks at nothing else.
UpdateRow(s, b) ==
  IF RowExists THEN status' = s /\ providerId' = b ELSE UNCHANGED row

Archived ==
  IF RowExists
    THEN status' = "archived" /\ UNCHANGED providerId
    ELSE UNCHANGED row

-----------------------------------------------------------------------------
(* The Docker provider.                                                    *)

Exists(b) == container[b] \notin {"unmade", "removed"}
Cached(b) == handle.box = b /\ handle.at # "stopped"

\* dockerStateToStatus.
DockerWord(state) == state
StatusOf(state)   == CASE state = "exited" -> "stopped"
                       [] state = "made"   -> "creating"
                       [] OTHER            -> state

\* getSandbox finds a usable cached handle, or asks Docker, or throws.
Known(b)        == b # None /\ (Cached(b) \/ Exists(b))
HandleStatus(b) == IF Cached(b) THEN handle.at ELSE StatusOf(container[b])

HandleIs(b, s)    == handle' = [at |-> s, box |-> b]

\* An operation that fails after getSandbox still leaves the handle it made cached.
LooksUp(b) == \/ UNCHANGED handle
              \/ Known(b) /\ HandleIs(b, HandleStatus(b))

ContainerIs(b, s) == container' = [container EXCEPT ![b] = s]

\* handle.resume(): a handle that says "running" is believed.
Resume(b) ==
  /\ Known(b)
  /\ HandleIs(b, "running")
  /\ CASE HandleStatus(b) = "running" -> UNCHANGED container
       [] HandleStatus(b) = "paused"  -> container[b] = "paused" /\ ContainerIs(b, "running")
       [] HandleStatus(b) = "stopped" -> container[b] = "exited" /\ ContainerIs(b, "running")
       [] OTHER                       -> FALSE

\* terminateByProviderId: every error is logged and swallowed, so the container may
\* survive, stopped or not; the handle says "stopped" all the same.
Terminate(b) ==
  IF Known(b)
    THEN /\ HandleIs(b, "stopped")
         /\ \/ ContainerIs(b, "removed")
            \/ Exists(b) /\ ContainerIs(b, "exited")
            \/ UNCHANGED container
    ELSE UNCHANGED docker

\* A container's process ends.
ContainerExits(b) ==
  /\ container[b] = "running"
  /\ ContainerIs(b, "exited")
  /\ UNCHANGED <<row, handle, processes, hub, observed>>
  /\ NoteLate

\* monitorContainer, once attached: Docker reports the end of the process, late or
\* not, or the connection to Docker fails; "error" is modelled as "stopped", for
\* getSandbox uses neither.
MonitorReports(b) ==
  /\ Cached(b)
  /\ HandleIs(b, "stopped")
  /\ UNCHANGED <<row, container, processes, hub, observed>>
  /\ NoteLate

-----------------------------------------------------------------------------
(* Provisioning: createForSession and what is chained to its promise.      *)

Spawn(t, chain) == task' = [task EXCEPT ![t] = [chain |-> chain, at |-> "queued", box |-> None]]

TaskGoes(t, at, b) == task' = [task EXCEPT ![t].at = at, ![t].box = b]
TaskEnds(t)        == task' = [task EXCEPT ![t] = Unspawned]

ForgetSandbox(b) == UpdateRow("active", providerId)
RecordSandbox(b) == UpdateRow("active", b)

\* .then: a restarted session is active on container b, whatever its row says by now;
\* a created one first gets its branch.
Resolves(t, b) ==
  IF task[t].chain = "restart"
    THEN RecordSandbox(b) /\ TaskEnds(t)
    ELSE TaskGoes(t, "branching", b) /\ UNCHANGED row

\* createSandbox returns a cached handle that is not stopped, or builds.
ProvisionStarts(t) ==
  /\ task[t].at = "queued"
  /\ IF handle.box # None /\ handle.at # "stopped"
       THEN Resolves(t, handle.box)
       ELSE TaskGoes(t, "building", None) /\ UNCHANGED row
  /\ UNCHANGED <<docker, call, reaper, hub, observed>>
  /\ NoteLate

\* createContainer: every container of the session has one name, and Docker refuses a
\* second container of the same name.
AnyName  == TRUE
NameFree == \A b \in Containers : ~Exists(b)
ProvisionCreates(t) ==
  /\ task[t].at = "building"
  /\ NameFree
  /\ \E b \in Containers : /\ container[b] = "unmade"
                           /\ ContainerIs(b, "made")
                           /\ TaskGoes(t, "starting", b)
  /\ UNCHANGED <<row, handle, call, reaper, hub, observed>>
  /\ NoteLate

\* The container starts and its handle is cached.
ProvisionBoots(t) ==
  /\ task[t].at = "starting"
  /\ ContainerIs(task[t].box, "running")
  /\ HandleIs(task[t].box, "running")
  /\ Resolves(t, task[t].box)
  /\ UNCHANGED <<call, reaper, hub, observed>>
  /\ NoteLate

\* .catch: clone, pull, createContainer, start or the check after it failed; the
\* container made so far is left behind.
IgnoreFailure == UNCHANGED row
RecordFailure == UpdateRow("error", providerId)
ProvisionFails(t) ==
  /\ task[t].at \in {"queued", "building", "starting"}
  /\ RecordFailure
  /\ TaskEnds(t)
  /\ UNCHANGED <<docker, call, reaper, hub, observed>>
  /\ NoteLate

\* The branch is there: the created session is active.
ProvisionReady(t) ==
  /\ task[t].at = "branching" /\ container[task[t].box] = "running"
  /\ RecordSandbox(task[t].box)
  /\ TaskEnds(t)
  /\ UNCHANGED <<docker, call, reaper, hub, observed>>
  /\ NoteLate

\* Making the branch throws, which is only logged: the row stays as it is.
ProvisionAbandons(t) ==
  /\ task[t].at = "branching"
  /\ TaskEnds(t)
  /\ abandoned' = (abandoned \/ status = "creating")
  /\ UNCHANGED <<row, docker, call, reaper, hub, lateClient>>
  /\ NoteLate

-----------------------------------------------------------------------------
(* The REST calls.                                                         *)

CallGoes(c, op, at, b, writes) ==
  call' = [call EXCEPT ![c] = [op |-> op, at |-> at, box |-> b, writes |-> writes]]
CallEnds(c) == call' = [call EXCEPT ![c] = Resting]

\* POST /: the row, then provisioning, not awaited. Writing the settings between
\* the two may throw: the row stays.
Create(t) ==
  /\ status = "unborn"
  /\ status' = "creating" /\ UNCHANGED providerId
  /\ \/ task[t].at = "resting" /\ Spawn(t, "create") /\ abandoned' = FALSE
     \/ UNCHANGED task /\ abandoned' = TRUE
  /\ UNCHANGED <<docker, call, reaper, hub, lateClient>>
  /\ NoteLate

\* One turn of activate's loop: give up, wait, or resume the sandbox the row names.
\* It will write "active" if the row it read is not active, or has extensionsStale.
ActivateTurn(c) ==
  \/ /\ RowExists /\ status # "error" /\ providerId # None
     /\ \E stale \in BOOLEAN :
          CallGoes(c, "activate", "resuming", providerId, stale \/ status # "active")
  \/ /\ RowExists /\ status # "error" /\ providerId = None
     /\ CallGoes(c, "activate", "polling", None, FALSE)

\* POST /:id/activate: archived and failed sessions are rejected, once.
AnyRow         == RowExists /\ status # "error"
Activatable    == RowExists /\ status \notin {"archived", "error"}
ActivateBegins(c) ==
  /\ call[c].at = "resting" /\ Activatable
  /\ ActivateTurn(c)
  /\ UNCHANGED <<row, docker, task, reaper, hub, observed>>
  /\ NoteLate

ActivatePolls(c) ==
  /\ call[c].op = "activate" /\ call[c].at = "polling"
  /\ ActivateTurn(c) \/ CallEnds(c)
  /\ UNCHANGED <<row, docker, task, reaper, hub, observed>>
  /\ NoteLate

ActivateResumes(c) ==
  /\ call[c].op = "activate" /\ call[c].at = "resuming"
  /\ Resume(call[c].box) /\ CallGoes(c, "activate", "resumed", None, call[c].writes)
  /\ UNCHANGED <<row, task, reaper, hub, observed>>
  /\ NoteLate

\* Anything thrown on the way is a 503.
ActivateFails(c) ==
  /\ call[c].op = "activate" /\ call[c].at = "resuming"
  /\ LooksUp(call[c].box)
  /\ CallEnds(c)
  /\ UNCHANGED <<row, container, task, reaper, hub, observed>>
  /\ NoteLate

ActivateAnswers(c) ==
  /\ call[c].op = "activate" /\ call[c].at = "resumed"
  /\ IF call[c].writes THEN UpdateRow("active", providerId) ELSE UNCHANGED row
  /\ CallEnds(c)
  /\ UNCHANGED <<docker, task, reaper, hub, observed>>
  /\ NoteLate

\* POST /:id/restart, POST /:id/archive, DELETE /:id read the row once.
NotDeleted     == RowExists
Restartable    == RowExists /\ status # "archived"
RestartBegins(c) ==
  /\ call[c].at = "resting" /\ Restartable
  /\ CallGoes(c, "restart", IF providerId = None THEN "terminated" ELSE "terminating", providerId, FALSE)
  /\ UNCHANGED <<row, docker, task, reaper, hub, observed>>
  /\ NoteLate

ArchiveBegins(c) ==
  /\ call[c].at = "resting" /\ RowExists /\ status # "archived"
  /\ CallGoes(c, "archive", IF providerId = None THEN "terminated" ELSE "terminating", providerId, FALSE)
  /\ UNCHANGED <<row, docker, task, reaper, hub, observed>>
  /\ NoteLate

DeleteBegins(c) ==
  /\ call[c].at = "resting" /\ RowExists
  /\ CallGoes(c, "delete", IF providerId = None THEN "terminated" ELSE "terminating", providerId, FALSE)
  /\ UNCHANGED <<row, docker, task, reaper, hub, observed>>
  /\ NoteLate

\* The await of terminateByProviderId.
Terminates(c) ==
  /\ call[c].at = "terminating"
  /\ Terminate(call[c].box)
  /\ CallGoes(c, call[c].op, "terminated", None, FALSE)
  /\ UNCHANGED <<row, task, reaper, hub, observed>>
  /\ NoteLate

\* restart goes on: "creating", and a new provisioning, not awaited; or it throws, for
\* the row is gone or the settings cannot be written, and the row stays as it is.
RestartEnds(c, t) ==
  /\ call[c].op = "restart" /\ call[c].at = "terminated"
  /\ \/ /\ RowExists /\ task[t].at = "resting"
        /\ Spawn(t, "restart")
        /\ status' = "creating" /\ abandoned' = FALSE
     \/ UNCHANGED <<status, task, abandoned>>
  /\ CallEnds(c)
  /\ UNCHANGED <<providerId, docker, reaper, hub, lateClient>>
  /\ NoteLate

ArchiveEnds(c) ==
  /\ call[c].op = "archive" /\ call[c].at = "terminated"
  /\ Archived
  /\ CallEnds(c)
  /\ UNCHANGED <<docker, task, reaper, hub, lateClient, abandoned>>
  /\ NoteLate

DeleteEnds(c) ==
  /\ call[c].op = "delete" /\ call[c].at = "terminated"
  /\ status' = "deleted" /\ providerId' = None
  /\ CallEnds(c)
  /\ UNCHANGED <<docker, task, reaper, hub, observed>>
  /\ NoteLate

-----------------------------------------------------------------------------
(* The idle reaper and the hub.                                            *)

ReaperGoes(at, b) == reaper' = [at |-> at, box |-> b]

\* tick() lists the active sessions, then awaits the suspension of others.
ReaperLists ==
  /\ reaper.at = "resting" /\ status = "active"
  /\ ReaperGoes("listed", providerId)
  /\ UNCHANGED <<row, docker, call, task, hub, observed>>
  /\ NoteLate

\* tick() comes to the session: it is skipped, or suspended if no client is there.
ReaperSkips ==
  /\ reaper.at = "listed"
  /\ reaper' = Unused
  /\ UNCHANGED <<row, docker, call, task, hub, observed>>
  /\ NoteLate

NobodyAsked     == TRUE
NobodyConnected == ~connected
ReaperSuspends ==
  /\ reaper.at = "listed" /\ NobodyConnected
  /\ ReaperGoes("suspending", reaper.box)
  /\ UNCHANGED <<row, docker, call, task, hub, observed>>
  /\ NoteLate

\* handle.pause(), or there is no sandbox any more.
PauseUntold(b) == ContainerIs(b, "paused") /\ HandleIs(b, "running")
Pause(b)       == ContainerIs(b, "paused") /\ HandleIs(b, "paused")
ReaperPauses ==
  /\ reaper.at = "suspending"
  /\ \/ /\ Known(reaper.box) /\ container[reaper.box] = "running"
        /\ Pause(reaper.box)
     \/ ~Known(reaper.box) /\ UNCHANGED docker
  /\ ReaperGoes("suspended", None)
  /\ UNCHANGED <<row, call, task, hub, observed>>
  /\ NoteLate

\* Any other error leaves the session as it is.
ReaperFails ==
  /\ reaper.at = "suspending"
  /\ LooksUp(reaper.box)
  /\ reaper' = Unused
  /\ UNCHANGED <<row, container, call, task, hub, observed>>
  /\ NoteLate

ReaperIdles ==
  /\ reaper.at = "suspended"
  /\ UpdateRow("idle", providerId)
  /\ reaper' = Unused
  /\ UNCHANGED <<docker, call, task, hub, observed>>
  /\ NoteLate

\* A WebSocket opens: onOpen lets a client in when the session is active, and the
\* hub attaches to the sandbox unless it still is or is about to be.
ClientConnects ==
  /\ ~connected /\ status = "active" /\ providerId # None
  /\ connected' = TRUE
  /\ attaching' \in IF attaching = None THEN {None, providerId} ELSE {attaching}
  /\ lateClient' = (reaper.at \in {"suspending", "suspended"})
  /\ UNCHANGED <<row, docker, processes, abandoned>>
  /\ NoteLate

ClientLeaves ==
  /\ connected
  /\ connected' = FALSE /\ lateClient' = FALSE
  /\ UNCHANGED <<row, docker, processes, attaching, abandoned>>
  /\ NoteLate

\* handle.attach() starts a container that is not running; Docker says a paused one is.
Attach(b) ==
  IF container[b] = "exited"
    THEN ContainerIs(b, "running") /\ HandleIs(b, "running")
    ELSE UNCHANGED container /\ HandleIs(b, HandleStatus(b))
HubAttaches ==
  /\ attaching # None
  /\ \/ Exists(attaching) /\ Attach(attaching)
     \/ UNCHANGED container /\ LooksUp(attaching)
  /\ attaching' = None
  /\ UNCHANGED <<row, processes, connected, observed>>
  /\ NoteLate

\* The relay crashes or is stopped, and starts again: calls, provisionings and
\* cached handles are lost, the row and the containers stay.
RelayRestarts ==
  /\ call' = [c \in Calls |-> Resting] /\ task' = [t \in Tasks |-> Unspawned]
  /\ reaper' = Unused /\ handle' = Unused
  /\ connected' = FALSE /\ attaching' = None
  /\ lateClient' = FALSE
  /\ abandoned' = (abandoned \/ status = "creating")
  /\ UNCHANGED <<row, container>>
  /\ NoteLate

-----------------------------------------------------------------------------
Next ==
  \/ \E t \in Tasks : \/ Create(t)
                      \/ ProvisionStarts(t)
                      \/ ProvisionCreates(t)
                      \/ ProvisionBoots(t)
                      \/ ProvisionFails(t)
                      \/ ProvisionReady(t)
                      \/ ProvisionAbandons(t)
  \/ \E c \in Calls : \/ ActivateBegins(c)
                      \/ ActivatePolls(c)
                      \/ ActivateResumes(c)
                      \/ ActivateFails(c)
                      \/ ActivateAnswers(c)
                      \/ RestartBegins(c)
                      \/ ArchiveBegins(c)
                      \/ DeleteBegins(c)
                      \/ Terminates(c)
                      \/ \E t \in Tasks : RestartEnds(c, t)
                      \/ ArchiveEnds(c)
                      \/ DeleteEnds(c)
  \/ \E b \in Containers : ContainerExits(b) \/ MonitorReports(b)
  \/ ReaperLists
  \/ ReaperSkips
  \/ ReaperSuspends
  \/ ReaperPauses
  \/ ReaperFails
  \/ ReaperIdles
  \/ ClientConnects
  \/ ClientLeaves
  \/ HubAttaches
  \/ RelayRestarts

Spec == Init /\ [][Next]_vars

-----------------------------------------------------------------------------
(* What the session's row, its container and the handle promise.           *)

OrNone(S) == S \union {None}

RowTypes ==
  /\ status \in Statuses
  /\ providerId \in OrNone(Containers)

DockerTypes ==
  /\ container \in [Containers -> {"unmade", "made", "running", "paused", "exited", "removed"}]
  /\ handle \in [at : {"resting", "creating", "running", "paused", "stopped"},
                 box : OrNone(Containers)]

ProcessTypes ==
  /\ call \in [Calls -> [op : OrNone(Operations),
                        at : {"resting", "polling", "resuming", "resumed", "terminating", "terminated"},
                        box : OrNone(Containers), writes : BOOLEAN]]
  /\ task \in [Tasks -> [chain : {"create", "restart", None},
                        at : {"resting", "queued", "building", "starting", "branching"},
                        box : OrNone(Containers)]]
  /\ reaper \in [at : {"resting", "listed", "suspending", "suspended"}, box : OrNone(Containers)]

HubTypes == connected \in BOOLEAN /\ attaching \in OrNone(Containers)

ObservedTypes ==
  /\ lateClient \in BOOLEAN /\ abandoned \in BOOLEAN
  /\ late \in SUBSET (Calls \union Tasks \union {Reaper})

TypeOK == RowTypes /\ DockerTypes /\ ProcessTypes /\ HubTypes /\ ObservedTypes

\* A session that is active or idle names its sandbox, whoever wrote the status last
\* and in whatever order: activate and the reaper write the status alone, and rely
\* on the provisioning to have written the id.
RowNamesSandbox == status \in {"active", "idle"} => providerId # None

\* No write brings a deleted session back.
DeletedIsFinal == [][status = "deleted" => status' = "deleted"]_vars

\* What is begun on an archived session leaves it archived: only a call, a
\* provisioning or a suspension already under way when it was archived can undo it.
OnlyLateWritersUnarchive ==
  [][status = "archived" /\ status' \notin {"archived", "deleted"}
       => late \intersect UnderWay # {}]_vars

\* A session left "creating" has a provisioning at work on it, unless creating it
\* failed half-way or the relay stopped.
CreatingIsWorkedOn ==
  status = "creating" => abandoned \/ \E t \in Tasks : task[t].at # "resting"

\* A session is idle under a connected client only if that client came while the
\* reaper was suspending it.
IdleClientCameLate == status = "idle" /\ connected => lateClient

\* The handle the provider caches and trusts agrees with Docker: activate skips no
\* unpause that is needed.
HandleIsTruthful ==
  \A b \in Containers : Cached(b) =>
    /\ handle.at = "running" => container[b] \in {"running", "exited"}
    /\ handle.at = "paused"  => container[b] = "paused"

\* A sandbox that has run is never lost while the relay runs: the row names it, or a
\* provisioning will write it there, or the next provisioning finds it in the cache.
SandboxIsFindable ==
  \A b \in Containers : container[b] \in {"running", "paused", "exited"} =>
    \/ providerId = b
    \/ \E t \in Tasks : task[t].box = b
    \/ handle.box = b \/ handle = Unused

-----------------------------------------------------------------------------
(* What the documents say, and the code does not keep.                     *)

\* "Terminate sandbox if still running": once a deletion is over, the provider holds
\* no live sandbox of the session.
DeletedSandboxIsGone ==
  status = "deleted" /\ UnderWay = {} => \A b \in Containers : ~(Exists(b) /\ Cached(b))

=============================================================================
