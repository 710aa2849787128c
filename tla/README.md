# pi-apps in TLA+

pi-apps runs coding-agent sessions (`pi`) in sandboxes and lets several clients watch and steer each of them. The
relay (`src/server/relay`) is where the hard behaviour is: it keeps sessions in SQLite, drives sandboxes through a
provider, and fans the events of a sandbox out to WebSocket clients. It is one Node process, so a callback runs to its
next `await` undisturbed and everything else interleaves.

These modules model the relay's session hub, the life of a session, the sandbox providers behind it, the page that
follows it, and the services beside it. `PROJECT.json` maps every definition to the lines
it models; paths below are under `src/server/relay/src` unless they say otherwise.

## Inventory

| Component | State | Operations | What makes it correct |
|---|---|---|---|
| Session hub (`ws/session-hub.ts`) | clients by clientId, channel, attach promise, detach timer, controller, activator, last writer, running tools, last disconnection | addClient, removeClient, commands, capabilities, activator, sandbox events, detach, close; the manager's getOrCreate, removeIfEmpty, closeAll | the controller is somebody who is there; an attachment has one owner; replay and live stream join exactly; an empty hub goes away and no other does |
| WebSocket handler (`ws/handler.ts`) | one clientId per socket | onOpen (validates, adds), onMessage, onClose (removes, sets a timeout), onError | a closing socket takes away only itself |
| Event journal (`services/event-journal.ts`) | rows by session and seq | append, getAfterSeq, getMaxSeq, prune | seqs are consecutive; a replay is a suffix |
| Session routes (`routes/sessions.ts`) | none: the row is in the service | create, activate, restart, archive, delete; files, history, names | late writes do not undo later decisions |
| Session service (`services/session.service.ts`) | the session rows | create, update, archive, delete, listActiveSessions | a deleted row stays deleted; a status names a sandbox when it promises one |
| Idle reaper (`services/idle-reaper.ts`) | a loop | tick, idleSession | suspends nobody who is there, honours the reconnect grace |
| Session files (`routes/sessions.ts`) | an index and files on disk | upload, list, serve, share | an upload answered is listed |
| Sandbox manager (`sandbox/manager.ts`) | providers, a validation lock | createForSession, resumeSession, attachSession, terminateByProviderId, validateExtensionPackage | no sandbox is lost; one validation at a time |
| Docker provider (`sandbox/docker.ts`) | a handle per session with a status | createSandbox, getSandbox, resume, pause, terminate, attach, monitorContainer | the cached status agrees with Docker |
| Gondolin provider (`sandbox/gondolin`) | VM handles, channels | the same | the contract of `sandbox/types.ts` |
| Mock provider (`sandbox/mock.ts`) | handles, timers, generations | the same; prompts, bash | the same contract |
| Cloudflare provider, worker, bridge (`sandbox/cloudflare.ts`, `src/server/sandboxes/cloudflare`) | Durable Object state, backups, the pi process | create, pause with backup, resume with restore, expiry, terminate, bridge | no work is lost; resuming what runs changes nothing |
| Terminal sockets (`ws/terminal.ts`, dashboard `sandbox-terminal.tsx`) | a PTY per socket | open, input, resize, close | a closed socket leaves no PTY |
| Dashboard client (`src/clients/dashboard/app/lib/use-session-events.ts`) | events, last seq, sockets, refs | fetch, connect, activate, prompt, reconnect, clean up | nothing said is missed; no socket is left behind; the first prompt is sent once |
| Composer (dashboard `chat-input.tsx`) | the model shown | choose a model | it shows the model pi uses |
| Conversation reducers (dashboard `conversation.ts`, `events.ts`; native `EventReducer`, `HistoryParser`) | none (folds) | merge events, parse them | pieces merge like the whole; everything is said once |
| Native client (`src/clients/native`) | conversation, socket | as the dashboard | the same |
| Native bridge (`src/server/relay/extensions/native-bridge.ts`) | requests that wait, tools offered | ask for tools, call one, answer, time out, abort | an answer settles its own request |
| Extension configuration (`services/extension-*.ts`, `package-catalog.service.ts`, dashboard `settings-extensions.tsx`) | rows by scope; two caches of npm; the page's lists | CRUD, resolve, validate, search | a session that runs on old settings is marked; nothing is older than it says |
| Environments (`services/environment.service.ts`, dashboard `environments.tsx`) | rows; the dialog and its probe | CRUD, probe, resolve | what is saved was probed; a sandbox can be found again |
| Secrets (`services/secrets.service.ts`, dashboard `settings.tsx`) | rows, encrypted values; the page's rows | CRUD, restrict to domains | the page says how a sandbox is given a secret |
| GitHub (`services/github*.ts`, dashboard `github-setup.tsx`) | app, key, token | connect, resolve the auth of a session | who commits is who pushes |
| Models (`routes/models.ts`, `services/models-introspection.service.ts`) | a cache by fingerprint | list, refresh, introspect in a throwaway sandbox | what is served is current, or says it is not |
| Relay process (`index.ts`) | everything in memory | start, shutdown, crash | what is persisted can be picked up |

How they interact: a client first calls `POST /activate` (which resumes the sandbox and may name the client *activator* in
the hub), sets its capabilities by `PUT`, then opens a WebSocket. The handler hands it to the session's hub, which
attaches one channel to the sandbox and shares it. Sandbox events are journaled, then broadcast; prompts are journaled,
then sent. The reaper asks the hub whether anybody is there and the provider to pause. Restart, archive and delete
terminate through the provider, which closes the channel under the hub. Provisioning runs in a promise nobody awaits and
writes the row when it ends.

The hard behaviours are therefore: continuations after an `await` that use what was read before it (every route, the
reaper, `doAttach`); timers that nothing cancels (`handler.ts:188`); the same clientId on several sockets; a cached
handle beside the real container; promises that outlive what started them; and a crash that leaves rows and containers
but no memory. `PROJECT.json` lists each as a hazard at its line.

## Modules

| Module | What it is |
|---|---|
| `SessionHub` | one session's hub, its sockets, its journal, its timers and the sandbox end of its channel |
| `SessionHubProofs` | theorems about `SessionHub` |
| `MCSessionHub` | instances for TLC: who owns which socket |
| `SessionLifecycle` | one session's row, the REST calls, provisionings and the reaper that write it, Docker and the cached handle |
| `SessionLifecycleProofs` | theorems about `SessionLifecycle` |
| `MCSessionLifecycle` | instances for TLC and their symmetry |
| `Sandbox` | the abstract specification of a provider: status, machine and channel of one session's sandbox |
| `Gondolin`, `MockSandbox` | two providers; each instantiates `Sandbox` with a refinement mapping |
| `Cloudflare` | the third: provider, worker, bridge and backup |
| `Terminal` | a terminal of the dashboard, its socket and its PTY |
| `SessionClient` | `useSessionEvents` composed with the relay's side of its sockets |
| `Conversation` | a journal that grows, and the folds that turn it into a chat |
| `Composer` | the choice of a model |
| `NativeBridge` | requests of pi to a device |
| `SessionFiles` | uploads and the index of a session's files |
| `PackageValidation` | the validation lock, its cancellation and the throwaway VM |
| `Extensions` | packages by scope, the settings they resolve to, the mark of stale sessions |
| `PackageCatalog`, `ExtensionsPage` | the caches of npm; the page that lists packages |
| `Environments`, `Secrets`, `GitHub`, `Models` | each service with its routes and its page |
| `MCSessionParts`, `MCServices` | put the small modules side by side for TLC: a behaviour runs one of them, `part` |
| `SandboxProofs` | theorems about `MockSandbox`, `Gondolin` (that both implement `Sandbox`) and `Cloudflare` |
| `SessionPartsProofs` | theorems about `NativeBridge`, `SessionClient`, `Terminal`, `Composer` and `Conversation` |
| `PackageProofs` | theorems about `Extensions`, `PackageCatalog`, `PackageValidation` and `ExtensionsPage` |
| `SettingsProofs` | theorems about `Environments`, `Secrets`, `GitHub` and `Models` |
| `ServicesProofs` | theorems about `SessionFiles`, and what is proved of each service stated of `MCServices` |
| `PartsProofs` | what is proved of each part of a session stated of `MCSessionParts` |

### SessionHub

State. `entry`, `capable`, `connectedAt` are the `clients` map; `controller`, `activator`, `lastWriter`,
`disconnectedFor`, `tools`, `channel`, `attach`, `detachTimer` are the fields of the same name (`disconnectedFor` counts
the time since `lastDisconnectedAt`, `attach` is the channel `attachPromise` will deliver). `hubUp` says whether the
manager's map has the hub. `chan` is the sandbox side of each attachment, `sock` each WebSocket, `pending` what each
`addClient` awaits, `removal` the timeout each `onClose` has set. `journal` holds the kinds of the session's rows by seq
(`History` of them from an earlier life of the relay).
`row` is the little of the session the hub sees: active, being suspended, or idle.

Actions. One per handler or callback: `OnOpen` (with `AddClient` up to its await) and `Greet` (after it), `OnClose`,
`OnError`, `AttachDone`, `AttachFails`, `HandleClientCommand`, `SetClientCapabilities`, `SetActivatorClient`,
`SandboxMessage`, `ToolEvent`, `TransportCloses`, `HandleClosesChannel`, `DetachFires`, `RemoveFires`, the reaper's three
steps and `RelayRestarts`. Node runs the continuations of a settled promise before the next callback: an `addClient` whose
attachment is there is in the state "resume", and all other actions wait (`Quiet`) until every such one has gone on. A
hub closed while an attachment is in flight leaves a channel that it alone listens to ("stray").

Abstractions. The content of messages is gone but for what routing tells apart (prompt; broadcast event;
`extension_ui_request`). Time is in ticks; only the order of the three delays matters (detach grace < removal delay <
reconnect grace, as 15 s < 16 s < 300 s), and the runs take 0, 1 and 2 (or 3): a timer that is due has not fired
yet, so a reconnect still races it, and time stands still until it has. `extension_ui_response` changes no state and is not an action.
Activity (`lastActivityAt`) is not modelled: the reaper may suspend whenever clients, grace and tools allow it.

Observations (`told`, `sinceLeave`, `overlapped`, `cleared`) are written beside the actions and read by no guard.
`overlapped` collects the clientIds whose entry was dropped or replaced under a live socket; two properties exclude
those, because the first finding below already breaks every promise made to them.

### SessionLifecycle

State. `status` and `providerId` are the row ("unborn" before, "deleted" after it); `container` is Docker's own state of
each container, `handle` the provider's cached one with its `_status`. `call` holds every REST call under way with what
it has read, `task` every provisioning, `reaper` the reaper, `connected` and `attaching` the hub's client and attachment.

Actions. Each route is cut at the awaits that matter: activate (read the row; resume; write), restart (read; terminate;
write and spawn), archive and delete (read; terminate; write), provisioning (look in the cache; create; boot; branch),
the reaper (list; check; pause; write), a client's open and attach, a container's exit and its late report by
`monitorContainer`, and a crash. A Docker operation and the status it sets are one step, at some moment of the await.
Failures are alternatives of the same steps: a resume that throws leaves the handle it made cached (`LooksUp`), a
termination swallows every error and says "stopped" all the same (`Terminate`), a branch that cannot be made leaves the
row alone.

Abstractions. The session has a Docker sandbox and an environment; "error" of a handle is merged with "stopped", which
every reader treats alike. Times of polling are gone: activate polls, gives up or goes on. `late`, `lateClient` and
`abandoned` are observations.

### The sandbox and its providers

`Sandbox` says what `sandbox/types.ts` promises whoever makes one call at a time: after `create` and `resume` the sandbox
runs, after `pause` and `terminate` it does not, only one that runs has a machine and it has exactly one, and at most
one pi listens on it. While a call is at work nothing is said of machines, and calls that overlap, or a VM that fails
half made, end the promise (`mixed`) until the relay restarts.

`Gondolin` has every call cut at its awaits (clone, boot, npm, probe, close) with a cache that may forget a handle
somebody still uses, a channel that ends by itself, and a restart of the relay that loses all but the directory.
Mapping: the status is that of the cached handle, `machines` counts VMs, `lines` the channels whose VM is there.
`MockSandbox` starts by a timer, so a call of its own, "start", is mapped from `booting`; it also streams answers to
prompts that later prompts abort. `Cloudflare` cannot be shown to implement `Sandbox`: resuming a container that runs
is not a no-op there (finding 5). Its work is a set of units, so that what is on the disk, in the backup or in neither
can be told apart; each way to lose a unit is recorded in `harmed`, and `WorkIsKept` says there is no other.

### An open session

`SessionClient` is the hook with everything it awaits: each call of `connectWebSocket` is a *dial* that goes through
activation, capabilities, the fetch of events and a socket, and is not stopped by the clean-up of the effect that made
it. `wsRef`, `wsReady`, `lastSeq`, `timer` are its refs; `journal`, `registered`, `capable` are the relay's.
`Conversation` writes a journal as pi may (blocks of text and thinking, tools, prompts anywhere, a pi that starts again),
sends it to a screen that fetches and listens, and applies the dashboard's own folds. `Composer` has two queues to and
from pi. `Terminal` has a socket whose PTY arrives after an await. `NativeBridge` has requests with ids, answers that
come late and twice, and turns of the agent.

### Services

Each is the rows in the database, the requests under way with what they have read, and the page with what it shows.
Chains of database calls run in one turn (better-sqlite3 is synchronous), so requests are cut only where they wait for
a disk, a provider, a sandbox or the network. Observations say what a page or a cache could not have known
(`overtaken`, `missed`, `loose`, `changed`, `moved`); the properties say that nothing else misleads.

## Runs

| Run | Bounds | States | What it shows |
|---|---|---|---|
| `hub_control` | 2 clients, 3 sockets (two of one client, alike), 1 channel | 0.5 M | the controller is the one the rules name; the detach timer never runs under a client; an empty hub is on its way out |
| `hub_delivery` | 2 clients alike, 1 socket each, 1 tool, journal of 1 row at the start and 3 at most | 1.1 M | what a socket is sent from `connected` on is exactly what it is owed, in order; an extension question reaches one client |
| `hub_liveness` | 1 client, 2 sockets, 2 channels, fairness | 27 k | attachments are owned; every `addClient` ends; an empty hub is released |
| `lifecycle` | 2 calls, 1 provisioning, 2 containers | 0.4 M | types; the row names its sandbox; the handle is truthful; only late writers unarchive; only a late client meets an idle session |
| `lifecycle_provisioning` | 1 call, 2 provisionings, 2 containers | 0.3 M | no row stays "creating" with nobody at work; no sandbox is lost |
| `session_parts` | 2 dials, 1 prompt or event; journals of 7 events, of 5 when watched; 1 terminal; 3 choices among 3 models; 2 calls, VMs, handles and channels; 2 requests to the worker, 2 units of work; 3 requests to a device | 1.1 M | the two refinements; nothing said is missed; sockets, shells and first prompts; merged pieces; a truthful picker and bridge; kept work |
| `services` | 3 uploads, quota 2; 3 validations; 2 rows of packages, 1 restart or activation; 1 environment, session and secret, 2 dialogs; 2 requests for secrets; 2 apps, 2 tokens, 1 session; 2 requests for models, 1 refresh; 2 searches, TTL 2, time 3; 2 scopes, queries, loads, edits | 1.0 M | what each service promises, named in `PROJECT.json` |
| `hub_two_tabs` | 1 client, 2 sockets | violated | finding 1 |
| `hub_reaper_grace` | 1 client, 2 sockets | violated | finding 2 |
| `hub_silent_close` | 1 client, 1 socket, journal of 1 | violated | finding 3 |
| `lifecycle_deleted` | 1 call, 1 provisioning, 1 container | violated | finding 4 |
| `cloudflare_resume` | 2 requests, 2 units of work | violated | finding 5 |

Why the bounds are enough. Races in the hub are between a socket and its successor of the same client, and between two
clients: three sockets have both. A journal that starts with one row and grows to three makes a
replay of one and a live row after it. A second channel is
needed only for an attachment that outlives its hub, in `hub_liveness`. In the life of a session the pairs are
call/call, call/provisioning, provisioning/provisioning and any of them with the reaper, the client and a crash; two
containers are what a restart needs, since a removed container is not made again. With one provisioning at a time a restart
finds no free process while another is at work, which is why `lifecycle_provisioning` exists. In the services every race
is between two requests, or a request and an edit; a third upload is there to overtake two, and three requests to a
device for one of each turn and one that was given up. A cache needs a TTL of two ticks to be filled at one time, kept
at another and served at a third. In the conversation seven events hold a message with two blocks, a prompt inside it and
the next message. `CHECK_DEADLOCK FALSE` is said throughout: sockets are used once and
containers are finite, so an instance really may stop.

Every property has a mutant of the code that breaks it, listed in `PROJECT.json`: a timeout set a tick late, a controller
not replaced, a dropped cancel, a replay that starts one row early, a failure that is not recorded, a guard lost.

### Fairness

Only `hub_liveness` needs it. Node fires timers that are due and runs queued continuations (`Tick`, `DetachFires`,
`RemoveFires`, `Greet`); the WebSocket library reports the close of a socket that is closing or in error (`OnClose`
there, not for a socket that is merely open); `attachSession` settles, one way or the other (`AttachDone` or
`AttachFails`: Docker answers or the connection fails). Nothing is assumed of clients, of the sandbox or of the reaper.

## Findings

1. **Two sockets of one clientId** (`HubOutlivesConnections`). The clientId is in `localStorage`, so two tabs, or a
   reconnect before the old socket is reported closed, share an entry. `onClose` of the old socket removes the entry of
   the new one; the hub then looks empty and is removed under an open connection, whose messages are dropped.
2. **Reconnect grace forgotten** (`ReaperRespectsGrace`). Removing the hub 16 s after the last close removes
   `lastDisconnectedAt` with it; `getIdleState` then says nobody ever disconnected.
3. **Silent close** (`PromptReachesSandbox`). `close()` of a channel by its handle drops the close handlers without
   calling them: the hub keeps a dead channel, journals a prompt and loses it.
4. **A deleted session's sandbox lives on** (`DeletedSandboxIsGone`). Deleting while the sandbox is being made
   terminates nothing, and the container that is then made has no row.
5. **Resuming what runs restores the last pause** (`ResumeOfRunningIsNoOp`). The contract says "If running: no-op."
   (`sandbox/types.ts:95`). Every activation resumes; the worker does not ask whether the container runs, and extracts
   the backup of the last pause over what was written since.

`session-lifecycle.md` draws deletion as the only way out of the archive; `OnlyLateWritersUnarchive` says what does hold:
work begun before the archive may still end after it, and nothing else leaves it.

## Proofs

TLC shows the properties on the instances above; the theorems hold for every value of the constants: any number of
clients, sockets, channels, calls, containers, uploads, requests, dials, choices and environments, journals of any
length, and any length of timers and caches. Every invariant of the passing runs, and both refinements, is proved; so is
that the compositions the two large runs check are what their parts are (`ServicesTypesCorrect`, `ServicesAreSafe`,
`PartsTypesCorrect`, `PartsAreSafe`: a step of the composition is a step of each part or leaves it alone, so the
specification of the composition implies that of each part, and with it every theorem about the part).

Assumed is what the modules assume of their constants. Sets of processes and null values are distinct; a socket has an
owner; the detach grace is shorter than the removal delay; a TTL, a quota and the number of dials are not zero; bounds
are numbers; an environment has a place to be; pi has a model, and the sources of models are finite in number and have
inputs; a session is of a chat or of code; and no tool of a device is called "tools", which is how the bridge tells the
request for a list of tools from a call of one.

### The hub (`SessionHubProofs`)

Each of `TypeOK`, `ControllerIsRegistered`, `EmptyHubIsDoomed`, `DetachTimerMeansEmpty` and `AttachmentsAreOwned` is
inductive by itself given `TypeOK`, and is proved action by action. Five results deserve a word.

* `EmptyHubIsDoomed`: a hub becomes empty only by the removal of its last client, which `onClose` follows with a timeout
  and `onError` with a close event to come; a timeout that fires on an empty hub removes it.
* `AttachmentsAreOwned` needs its conjuncts together: that a hub with a channel makes no second attachment is what makes
  a finished attachment the hub's only one.
* `ControllerIsCurrent`: the code elects on a leave of the controller, on capabilities, on a prompt and on an
  activation, not on an opening or on the leave of somebody else. The strengthening `ControllerInv` says that only
  registered clients have capabilities, so a client that opens is not yet eligible; `OthersLeave` says that who wins an
  election still wins when another candidate goes; `TimesOfTheEligible` that no other times of connection matter.
* `OneClientIsAsked`: `AskedInv` adds that no socket is ahead of the journal, so a row that is appended was sent to
  nobody before, and a question among the old rows is not sent again.
* `StreamIsComplete`: `StreamInv` follows a socket from its opening. Nobody else waits to be greeted on behalf of its
  client (`WaitsAlone`); it waits itself and was sent nothing, or was greeted and has been sent all that it is owed up
  to now (`SentSoFar`), for whatever is journaled from then on is sent to it in the same step. The property speaks of sockets that are
  their client's only one, and of an `addClient` that waited alone (`told[s].alone`): when a client reconnects while the
  `addClient` of its previous connection still waits for the attachment, both go on to greet and replay to the entry of
  the second (`session-hub.ts:78-117`), which is sent the same rows twice. `hub_delivery` has one socket for each client;
  the theorem covers any number.

### The life of a session (`SessionLifecycleProofs`)

* `TypeCorrect`, with lemmas for the operators the actions share.
* `DeletedStaysDeleted`: each action by itself; `update()` finds the row gone.
* `CreatingStaysWorkedOn`: inductive given `TypeOK`; the argument is that whoever ends a provisioning writes the row.
* `RowStaysNamed`: `RowNamesSandbox` is not inductive, for activate and the reaper write the status alone. The
  strengthening `SandboxIdsHeld` says that as long as the row exists, whoever resumed or suspends a sandbox did so
  because the row has an id, that no id is ever taken back, and that nobody but a provisioning acts on a session
  that has no row yet.
* `ArchivedStaysArchived`: from the invariant `LateWriters`, that whoever is at work on an archived session was
  already so when it was archived, or is deleting it.
* `IdleClientsCameLate`: the same must be known of the reaper's steps between its check and its write (`CameLate`).
* `HandleStaysTruthful`: inductive given `TypeOK`; every operation brings handle and container together to one state, or
  leaves both, or says "stopped", which claims nothing.
* `SandboxStaysFindable`: from `OneSandbox`. Docker's one name leaves one container at a time; nobody but the
  provisioning that makes it knows a container that has not run; so whatever moves the cached handle moves it to the one
  container there is, and one that has run is cached until the relay stops. This is more than the property asks: the
  row and the provisionings are not needed to find it.

### The sandboxes (`SandboxProofs`)

* `MockImplementsSandbox` and `GondolinImplementsSandbox` are refinements: the initial state maps to an initial state of
  `Sandbox`, and each step to one of its steps or a stutter, under the mapping of the module. The mock needs
  `StartIsDue`: while the timer of the constructor is to fire and neither a pause nor a termination came first, the
  handle is being created. Gondolin needs `Orderly`: until calls cross, one call at most is under way, and it has books
  to keep at each of its awaits, so that what it finds when it goes on (the handle in the cache, the VMs that run, the
  lines that are open) is what it left. `TurnsPair` needs `OneSpeaks`, that one prompt at most is being answered.
* `WorkStays`: from `Careful`. As long as nothing has harmed the work, one request at most is under way, and the work is
  on the disk of the container or in the backup, whichever of the two that request goes on to read.

### An open session (`SessionPartsProofs`)

* `BridgeTruth`: from `AskedForThisTurn`: while a turn waits for its tools, the latest request for tools is the one it
  waits for, and requests are numbered in the order they are made, so an answer that matches an older one settles nothing.
* `PageMissesNothing`: from `Following`. A page that did not stray has one dial at most that is on its way to a
  socket or has one. It shows the journal up to where it asked for it, and what the sandbox said after that is on its
  way: behind the greeting as long as that is unread, and once it is read, shown under a number that is not given away
  again, or in the mail. `LooseSocketsAlone` needs `LeftAlone` (a page that was left, and left nothing loose, has nothing under
  way) and `SocketsInOrder`.
* `ShellsEndWithTheirSockets`: a shell that runs belongs to an open socket, or was being opened when its socket went.
* `DoubtfulSwitchesMislead`: `ComposerInv` follows every switch through the two queues: an id is on its way once, the
  last answers on their way name the model pi uses, and a choice made while no other was under way found the model pi
  uses until it is heard, so putting that back after a refusal is right.
* `MergedLikeTheWhole`: cleaning the events is a walk over them. `ConversationInv` bounds what the page holds, and the
  lemmas on walks (`WalksAgree`, and those that say an event which is not kept leaves the walk where it was) say that
  cleaning what was cleaned before, with more events behind it, ends where cleaning everything ends; so the page holds
  what cleaning the whole journal so far would keep, whichever way the events came.
* `EverythingSaidOnce`: `SaidInv` says where that walk and the walk of `parseEventsToConversation` stand after the whole
  journal. The keys of the items are distinct, and each is of an event that is past or of a counter that has moved on
  (`Distinct`); unless something came amid a message, every delta of the journal is in exactly one item or waits to
  become one (`Told`), and what waits is the block pi is amid (`Unbroken`), so the whole block that replaces it at its
  end says the same. The step from one journal to the next is `SameBefore` and `ReadAgain`: what was read of the events
  before is read of them again.

### Packages and settings (`PackageProofs`, `SettingsProofs`, `ServicesProofs`)

* `QuotaIsKept`, `OnlyOverlapLosesFiles`: an upload writes back a snapshot of the index taken before an await. What is
  proved of every snapshot is that it is short enough, that its files are stored, and that what it misses was answered
  by an upload that overlaps its own or had been overtaken before.
* `OnlyRacesOverlap`, `CanceledStaysOut`: as long as no two requests passed the check together and nothing was canceled,
  whoever validates holds the lock and nobody else is past the check; a validation whose cancellation was heeded in
  time can only be refused.
* `OutOfDateStaysMarked`: from `UpToDate`: unless a change was missed, a session without a mark, or one whose mark a
  request under way may clear, has the settings the rows resolve to now.
* `CatalogAge`: the two TTLs do not add up, because an entry of the cache of searches is stamped when it is filled and
  a manifest that is used then was fresh then (`CatalogInv`, with `TimesInOrder` of every request).
* `OvertakenListsMislead`: a list that was not overtaken has one request at most under way, which is for what is chosen
  as long as the tab is shown (`ListInOrder`).
* `ProbedIsSaved`: "available" is shown only beside a configuration a probe found available (`ShownIsProbed`), for each
  change of the configuration cancels the probe under way. `OnlyMovedStay`: a sandbox whose environment and secret are
  as they were is reached through what its row says (`UnmovedAreReached`).
* `StaleRowsMislead`: unless the edits or the lists of a variable overlapped, one edit of it at most is under way, and
  the row, the list on its way and what is drawn agree, or the list that will make them agree is to be asked for.
* `TokenAndIdentityAgree`: what a job has found by the time it asks who it is (`Standing`) is of the app that is
  configured, or the app has changed since.
* `ModelsServedAreCurrent`: `ModelsAreCurrent` says of the cache and of each request at each await how old the models it
  has may be and of which settings they are, up to the answer.

### Only model-checked

Liveness (`AddClientEnds`, `EmptyHubIsReleased`), because fairness is about ENABLED, which the prover does not have. The
walks of `Conversation` are recursive functions; their theorems need induction over the length of a journal, which is
had here from the least element of a set of numbers (`InductionOnNat` and `RecursionOnNat`, by
`WellFoundedInduction`'s `WFMin`) in place of a theorem that takes the induction hypothesis as an operator.
RECURSIVE operators occur nowhere.

## Plan

Done: the hub and the life of a session; the dashboard client composed with the relay's side of its sockets; the
contract of a sandbox with two refinements; Cloudflare; terminals; files, validation, extensions, environments, secrets,
GitHub, models and their pages; the conversation of the dashboard. Every safety property of the passing runs is proved.

Next, in order.

1. An abstract session stream (a journal and, for each client, how far it has seen it) that `SessionHub` is shown to
   implement by a refinement mapping, for clients that do not overlap; `StreamInv` is the invariant it needs.
2. The native client: its reconnection, and `EventReducer` against the fold of the dashboard.
3. The idle policy: `lastActivityAt`, running tools and the reaper's loop as a fair process.
4. Events that come amid a message (`torn`): which of what was said is then shown, and how often.

## Not modelled

Rendering; encryption at rest (a value goes in and comes out); the table of settings; database migrations; event hooks,
which write a name and a model synchronously; exec, clones, images and npm but for their success or failure; the
manifest flow by which a GitHub app is made; the history of a session file; the native clients; `ws/connection.ts`
and `ws/replay.ts`, which the relay no longer mounts.
