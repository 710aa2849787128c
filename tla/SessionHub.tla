------------------------------ MODULE SessionHub ------------------------------
(***************************************************************************)
(* The hub of ONE session (ws/session-hub.ts), the WebSocket handler that  *)
(* feeds it (ws/handler.ts) and the session's journal                      *)
(* (services/event-journal.ts).                                            *)
(*                                                                         *)
(* A socket is one WebSocket connection and is used once; Owner gives the  *)
(* clientId in its URL, and several sockets may carry the same clientId.   *)
(* A channel is one sandbox attachment: each doAttach takes one that is    *)
(* closed, so Channels bounds the attachments alive together.              *)
(*                                                                         *)
(* Node runs one callback at a time. A continuation queued by a resolved   *)
(* promise runs before the next callback, so every other action waits      *)
(* (Quiet) while a socket's addClient is in the "resume" state.            *)
(***************************************************************************)
EXTENDS Naturals, Sequences

CONSTANTS
  Clients,        \* clientIds
  Sockets,        \* WebSocket connections
  Owner,          \* Owner[s]: the clientId of socket s
  UIClients,      \* clientIds whose application can show extension UI
  Channels,       \* the attachments that may be alive together (a bound)
  Tools,          \* tool call ids
  None,           \* null
  DetachGrace,    \* DETACH_GRACE_MS, in ticks
  RemoveDelay,    \* DETACH_GRACE_MS + 1000, in ticks
  ReconnectGrace, \* graceAfterDisconnectSeconds, in ticks
  History,        \* rows the journal holds when the relay first starts
  MaxJournal      \* bounds the journal

ASSUME HubConstants ==
  /\ Owner \in [Sockets -> Clients]
  /\ UIClients \subseteq Clients
  /\ DetachGrace \in Nat /\ RemoveDelay \in Nat /\ ReconnectGrace \in Nat
  /\ DetachGrace < RemoveDelay
  /\ History \in Nat /\ MaxJournal \in Nat

ASSUME NoneIsNoValue ==
  None \notin Clients \union Sockets \union Channels \union Nat \union {"resume"}

ASSUME ResumeIsNoChannel == "resume" \notin Channels

VARIABLES
  hubUp,           \* the manager's map holds a hub for the session
  entry,           \* clients: the socket registered for each clientId
  capable,         \* clientIds whose entry has capabilities.extensionUI
  connectedAt,     \* connectedAt of each entry
  controller,      \* controllerClientId
  activator,       \* activatorClientId
  lastWriter,      \* lastWriterClientId
  disconnectedFor, \* time since lastDisconnectedAt, None when that is null
  tools,           \* runningToolCallIds
  channel,         \* the hub's channel
  attach,          \* the channel attachPromise will deliver, None when null
  detachTimer      \* time left on detachTimer, None when null

VARIABLES
  chan,      \* the life of every channel
  sock,      \* the life of every socket
  asked,     \* the lastSeq each socket opened with, until it is replayed
  pending,   \* what each socket's addClient awaits
  removal,   \* time left on the removeIfEmpty timeout set by a socket's onClose
  opened,    \* a clock: the sockets opened so far
  journal,   \* the kinds of the session's journal rows, by seq
  row        \* the session's row: "active", "idle" (onOpen rejects), or "suspending":
             \* still active, with the reaper awaiting the pause of its sandbox

VARIABLES    \* observations, read by no action
  told,        \* what each socket has been sent
  sinceLeave,  \* time since the last client left, while none has come back
  overlapped,  \* clientIds whose entry was dropped or replaced under a live socket
  cleared      \* clearClientState ran and no election since

registry  == <<entry, capable, connectedAt, disconnectedFor, detachTimer,
               sinceLeave, overlapped>>
election  == <<controller, activator, lastWriter, cleared>>
link      == <<channel, attach, chan, tools>>
wire      == <<sock, asked, pending, removal, opened, told>>
vars      == <<hubUp, registry, election, link, wire, journal, row>>

Registered == {c \in Clients : entry[c] # None}
Live(s)    == sock[s] = "open"
Quiet      == \A s \in Sockets : pending[s] # "resume"

Untold == [base |-> None, joined |-> None, inbox |-> <<>>, alone |-> FALSE]

Init ==
  /\ hubUp = FALSE
  /\ entry = [c \in Clients |-> None]
  /\ capable = {}
  /\ connectedAt = [c \in Clients |-> 0]
  /\ controller = None /\ activator = None /\ lastWriter = None
  /\ disconnectedFor = None
  /\ tools = {}
  /\ channel = None /\ attach = None /\ detachTimer = None
  /\ chan = [h \in Channels |-> "closed"]
  /\ sock = [s \in Sockets |-> "unused"]
  /\ asked = [s \in Sockets |-> 0]
  /\ pending = [s \in Sockets |-> None]
  /\ removal = [s \in Sockets |-> None]
  /\ opened = 0
  /\ journal = [i \in 1..History |-> "event"]
  /\ row = "active"
  /\ told = [s \in Sockets |-> Untold]
  /\ sinceLeave = ReconnectGrace
  /\ overlapped = {}
  /\ cleared = FALSE

-----------------------------------------------------------------------------
(* Controller election.                                                    *)

\* electController on the clients in `eligible` (registered, extensionUI), with
\* last writer w and activator a: the set of values it may assign.
Electable(eligible, w, a) ==
  LET latest == {c \in eligible : \A d \in eligible : connectedAt[d] <= connectedAt[c]}
  IN  CASE w \in eligible -> {w}
        [] w \notin eligible /\ a \in eligible -> {a}
        [] w \notin eligible /\ a \notin eligible /\ eligible # {} -> latest
        [] OTHER -> {None}

Elect(eligible, w, a) ==
  /\ controller' \in Electable(eligible, w, a)
  /\ cleared' = FALSE

-----------------------------------------------------------------------------
(* The registry of clients.                                                *)

\* addClient cancels the detach timer; startDetachTimer leaves a running one alone.
ForgetToCancel    == UNCHANGED detachTimer
CancelDetachTimer == detachTimer' = None

StartDetachTimer ==
  detachTimer' = IF detachTimer = None THEN DetachGrace ELSE detachTimer

\* A controller that leaves is replaced at once.
ReplaceController(c) ==
  IF controller = c
    THEN Elect((Registered \ {c}) \cap capable, lastWriter, activator)
    ELSE UNCHANGED <<controller, cleared>>

\* removeClient of a registered client c.
RemoveRegistered(c) ==
  /\ entry' = [entry EXCEPT ![c] = None]
  /\ capable' = capable \ {c}
  /\ connectedAt' = [connectedAt EXCEPT ![c] = 0]
  /\ ReplaceController(c)
  /\ IF Registered = {c}
       THEN StartDetachTimer /\ disconnectedFor' = 0 /\ sinceLeave' = 0
       ELSE UNCHANGED <<detachTimer, disconnectedFor, sinceLeave>>
  /\ UNCHANGED <<activator, lastWriter>>

\* removeClient(c) of the session's hub, called for the closing socket s.
RemoveClient(c, s) ==
  IF hubUp /\ entry[c] # None
    THEN /\ RemoveRegistered(c)
         /\ overlapped' = IF entry[c] = s THEN overlapped ELSE overlapped \union {c}
    ELSE UNCHANGED <<registry, election>>

\* ensureAttached on behalf of socket s: the channel is there, or attachPromise is
\* shared, or doAttach starts.
StartAttach(s) ==
  \E h \in Channels :
    /\ chan[h] = "closed"
    /\ attach' = h
    /\ chan' = [chan EXCEPT ![h] = "attaching"]
    /\ pending' = [pending EXCEPT ![s] = h]

JoinAttach(s) ==
  /\ pending' = [pending EXCEPT ![s] = attach]
  /\ UNCHANGED <<attach, chan>>

AttachAgain(s) ==
  \/ attach # None /\ JoinAttach(s)
  \/ attach = None /\ StartAttach(s)

EnsureAttached(s) ==
  \/ /\ channel # None
     /\ pending' = [pending EXCEPT ![s] = "resume"]
     /\ UNCHANGED <<attach, chan>>
  \/ channel = None /\ attach # None /\ JoinAttach(s)
  \/ channel = None /\ attach = None /\ StartAttach(s)

\* addClient of the client c of socket s, up to its await.
AddClient(c, s) ==
  /\ CancelDetachTimer
  /\ disconnectedFor' = None
  /\ entry' = [entry EXCEPT ![c] = s]
  /\ capable' = capable \ {c}
  /\ connectedAt' = [connectedAt EXCEPT ![c] = opened + 1]
  /\ overlapped' = IF entry[c] = None THEN overlapped ELSE overlapped \union {c}
  /\ EnsureAttached(s)
  /\ sinceLeave' = ReconnectGrace
  /\ UNCHANGED <<channel, tools, election>>

-----------------------------------------------------------------------------
(* The WebSocket handler.                                                  *)

\* No addClient of an earlier connection of the same client, which may be closed by
\* now, waits for the attachment that the one of s would share.
NobodyElseWaits(s) ==
  attach = None \/ \A r \in Sockets : Owner[r] = Owner[s] => pending[r] # attach

\* onOpen of a session that is active and provisioned.
OnOpen(s) ==
  /\ Quiet /\ sock[s] = "unused" /\ row # "idle"
  /\ sock' = [sock EXCEPT ![s] = "open"]
  /\ opened' = opened + 1
  /\ \E n \in 0..Len(journal) : asked' = [asked EXCEPT ![s] = n]
  /\ hubUp' = TRUE
  /\ AddClient(Owner[s], s)
  /\ told' = [told EXCEPT ![s].alone = NobodyElseWaits(s)]
  /\ UNCHANGED <<removal, journal, row>>

\* onOpen of a session that is not active: ws.close(4003).
OnOpenRejected(s) ==
  /\ Quiet /\ sock[s] = "unused" /\ row = "idle"
  /\ sock' = [sock EXCEPT ![s] = "closing"]
  /\ opened' = opened + 1
  /\ UNCHANGED <<hubUp, registry, election, link, asked, pending, removal, told,
                 journal, row>>

\* The timeout onClose sets on the session's hub; nothing ever cancels it.
ScheduleLate(s)      == removal' = IF hubUp THEN [removal EXCEPT ![s] = RemoveDelay + 1] ELSE removal
ScheduleIfLast(s)    == removal' = IF hubUp /\ Registered = {Owner[s]}
                                     THEN [removal EXCEPT ![s] = RemoveDelay] ELSE removal
ScheduleRemoval(s)   == removal' = IF hubUp THEN [removal EXCEPT ![s] = RemoveDelay] ELSE removal

\* onClose: the client leaves and, if there is a hub, an unconditional timeout is
\* set to remove it.
OnClose(s) ==
  /\ Quiet /\ sock[s] \in {"open", "closing"}
  /\ sock' = [sock EXCEPT ![s] = "closed"]
  /\ told' = [told EXCEPT ![s] = Untold]
  /\ RemoveClient(Owner[s], s)
  /\ ScheduleRemoval(s)
  /\ UNCHANGED <<hubUp, link, asked, pending, opened, journal, row>>

\* onError: the client leaves; the close event comes later.
OnError(s) ==
  /\ Quiet /\ sock[s] = "open"
  /\ sock' = [sock EXCEPT ![s] = "closing"]
  /\ RemoveClient(Owner[s], s)
  /\ UNCHANGED <<hubUp, link, asked, pending, removal, opened, told, journal,
                 row>>

-----------------------------------------------------------------------------
(* Attachment.                                                             *)

\* The waiters of attachment h go on as `outcome` says.
WakeNobody(h, outcome) == UNCHANGED pending
Wake(h, outcome) ==
  pending' = [s \in Sockets |-> IF pending[s] = h THEN outcome ELSE pending[s]]

\* The attachment h is made. If its hub is still the session's hub its waiters
\* resume; a hub closed meanwhile keeps a channel nobody will close, and its
\* waiters find themselves no longer registered.
AttachDone(h) ==
  /\ Quiet /\ chan[h] = "attaching"
  /\ IF h = attach
       THEN channel' = h /\ attach' = None /\ chan' = [chan EXCEPT ![h] = "live"]
       ELSE UNCHANGED <<channel, attach>> /\ chan' = [chan EXCEPT ![h] = "stray"]
  /\ Wake(h, IF h = attach THEN "resume" ELSE None)
  /\ UNCHANGED <<hubUp, registry, election, tools, sock, asked, removal, opened,
                 told, journal, row>>

\* The attachment fails: the handler closes every waiter with 4003. They stay
\* registered until their close events.
AttachFails(h) ==
  /\ Quiet /\ chan[h] = "attaching"
  /\ chan' = [chan EXCEPT ![h] = "closed"]
  /\ attach' = IF h = attach THEN None ELSE attach
  /\ Wake(h, None)
  /\ sock' = [s \in Sockets |->
                IF pending[s] = h /\ Live(s) THEN "closing" ELSE sock[s]]
  /\ UNCHANGED <<hubUp, registry, election, channel, tools, asked, removal, opened,
                 told, journal, row>>

\* replayForClient: the seqs after n, up to the journal's last.
MustReplay(n)     == 0 < n /\ n < Len(journal)
ReplayFrom(n)     == IF MustReplay(n) THEN [i \in 1 .. Len(journal) - n + 1 |-> n + i - 1] ELSE <<>>
Replay(n)         == IF MustReplay(n) THEN [i \in 1 .. Len(journal) - n |-> n + i] ELSE <<>>

\* The rest of addClient after its await: `connected`, then the replay. Both go to
\* whichever socket is registered for the client by now.
Greet(s) ==
  /\ pending[s] = "resume"
  /\ pending' = [pending EXCEPT ![s] = None]
  /\ asked' = [asked EXCEPT ![s] = 0]
  /\ LET t == entry[Owner[s]] IN
       IF t # None /\ Live(t)
         THEN told' = [told EXCEPT ![t] =
                [base   |-> IF MustReplay(asked[s]) THEN asked[s] ELSE Len(journal),
                 joined |-> Len(journal),
                 inbox  |-> told[t].inbox \o Replay(asked[s]),
                 alone  |-> told[t].alone]]
         ELSE told' = told
  /\ UNCHANGED <<hubUp, registry, election, link, sock, removal, opened,
                 journal, row>>

-----------------------------------------------------------------------------
(* REST calls that reach the hub; without a hub they are dropped.          *)

\* PUT capabilities: known only to a registered client's entry.
SetClientCapabilities(c, extensionUI) ==
  /\ Quiet /\ hubUp /\ entry[c] # None
  /\ extensionUI => c \in UIClients
  /\ capable' = IF extensionUI THEN capable \union {c} ELSE capable \ {c}
  /\ Elect(Registered \cap capable', lastWriter, activator)
  /\ UNCHANGED <<hubUp, entry, connectedAt, disconnectedFor, detachTimer, sinceLeave,
                 overlapped, activator, lastWriter, link, wire, journal, row>>

\* POST activate names its caller before it looks at the session.
SetActivatorClient(c) ==
  /\ Quiet /\ hubUp
  /\ activator' = c
  /\ Elect(Registered \cap capable, lastWriter, c)
  /\ UNCHANGED <<hubUp, registry, lastWriter, link, wire, journal, row>>

\* POST activate, later: an idle session is active again.
RowActivated ==
  /\ Quiet /\ row = "idle"
  /\ row' = "active"
  /\ UNCHANGED <<hubUp, registry, election, link, wire, journal>>

-----------------------------------------------------------------------------
(* Commands of clients and messages of the sandbox.                        *)

\* A capable client that prompts becomes the controller.
NoteWriter(c)  == lastWriter' = c /\ UNCHANGED <<controller, cleared>>
ElectWriter(c) == lastWriter' = c /\ Elect(Registered \cap capable, c, activator)

\* A prompt or another controller command (steer, follow_up). The journal takes
\* prompts only, and only when a channel is attached; with none attached the
\* client is sent CHANNEL_DETACHED.
HandleClientCommand(s, type) ==
  LET c == Owner[s] IN
    /\ Quiet /\ Live(s) /\ hubUp /\ entry[c] # None
    /\ IF c \in capable
         THEN ElectWriter(c)
         ELSE UNCHANGED <<controller, lastWriter, cleared>>
    /\ IF type = "prompt" /\ channel # None
         THEN Len(journal) < MaxJournal /\ journal' = Append(journal, "prompt")
         ELSE journal' = journal
    /\ UNCHANGED <<hubUp, registry, activator, link, wire, row>>

\* The sockets a message is sent to: every registered one, or the controller's.
Everyone(kind) == {s \in Sockets : Live(s) /\ \E c \in Clients : entry[c] = s}
Audience(kind) ==
  {s \in Sockets : /\ Live(s)
                   /\ \E c \in Clients : /\ entry[c] = s
                                         /\ kind = "ui" => c = controller}

\* handleSandboxEvent: journal the event, then send it to its audience.
HandleSandboxEvent(kind) ==
  /\ Len(journal) < MaxJournal
  /\ journal' = Append(journal, kind)
  /\ told' = [s \in Sockets |->
                IF s \in Audience(kind)
                  THEN [told[s] EXCEPT !.inbox = Append(@, Len(journal) + 1)]
                  ELSE told[s]]

Listening == channel # None /\ chan[channel] = "live"

\* A message other than a tool event: "event", or "ui" for extension_ui_request.
SandboxMessage(kind) ==
  /\ Quiet /\ Listening
  /\ HandleSandboxEvent(kind)
  /\ UNCHANGED <<hubUp, registry, election, link, sock, asked, pending, removal,
                 opened, row>>

\* tool_execution_start and tool_execution_end. What the sandbox does while nobody
\* listens is not seen.
ToolEvent(t, starts) ==
  /\ Quiet /\ Listening
  /\ tools' = IF starts THEN tools \union {t} ELSE tools \ {t}
  /\ HandleSandboxEvent("event")
  /\ UNCHANGED <<hubUp, registry, election, channel, attach, chan, sock, asked,
                 pending, removal, opened, row>>

\* A message on a channel whose hub was closed before it was attached: that hub
\* still journals it, and has no clients to send it to.
StrayMessage(h) ==
  /\ Quiet /\ chan[h] = "stray" /\ Len(journal) < MaxJournal
  /\ journal' = Append(journal, "stray")
  /\ UNCHANGED <<hubUp, registry, election, link, wire, row>>

\* The transport of channel h closes. Only the listening hub notices.
TransportCloses(h) ==
  /\ Quiet /\ chan[h] \in {"live", "stray"}
  /\ chan' = [chan EXCEPT ![h] = "closed"]
  /\ IF h = channel
       THEN channel' = None /\ tools' = {}
       ELSE UNCHANGED <<channel, tools>>
  /\ UNCHANGED <<hubUp, registry, election, attach, wire, journal, row>>

\* A sandbox handle (restart, archive, delete) closes its channel itself: the close
\* handlers are dropped first, so the hub is not told.
HandleClosesChannel(h) ==
  /\ Quiet /\ chan[h] \in {"live", "stray"}
  /\ chan' = [chan EXCEPT ![h] = "closed"]
  /\ UNCHANGED <<hubUp, registry, election, channel, attach, tools, wire, journal,
                 row>>

-----------------------------------------------------------------------------
(* Timers, the manager, the reaper, the process.                           *)

\* detach(), on the detach timer.
DetachFires ==
  /\ Quiet /\ detachTimer = 0
  /\ detachTimer' = None
  /\ IF Registered = {} /\ channel # None
       THEN /\ chan' = [chan EXCEPT ![channel] = "closed"]
            /\ channel' = None
       ELSE UNCHANGED <<chan, channel>>
  /\ UNCHANGED <<hubUp, entry, capable, connectedAt, disconnectedFor, sinceLeave,
                 overlapped, election, attach, tools, wire, journal, row>>

\* close(), then the hub is dropped with all its fields. An attachment in flight
\* is not cancelled.
CloseHub ==
  /\ hubUp' = FALSE
  /\ entry' = [c \in Clients |-> None]
  /\ capable' = {}
  /\ connectedAt' = [c \in Clients |-> 0]
  /\ controller' = None /\ activator' = None /\ lastWriter' = None /\ cleared' = FALSE
  /\ disconnectedFor' = None /\ detachTimer' = None
  /\ channel' = None /\ attach' = None /\ tools' = {}

\* removeIfEmpty's test.
DetachedAndEmpty == hubUp /\ Registered = {} /\ channel = None
Removable        == hubUp /\ Registered = {}

\* removeIfEmpty, on the timeout set by the close of socket s.
RemoveFires(s) ==
  /\ Quiet /\ removal[s] = 0
  /\ removal' = [removal EXCEPT ![s] = None]
  /\ IF Removable
       THEN /\ CloseHub
            /\ chan' = IF channel = None THEN chan ELSE [chan EXCEPT ![channel] = "closed"]
            /\ UNCHANGED <<sinceLeave, overlapped>>
       ELSE UNCHANGED <<hubUp, registry, election, link>>
  /\ UNCHANGED <<sock, asked, pending, opened, told, journal, row>>

\* tick() finds the session idle for long enough and suspends it: clearClientState,
\* then an await. getIdleState without a hub says nobody ever disconnected.
ReaperSuspends ==
  /\ Quiet /\ row = "active"
  /\ Registered = {} /\ tools = {}
  /\ disconnectedFor # None => disconnectedFor >= ReconnectGrace
  /\ row' = "suspending"
  /\ controller' = None /\ activator' = None /\ lastWriter' = None
  /\ cleared' = hubUp
  /\ UNCHANGED <<hubUp, registry, link, wire, journal>>

\* The handle of the sandbox closes its channels without a word to the hub.
ChannelsSilenced ==
  chan' = [h \in Channels |-> IF chan[h] \in {"live", "stray"} THEN "closed" ELSE chan[h]]

\* The sandbox is paused and the row set to idle, whatever happened since.
ReaperPaused ==
  /\ Quiet /\ row = "suspending"
  /\ row' = "idle"
  /\ ChannelsSilenced
  /\ UNCHANGED <<hubUp, registry, election, channel, attach, tools, wire, journal>>

\* Getting the handle fails, or its pause does after it closed the channels: the
\* session stays active.
ReaperPauseFails ==
  /\ Quiet /\ row = "suspending"
  /\ row' = "active"
  /\ ChannelsSilenced \/ UNCHANGED chan
  /\ UNCHANGED <<hubUp, registry, election, channel, attach, tools, wire, journal>>

\* The relay stops (closeAll) or crashes, and starts again.
RelayRestarts ==
  /\ Quiet
  /\ CloseHub
  /\ chan' = [h \in Channels |-> "closed"]
  /\ sock' = [s \in Sockets |-> IF sock[s] = "unused" THEN "unused" ELSE "closed"]
  /\ pending' = [s \in Sockets |-> None]
  /\ removal' = [s \in Sockets |-> None]
  /\ told' = [s \in Sockets |-> Untold]
  /\ row' = IF row = "suspending" THEN "active" ELSE row
  /\ asked' = [s \in Sockets |-> 0]
  /\ sinceLeave' = ReconnectGrace
  /\ UNCHANGED <<opened, overlapped, journal>>

Younger(timer) == IF timer = None THEN None ELSE timer - 1
Older(age)     == IF age = None \/ age = ReconnectGrace THEN age ELSE age + 1

\* Time passes, but not past a timer that is due.
Tick ==
  /\ Quiet /\ detachTimer # 0 /\ \A s \in Sockets : removal[s] # 0
  /\ detachTimer' = Younger(detachTimer)
  /\ removal' = [s \in Sockets |-> Younger(removal[s])]
  /\ disconnectedFor' = Older(disconnectedFor)
  /\ sinceLeave' = Older(sinceLeave)
  /\ UNCHANGED <<hubUp, entry, capable, connectedAt, overlapped, election, link, sock,
                 asked, pending, opened, told, journal, row>>

-----------------------------------------------------------------------------
Next ==
  \/ \E s \in Sockets : \/ OnOpen(s)
                        \/ OnOpenRejected(s)
                        \/ OnClose(s)
                        \/ OnError(s)
                        \/ Greet(s)
                        \/ RemoveFires(s)
                        \/ \E type \in {"prompt", "steer"} : HandleClientCommand(s, type)
  \/ \E h \in Channels : \/ AttachDone(h)
                         \/ AttachFails(h)
                         \/ StrayMessage(h)
                         \/ TransportCloses(h)
                         \/ HandleClosesChannel(h)
  \/ \E c \in Clients : \/ \E b \in BOOLEAN : SetClientCapabilities(c, b)
                        \/ SetActivatorClient(c)
  \/ \E t \in Tools, starts \in BOOLEAN : ToolEvent(t, starts)
  \/ \E kind \in {"event", "ui"} : SandboxMessage(kind)
  \/ RowActivated
  \/ DetachFires
  \/ ReaperSuspends
  \/ ReaperPaused
  \/ ReaperPauseFails
  \/ RelayRestarts
  \/ Tick

Spec == Init /\ [][Next]_vars

\* What Node guarantees: queued continuations and due timers run, time passes, a
\* socket that is closing is reported closed, an attachment settles one way.
Fairness ==
  /\ WF_vars(Tick) /\ WF_vars(DetachFires)
  /\ \A s \in Sockets : /\ WF_vars(Greet(s)) /\ WF_vars(RemoveFires(s))
                        /\ WF_vars(OnClose(s) /\ sock[s] = "closing")
  /\ \A h \in Channels : WF_vars(AttachDone(h) \/ AttachFails(h))

FairSpec == Spec /\ Fairness

-----------------------------------------------------------------------------
(* What the hub promises.                                                  *)

OrNone(S) == S \union {None}

RegistryTypes ==
  /\ hubUp \in BOOLEAN
  /\ entry \in [Clients -> OrNone(Sockets)]
  /\ capable \in SUBSET Clients
  /\ connectedAt \in [Clients -> Nat]
  /\ disconnectedFor \in OrNone(0..ReconnectGrace)
  /\ detachTimer \in OrNone(0..DetachGrace)
  /\ sinceLeave \in 0..ReconnectGrace
  /\ overlapped \in SUBSET Clients

ElectionTypes ==
  /\ controller \in OrNone(Clients)
  /\ activator \in OrNone(Clients)
  /\ lastWriter \in OrNone(Clients)
  /\ cleared \in BOOLEAN

LinkTypes ==
  /\ channel \in OrNone(Channels)
  /\ attach \in OrNone(Channels)
  /\ chan \in [Channels -> {"closed", "attaching", "live", "stray"}]
  /\ tools \in SUBSET Tools

WireTypes ==
  /\ sock \in [Sockets -> {"unused", "open", "closing", "closed"}]
  /\ asked \in [Sockets -> Nat]
  /\ pending \in [Sockets -> OrNone(Channels) \union {"resume"}]
  /\ removal \in [Sockets -> OrNone(0..RemoveDelay)]
  /\ opened \in Nat

StreamTypes ==
  /\ journal \in Seq({"prompt", "event", "ui", "stray"})
  /\ told \in [Sockets -> [base : OrNone(Nat), joined : OrNone(Nat), inbox : Seq(Nat),
                       alone : BOOLEAN]]
  /\ row \in {"active", "suspending", "idle"}

TypeOK == RegistryTypes /\ ElectionTypes /\ LinkTypes /\ WireTypes /\ StreamTypes

\* The controller, whom extension_ui_request is sent to and whose answers are
\* accepted, is a client the hub still knows: a client that left, whichever way,
\* is never left in charge (electController, removeClient, close).
ControllerIsRegistered == controller # None => controller \in Registered

\* The controller is the one the election rules name in the CURRENT state, though
\* elections run only on some of the events that change their inputs. Only
\* clearClientState leaves a session with capable clients and no controller. (A
\* client whose entry was replaced lost its capability without an election.)
ControllerIsCurrent ==
  overlapped = {} =>
    \/ controller \in Electable(Registered \cap capable, lastWriter, activator)
    \/ controller = None /\ cleared

\* An empty hub is on its way out: the timeout of some onClose is still to run, or
\* a socket in error is still to be reported closed. No sequence of errors, closes,
\* rejected opens and reconnects leaves an empty hub in the manager's map for good.
EmptyHubIsDoomed ==
  hubUp /\ Registered = {} =>
    \E s \in Sockets : removal[s] # None \/ sock[s] = "closing"

\* The detach timer never runs under a connected client, so a reconnect within the
\* grace period keeps its channel; and disconnectedFor, which the reaper reads, is
\* known exactly while the hub is empty.
DetachTimerMeansEmpty ==
  /\ detachTimer # None => Registered = {}
  /\ hubUp => (disconnectedFor = None <=> Registered # {})

\* Attachments are accounted for: a channel attached for a hub is that hub's channel
\* until it closes, a hub with a channel makes no second one, and every waiting
\* addClient waits for an attachment that is really under way.
AttachmentsAreOwned ==
  /\ \A h \in Channels : chan[h] = "live" => h = channel
  /\ channel # None => attach = None /\ chan[channel] \in {"live", "closed"}
  /\ attach # None => chan[attach] = "attaching"
  /\ \A s \in Sockets : pending[s] \in Channels => chan[pending[s]] = "attaching"

\* Journal rows the hub sends to every client when they happen.
Broadcast == {"event"}

\* What socket s must have been sent after `connected`: every row between its base
\* and the join, then every broadcast row since.
Owed(s) == {q \in told[s].base + 1 .. Len(journal) : q <= told[s].joined \/ journal[q] \in Broadcast}

\* What it was sent is rows after its base, in seq order, and all those it is owed.
InboxIsComplete(s) ==
  LET inbox == told[s].inbox IN
    /\ \A i \in 1..Len(inbox) : told[s].base < inbox[i] /\ inbox[i] <= Len(journal)
    /\ \A i, j \in 1..Len(inbox) : i < j => inbox[i] < inbox[j]
    /\ \A q \in Owed(s) : \E i \in 1..Len(inbox) : inbox[i] = q

\* Replay and live stream join without a gap, a repetition or a swap: a registered
\* socket was sent nothing before `connected`, and since then rows in seq order, with
\* all those it is owed among them, however the attach, the replay and the messages
\* interleave. (A client that reconnects while its last addClient still waits is
\* greeted, and replayed to, once for each.)
StreamIsComplete ==
  \A c \in Clients \ overlapped :
    LET s == entry[c] IN
      c \in Registered /\ Live(s) /\ told[s].alone =>
        IF told[s].joined = None
          THEN told[s].inbox = <<>> /\ pending[s] # None
          ELSE InboxIsComplete(s)

\* An extension_ui_request reaches one client at most: two users are never asked
\* the same question live.
OneClientIsAsked ==
  \A q \in 1..Len(journal) : journal[q] = "ui" =>
    \A r, s \in Sockets :
      (\A x \in {r, s} : /\ told[x].joined # None /\ told[x].joined < q
                         /\ \E i \in 1..Len(told[x].inbox) : told[x].inbox[i] = q)
      => r = s

\* Every addClient ends: it does not wait for an attachment that never settles.
AddClientEnds == \A s \in Sockets : pending[s] # None ~> pending[s] = None

\* An empty hub is eventually removed, or a client comes back.
EmptyHubIsReleased == hubUp /\ Registered = {} ~> ~hubUp \/ Registered # {}

-----------------------------------------------------------------------------
(* What comments and tests say, and the code does not keep.                *)

\* "Remove a hub if it has no connected clients": the hub is not removed while a
\* connection it accepted is open.
HubOutlivesConnections ==
  [][hubUp /\ ~hubUp' => \A s \in Sockets : ~(Live(s) /\ Live(s)')]_vars

\* "respects reconnect grace": the reaper suspends only after the grace period.
ReaperRespectsGrace ==
  [][row = "active" /\ row' = "suspending" => sinceLeave >= ReconnectGrace]_vars

\* A prompt enters the journal only if the sandbox gets it.
PromptReachesSandbox ==
  [][journal' = Append(journal, "prompt") => Listening]_vars

=============================================================================
