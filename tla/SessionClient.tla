--------------------------- MODULE SessionClient ---------------------------
(***************************************************************************)
(* A session page of the dashboard: the useSessionEvents hook, which       *)
(* activates the session, reads its journal, opens a socket and numbers    *)
(* what the socket brings, and what the relay does with the one client id  *)
(* that all sockets of a browser share.  An effect that is cleaned up      *)
(* while connectWebSocket awaits does not stop it: every call is a dial of *)
(* its own, and all write the same refs.  The contents of prompts and      *)
(* events are left out: each is a number, fresh when it comes into being.  *)
(***************************************************************************)
EXTENDS Naturals, Sequences, SequencesExt, FiniteSetsExt

CONSTANTS
  MaxDials,       \* calls of connectWebSocket
  MaxContents     \* prompts and events of the session

ASSUME ClientBounds == MaxDials \in Nat \ {0} /\ MaxContents \in Nat

Dials == 1 .. MaxDials
NoDial == 0
InitialPrompt == MaxContents + 1
Probe == 0          \* the get_state that asks whether the sandbox answers

VARIABLES
  mounted,    \* the page is there
  modeKnown,  \* session?.mode is: the callbacks have been made anew
  dial,       \* where each call of connectWebSocket, then its socket, is
  from,       \* the lastSeq it asks for
  inbox,      \* what the browser has yet to report of each socket
  wsRef,      \* the socket the page sends on
  wsReady,    \* wsReadyRef
  lastSeq,    \* lastSeqRef
  page,       \* the events shown: seq to content
  timer,      \* a reconnect is scheduled
  probing,    \* readinessProbeIdRef: the socket that was probed
  firsts,     \* how often the initial prompt was sent
  journal,    \* the relay's journal: seq to content
  registered, \* the socket the hub has under the client id
  capable,    \* its capabilities.extensionUI
  asked,      \* the probes that are with the sandbox
  made,       \* contents so far
  told,       \* those that the sandbox said
  loose,      \* observation: the page left more behind than an open wsRef
  strayed     \* observation: see NothingIsMissed

page_ == <<mounted, modeKnown, wsRef, wsReady, lastSeq, page, timer, probing, firsts>>
dials_ == <<dial, from, inbox>>
relay_ == <<journal, registered, capable, asked, made, told>>
seen_ == <<loose, strayed>>
clientVars == <<page_, dials_, relay_, seen_>>

ClientInit ==
  /\ mounted = TRUE /\ modeKnown = FALSE
  /\ dial = [d \in Dials |-> IF d = 1 THEN "activating" ELSE "none"]
  /\ from = [d \in Dials |-> 0]
  /\ inbox = [d \in Dials |-> <<>>]
  /\ wsRef = NoDial /\ wsReady = FALSE /\ lastSeq = 0 /\ page = <<>>
  /\ timer = FALSE /\ probing = NoDial /\ firsts = 0
  /\ journal = <<>> /\ registered = NoDial /\ capable = FALSE /\ asked = {}
  /\ made = 0 /\ told = {}
  /\ loose = FALSE /\ strayed = FALSE

Opened == {"open", "welcomed"}
UnderWay == {d \in Dials : dial[d] \in {"activating", "capping", "fetching", "dialing"} \union Opened}

Larger(a, b) == IF a > b THEN a ELSE b
Step(d, to) == dial' = [dial EXCEPT ![d] = to]
Closing(code) == [type |-> "close", code |-> code]
Event(c) == [type |-> "event", content |-> c]

(* connectWebSocket, up to its first await *)
Begin(old) ==
  LET unused == {d \in Dials : dial[d] = "none"}
  IN dial' = IF unused = {} THEN old ELSE [old EXCEPT ![Min(unused)] = "activating"]

(* a cleanup that forgets the socket and leaves it open *)
Forget == dial

(* close(1000) of the effect's cleanup; a socket still dialing ends with 1006 *)
HangUp == [d \in Dials |-> IF d # wsRef THEN dial[d]
                           ELSE CASE dial[d] = "dialing" -> "closed"
                                  [] dial[d] \in Opened -> "closing"
                                  [] OTHER -> dial[d]]

CutOff(d) == IF d # wsRef THEN inbox[d]
             ELSE CASE dial[d] = "dialing" -> <<Closing(1006)>>
                    [] dial[d] \in Opened -> <<>>
                    [] OTHER -> inbox[d]

(* GET /sessions/:id answers: sendPrompt depends on the mode, and through   *)
(* it connectWebSocket and the effect that calls it                         *)
SessionLoads ==
  /\ mounted /\ ~modeKnown
  /\ modeKnown' = TRUE
  /\ Begin(HangUp)
  /\ inbox' = [d \in Dials |-> CutOff(d)]
  /\ wsRef' = NoDial /\ timer' = FALSE
  /\ wsReady' = FALSE /\ probing' = NoDial
  /\ UNCHANGED <<mounted, lastSeq, page, firsts, from, relay_, seen_>>

LeavePage ==
  /\ mounted
  /\ mounted' = FALSE
  /\ dial' = HangUp
  /\ inbox' = [d \in Dials |-> CutOff(d)]
  /\ wsRef' = NoDial /\ timer' = FALSE
  /\ loose' = \E d \in Dials :
                \/ d \in UnderWay /\ (d # wsRef \/ dial[d] = "dialing")
                \/ inbox[d] # <<>> /\ dial[d] = "closed"
  /\ UNCHANGED <<modeKnown, wsReady, lastSeq, page, probing, firsts, from, relay_, strayed>>

Reconnect ==
  /\ timer
  /\ timer' = FALSE
  /\ wsReady' = FALSE /\ probing' = NoDial
  /\ Begin(dial)
  /\ UNCHANGED <<mounted, modeKnown, wsRef, lastSeq, page, firsts, from, inbox, relay_,
                 seen_>>

ActivateAnswers(d) ==
  /\ dial[d] = "activating"
  /\ \/ Step(d, "capping") /\ from' = [from EXCEPT ![d] = Len(journal)]
     \/ Step(d, "failed") /\ UNCHANGED from
  /\ UNCHANGED <<page_, inbox, relay_, seen_>>

(* answered with 200 also when the hub does not know the client *)
CapabilitiesAnswer(d) ==
  /\ dial[d] = "capping"
  /\ Step(d, "fetching")
  /\ capable' = (capable \/ registered # NoDial)
  /\ from' = [from EXCEPT ![d] = Larger(@, lastSeq)]
  /\ UNCHANGED <<page_, inbox, journal, registered, asked, made, told, seen_>>

(* mergeCanonicalEvents: one event per seq, the incoming one *)
Merged(new, old) ==
  [q \in DOMAIN new \union DOMAIN old |-> IF q \in DOMAIN new THEN new[q] ELSE old[q]]

(* one event more, under the number it has or is given *)
Shows(seq, c) == page' = Merged([q \in {seq} |-> c], page)

(* in pieces, until there are no more *)
FetchedUntil(seq) == SubSeq(journal, 1, Min({seq, Len(journal)}))

EventsAnswer(d) ==
  /\ dial[d] = "fetching"
  /\ Step(d, "dialing")
  /\ page' = Merged(FetchedUntil(from[d]), page)
  /\ lastSeq' = from[d]
  /\ strayed' = (\/ from[d] > Len(journal)
                 \/ \E e \in Dials \ {d} : e \in UnderWay \/ inbox[e] # <<>>)
  /\ wsRef' = d
  /\ UNCHANGED <<mounted, modeKnown, wsReady, timer, probing, firsts, from, inbox,
                 relay_, loose>>

(***************************************************************************)
(* The relay.  The hub finds sockets by client id, whichever it has.       *)
(***************************************************************************)
Post(messages) ==
  IF registered # NoDial /\ dial[registered] \in Opened
  THEN [inbox EXCEPT ![registered] = @ \o messages] ELSE inbox

SocketOpens(d) ==
  /\ dial[d] = "dialing"
  /\ Step(d, "open")
  /\ registered' = d
  /\ capable' = FALSE
  /\ UNCHANGED <<page_, from, inbox, journal, asked, made, told, seen_>>

(* a page that is told nothing of what it missed *)
NoReplay(d) == <<>>

(* what came between the page's look at the journal and its socket *)
Replay(d) ==
  IF from[d] > 0 /\ from[d] < Len(journal) THEN SubSeq(journal, from[d] + 1, Len(journal)) ELSE <<>>

(* the rest of addClient, once the channel is attached *)
Welcome(d) ==
  /\ dial[d] = "open"
  /\ Step(d, "welcomed")
  /\ inbox' = Post(<<[type |-> "connected", seq |-> Len(journal)]>>
                   \o [i \in DOMAIN Replay(d) |-> Event(Replay(d)[i])])
  /\ strayed' = (strayed \/ (from[d] = 0 /\ journal # <<>>))
  /\ UNCHANGED <<page_, from, relay_, loose>>

(* the sandbox says something: journaled, then broadcast *)
SandboxSays ==
  /\ made < MaxContents
  /\ made' = made + 1
  /\ journal' = Append(journal, made')
  /\ told' = told \union {made'}
  /\ inbox' = Post(<<Event(made')>>)
  /\ UNCHANGED <<page_, dial, from, registered, capable, asked, seen_>>

(* the answer to a probe is journaled like any event, but one number serves all *)
SandboxAnswers ==
  \E probe \in asked :
    /\ asked' = asked \ {probe}
    /\ journal' = Append(journal, Probe)
    /\ inbox' = Post(<<[type |-> "state", probe |-> probe]>>)
    /\ UNCHANGED <<page_, dial, from, registered, capable, made, told, seen_>>

(* a prompt of another browser is journaled and told to nobody *)
OthersPrompt ==
  /\ made < MaxContents
  /\ made' = made + 1
  /\ journal' = Append(journal, made')
  /\ UNCHANGED <<page_, dials_, registered, capable, asked, told, seen_>>

(* the relay or the network ends it, or the answer to close(1000) comes *)
SocketEnds(d) ==
  /\ dial[d] \in {"dialing", "closing"} \union Opened
  /\ Step(d, "closed")
  /\ registered' = IF dial[d] = "dialing" THEN registered ELSE NoDial
  /\ inbox' = [inbox EXCEPT ![d] = Append(@, Closing(IF dial[d] = "closing" THEN 1000 ELSE 1006))]
  /\ UNCHANGED <<page_, from, journal, capable, asked, made, told, seen_>>

(***************************************************************************)
(* The page hears of a socket, whether wsRef leads to it or not.           *)
(***************************************************************************)
CanSend == wsRef # NoDial /\ wsReady /\ dial[wsRef] # "dialing"

(* a command counts for whichever socket has the client id, or for none; it *)
(* takes no time, for nothing here depends on when the relay reads it       *)
Send(what) ==
  LET heard == dial[wsRef] \in Opened /\ registered # NoDial
  IN /\ asked' = IF heard /\ what = Probe THEN asked \union {wsRef} ELSE asked
     /\ journal' = IF heard /\ what # Probe THEN Append(journal, what) ELSE journal

Hear(d, type) == inbox[d] # <<>> /\ Head(inbox[d]).type = type
Heard(d) == inbox' = [inbox EXCEPT ![d] = Tail(@)]

(* pending also once it was sent *)
StillPending == TRUE

(* initialPromptSentRef is not set *)
PromptPending == firsts = 0

(* send() throws while the socket is dialing; the page goes on *)
HearConnected(d) ==
  /\ Hear(d, "connected") /\ Heard(d)
  /\ wsReady' = TRUE
  /\ lastSeq' = Head(inbox[d]).seq
  /\ IF PromptPending /\ wsRef # NoDial
     THEN /\ probing' = wsRef
          /\ IF dial[wsRef] # "dialing" THEN Send(Probe) ELSE UNCHANGED <<asked, journal>>
     ELSE UNCHANGED <<probing, asked, journal>>
  /\ UNCHANGED <<mounted, modeKnown, wsRef, page, timer, firsts, dial, from, registered,
                 capable, made, told, seen_>>

(* a prompt is shown with the next number before the relay has read it *)
SendPrompt(c) ==
  /\ Send(c)
  /\ lastSeq' = lastSeq + 1
  /\ Shows(lastSeq', c)

Type ==
  /\ mounted /\ CanSend /\ made < MaxContents
  /\ made' = made + 1
  /\ SendPrompt(made')
  /\ UNCHANGED <<mounted, modeKnown, wsRef, wsReady, timer, probing, firsts, dial, from, inbox,
                 registered, capable, told, seen_>>

FlushPendingInitialPrompt ==
  /\ probing' = NoDial
  /\ IF PromptPending /\ CanSend THEN SendPrompt(InitialPrompt) /\ firsts' = firsts + 1
     ELSE UNCHANGED <<asked, journal, lastSeq, page, firsts>>

HearState(d) ==
  /\ Hear(d, "state") /\ Heard(d)
  /\ IF probing = Head(inbox[d]).probe THEN FlushPendingInitialPrompt
     ELSE /\ Shows(lastSeq + 1, Probe)
          /\ lastSeq' = lastSeq + 1
          /\ UNCHANGED <<asked, journal, firsts, probing>>
  /\ UNCHANGED <<mounted, modeKnown, wsRef, wsReady, timer, dial, from, registered,
                 capable, made, told, seen_>>

(* the number the page gives to what it hears *)
NextSeq == lastSeq + 1

HearEvent(d) ==
  /\ Hear(d, "event") /\ Heard(d)
  /\ Shows(NextSeq, Head(inbox[d]).content)
  /\ lastSeq' = Larger(lastSeq, NextSeq)
  /\ UNCHANGED <<mounted, modeKnown, wsRef, wsReady, timer, probing, firsts, dial, from,
                 relay_, seen_>>

HearClose(d) ==
  /\ Hear(d, "close") /\ Heard(d)
  /\ wsReady' = FALSE /\ probing' = NoDial /\ wsRef' = NoDial
  /\ timer' = (timer \/ Head(inbox[d]).code # 1000)
  /\ UNCHANGED <<mounted, modeKnown, lastSeq, page, firsts, dial, from, relay_, seen_>>

ClientNext ==
  \/ SessionLoads \/ LeavePage \/ Reconnect \/ Type
  \/ SandboxSays \/ SandboxAnswers \/ OthersPrompt
  \/ \E d \in Dials :
       \/ ActivateAnswers(d) \/ CapabilitiesAnswer(d) \/ EventsAnswer(d)
       \/ SocketOpens(d) \/ Welcome(d) \/ SocketEnds(d)
       \/ HearConnected(d) \/ HearState(d) \/ HearEvent(d) \/ HearClose(d)

ClientSpec == ClientInit /\ [][ClientNext]_clientVars

-----------------------------------------------------------------------------
(***************************************************************************)
(* A page shows whatever the sandbox says from a dial that had no other    *)
(* beside it until the next: it makes good what the ones before it missed. *)
(* Not so if it asked for what comes after a number ahead of the journal's *)
(* (use-session-events.ts:418), or after 0, which the relay takes for a    *)
(* page that wants no replay (session-hub.ts:114).                         *)
(***************************************************************************)
NothingIsMissed ==
  (/\ registered # NoDial /\ dial[registered] = "welcomed" /\ UnderWay = {registered}
   /\ \A d \in Dials : inbox[d] = <<>>
   /\ ~strayed)
  => told \subseteq {page[q] : q \in DOMAIN page}

(***************************************************************************)
(* A page that has been left leaves no client with the relay, which would  *)
(* keep its sandbox from ever being idle, unless it was dialing, or had a  *)
(* socket that wsRef does not lead to (use-session-events.ts:533).         *)
(***************************************************************************)
OnlyLooseSocketsStay ==
  ~mounted /\ registered # NoDial => loose \/ \E d \in Dials : dial[d] = "closing"

(***************************************************************************)
(* The initial prompt is sent once, however many dials, probes and         *)
(* reconnects there are (use-session-events.ts:366).                       *)
(***************************************************************************)
InitialPromptOnce == firsts <= 1
=============================================================================
