--------------------------- MODULE SessionHubProofs ---------------------------
(***************************************************************************)
(* Proofs about the session hub, for every set of clients, sockets,        *)
(* channels and tool calls and every length of the timers: its types, and  *)
(* the invariants on the controller, the timers, the attachments and who   *)
(* is asked. Most are inductive once the types are known (TypeCorrect);    *)
(* ControllerInv and AskedInv are strengthenings.                          *)
(***************************************************************************)
EXTENDS SessionHub, TLAPS

\* Whoever the election names is one of the eligible clients, or nobody.
LEMMA ElectableIsEligible ==
  ASSUME NEW eligible, NEW w, NEW a
  PROVE  Electable(eligible, w, a) \subseteq OrNone(eligible)
BY DEF Electable, OrNone

\* A replay is a sequence of seqs.
LEMMA ReplayType ==
  ASSUME journal \in Seq({"prompt", "event", "ui", "stray"}), NEW n \in Nat
  PROVE  Replay(n) \in Seq(Nat)
<1>1. CASE MustReplay(n)
  <2>1. Len(journal) \in Nat /\ Len(journal) - n \in Nat
    BY <1>1 DEF MustReplay
  <2>2. \A i \in 1 .. Len(journal) - n : n + i \in Nat
    BY <2>1
  <2> QED BY <1>1, <2>1, <2>2 DEF Replay
<1>2. CASE ~MustReplay(n)
  BY <1>2 DEF Replay
<1> QED BY <1>1, <1>2

\* An election names a client or nobody.
LEMMA ElectTypes ==
  ASSUME NEW eligible \in SUBSET Clients, NEW w, NEW a, Elect(eligible, w, a)
  PROVE  controller' \in OrNone(Clients) /\ cleared' \in BOOLEAN
BY ElectableIsEligible DEF Elect, OrNone

\* A client that leaves leaves a well-typed registry and election.
LEMMA RemoveClientTypes ==
  ASSUME RegistryTypes, ElectionTypes, NEW c \in Clients, NEW s \in Sockets,
         RemoveClient(c, s), UNCHANGED hubUp
  PROVE  RegistryTypes' /\ ElectionTypes'
<1> USE HubConstants DEF OrNone
<1>1. CASE hubUp /\ entry[c] # None
  <2>1. RemoveRegistered(c) /\ overlapped' \subseteq Clients
    BY <1>1 DEF RemoveClient, RegistryTypes
  <2>2. /\ detachTimer' \in OrNone(0..DetachGrace)
        /\ disconnectedFor' \in OrNone(0..ReconnectGrace)
        /\ sinceLeave' \in 0..ReconnectGrace
    BY <2>1 DEF RemoveRegistered, StartDetachTimer, RegistryTypes
  <2>3. RegistryTypes'
    BY <2>1, <2>2 DEF RemoveRegistered, RegistryTypes
  <2>4. controller' \in OrNone(Clients) /\ cleared' \in BOOLEAN
    <3>1. CASE controller = c
      <4>1. Elect((Registered \ {c}) \cap capable, lastWriter, activator)
        BY <2>1, <3>1 DEF RemoveRegistered, ReplaceController
      <4>2. (Registered \ {c}) \cap capable \in SUBSET Clients
        BY DEF Registered
      <4> QED BY <4>1, <4>2, ElectTypes
    <3>2. CASE controller # c
      BY <2>1, <3>2 DEF RemoveRegistered, ReplaceController, ElectionTypes
    <3> QED BY <3>1, <3>2
  <2> QED BY <2>1, <2>3, <2>4 DEF RemoveRegistered, ElectionTypes
<1>2. CASE ~(hubUp /\ entry[c] # None)
  BY <1>2 DEF RemoveClient, registry, election, RegistryTypes, ElectionTypes
<1> QED BY <1>1, <1>2

StreamType == [base : OrNone(Nat), joined : OrNone(Nat), inbox : Seq(Nat), alone : BOOLEAN]

\* A message of the sandbox keeps the journal and the streams well-typed.
LEMMA HandleSandboxEventTypes ==
  ASSUME StreamTypes, NEW kind \in {"event", "ui"}, HandleSandboxEvent(kind), UNCHANGED row
  PROVE  StreamTypes'
<1>1. journal' \in Seq({"prompt", "event", "ui", "stray"}) /\ Len(journal) + 1 \in Nat
  BY DEF StreamTypes, HandleSandboxEvent
<1>2. ASSUME NEW s \in Sockets
      PROVE  [told[s] EXCEPT !.inbox = Append(@, Len(journal) + 1)]
               \in StreamType
  <2>1. told[s] \in StreamType
    BY DEF StreamTypes, StreamType
  <2>2. Append(told[s].inbox, Len(journal) + 1) \in Seq(Nat)
    BY <1>1, <2>1 DEF StreamType
  <2> QED BY <2>1, <2>2 DEF StreamType
<1> QED BY <1>1, <1>2 DEF StreamTypes, HandleSandboxEvent, StreamType

\* Every variable keeps its type.
THEOREM TypeCorrect == Spec => []TypeOK
<1> USE HubConstants, NoneIsNoValue, ResumeIsNoChannel DEF OrNone
<1>1. Init => TypeOK
  <2> SUFFICES ASSUME Init PROVE TypeOK
    OBVIOUS
  <2>1. RegistryTypes
    <3>1. ReconnectGrace \in 0..ReconnectGrace
      OBVIOUS
    <3> QED BY <3>1 DEF Init, RegistryTypes
  <2>2. ElectionTypes BY DEF Init, ElectionTypes
  <2>3. LinkTypes BY DEF Init, LinkTypes
  <2>4. WireTypes BY DEF Init, WireTypes
  <2>5. StreamTypes BY DEF Init, StreamTypes, Untold
  <2> QED BY <2>1, <2>2, <2>3, <2>4, <2>5 DEF TypeOK
<1>2. TypeOK /\ [Next]_vars => TypeOK'
  <2> SUFFICES ASSUME TypeOK, [Next]_vars PROVE TypeOK'
    OBVIOUS
  <2> USE DEF TypeOK
  <2>1. ASSUME NEW s \in Sockets, OnOpen(s) PROVE TypeOK'
    <3>0. Owner[s] \in Clients /\ Len(journal) \in Nat
      BY DEF StreamTypes
    <3>1. RegistryTypes'
      BY SMTT(20), <2>1, <3>0 DEF RegistryTypes, WireTypes, OnOpen, AddClient, CancelDetachTimer
    <3>2. ElectionTypes'
      BY <2>1 DEF ElectionTypes, OnOpen, AddClient, election
    <3>3. LinkTypes'
      BY <2>1 DEF LinkTypes, OnOpen, AddClient, EnsureAttached, StartAttach, JoinAttach
    <3>4. WireTypes'
      <4>1. pending' \in [Sockets -> OrNone(Channels) \union {"resume"}]
        BY ZenonT(40), <2>1 DEF LinkTypes, WireTypes, OnOpen, AddClient, EnsureAttached, StartAttach,
           JoinAttach
      <4>2. asked' \in [Sockets -> Nat]
        BY <2>1, <3>0 DEF WireTypes, OnOpen
      <4> QED BY SMTT(20), <2>1, <4>1, <4>2 DEF WireTypes, OnOpen
    <3>5. StreamTypes'
      <4>1. NobodyElseWaits(s) \in BOOLEAN
        BY DEF NobodyElseWaits
      <4>2. told' = [told EXCEPT ![s].alone = NobodyElseWaits(s)]
        BY <2>1 DEF OnOpen
      <4>3. UNCHANGED <<journal, row>>
        BY <2>1 DEF OnOpen
      <4> HIDE DEF NobodyElseWaits
      <4> QED BY ZenonT(40), <4>1, <4>2, <4>3 DEF StreamTypes
    <3> QED BY <3>1, <3>2, <3>3, <3>4, <3>5
  <2>2. ASSUME NEW s \in Sockets, OnOpenRejected(s) PROVE TypeOK'
    <3>1. WireTypes'
      BY <2>2 DEF WireTypes, OnOpenRejected
    <3>2. RegistryTypes' /\ ElectionTypes' /\ LinkTypes' /\ StreamTypes'
      BY <2>2 DEF RegistryTypes, ElectionTypes, LinkTypes, StreamTypes, OnOpenRejected, registry,
         election, link
    <3> QED BY <3>1, <3>2
  <2>3. ASSUME NEW s \in Sockets, OnClose(s) PROVE TypeOK'
    <3>1. RegistryTypes'
      BY <2>3, RemoveClientTypes DEF OnClose
    <3>2. ElectionTypes'
      BY <2>3, RemoveClientTypes DEF OnClose
    <3>3. WireTypes'
      BY <2>3 DEF WireTypes, OnClose, ScheduleRemoval
    <3>4. StreamTypes'
      BY <2>3 DEF StreamTypes, OnClose, Untold
    <3>5. LinkTypes'
      BY <2>3 DEF LinkTypes, OnClose, link
    <3> QED BY <3>1, <3>2, <3>3, <3>4, <3>5
  <2>4. ASSUME NEW s \in Sockets, OnError(s) PROVE TypeOK'
    <3>1. RegistryTypes'
      BY <2>4, RemoveClientTypes DEF OnError
    <3>2. ElectionTypes'
      BY <2>4, RemoveClientTypes DEF OnError
    <3>3. WireTypes'
      BY <2>4 DEF WireTypes, OnError
    <3>4. LinkTypes' /\ StreamTypes'
      BY <2>4 DEF LinkTypes, StreamTypes, OnError, link
    <3> QED BY <3>1, <3>2, <3>3, <3>4
  <2>5. ASSUME NEW s \in Sockets, Greet(s) PROVE TypeOK'
    <3>1. WireTypes'
      BY <2>5 DEF WireTypes, Greet
    <3>2. StreamTypes'
      <4>1. asked[s] \in Nat /\ Len(journal) \in Nat /\ Replay(asked[s]) \in Seq(Nat)
        BY ReplayType DEF WireTypes, StreamTypes
      <4>2. told' \in [Sockets -> StreamType]
        <5> DEFINE t == entry[Owner[s]]
                   greeted == [base   |-> IF MustReplay(asked[s]) THEN asked[s] ELSE Len(journal),
                               joined |-> Len(journal),
                               inbox  |-> told[t].inbox \o Replay(asked[s]),
                               alone  |-> told[t].alone]
        <5>1. CASE t # None /\ Live(t)
          <6>1. t \in Sockets
            BY <5>1 DEF RegistryTypes
          <6>2. told[t].inbox \in Seq(Nat) /\ told[t].alone \in BOOLEAN
            BY <6>1 DEF StreamTypes
          <6>3. told[t].inbox \o Replay(asked[s]) \in Seq(Nat)
            BY <4>1, <6>2
          <6>4. greeted \in StreamType
            BY <4>1, <6>2, <6>3 DEF StreamType
          <6>5. told' = [told EXCEPT ![t] = greeted]
            BY <2>5, <5>1 DEF Greet
          <6> HIDE DEF t, greeted
          <6> QED BY <6>1, <6>4, <6>5 DEF StreamTypes, StreamType
        <5>2. CASE ~(t # None /\ Live(t))
          BY <2>5, <5>2 DEF StreamTypes, StreamType, Greet
        <5> QED BY <5>1, <5>2
      <4> QED BY <2>5, <4>2 DEF StreamTypes, StreamType, Greet
    <3>3. RegistryTypes' /\ ElectionTypes' /\ LinkTypes'
      BY <2>5 DEF RegistryTypes, ElectionTypes, LinkTypes, Greet, registry, election, link
    <3> QED BY <3>1, <3>2, <3>3
  <2>6. ASSUME NEW s \in Sockets, RemoveFires(s) PROVE TypeOK'
    <3>1. RegistryTypes'
      <4>1. CASE Removable
        <5>1. CloseHub /\ UNCHANGED <<sinceLeave, overlapped>>
          BY <2>6, <4>1 DEF RemoveFires
        <5> QED BY <5>1 DEF RegistryTypes, CloseHub
      <4>2. CASE ~Removable
        BY <2>6, <4>2 DEF RegistryTypes, RemoveFires, registry
      <4> QED BY <4>1, <4>2
    <3>2. ElectionTypes'
      BY <2>6 DEF ElectionTypes, RemoveFires, CloseHub, election
    <3>3. LinkTypes'
      BY <2>6 DEF LinkTypes, RemoveFires, CloseHub, link
    <3>4. WireTypes'
      BY <2>6 DEF WireTypes, RemoveFires
    <3>5. StreamTypes'
      BY <2>6 DEF StreamTypes, RemoveFires
    <3> QED BY <3>1, <3>2, <3>3, <3>4, <3>5
  <2>7. ASSUME NEW s \in Sockets, NEW type \in {"prompt", "steer"}, HandleClientCommand(s, type)
        PROVE TypeOK'
    <3>1. ElectionTypes'
      BY <2>7, ElectTypes DEF ElectionTypes, RegistryTypes, HandleClientCommand, ElectWriter
    <3>2. StreamTypes'
      <4>1. journal' \in Seq({"prompt", "event", "ui", "stray"})
        <5>1. journal' = Append(journal, "prompt") \/ journal' = journal
          BY <2>7 DEF HandleClientCommand
        <5>2. Append(journal, "prompt") \in Seq({"prompt", "event", "ui", "stray"})
          BY DEF StreamTypes
        <5>3. journal \in Seq({"prompt", "event", "ui", "stray"})
          BY DEF StreamTypes
        <5> QED BY <5>1, <5>2, <5>3
      <4> QED BY <2>7, <4>1 DEF StreamTypes, HandleClientCommand, wire
    <3>3. RegistryTypes' /\ LinkTypes' /\ WireTypes'
      BY <2>7 DEF RegistryTypes, LinkTypes, WireTypes, HandleClientCommand, registry, link, wire
    <3> QED BY <3>1, <3>2, <3>3
  <2>8. ASSUME NEW h \in Channels, AttachDone(h) PROVE TypeOK'
    <3>1. LinkTypes'
      BY <2>8 DEF LinkTypes, AttachDone
    <3>2. WireTypes'
      BY <2>8 DEF WireTypes, AttachDone, Wake
    <3>3. RegistryTypes' /\ ElectionTypes' /\ StreamTypes'
      BY <2>8 DEF RegistryTypes, ElectionTypes, StreamTypes, AttachDone, registry, election
    <3> QED BY <3>1, <3>2, <3>3
  <2>9. ASSUME NEW h \in Channels, AttachFails(h) PROVE TypeOK'
    <3>1. LinkTypes'
      BY <2>9 DEF LinkTypes, AttachFails
    <3>2. WireTypes'
      BY <2>9 DEF WireTypes, AttachFails, Wake
    <3>3. RegistryTypes' /\ ElectionTypes' /\ StreamTypes'
      BY <2>9 DEF RegistryTypes, ElectionTypes, StreamTypes, AttachFails, registry, election
    <3> QED BY <3>1, <3>2, <3>3
  <2>10. ASSUME NEW h \in Channels, StrayMessage(h) PROVE TypeOK'
    <3>1. StreamTypes'
      BY <2>10 DEF StreamTypes, StrayMessage, wire
    <3>2. RegistryTypes' /\ ElectionTypes' /\ LinkTypes' /\ WireTypes'
      BY <2>10 DEF RegistryTypes, ElectionTypes, LinkTypes, WireTypes, StrayMessage, registry,
         election, link, wire
    <3> QED BY <3>1, <3>2
  <2>11. ASSUME NEW h \in Channels, TransportCloses(h) PROVE TypeOK'
    <3>1. LinkTypes'
      BY <2>11 DEF LinkTypes, TransportCloses
    <3>2. RegistryTypes' /\ ElectionTypes' /\ WireTypes' /\ StreamTypes'
      BY <2>11 DEF RegistryTypes, ElectionTypes, WireTypes, StreamTypes, TransportCloses,
         registry, election, wire
    <3> QED BY <3>1, <3>2
  <2>12. ASSUME NEW h \in Channels, HandleClosesChannel(h) PROVE TypeOK'
    <3>1. LinkTypes'
      BY <2>12 DEF LinkTypes, HandleClosesChannel
    <3>2. RegistryTypes' /\ ElectionTypes' /\ WireTypes' /\ StreamTypes'
      BY <2>12 DEF RegistryTypes, ElectionTypes, WireTypes, StreamTypes, HandleClosesChannel,
         registry, election, wire
    <3> QED BY <3>1, <3>2
  <2>13. ASSUME NEW c \in Clients, NEW b \in BOOLEAN, SetClientCapabilities(c, b) PROVE TypeOK'
    <3>1. RegistryTypes'
      BY <2>13 DEF RegistryTypes, SetClientCapabilities
    <3>2. ElectionTypes'
      BY <2>13, ElectTypes DEF ElectionTypes, RegistryTypes, SetClientCapabilities, Registered
    <3>3. LinkTypes' /\ WireTypes' /\ StreamTypes'
      BY <2>13 DEF LinkTypes, WireTypes, StreamTypes, SetClientCapabilities, link, wire
    <3> QED BY <3>1, <3>2, <3>3
  <2>14. ASSUME NEW c \in Clients, SetActivatorClient(c) PROVE TypeOK'
    <3>1. ElectionTypes'
      BY <2>14, ElectTypes DEF ElectionTypes, RegistryTypes, SetActivatorClient
    <3>2. RegistryTypes' /\ LinkTypes' /\ WireTypes' /\ StreamTypes'
      BY <2>14 DEF RegistryTypes, LinkTypes, WireTypes, StreamTypes, SetActivatorClient, registry,
         link, wire
    <3> QED BY <3>1, <3>2
  <2>15. ASSUME NEW t \in Tools, NEW b \in BOOLEAN, ToolEvent(t, b) PROVE TypeOK'
    <3>1. LinkTypes'
      BY <2>15 DEF LinkTypes, ToolEvent
    <3>2. StreamTypes'
      BY <2>15, HandleSandboxEventTypes DEF ToolEvent
    <3>3. RegistryTypes' /\ ElectionTypes' /\ WireTypes'
      BY <2>15 DEF RegistryTypes, ElectionTypes, WireTypes, ToolEvent, registry, election, wire
    <3> QED BY <3>1, <3>2, <3>3
  <2>16. ASSUME NEW kind \in {"event", "ui"}, SandboxMessage(kind) PROVE TypeOK'
    <3>1. StreamTypes'
      BY <2>16, HandleSandboxEventTypes DEF SandboxMessage
    <3>2. RegistryTypes' /\ ElectionTypes' /\ LinkTypes' /\ WireTypes'
      BY <2>16 DEF RegistryTypes, ElectionTypes, LinkTypes, WireTypes, SandboxMessage, registry,
         election, link, wire
    <3> QED BY <3>1, <3>2
  <2>17. ASSUME RowActivated PROVE TypeOK'
    <3>1. StreamTypes'
      BY <2>17 DEF StreamTypes, RowActivated, wire
    <3>2. RegistryTypes' /\ ElectionTypes' /\ LinkTypes' /\ WireTypes'
      BY <2>17 DEF RegistryTypes, ElectionTypes, LinkTypes, WireTypes, RowActivated, registry,
         election, link, wire
    <3> QED BY <3>1, <3>2
  <2>18. ASSUME DetachFires PROVE TypeOK'
    <3>1. RegistryTypes'
      BY <2>18 DEF RegistryTypes, DetachFires
    <3>2. LinkTypes'
      BY <2>18 DEF LinkTypes, DetachFires
    <3>3. ElectionTypes' /\ WireTypes' /\ StreamTypes'
      BY <2>18 DEF ElectionTypes, WireTypes, StreamTypes, DetachFires, election, wire
    <3> QED BY <3>1, <3>2, <3>3
  <2>19. ASSUME ReaperSuspends PROVE TypeOK'
    <3>1. ElectionTypes'
      BY <2>19 DEF ElectionTypes, RegistryTypes, ReaperSuspends
    <3>2. StreamTypes'
      BY <2>19 DEF StreamTypes, ReaperSuspends, wire
    <3>3. RegistryTypes' /\ LinkTypes' /\ WireTypes'
      BY <2>19 DEF RegistryTypes, LinkTypes, WireTypes, ReaperSuspends, registry, link, wire
    <3> QED BY <3>1, <3>2, <3>3
  <2>20. ASSUME ReaperPaused PROVE TypeOK'
    <3>1. LinkTypes'
      BY <2>20 DEF LinkTypes, ReaperPaused, ChannelsSilenced
    <3>2. StreamTypes'
      BY <2>20 DEF StreamTypes, ReaperPaused, wire
    <3>3. RegistryTypes' /\ ElectionTypes' /\ WireTypes'
      BY <2>20 DEF RegistryTypes, ElectionTypes, WireTypes, ReaperPaused, registry, election, wire
    <3> QED BY <3>1, <3>2, <3>3
  <2>21. ASSUME ReaperPauseFails PROVE TypeOK'
    <3>1. LinkTypes'
      BY <2>21 DEF LinkTypes, ReaperPauseFails, ChannelsSilenced
    <3>2. StreamTypes'
      BY <2>21 DEF StreamTypes, ReaperPauseFails, wire
    <3>3. RegistryTypes' /\ ElectionTypes' /\ WireTypes'
      BY <2>21 DEF RegistryTypes, ElectionTypes, WireTypes, ReaperPauseFails, registry, election,
         wire
    <3> QED BY <3>1, <3>2, <3>3
  <2>22. ASSUME RelayRestarts PROVE TypeOK'
    <3>1. RegistryTypes'
      <4>1. ReconnectGrace \in 0..ReconnectGrace
        OBVIOUS
      <4> QED BY <2>22, <4>1 DEF RegistryTypes, RelayRestarts, CloseHub
    <3>2. ElectionTypes'
      BY <2>22 DEF ElectionTypes, RelayRestarts, CloseHub
    <3>3. LinkTypes'
      BY <2>22 DEF LinkTypes, RelayRestarts, CloseHub
    <3>4. WireTypes'
      BY <2>22 DEF WireTypes, RelayRestarts
    <3>5. StreamTypes'
      BY <2>22 DEF StreamTypes, RelayRestarts, Untold
    <3> QED BY <3>1, <3>2, <3>3, <3>4, <3>5
  <2>23. ASSUME Tick PROVE TypeOK'
    <3>1. RegistryTypes'
      BY <2>23 DEF RegistryTypes, Tick, Younger, Older
    <3>2. WireTypes'
      BY <2>23 DEF WireTypes, Tick, Younger
    <3>3. ElectionTypes' /\ LinkTypes' /\ StreamTypes'
      BY <2>23 DEF ElectionTypes, LinkTypes, StreamTypes, Tick, election, link
    <3> QED BY <3>1, <3>2, <3>3
  <2>24. CASE UNCHANGED vars
    BY <2>24 DEF RegistryTypes, ElectionTypes, LinkTypes, WireTypes, StreamTypes, vars, registry,
       election, link, wire
  <2> QED
    BY <2>1, <2>2, <2>3, <2>4, <2>5, <2>6, <2>7, <2>8, <2>9, <2>10, <2>11, <2>12, <2>13, <2>14,
       <2>15, <2>16, <2>17, <2>18, <2>19, <2>20, <2>21, <2>22, <2>23, <2>24 DEF Next
<1> QED BY <1>1, <1>2, PTL DEF Spec

\* Opening a socket registers its client; nobody leaves.
LEMMA OpenRegisters ==
  ASSUME TypeOK, NEW s \in Sockets, OnOpen(s)
  PROVE  Registered' = Registered \union {Owner[s]}
<1>1. Owner[s] \in Clients /\ s # None
  BY HubConstants, NoneIsNoValue
<1>2. entry' = [entry EXCEPT ![Owner[s]] = s] /\ entry \in [Clients -> OrNone(Sockets)]
  BY DEF OnOpen, AddClient, TypeOK, RegistryTypes
<1> QED BY <1>1, <1>2 DEF Registered

\* removeClient takes out its client and nobody else.
LEMMA RemovalLeaves ==
  ASSUME TypeOK, NEW c \in Clients, RemoveRegistered(c)
  PROVE  Registered' = Registered \ {c}
<1>1. entry' = [entry EXCEPT ![c] = None] /\ entry \in [Clients -> OrNone(Sockets)]
  BY DEF RemoveRegistered, TypeOK, RegistryTypes
<1> QED BY <1>1 DEF Registered

\* An election among registered clients names a registered client or nobody.
LEMMA ElectsRegistered ==
  ASSUME NEW eligible, eligible \subseteq Registered', NEW w, NEW a, Elect(eligible, w, a)
  PROVE  ControllerIsRegistered'
BY ElectableIsEligible DEF Elect, OrNone, ControllerIsRegistered

\* Whoever is in charge of the session is a client the hub still knows, after any
\* sequence of opens, errors, closes, elections and restarts.
THEOREM ControllerStaysRegistered == Spec => []ControllerIsRegistered
<1> USE HubConstants, NoneIsNoValue, ResumeIsNoChannel DEF OrNone
<1>1. Init => ControllerIsRegistered
  BY DEF Init, ControllerIsRegistered, Registered
<1>2. TypeOK /\ ControllerIsRegistered /\ [Next]_vars => ControllerIsRegistered'
  <2> SUFFICES ASSUME TypeOK, ControllerIsRegistered, [Next]_vars PROVE ControllerIsRegistered'
    OBVIOUS
  <2>1. ASSUME NEW s \in Sockets, OnOpen(s) PROVE ControllerIsRegistered'
    <3>1. Registered \subseteq Registered' /\ controller' = controller
      BY <2>1, OpenRegisters DEF OnOpen, AddClient, election
    <3> QED BY <3>1 DEF ControllerIsRegistered
  <2>2. ASSUME NEW s \in Sockets, OnOpenRejected(s) PROVE ControllerIsRegistered'
    BY <2>2 DEF ControllerIsRegistered, Registered, OnOpenRejected, registry, election, link, wire
  <2>3. ASSUME NEW s \in Sockets, OnClose(s) PROVE ControllerIsRegistered'
    <3>1. CASE hubUp /\ entry[Owner[s]] # None
      <4>1. RemoveRegistered(Owner[s])
        BY <2>3, <3>1 DEF OnClose, RemoveClient
      <4>2. Registered' = Registered \ {Owner[s]}
        BY <4>1, RemovalLeaves
      <4>3. CASE controller = Owner[s]
        <5>1. Elect((Registered \ {Owner[s]}) \cap capable, lastWriter, activator)
          BY <4>1, <4>3 DEF RemoveRegistered, ReplaceController
        <5> QED BY <5>1, <4>2, ElectsRegistered
      <4>4. CASE controller # Owner[s]
        BY <4>1, <4>2, <4>4 DEF RemoveRegistered, ReplaceController, ControllerIsRegistered
      <4> QED BY <4>3, <4>4
    <3>2. CASE ~(hubUp /\ entry[Owner[s]] # None)
      BY <2>3, <3>2 DEF ControllerIsRegistered, Registered, OnClose, RemoveClient, registry,
         election
    <3> QED BY <3>1, <3>2
  <2>4. ASSUME NEW s \in Sockets, OnError(s) PROVE ControllerIsRegistered'
    <3>1. CASE hubUp /\ entry[Owner[s]] # None
      <4>1. RemoveRegistered(Owner[s])
        BY <2>4, <3>1 DEF OnError, RemoveClient
      <4>2. Registered' = Registered \ {Owner[s]}
        BY <4>1, RemovalLeaves
      <4>3. CASE controller = Owner[s]
        <5>1. Elect((Registered \ {Owner[s]}) \cap capable, lastWriter, activator)
          BY <4>1, <4>3 DEF RemoveRegistered, ReplaceController
        <5> QED BY <5>1, <4>2, ElectsRegistered
      <4>4. CASE controller # Owner[s]
        BY <4>1, <4>2, <4>4 DEF RemoveRegistered, ReplaceController, ControllerIsRegistered
      <4> QED BY <4>3, <4>4
    <3>2. CASE ~(hubUp /\ entry[Owner[s]] # None)
      BY <2>4, <3>2 DEF ControllerIsRegistered, Registered, OnError, RemoveClient, registry,
         election
    <3> QED BY <3>1, <3>2
  <2>5. ASSUME NEW s \in Sockets, Greet(s) PROVE ControllerIsRegistered'
    BY <2>5 DEF ControllerIsRegistered, Registered, Greet, registry, election, link, wire
  <2>6. ASSUME NEW s \in Sockets, RemoveFires(s) PROVE ControllerIsRegistered'
    <3>1. CASE Removable
      BY <2>6, <3>1 DEF ControllerIsRegistered, RemoveFires, CloseHub
    <3>2. CASE ~Removable
      BY <2>6, <3>2 DEF ControllerIsRegistered, Registered, RemoveFires, registry, election
    <3> QED BY <3>1, <3>2
  <2>7. ASSUME NEW s \in Sockets, NEW type \in {"prompt", "steer"}, HandleClientCommand(s, type)
        PROVE ControllerIsRegistered'
    <3>1. Registered' = Registered
      BY <2>7 DEF HandleClientCommand, Registered, registry
    <3>2. CASE Owner[s] \in capable
      <4>1. Elect(Registered \cap capable, Owner[s], activator)
        BY <2>7, <3>2 DEF HandleClientCommand, ElectWriter
      <4> QED BY <3>1, <4>1, ElectsRegistered
    <3>3. CASE Owner[s] \notin capable
      BY <2>7, <3>1, <3>3 DEF HandleClientCommand, ControllerIsRegistered
    <3> QED BY <3>2, <3>3
  <2>8. ASSUME NEW h \in Channels, AttachDone(h) PROVE ControllerIsRegistered'
    BY <2>8 DEF ControllerIsRegistered, Registered, AttachDone, registry, election, link, wire
  <2>9. ASSUME NEW h \in Channels, AttachFails(h) PROVE ControllerIsRegistered'
    BY <2>9 DEF ControllerIsRegistered, Registered, AttachFails, registry, election, link, wire
  <2>10. ASSUME NEW h \in Channels, StrayMessage(h) PROVE ControllerIsRegistered'
    BY <2>10 DEF ControllerIsRegistered, Registered, StrayMessage, registry, election, link, wire
  <2>11. ASSUME NEW h \in Channels, TransportCloses(h) PROVE ControllerIsRegistered'
    BY <2>11 DEF ControllerIsRegistered, Registered, TransportCloses, registry, election, link,
       wire
  <2>12. ASSUME NEW h \in Channels, HandleClosesChannel(h) PROVE ControllerIsRegistered'
    BY <2>12 DEF ControllerIsRegistered, Registered, HandleClosesChannel, registry, election,
       link, wire
  <2>13. ASSUME NEW c \in Clients, NEW b \in BOOLEAN, SetClientCapabilities(c, b)
        PROVE ControllerIsRegistered'
    <3>1. Registered' = Registered
      BY <2>13 DEF SetClientCapabilities, Registered
    <3>2. Elect(Registered \cap capable', lastWriter, activator)
      BY <2>13 DEF SetClientCapabilities
    <3> QED BY <3>1, <3>2, ElectsRegistered
  <2>14. ASSUME NEW c \in Clients, SetActivatorClient(c) PROVE ControllerIsRegistered'
    <3>1. Registered' = Registered
      BY <2>14 DEF SetActivatorClient, Registered, registry
    <3>2. Elect(Registered \cap capable, lastWriter, c)
      BY <2>14 DEF SetActivatorClient
    <3> QED BY <3>1, <3>2, ElectsRegistered
  <2>15. ASSUME NEW t \in Tools, NEW b \in BOOLEAN, ToolEvent(t, b) PROVE ControllerIsRegistered'
    BY <2>15 DEF ControllerIsRegistered, Registered, ToolEvent, registry, election, link, wire
  <2>16. ASSUME NEW kind \in {"event", "ui"}, SandboxMessage(kind) PROVE ControllerIsRegistered'
    BY <2>16 DEF ControllerIsRegistered, Registered, SandboxMessage, registry, election, link,
       wire
  <2>17. ASSUME RowActivated PROVE ControllerIsRegistered'
    BY <2>17 DEF ControllerIsRegistered, Registered, RowActivated, registry, election, link, wire
  <2>18. ASSUME DetachFires PROVE ControllerIsRegistered'
    BY <2>18 DEF ControllerIsRegistered, Registered, DetachFires, registry, election, link, wire
  <2>19. ASSUME ReaperSuspends PROVE ControllerIsRegistered'
    BY <2>19 DEF ControllerIsRegistered, ReaperSuspends
  <2>20. ASSUME ReaperPaused PROVE ControllerIsRegistered'
    BY <2>20 DEF ControllerIsRegistered, Registered, ReaperPaused, registry, election, link, wire
  <2>21. ASSUME ReaperPauseFails PROVE ControllerIsRegistered'
    BY <2>21 DEF ControllerIsRegistered, Registered, ReaperPauseFails, registry, election, link,
       wire
  <2>22. ASSUME RelayRestarts PROVE ControllerIsRegistered'
    BY <2>22 DEF ControllerIsRegistered, RelayRestarts, CloseHub
  <2>23. ASSUME Tick PROVE ControllerIsRegistered'
    BY <2>23 DEF ControllerIsRegistered, Registered, Tick, registry, election, link, wire
  <2>24. CASE UNCHANGED vars
    BY <2>24 DEF ControllerIsRegistered, Registered, vars, registry, election, link, wire
  <2> QED
    BY <2>1, <2>2, <2>3, <2>4, <2>5, <2>6, <2>7, <2>8, <2>9, <2>10, <2>11, <2>12, <2>13, <2>14,
       <2>15, <2>16, <2>17, <2>18, <2>19, <2>20, <2>21, <2>22, <2>23, <2>24 DEF Next
<1> QED BY <1>1, <1>2, TypeCorrect, PTL DEF Spec

\* A hub without clients always has a removal timeout to come: whatever the order
\* of opens, errors, closes and timeouts, none is left behind in the manager.
THEOREM EmptyHubStaysDoomed == Spec => []EmptyHubIsDoomed
<1> USE HubConstants, NoneIsNoValue, ResumeIsNoChannel DEF OrNone
<1>1. Init => EmptyHubIsDoomed
  BY DEF Init, EmptyHubIsDoomed, Registered
<1>2. TypeOK /\ EmptyHubIsDoomed /\ [Next]_vars => EmptyHubIsDoomed'
  <2> SUFFICES ASSUME TypeOK, EmptyHubIsDoomed, [Next]_vars PROVE EmptyHubIsDoomed'
    OBVIOUS
  <2>1. ASSUME NEW s \in Sockets, OnOpen(s) PROVE EmptyHubIsDoomed'
    <3>1. Owner[s] \in Registered'
      BY <2>1, OpenRegisters
    <3> QED BY <3>1 DEF EmptyHubIsDoomed
  <2>2. ASSUME NEW s \in Sockets, OnOpenRejected(s) PROVE EmptyHubIsDoomed'
    <3>1. removal' = removal /\ (\A r \in Sockets : sock[r] = "closing" => sock'[r] = "closing")
      BY <2>2 DEF OnOpenRejected, TypeOK, WireTypes
    <3>2. hubUp' = hubUp /\ Registered' = Registered
      BY <2>2 DEF OnOpenRejected, registry, Registered
    <3>3. SUFFICES ASSUME hubUp', Registered' = {}
                   PROVE  \E r \in Sockets : removal'[r] # None \/ sock'[r] = "closing"
      BY DEF EmptyHubIsDoomed
    <3>4. PICK r \in Sockets : removal[r] # None \/ sock[r] = "closing"
      BY <3>2, <3>3 DEF EmptyHubIsDoomed
    <3> QED BY <3>1, <3>4
  <2>3. ASSUME NEW s \in Sockets, OnClose(s) PROVE EmptyHubIsDoomed'
    <3>1. CASE hubUp
      <4>1. removal'[s] = RemoveDelay
        BY <2>3, <3>1 DEF OnClose, ScheduleRemoval, TypeOK, WireTypes
      <4> QED BY <4>1 DEF EmptyHubIsDoomed
    <3>2. CASE ~hubUp
      BY <2>3, <3>2 DEF OnClose, EmptyHubIsDoomed
    <3> QED BY <3>1, <3>2
  <2>4. ASSUME NEW s \in Sockets, OnError(s) PROVE EmptyHubIsDoomed'
    <3>1. sock'[s] = "closing"
      BY <2>4 DEF OnError, TypeOK, WireTypes
    <3> QED BY <3>1 DEF EmptyHubIsDoomed
  <2>5. ASSUME NEW s \in Sockets, Greet(s) PROVE EmptyHubIsDoomed'
    BY <2>5 DEF EmptyHubIsDoomed, Registered, Greet, registry, election, link, wire
  <2>6. ASSUME NEW s \in Sockets, RemoveFires(s) PROVE EmptyHubIsDoomed'
    <3>1. CASE Removable
      BY <2>6, <3>1 DEF RemoveFires, CloseHub, EmptyHubIsDoomed
    <3>2. CASE ~Removable
      BY <2>6, <3>2 DEF RemoveFires, Removable, registry, Registered, EmptyHubIsDoomed
    <3> QED BY <3>1, <3>2
  <2>7. ASSUME NEW s \in Sockets, NEW type \in {"prompt", "steer"}, HandleClientCommand(s, type)
        PROVE EmptyHubIsDoomed'
    BY <2>7 DEF EmptyHubIsDoomed, Registered, HandleClientCommand, registry, election, link, wire
  <2>8. ASSUME NEW h \in Channels, AttachDone(h) PROVE EmptyHubIsDoomed'
    BY <2>8 DEF EmptyHubIsDoomed, Registered, AttachDone, registry, election, link, wire
  <2>9. ASSUME NEW h \in Channels, AttachFails(h) PROVE EmptyHubIsDoomed'
    <3>1. removal' = removal /\ (\A r \in Sockets : sock[r] = "closing" => sock'[r] = "closing")
      BY <2>9 DEF AttachFails, TypeOK, WireTypes
    <3>2. hubUp' = hubUp /\ Registered' = Registered
      BY <2>9 DEF AttachFails, registry, Registered
    <3>3. SUFFICES ASSUME hubUp', Registered' = {}
                   PROVE  \E r \in Sockets : removal'[r] # None \/ sock'[r] = "closing"
      BY DEF EmptyHubIsDoomed
    <3>4. PICK r \in Sockets : removal[r] # None \/ sock[r] = "closing"
      BY <3>2, <3>3 DEF EmptyHubIsDoomed
    <3> QED BY <3>1, <3>4
  <2>10. ASSUME NEW h \in Channels, StrayMessage(h) PROVE EmptyHubIsDoomed'
    BY <2>10 DEF EmptyHubIsDoomed, Registered, StrayMessage, registry, election, link, wire
  <2>11. ASSUME NEW h \in Channels, TransportCloses(h) PROVE EmptyHubIsDoomed'
    BY <2>11 DEF EmptyHubIsDoomed, Registered, TransportCloses, registry, election, link, wire
  <2>12. ASSUME NEW h \in Channels, HandleClosesChannel(h) PROVE EmptyHubIsDoomed'
    BY <2>12 DEF EmptyHubIsDoomed, Registered, HandleClosesChannel, registry, election, link, wire
  <2>13. ASSUME NEW c \in Clients, NEW b \in BOOLEAN, SetClientCapabilities(c, b)
        PROVE EmptyHubIsDoomed'
    BY <2>13 DEF EmptyHubIsDoomed, Registered, SetClientCapabilities, registry, election, link,
       wire
  <2>14. ASSUME NEW c \in Clients, SetActivatorClient(c) PROVE EmptyHubIsDoomed'
    BY <2>14 DEF EmptyHubIsDoomed, Registered, SetActivatorClient, registry, election, link, wire
  <2>15. ASSUME NEW t \in Tools, NEW b \in BOOLEAN, ToolEvent(t, b) PROVE EmptyHubIsDoomed'
    BY <2>15 DEF EmptyHubIsDoomed, Registered, ToolEvent, registry, election, link, wire
  <2>16. ASSUME NEW kind \in {"event", "ui"}, SandboxMessage(kind) PROVE EmptyHubIsDoomed'
    BY <2>16 DEF EmptyHubIsDoomed, Registered, SandboxMessage, registry, election, link, wire
  <2>17. ASSUME RowActivated PROVE EmptyHubIsDoomed'
    BY <2>17 DEF EmptyHubIsDoomed, Registered, RowActivated, registry, election, link, wire
  <2>18. ASSUME DetachFires PROVE EmptyHubIsDoomed'
    BY <2>18 DEF EmptyHubIsDoomed, Registered, DetachFires, registry, election, link, wire
  <2>19. ASSUME ReaperSuspends PROVE EmptyHubIsDoomed'
    BY <2>19 DEF EmptyHubIsDoomed, Registered, ReaperSuspends, registry, election, link, wire
  <2>20. ASSUME ReaperPaused PROVE EmptyHubIsDoomed'
    BY <2>20 DEF EmptyHubIsDoomed, Registered, ReaperPaused, registry, election, link, wire
  <2>21. ASSUME ReaperPauseFails PROVE EmptyHubIsDoomed'
    BY <2>21 DEF EmptyHubIsDoomed, Registered, ReaperPauseFails, registry, election, link, wire
  <2>22. ASSUME RelayRestarts PROVE EmptyHubIsDoomed'
    BY <2>22 DEF RelayRestarts, CloseHub, EmptyHubIsDoomed
  <2>23. ASSUME Tick PROVE EmptyHubIsDoomed'
    <3>1. \A r \in Sockets : removal[r] # None => removal'[r] # None
      <4>1. \A r \in Sockets : removal[r] \in OrNone(0..RemoveDelay) /\ removal[r] # 0
        BY <2>23 DEF Tick, TypeOK, WireTypes
      <4>2. \A r \in Sockets : removal'[r] = Younger(removal[r])
        BY <2>23 DEF Tick
      <4> QED BY <4>1, <4>2 DEF Younger
    <3>2. UNCHANGED <<hubUp, sock>> /\ Registered' = Registered
      BY <2>23 DEF Tick, Registered
    <3> QED BY <3>1, <3>2 DEF EmptyHubIsDoomed
  <2>24. CASE UNCHANGED vars
    BY <2>24 DEF EmptyHubIsDoomed, Registered, vars, registry, election, link, wire
  <2> QED
    BY <2>1, <2>2, <2>3, <2>4, <2>5, <2>6, <2>7, <2>8, <2>9, <2>10, <2>11, <2>12, <2>13, <2>14,
       <2>15, <2>16, <2>17, <2>18, <2>19, <2>20, <2>21, <2>22, <2>23, <2>24 DEF Next
<1> QED BY <1>1, <1>2, TypeCorrect, PTL DEF Spec

\* A running detach timer means an empty hub, and the time of the last disconnect is
\* known exactly while the hub is empty.
THEOREM DetachTimerStaysSafe == Spec => []DetachTimerMeansEmpty
<1> USE HubConstants, NoneIsNoValue, ResumeIsNoChannel DEF OrNone
<1>1. Init => DetachTimerMeansEmpty
  BY DEF Init, DetachTimerMeansEmpty, Registered
<1>2. TypeOK /\ DetachTimerMeansEmpty /\ [Next]_vars => DetachTimerMeansEmpty'
  <2> SUFFICES ASSUME TypeOK, DetachTimerMeansEmpty, [Next]_vars PROVE DetachTimerMeansEmpty'
    OBVIOUS
  <2>1. ASSUME NEW s \in Sockets, OnOpen(s) PROVE DetachTimerMeansEmpty'
    <3>1. Owner[s] \in Registered'
      BY <2>1, OpenRegisters
    <3>2. detachTimer' = None /\ disconnectedFor' = None
      BY <2>1 DEF OnOpen, AddClient, CancelDetachTimer
    <3> QED BY <3>1, <3>2 DEF DetachTimerMeansEmpty
  <2>2. ASSUME NEW s \in Sockets, OnOpenRejected(s) PROVE DetachTimerMeansEmpty'
    BY <2>2 DEF DetachTimerMeansEmpty, Registered, OnOpenRejected, registry, election, link, wire
  <2>3. ASSUME NEW s \in Sockets, OnClose(s) PROVE DetachTimerMeansEmpty'
    <3>1. CASE hubUp /\ entry[Owner[s]] # None
      <4>1. RemoveRegistered(Owner[s]) /\ hubUp' = hubUp
        BY <2>3, <3>1 DEF OnClose, RemoveClient
      <4>2. Registered' = Registered \ {Owner[s]} /\ Owner[s] \in Registered
        BY <3>1, <4>1, RemovalLeaves DEF Registered
      <4>3. CASE Registered = {Owner[s]}
        BY <4>1, <4>2, <4>3 DEF RemoveRegistered, DetachTimerMeansEmpty
      <4>4. CASE Registered # {Owner[s]}
        BY <4>1, <4>2, <4>4 DEF RemoveRegistered, DetachTimerMeansEmpty
      <4> QED BY <4>3, <4>4
    <3>2. CASE ~(hubUp /\ entry[Owner[s]] # None)
      BY <2>3, <3>2 DEF DetachTimerMeansEmpty, Registered, OnClose, RemoveClient, registry
    <3> QED BY <3>1, <3>2
  <2>4. ASSUME NEW s \in Sockets, OnError(s) PROVE DetachTimerMeansEmpty'
    <3>1. CASE hubUp /\ entry[Owner[s]] # None
      <4>1. RemoveRegistered(Owner[s]) /\ hubUp' = hubUp
        BY <2>4, <3>1 DEF OnError, RemoveClient
      <4>2. Registered' = Registered \ {Owner[s]} /\ Owner[s] \in Registered
        BY <3>1, <4>1, RemovalLeaves DEF Registered
      <4>3. CASE Registered = {Owner[s]}
        BY <4>1, <4>2, <4>3 DEF RemoveRegistered, DetachTimerMeansEmpty
      <4>4. CASE Registered # {Owner[s]}
        BY <4>1, <4>2, <4>4 DEF RemoveRegistered, DetachTimerMeansEmpty
      <4> QED BY <4>3, <4>4
    <3>2. CASE ~(hubUp /\ entry[Owner[s]] # None)
      BY <2>4, <3>2 DEF DetachTimerMeansEmpty, Registered, OnError, RemoveClient, registry
    <3> QED BY <3>1, <3>2
  <2>5. ASSUME NEW s \in Sockets, Greet(s) PROVE DetachTimerMeansEmpty'
    BY <2>5 DEF DetachTimerMeansEmpty, Registered, Greet, registry, election, link, wire
  <2>6. ASSUME NEW s \in Sockets, RemoveFires(s) PROVE DetachTimerMeansEmpty'
    <3>1. CASE Removable
      BY <2>6, <3>1 DEF RemoveFires, CloseHub, DetachTimerMeansEmpty
    <3>2. CASE ~Removable
      BY <2>6, <3>2 DEF RemoveFires, registry, Registered, DetachTimerMeansEmpty
    <3> QED BY <3>1, <3>2
  <2>7. ASSUME NEW s \in Sockets, NEW type \in {"prompt", "steer"}, HandleClientCommand(s, type)
        PROVE DetachTimerMeansEmpty'
    BY <2>7 DEF DetachTimerMeansEmpty, Registered, HandleClientCommand, registry, election, link,
       wire
  <2>8. ASSUME NEW h \in Channels, AttachDone(h) PROVE DetachTimerMeansEmpty'
    BY <2>8 DEF DetachTimerMeansEmpty, Registered, AttachDone, registry, election, link, wire
  <2>9. ASSUME NEW h \in Channels, AttachFails(h) PROVE DetachTimerMeansEmpty'
    BY <2>9 DEF DetachTimerMeansEmpty, Registered, AttachFails, registry, election, link, wire
  <2>10. ASSUME NEW h \in Channels, StrayMessage(h) PROVE DetachTimerMeansEmpty'
    BY <2>10 DEF DetachTimerMeansEmpty, Registered, StrayMessage, registry, election, link, wire
  <2>11. ASSUME NEW h \in Channels, TransportCloses(h) PROVE DetachTimerMeansEmpty'
    BY <2>11 DEF DetachTimerMeansEmpty, Registered, TransportCloses, registry, election, link,
       wire
  <2>12. ASSUME NEW h \in Channels, HandleClosesChannel(h) PROVE DetachTimerMeansEmpty'
    BY <2>12 DEF DetachTimerMeansEmpty, Registered, HandleClosesChannel, registry, election, link,
       wire
  <2>13. ASSUME NEW c \in Clients, NEW b \in BOOLEAN, SetClientCapabilities(c, b)
        PROVE DetachTimerMeansEmpty'
    BY <2>13 DEF DetachTimerMeansEmpty, Registered, SetClientCapabilities, registry, election,
       link, wire
  <2>14. ASSUME NEW c \in Clients, SetActivatorClient(c) PROVE DetachTimerMeansEmpty'
    BY <2>14 DEF DetachTimerMeansEmpty, Registered, SetActivatorClient, registry, election, link,
       wire
  <2>15. ASSUME NEW t \in Tools, NEW b \in BOOLEAN, ToolEvent(t, b) PROVE DetachTimerMeansEmpty'
    BY <2>15 DEF DetachTimerMeansEmpty, Registered, ToolEvent, registry, election, link, wire
  <2>16. ASSUME NEW kind \in {"event", "ui"}, SandboxMessage(kind) PROVE DetachTimerMeansEmpty'
    BY <2>16 DEF DetachTimerMeansEmpty, Registered, SandboxMessage, registry, election, link, wire
  <2>17. ASSUME RowActivated PROVE DetachTimerMeansEmpty'
    BY <2>17 DEF DetachTimerMeansEmpty, Registered, RowActivated, registry, election, link, wire
  <2>18. ASSUME DetachFires PROVE DetachTimerMeansEmpty'
    BY <2>18 DEF DetachFires, Registered, DetachTimerMeansEmpty
  <2>19. ASSUME ReaperSuspends PROVE DetachTimerMeansEmpty'
    BY <2>19 DEF DetachTimerMeansEmpty, Registered, ReaperSuspends, registry, election, link, wire
  <2>20. ASSUME ReaperPaused PROVE DetachTimerMeansEmpty'
    BY <2>20 DEF DetachTimerMeansEmpty, Registered, ReaperPaused, registry, election, link, wire
  <2>21. ASSUME ReaperPauseFails PROVE DetachTimerMeansEmpty'
    BY <2>21 DEF DetachTimerMeansEmpty, Registered, ReaperPauseFails, registry, election, link,
       wire
  <2>22. ASSUME RelayRestarts PROVE DetachTimerMeansEmpty'
    BY <2>22 DEF RelayRestarts, CloseHub, DetachTimerMeansEmpty
  <2>23. ASSUME Tick PROVE DetachTimerMeansEmpty'
    <3>1. (disconnectedFor' = None) <=> (disconnectedFor = None)
      BY <2>23 DEF Tick, Older, TypeOK, RegistryTypes
    <3>2. detachTimer' # None => detachTimer # None
      BY <2>23 DEF Tick, Younger
    <3>3. hubUp' = hubUp /\ Registered' = Registered
      BY <2>23 DEF Tick, Registered
    <3> QED BY <3>1, <3>2, <3>3 DEF DetachTimerMeansEmpty
  <2>24. CASE UNCHANGED vars
    BY <2>24 DEF DetachTimerMeansEmpty, Registered, vars, registry, election, link, wire
  <2> QED
    BY <2>1, <2>2, <2>3, <2>4, <2>5, <2>6, <2>7, <2>8, <2>9, <2>10, <2>11, <2>12, <2>13, <2>14,
       <2>15, <2>16, <2>17, <2>18, <2>19, <2>20, <2>21, <2>22, <2>23, <2>24 DEF Next
<1> QED BY <1>1, <1>2, TypeCorrect, PTL DEF Spec

\* No attachment is orphaned by the hub it was made for, a hub never makes two, and
\* no addClient waits for an attachment that is over.
THEOREM AttachmentsStayOwned == Spec => []AttachmentsAreOwned
<1> USE HubConstants, NoneIsNoValue, ResumeIsNoChannel DEF OrNone
<1>1. Init => AttachmentsAreOwned
  BY DEF Init, AttachmentsAreOwned
<1>2. TypeOK /\ AttachmentsAreOwned /\ [Next]_vars => AttachmentsAreOwned'
  <2> SUFFICES ASSUME TypeOK, AttachmentsAreOwned, [Next]_vars PROVE AttachmentsAreOwned'
    OBVIOUS
  <2>1. ASSUME NEW s \in Sockets, OnOpen(s) PROVE AttachmentsAreOwned'
    <3>1. CASE channel # None
      BY <2>1, <3>1 DEF OnOpen, AddClient, EnsureAttached, AttachmentsAreOwned, TypeOK, WireTypes
    <3>2. CASE channel = None /\ attach # None
      <4>1. UNCHANGED <<channel, attach, chan>> /\ pending' = [pending EXCEPT ![s] = attach]
        BY <2>1, <3>2 DEF OnOpen, AddClient, EnsureAttached, JoinAttach
      <4> QED BY <3>2, <4>1 DEF AttachmentsAreOwned, TypeOK, WireTypes
    <3>3. CASE channel = None /\ attach = None
      <4>1. PICK h \in Channels : /\ chan[h] = "closed" /\ attach' = h
                                  /\ chan' = [chan EXCEPT ![h] = "attaching"]
                                  /\ pending' = [pending EXCEPT ![s] = h]
        BY <2>1, <3>3 DEF OnOpen, AddClient, EnsureAttached, StartAttach
      <4>2. channel' = None
        BY <2>1, <3>3 DEF OnOpen, AddClient
      <4>3. \A g \in Channels : chan'[g] = "live" => g = channel'
        BY <3>3, <4>1, <4>2 DEF AttachmentsAreOwned, TypeOK, LinkTypes
      <4>4. chan'[attach'] = "attaching"
        BY <4>1 DEF TypeOK, LinkTypes
      <4>5. \A r \in Sockets : pending'[r] \in Channels => chan'[pending'[r]] = "attaching"
        BY <4>1 DEF AttachmentsAreOwned, TypeOK, WireTypes, LinkTypes
      <4> QED BY <4>2, <4>3, <4>4, <4>5 DEF AttachmentsAreOwned
    <3> QED BY <3>1, <3>2, <3>3
  <2>2. ASSUME NEW s \in Sockets, OnOpenRejected(s) PROVE AttachmentsAreOwned'
    BY <2>2 DEF AttachmentsAreOwned, OnOpenRejected, registry, election, link, wire
  <2>3. ASSUME NEW s \in Sockets, OnClose(s) PROVE AttachmentsAreOwned'
    BY <2>3 DEF AttachmentsAreOwned, OnClose, registry, election, link, wire
  <2>4. ASSUME NEW s \in Sockets, OnError(s) PROVE AttachmentsAreOwned'
    BY <2>4 DEF AttachmentsAreOwned, OnError, registry, election, link, wire
  <2>5. ASSUME NEW s \in Sockets, Greet(s) PROVE AttachmentsAreOwned'
    <3>1. UNCHANGED <<channel, attach, chan>> /\ pending' = [pending EXCEPT ![s] = None]
      BY <2>5 DEF Greet, link
    <3> QED BY <3>1 DEF AttachmentsAreOwned, TypeOK, WireTypes
  <2>6. ASSUME NEW s \in Sockets, RemoveFires(s) PROVE AttachmentsAreOwned'
    <3>1. CASE Removable
      <4>1. /\ channel' = None /\ attach' = None /\ pending' = pending
            /\ chan' = IF channel = None THEN chan ELSE [chan EXCEPT ![channel] = "closed"]
        BY <2>6, <3>1 DEF RemoveFires, CloseHub
      <4> QED BY <4>1 DEF AttachmentsAreOwned, TypeOK, LinkTypes
    <3>2. CASE ~Removable
      BY <2>6, <3>2 DEF RemoveFires, link, AttachmentsAreOwned
    <3> QED BY <3>1, <3>2
  <2>7. ASSUME NEW s \in Sockets, NEW type \in {"prompt", "steer"}, HandleClientCommand(s, type)
        PROVE AttachmentsAreOwned'
    BY <2>7 DEF AttachmentsAreOwned, HandleClientCommand, registry, election, link, wire
  <2>8. ASSUME NEW h \in Channels, AttachDone(h) PROVE AttachmentsAreOwned'
    <3>1. \A s \in Sockets : pending'[s] \in Channels => pending'[s] = pending[s] /\ pending[s] # h
      BY <2>8 DEF AttachDone, Wake
    <3>2. CASE h = attach
      <4>1. /\ channel = None /\ channel' = h /\ attach' = None
            /\ chan' = [chan EXCEPT ![h] = "live"]
        BY <2>8, <3>2 DEF AttachDone, AttachmentsAreOwned
      <4> QED BY <3>1, <4>1 DEF AttachmentsAreOwned, TypeOK, LinkTypes
    <3>3. CASE h # attach
      <4>1. /\ UNCHANGED <<channel, attach>> /\ chan[h] = "attaching"
            /\ chan' = [chan EXCEPT ![h] = "stray"]
        BY <2>8, <3>3 DEF AttachDone
      <4> QED BY <3>1, <3>3, <4>1 DEF AttachmentsAreOwned, TypeOK, LinkTypes
    <3> QED BY <3>2, <3>3
  <2>9. ASSUME NEW h \in Channels, AttachFails(h) PROVE AttachmentsAreOwned'
    <3>1. \A s \in Sockets : pending'[s] \in Channels => pending'[s] = pending[s] /\ pending[s] # h
      BY <2>9 DEF AttachFails, Wake
    <3>2. /\ chan[h] = "attaching" /\ chan' = [chan EXCEPT ![h] = "closed"]
          /\ channel' = channel /\ attach' = IF h = attach THEN None ELSE attach
      BY <2>9 DEF AttachFails
    <3> QED BY <3>1, <3>2 DEF AttachmentsAreOwned, TypeOK, LinkTypes
  <2>10. ASSUME NEW h \in Channels, StrayMessage(h) PROVE AttachmentsAreOwned'
    BY <2>10 DEF AttachmentsAreOwned, StrayMessage, registry, election, link, wire
  <2>11. ASSUME NEW h \in Channels, TransportCloses(h) PROVE AttachmentsAreOwned'
    <3>1. /\ chan[h] \in {"live", "stray"} /\ chan' = [chan EXCEPT ![h] = "closed"]
          /\ channel' = IF h = channel THEN None ELSE channel
          /\ UNCHANGED <<attach, pending>>
      BY <2>11 DEF TransportCloses, wire
    <3> QED BY <3>1 DEF AttachmentsAreOwned, TypeOK, LinkTypes
  <2>12. ASSUME NEW h \in Channels, HandleClosesChannel(h) PROVE AttachmentsAreOwned'
    <3>1. /\ chan[h] \in {"live", "stray"} /\ chan' = [chan EXCEPT ![h] = "closed"]
          /\ UNCHANGED <<channel, attach, pending>>
      BY <2>12 DEF HandleClosesChannel, wire
    <3> QED BY <3>1 DEF AttachmentsAreOwned, TypeOK, LinkTypes
  <2>13. ASSUME NEW c \in Clients, NEW b \in BOOLEAN, SetClientCapabilities(c, b)
        PROVE AttachmentsAreOwned'
    BY <2>13 DEF AttachmentsAreOwned, SetClientCapabilities, registry, election, link, wire
  <2>14. ASSUME NEW c \in Clients, SetActivatorClient(c) PROVE AttachmentsAreOwned'
    BY <2>14 DEF AttachmentsAreOwned, SetActivatorClient, registry, election, link, wire
  <2>15. ASSUME NEW t \in Tools, NEW b \in BOOLEAN, ToolEvent(t, b) PROVE AttachmentsAreOwned'
    BY <2>15 DEF AttachmentsAreOwned, ToolEvent, registry, election, link, wire
  <2>16. ASSUME NEW kind \in {"event", "ui"}, SandboxMessage(kind) PROVE AttachmentsAreOwned'
    BY <2>16 DEF AttachmentsAreOwned, SandboxMessage, registry, election, link, wire
  <2>17. ASSUME RowActivated PROVE AttachmentsAreOwned'
    BY <2>17 DEF AttachmentsAreOwned, RowActivated, registry, election, link, wire
  <2>18. ASSUME DetachFires PROVE AttachmentsAreOwned'
    <3>1. CASE Registered = {} /\ channel # None
      <4>1. /\ chan' = [chan EXCEPT ![channel] = "closed"] /\ channel' = None
            /\ UNCHANGED <<attach, pending>>
        BY <2>18, <3>1 DEF DetachFires, wire
      <4> QED BY <3>1, <4>1 DEF AttachmentsAreOwned, TypeOK, LinkTypes
    <3>2. CASE ~(Registered = {} /\ channel # None)
      BY <2>18, <3>2 DEF DetachFires, wire, AttachmentsAreOwned
    <3> QED BY <3>1, <3>2
  <2>19. ASSUME ReaperSuspends PROVE AttachmentsAreOwned'
    BY <2>19 DEF AttachmentsAreOwned, ReaperSuspends, registry, election, link, wire
  <2>20. ASSUME ReaperPaused PROVE AttachmentsAreOwned'
    <3>1. /\ \A h \in Channels : chan'[h] = IF chan[h] \in {"live", "stray"} THEN "closed" ELSE chan[h]
          /\ UNCHANGED <<channel, attach, pending>>
      BY <2>20 DEF ReaperPaused, ChannelsSilenced, wire
    <3> QED BY <3>1 DEF AttachmentsAreOwned, TypeOK, LinkTypes
  <2>21. ASSUME ReaperPauseFails PROVE AttachmentsAreOwned'
    <3>1. CASE ChannelsSilenced
      <4>1. /\ \A h \in Channels : chan'[h] = IF chan[h] \in {"live", "stray"} THEN "closed" ELSE chan[h]
            /\ UNCHANGED <<channel, attach, pending>>
        BY <2>21, <3>1 DEF ReaperPauseFails, ChannelsSilenced, wire
      <4> QED BY <4>1 DEF AttachmentsAreOwned, TypeOK, LinkTypes
    <3>2. CASE UNCHANGED chan
      BY <2>21, <3>2 DEF ReaperPauseFails, wire, AttachmentsAreOwned
    <3> QED BY <2>21, <3>1, <3>2 DEF ReaperPauseFails
  <2>22. ASSUME RelayRestarts PROVE AttachmentsAreOwned'
    BY <2>22 DEF RelayRestarts, CloseHub, AttachmentsAreOwned
  <2>23. ASSUME Tick PROVE AttachmentsAreOwned'
    BY <2>23 DEF AttachmentsAreOwned, Tick, registry, election, link, wire
  <2>24. CASE UNCHANGED vars
    BY <2>24 DEF AttachmentsAreOwned, vars, registry, election, link, wire
  <2> QED
    BY <2>1, <2>2, <2>3, <2>4, <2>5, <2>6, <2>7, <2>8, <2>9, <2>10, <2>11, <2>12, <2>13, <2>14,
       <2>15, <2>16, <2>17, <2>18, <2>19, <2>20, <2>21, <2>22, <2>23, <2>24 DEF Next
<1> QED BY <1>1, <1>2, TypeCorrect, PTL DEF Spec

-----------------------------------------------------------------------------
(* Who is in charge is who the rules name.                                 *)

\* The election as a function of all its inputs, times of connection included.
ElectableAt(eligible, w, a, at) ==
  LET latest == {c \in eligible : \A d \in eligible : at[d] <= at[c]}
  IN  CASE w \in eligible -> {w}
        [] w \notin eligible /\ a \in eligible -> {a}
        [] w \notin eligible /\ a \notin eligible /\ eligible # {} -> latest
        [] OTHER -> {None}

Eligible == Registered \cap capable

\* The inputs of the election and its outcome.
electionState ==
  <<entry, capable, connectedAt, overlapped, controller, activator, lastWriter, cleared>>

\* Only registered clients have capabilities; the rest is ControllerIsCurrent.
ControllerInv ==
  /\ capable \subseteq Registered
  /\ overlapped = {} =>
       \/ controller \in ElectableAt(Eligible, lastWriter, activator, connectedAt)
       \/ controller = None /\ cleared

\* The election of the model is that one, at the times of the registry.
LEMMA ElectableByTime ==
  ASSUME NEW eligible, NEW w, NEW a
  PROVE  Electable(eligible, w, a) = ElectableAt(eligible, w, a, connectedAt)
BY DEF Electable, ElectableAt

\* Only the times of eligible clients matter.
LEMMA TimesOfTheEligible ==
  ASSUME NEW eligible, NEW w, NEW a, NEW at, NEW bt, \A c \in eligible : at[c] = bt[c]
  PROVE  ElectableAt(eligible, w, a, at) = ElectableAt(eligible, w, a, bt)
<1>1. {c \in eligible : \A d \in eligible : at[d] <= at[c]}
        = {c \in eligible : \A d \in eligible : bt[d] <= bt[c]}
  OBVIOUS
<1> QED BY <1>1 DEF ElectableAt

\* A controller stays the one to elect when another client leaves.
LEMMA OthersLeave ==
  ASSUME NEW eligible, NEW w, NEW a, NEW at, NEW c, NEW k, k # c,
         k \in ElectableAt(eligible, w, a, at)
  PROVE  k \in ElectableAt(eligible \ {c}, w, a, at)
<1>1. CASE w \in eligible
  BY <1>1 DEF ElectableAt
<1>2. CASE w \notin eligible /\ a \in eligible
  BY <1>2 DEF ElectableAt
<1>3. CASE w \notin eligible /\ a \notin eligible /\ eligible # {}
  <2>1. k \in eligible /\ \A d \in eligible : at[d] <= at[k]
    BY <1>3 DEF ElectableAt
  <2>2. k \in {e \in eligible \ {c} : \A d \in eligible \ {c} : at[d] <= at[e]}
    BY <2>1
  <2> QED BY <1>3, <2>2 DEF ElectableAt
<1>4. CASE eligible = {}
  BY <1>4 DEF ElectableAt
<1> QED BY <1>1, <1>2, <1>3, <1>4

\* With nobody to elect, nobody is elected.
LEMMA NobodyToElect ==
  ASSUME NEW w, NEW a, NEW at
  PROVE  ElectableAt({}, w, a, at) = {None}
BY DEF ElectableAt

\* Most steps touch neither the inputs of the election nor its outcome.
LEMMA ElectionUntouched ==
  ASSUME ControllerInv, UNCHANGED electionState
  PROVE  ControllerInv'
BY DEF ControllerInv, Eligible, Registered, electionState

\* An election on the registry as it is now.
LEMMA ElectionNow ==
  ASSUME capable' \subseteq Registered', NEW eligible, NEW w, NEW a, Elect(eligible, w, a),
         eligible = Eligible', w = lastWriter', a = activator', connectedAt' = connectedAt
  PROVE  ControllerInv'
<1>1. controller' \in ElectableAt(eligible, w, a, connectedAt)
  BY ElectableByTime DEF Elect
<1> QED BY <1>1 DEF ControllerInv

\* removeClient keeps the controller, or replaces it if it is the one to leave.
LEMMA LeavingKeepsController ==
  ASSUME TypeOK, ControllerInv, NEW c \in Clients, NEW s \in Sockets, RemoveClient(c, s)
  PROVE  ControllerInv'
<1>1. CASE hubUp /\ entry[c] # None
  <2>1. /\ RemoveRegistered(c)
        /\ overlapped \subseteq overlapped'
    BY <1>1 DEF RemoveClient
  <2>2. /\ Registered' = Registered \ {c}
        /\ capable' = capable \ {c}
        /\ lastWriter' = lastWriter /\ activator' = activator
    BY <2>1, RemovalLeaves DEF RemoveRegistered
  <2>3. Eligible' = Eligible \ {c} /\ Eligible' = (Registered \ {c}) \cap capable
    BY <2>2 DEF Eligible
  <2>4. \A e \in Eligible' : connectedAt[e] = connectedAt'[e]
    BY <2>1, <2>3 DEF RemoveRegistered, TypeOK, RegistryTypes, Eligible, Registered
  <2>5. ElectableAt(Eligible', lastWriter', activator', connectedAt')
          = ElectableAt(Eligible \ {c}, lastWriter, activator, connectedAt)
    BY <2>2, <2>3, <2>4, TimesOfTheEligible
  <2>6. CASE controller = c
    <3>1. Elect(Eligible \ {c}, lastWriter, activator)
      BY <2>1, <2>3, <2>6 DEF RemoveRegistered, ReplaceController
    <3>2. controller' \in ElectableAt(Eligible \ {c}, lastWriter, activator, connectedAt)
      BY <3>1, ElectableByTime DEF Elect
    <3> QED BY <2>2, <2>5, <3>2 DEF ControllerInv
  <2>7. CASE controller # c
    <3>1. controller' = controller /\ cleared' = cleared
      BY <2>1, <2>7 DEF RemoveRegistered, ReplaceController
    <3>2. CASE overlapped' # {}
      BY <2>2, <3>2 DEF ControllerInv
    <3>3. CASE overlapped' = {} /\ controller = None /\ cleared
      BY <2>2, <3>1, <3>3 DEF ControllerInv
    <3>4. CASE /\ overlapped' = {}
               /\ controller \in ElectableAt(Eligible, lastWriter, activator, connectedAt)
      <4>1. controller \in ElectableAt(Eligible \ {c}, lastWriter, activator, connectedAt)
        BY <2>7, <3>4, OthersLeave
      <4> QED BY <2>2, <2>5, <3>1, <4>1 DEF ControllerInv
    <3> QED BY <2>1, <3>2, <3>3, <3>4 DEF ControllerInv
  <2> QED BY <2>6, <2>7
<1>2. CASE ~(hubUp /\ entry[c] # None)
  BY <1>2, ElectionUntouched DEF RemoveClient, registry, election, electionState
<1> QED BY <1>1, <1>2

\* A new client has no capabilities yet, so nobody need be elected.
LEMMA OpeningKeepsController ==
  ASSUME TypeOK, ControllerInv, NEW s \in Sockets, OnOpen(s)
  PROVE  ControllerInv'
<1> DEFINE c == Owner[s]
<1>1. c \in Clients /\ Registered' = Registered \union {c}
  BY HubConstants, OpenRegisters
<1>2. /\ capable' = capable \ {c}
      /\ connectedAt' = [connectedAt EXCEPT ![c] = opened + 1]
      /\ UNCHANGED <<controller, activator, lastWriter, cleared>>
      /\ overlapped' = IF entry[c] = None THEN overlapped ELSE overlapped \union {c}
  BY DEF OnOpen, AddClient, election
<1>3. capable' \subseteq Registered'
  BY <1>1, <1>2 DEF ControllerInv
<1>4. CASE entry[c] # None
  BY <1>2, <1>3, <1>4 DEF ControllerInv
<1>5. CASE entry[c] = None
  <2>1. c \notin Registered /\ c \notin capable
    BY <1>5 DEF ControllerInv, Registered
  <2>2. Eligible' = Eligible /\ c \notin Eligible
    BY <1>1, <1>2, <2>1 DEF Eligible
  <2>3. \A e \in Eligible : connectedAt[e] = connectedAt'[e]
    BY <1>2, <2>2 DEF TypeOK, RegistryTypes, Eligible, Registered
  <2>4. ElectableAt(Eligible', lastWriter', activator', connectedAt')
          = ElectableAt(Eligible, lastWriter, activator, connectedAt)
    <3>1. lastWriter' = lastWriter /\ activator' = activator
      BY <1>2
    <3> QED BY <2>2, <2>3, <3>1, TimesOfTheEligible
  <2> QED BY <1>2, <1>3, <1>5, <2>4 DEF ControllerInv
<1> QED BY <1>4, <1>5

\* The controller is the one the rules name in the current state, though an
\* election runs on some only of the events that change its inputs
\* (session-hub.ts: electController and its callers).
THEOREM ControllerStaysCurrent == Spec => []ControllerIsCurrent
<1> USE HubConstants, NoneIsNoValue
<1>1. Init => ControllerInv
  <2>1. Init => capable = {} /\ Eligible = {} /\ controller = None
    BY DEF Init, Eligible
  <2> QED BY <2>1, NobodyToElect DEF ControllerInv
<1>2. TypeOK /\ ControllerInv /\ [Next]_vars => ControllerInv'
  <2> SUFFICES ASSUME TypeOK, ControllerInv, [Next]_vars PROVE ControllerInv'
    OBVIOUS
  <2>1. ASSUME NEW s \in Sockets, OnOpen(s) PROVE ControllerInv'
    BY <2>1, OpeningKeepsController
  <2>2. ASSUME NEW s \in Sockets, OnClose(s) \/ OnError(s) PROVE ControllerInv'
    BY <2>2, LeavingKeepsController DEF OnClose, OnError
  <2>3. ASSUME NEW s \in Sockets, OnOpenRejected(s) \/ Greet(s) PROVE ControllerInv'
    BY <2>3, ElectionUntouched DEF OnOpenRejected, Greet, registry, election, electionState
  <2>4. ASSUME CloseHub PROVE ControllerInv'
    <3>1. capable' = {} /\ Eligible' = {} /\ controller' = None
      BY <2>4 DEF CloseHub, Eligible
    <3> QED BY <3>1, NobodyToElect DEF ControllerInv
  <2>5. ASSUME NEW s \in Sockets, RemoveFires(s) PROVE ControllerInv'
    <3>1. CASE Removable
      BY <2>4, <2>5, <3>1 DEF RemoveFires
    <3>2. CASE ~Removable
      BY <2>5, <3>2, ElectionUntouched DEF RemoveFires, registry, election, electionState
    <3> QED BY <3>1, <3>2
  <2>6. ASSUME NEW s \in Sockets, NEW type \in {"prompt", "steer"}, HandleClientCommand(s, type)
        PROVE ControllerInv'
    <3>1. CASE Owner[s] \in capable
      <4>1. Elect(Registered \cap capable, Owner[s], activator) /\ lastWriter' = Owner[s]
        BY <2>6, <3>1 DEF HandleClientCommand, ElectWriter
      <4>2. /\ UNCHANGED <<entry, capable, connectedAt, activator>>
            /\ Registered \cap capable = Eligible' /\ capable' \subseteq Registered'
        BY <2>6 DEF HandleClientCommand, registry, Eligible, Registered, ControllerInv
      <4> QED BY <4>1, <4>2, ElectionNow
    <3>2. CASE Owner[s] \notin capable
      BY <2>6, <3>2, ElectionUntouched DEF HandleClientCommand, registry, electionState
    <3> QED BY <3>1, <3>2
  <2>7. ASSUME NEW c \in Clients, NEW b \in BOOLEAN, SetClientCapabilities(c, b)
        PROVE ControllerInv'
    <3>1. Elect(Registered \cap capable', lastWriter, activator)
      BY <2>7 DEF SetClientCapabilities
    <3>2. /\ UNCHANGED <<connectedAt, activator, lastWriter>>
          /\ Registered' = Registered /\ c \in Registered
      BY <2>7 DEF SetClientCapabilities, Registered
    <3>3. capable' \subseteq Registered' /\ Registered \cap capable' = Eligible'
      BY <2>7, <3>2 DEF SetClientCapabilities, Eligible, ControllerInv
    <3> QED BY <3>1, <3>2, <3>3, ElectionNow
  <2>8. ASSUME NEW c \in Clients, SetActivatorClient(c) PROVE ControllerInv'
    <3>1. Elect(Registered \cap capable, lastWriter, c) /\ activator' = c
      BY <2>8 DEF SetActivatorClient
    <3>2. /\ UNCHANGED <<entry, capable, connectedAt, lastWriter>>
          /\ Registered \cap capable = Eligible' /\ capable' \subseteq Registered'
      BY <2>8 DEF SetActivatorClient, registry, Eligible, Registered, ControllerInv
    <3> QED BY <3>1, <3>2, ElectionNow
  <2>9. ASSUME ReaperSuspends PROVE ControllerInv'
    <3>1. capable' = capable /\ Registered' = Registered /\ Registered = {} /\ controller' = None
      BY <2>9 DEF ReaperSuspends, registry, Registered
    <3>2. capable' \subseteq Registered' /\ Eligible' = {}
      BY <3>1 DEF Eligible, ControllerInv
    <3> QED BY <3>1, <3>2, NobodyToElect DEF ControllerInv
  <2>10. ASSUME RelayRestarts PROVE ControllerInv'
    BY <2>4, <2>10 DEF RelayRestarts
  <2>11. ASSUME NEW h \in Channels,
                \/ AttachDone(h) \/ AttachFails(h) \/ StrayMessage(h)
                \/ TransportCloses(h) \/ HandleClosesChannel(h)
         PROVE  ControllerInv'
    BY <2>11, ElectionUntouched
       DEF AttachDone, AttachFails, StrayMessage, TransportCloses, HandleClosesChannel, registry,
           election, electionState
  <2>12. ASSUME NEW t \in Tools, NEW b \in BOOLEAN, ToolEvent(t, b) PROVE ControllerInv'
    BY <2>12, ElectionUntouched DEF ToolEvent, registry, election, electionState
  <2>13. ASSUME NEW kind \in {"event", "ui"}, SandboxMessage(kind) PROVE ControllerInv'
    BY <2>13, ElectionUntouched DEF SandboxMessage, registry, election, electionState
  <2>14. ASSUME RowActivated \/ DetachFires \/ ReaperPaused \/ ReaperPauseFails \/ Tick
         PROVE  ControllerInv'
    BY <2>14, ElectionUntouched
       DEF RowActivated, DetachFires, ReaperPaused, ReaperPauseFails, Tick, registry, election,
           electionState
  <2>15. CASE UNCHANGED vars
    BY <2>15, ElectionUntouched DEF vars, registry, election, electionState
  <2> QED
    BY <2>1, <2>2, <2>3, <2>5, <2>6, <2>7, <2>8, <2>9, <2>10, <2>11, <2>12, <2>13, <2>14, <2>15
       DEF Next
<1>3. ControllerInv => ControllerIsCurrent
  BY ElectableByTime DEF ControllerInv, ControllerIsCurrent, Eligible
<1> QED BY <1>1, <1>2, <1>3, TypeCorrect, PTL DEF Spec

-----------------------------------------------------------------------------
(* Whom the sandbox asks.                                                  *)

\* Socket s was sent row q live, after its `connected`.
SentLive(s, q) ==
  /\ told[s].joined # None /\ told[s].joined < q
  /\ \E i \in 1..Len(told[s].inbox) : told[s].inbox[i] = q

\* No socket is ahead of the journal; the rest is OneClientIsAsked.
AskedInv ==
  /\ \A s \in Sockets : \A i \in 1..Len(told[s].inbox) : told[s].inbox[i] <= Len(journal)
  /\ \A q \in 1..Len(journal) : journal[q] = "ui" =>
       \A r, s \in Sockets : SentLive(r, q) /\ SentLive(s, q) => r = s

\* A question has one addressee: the socket of the controller.
LEMMA OneAddressee ==
  ASSUME NEW r \in Audience("ui"), NEW s \in Audience("ui")
  PROVE  r = s
BY DEF Audience

\* Streams that end or stay, and a journal that stays.
LEMMA StreamsOnlyEnd ==
  ASSUME AskedInv, journal' = journal, \A s \in Sockets : told'[s] \in {told[s], Untold}
  PROVE  AskedInv'
<1>1. \A s \in Sockets : \A i \in 1..Len(told'[s].inbox) : told'[s].inbox[i] <= Len(journal')
  BY DEF AskedInv, Untold
<1>2. ASSUME NEW s \in Sockets, NEW q, SentLive(s, q)' PROVE SentLive(s, q)
  BY <1>2 DEF SentLive, Untold
<1> QED BY <1>1, <1>2 DEF AskedInv

\* A row that nobody is sent and that is no question.
LEMMA RowsUnasked ==
  ASSUME TypeOK, AskedInv, NEW kind \in {"prompt", "stray"},
         journal' = Append(journal, kind), told' = told
  PROVE  AskedInv'
<1>1. /\ Len(journal) \in Nat /\ Len(journal') = Len(journal) + 1
      /\ journal'[Len(journal) + 1] = kind
      /\ \A q \in 1..Len(journal) : journal'[q] = journal[q]
  BY DEF TypeOK, StreamTypes
<1>2. \A s \in Sockets : told[s].inbox \in Seq(Nat)
  BY DEF TypeOK, StreamTypes
<1>3. \A s \in Sockets : \A i \in 1..Len(told'[s].inbox) : told'[s].inbox[i] <= Len(journal')
  BY <1>1, <1>2 DEF AskedInv
<1>4. ASSUME NEW q \in 1..Len(journal'), journal'[q] = "ui" PROVE q \in 1..Len(journal)
  BY <1>1, <1>4
<1>5. \A s \in Sockets : \A q : SentLive(s, q)' <=> SentLive(s, q)
  BY DEF SentLive
<1> QED BY <1>1, <1>3, <1>4, <1>5 DEF AskedInv

\* Two bounded sequences joined are bounded.
LEMMA JoinedStaysBelow ==
  ASSUME NEW m \in Seq(Nat), NEW n \in Seq(Nat), NEW bound \in Nat,
         \A i \in 1..Len(m) : m[i] <= bound, \A i \in 1..Len(n) : n[i] <= bound
  PROVE  \A i \in 1..Len(m \o n) : (m \o n)[i] <= bound
<1> TAKE i \in 1..Len(m \o n)
<1>1. CASE i <= Len(m)
  <2>1. i \in 1..Len(m) /\ (m \o n)[i] = m[i]
    BY <1>1
  <2> QED BY <2>1
<1>2. CASE i > Len(m)
  <2>1. i - Len(m) \in 1..Len(n) /\ (m \o n)[i] = n[i - Len(m)]
    BY <1>2
  <2> QED BY <2>1
<1> QED BY <1>1, <1>2

\* A socket that is greeted has been asked nothing since.
LEMMA GreetAsksNobody ==
  ASSUME TypeOK, AskedInv, NEW s \in Sockets, Greet(s)
  PROVE  AskedInv'
<1> DEFINE t == entry[Owner[s]]
           greeted == [base   |-> IF MustReplay(asked[s]) THEN asked[s] ELSE Len(journal),
                       joined |-> Len(journal),
                       inbox  |-> told[t].inbox \o Replay(asked[s]),
                       alone  |-> told[t].alone]
<1>0. journal' = journal
  BY DEF Greet
<1>1. CASE ~(t # None /\ Live(t))
  <2>1. told' = told
    BY <1>1 DEF Greet
  <2> QED BY <1>0, <2>1, StreamsOnlyEnd
<1>2. CASE t # None /\ Live(t)
  <2>1. t \in Sockets
    BY <1>2, HubConstants DEF TypeOK, RegistryTypes, OrNone
  <2>2. told' = [told EXCEPT ![t] = greeted]
    BY <1>2 DEF Greet
  <2>3. /\ asked[s] \in Nat /\ Len(journal) \in Nat
        /\ told[t].inbox \in Seq(Nat) /\ Replay(asked[s]) \in Seq(Nat)
    <3>1. asked[s] \in Nat /\ journal \in Seq({"prompt", "event", "ui", "stray"})
      BY DEF TypeOK, WireTypes, StreamTypes
    <3>2. told[t].inbox \in Seq(Nat)
      BY <2>1 DEF TypeOK, StreamTypes
    <3>3. Replay(asked[s]) \in Seq(Nat)
      BY <3>1, ReplayType
    <3>4. Len(journal) \in Nat
      BY <3>1
    <3> QED BY <3>1, <3>2, <3>3, <3>4
  <2>4. \A i \in 1..Len(Replay(asked[s])) : Replay(asked[s])[i] <= Len(journal)
    BY <2>3 DEF Replay, MustReplay
  <2>5. \A i \in 1..Len(told[t].inbox) : told[t].inbox[i] <= Len(journal)
    BY <2>1 DEF AskedInv
  <2>6. \A i \in 1..Len(told[t].inbox \o Replay(asked[s])) :
           (told[t].inbox \o Replay(asked[s]))[i] <= Len(journal)
    BY <2>3, <2>4, <2>5, JoinedStaysBelow
  <2>7. told'[t] = greeted /\ \A r \in Sockets \ {t} : told'[r] = told[r]
    BY <2>1, <2>2 DEF TypeOK, StreamTypes
  <2>8. greeted.inbox = told[t].inbox \o Replay(asked[s]) /\ greeted.joined = Len(journal)
    OBVIOUS
  <2> HIDE DEF t, greeted
  <2>9. ASSUME NEW r \in Sockets, NEW i \in 1..Len(told'[r].inbox)
        PROVE  told'[r].inbox[i] <= Len(journal')
    <3>1. CASE r = t
      BY <1>0, <2>6, <2>7, <2>8, <2>9, <3>1
    <3>2. CASE r # t
      BY <1>0, <2>7, <2>9, <3>2 DEF AskedInv
    <3> QED BY <3>1, <3>2
  <2>10. ASSUME NEW r \in Sockets, NEW q \in 1..Len(journal), SentLive(r, q)'
         PROVE  SentLive(r, q)
    <3>1. r # t
      BY <2>3, <2>7, <2>8, <2>10 DEF SentLive
    <3> QED BY <2>7, <2>10, <3>1 DEF SentLive
  <2> QED BY <1>0, <2>9, <2>10 DEF AskedInv
<1> QED BY <1>1, <1>2

\* A message of the sandbox reaches its audience, as the row it is journaled as.
LEMMA MessageAsksOne ==
  ASSUME TypeOK, AskedInv, NEW kind \in {"event", "ui"}, HandleSandboxEvent(kind)
  PROVE  AskedInv'
<1> DEFINE last == Len(journal) + 1
<1>1. /\ Len(journal) \in Nat /\ Len(journal') = last
      /\ journal'[last] = kind
      /\ \A q \in 1..Len(journal) : journal'[q] = journal[q]
  BY DEF TypeOK, StreamTypes, HandleSandboxEvent
<1>2. ASSUME NEW s \in Sockets
      PROVE  /\ told[s].inbox \in Seq(Nat)
             /\ told'[s].joined = told[s].joined
             /\ \/ s \in Audience(kind) /\ told'[s].inbox = Append(told[s].inbox, last)
                \/ s \notin Audience(kind) /\ told'[s].inbox = told[s].inbox
  BY DEF TypeOK, StreamTypes, HandleSandboxEvent
<1>3. ASSUME NEW s \in Sockets, NEW i \in 1..Len(told'[s].inbox)
      PROVE  \/ i \in 1..Len(told[s].inbox) /\ told'[s].inbox[i] = told[s].inbox[i]
             \/ s \in Audience(kind) /\ told'[s].inbox[i] = last
  <2>1. CASE told'[s].inbox = told[s].inbox
    BY <1>3, <2>1
  <2>2. CASE s \in Audience(kind) /\ told'[s].inbox = Append(told[s].inbox, last)
    <3> DEFINE m == told[s].inbox
    <3>1. m \in Seq(Nat) /\ last \in Nat /\ i \in 1..Len(Append(m, last))
      BY <1>1, <1>2, <1>3, <2>2
    <3> HIDE DEF m, last
    <3>2. \/ i \in 1..Len(m) /\ Append(m, last)[i] = m[i]
          \/ Append(m, last)[i] = last
      BY <3>1
    <3> QED BY <2>2, <3>2 DEF m
  <2> QED BY <1>2, <2>1, <2>2
<1>4. \A s \in Sockets : \A i \in 1..Len(told[s].inbox) : /\ told[s].inbox[i] <= Len(journal)
                                                          /\ told[s].inbox[i] \in Nat
  BY <1>2 DEF AskedInv
<1>5. \A s \in Sockets : \A i \in 1..Len(told'[s].inbox) : told'[s].inbox[i] <= Len(journal')
  BY SMTT(20), <1>1, <1>3, <1>4
<1>6. ASSUME NEW s \in Sockets, NEW q \in 1..Len(journal), SentLive(s, q)'
      PROVE  SentLive(s, q)
  <2>1. q # last
    BY <1>1
  <2>2. PICK i \in 1..Len(told'[s].inbox) : told'[s].inbox[i] = q
    BY <1>6 DEF SentLive
  <2>3. i \in 1..Len(told[s].inbox) /\ told[s].inbox[i] = q
    BY <1>3, <2>1, <2>2
  <2> QED BY <1>2, <1>6, <2>3 DEF SentLive
<1>7. ASSUME NEW s \in Sockets, NEW q, q = last, SentLive(s, q)' PROVE s \in Audience(kind)
  <2>1. PICK i \in 1..Len(told'[s].inbox) : told'[s].inbox[i] = q
    BY <1>7 DEF SentLive
  <2> QED BY <1>1, <1>3, <1>4, <1>7, <2>1
<1>8. ASSUME NEW q \in 1..Len(journal'), journal'[q] = "ui",
             NEW r \in Sockets, NEW s \in Sockets, SentLive(r, q)', SentLive(s, q)'
      PROVE  r = s
  <2>1. CASE q \in 1..Len(journal)
    BY <1>1, <1>6, <1>8, <2>1 DEF AskedInv
  <2>2. CASE q = last
    BY <1>1, <1>7, <1>8, <2>2, OneAddressee
  <2> QED BY <1>1, <2>1, <2>2
<1> QED BY <1>5, <1>8 DEF AskedInv

\* Two users are never asked the same question live, however the controller
\* changes between the question and the answer (session-hub.ts:453).
THEOREM OneIsAsked == Spec => []OneClientIsAsked
<1>1. Init => AskedInv
  BY DEF Init, AskedInv, SentLive, Untold
<1>2. TypeOK /\ AskedInv /\ [Next]_vars => AskedInv'
  <2> SUFFICES ASSUME TypeOK, AskedInv, [Next]_vars PROVE AskedInv'
    OBVIOUS
  <2>0. ASSUME UNCHANGED <<told, journal>> PROVE AskedInv'
    BY <2>0 DEF AskedInv, SentLive
  <2>a. ASSUME NEW s \in Sockets, OnOpen(s) PROVE AskedInv'
    <3>1. /\ journal' = journal
          /\ \A r \in Sockets : told'[r].joined = told[r].joined /\ told'[r].inbox = told[r].inbox
      BY <2>a DEF OnOpen, TypeOK, StreamTypes
    <3>2. \A r \in Sockets, q \in Nat : SentLive(r, q)' <=> SentLive(r, q)
      BY <3>1 DEF SentLive
    <3>3. \A r \in Sockets : \A i \in 1..Len(told'[r].inbox) : told'[r].inbox[i] <= Len(journal')
      BY <3>1 DEF AskedInv
    <3>4. \A q \in 1..Len(journal') : q \in 1..Len(journal) /\ q \in Nat /\ journal'[q] = journal[q]
      BY <3>1
    <3> QED BY <3>2, <3>3, <3>4 DEF AskedInv
  <2>1. ASSUME NEW s \in Sockets, OnOpenRejected(s) \/ OnError(s) \/ RemoveFires(s)
        PROVE  AskedInv'
    BY <2>0, <2>1 DEF OnOpenRejected, OnError, RemoveFires
  <2>2. ASSUME NEW s \in Sockets, OnClose(s) PROVE AskedInv'
    <3>1. journal' = journal /\ \A r \in Sockets : told'[r] \in {told[r], Untold}
      BY <2>2 DEF OnClose, TypeOK, StreamTypes
    <3> QED BY <3>1, StreamsOnlyEnd
  <2>3. ASSUME NEW s \in Sockets, Greet(s) PROVE AskedInv'
    BY <2>3, GreetAsksNobody
  <2>4. ASSUME NEW s \in Sockets, NEW type \in {"prompt", "steer"}, HandleClientCommand(s, type)
        PROVE  AskedInv'
    <3>1. told' = told /\ (journal' = journal \/ journal' = Append(journal, "prompt"))
      BY <2>4 DEF HandleClientCommand, wire
    <3> QED BY <2>0, <3>1, RowsUnasked
  <2>5. ASSUME NEW h \in Channels, StrayMessage(h) PROVE AskedInv'
    <3>1. told' = told /\ journal' = Append(journal, "stray")
      BY <2>5 DEF StrayMessage, wire
    <3> QED BY <3>1, RowsUnasked
  <2>6. ASSUME NEW h \in Channels,
               AttachDone(h) \/ AttachFails(h) \/ TransportCloses(h) \/ HandleClosesChannel(h)
        PROVE  AskedInv'
    BY <2>0, <2>6 DEF AttachDone, AttachFails, TransportCloses, HandleClosesChannel, wire
  <2>7. ASSUME NEW c \in Clients, NEW b \in BOOLEAN,
               SetClientCapabilities(c, b) \/ SetActivatorClient(c)
        PROVE  AskedInv'
    BY <2>0, <2>7 DEF SetClientCapabilities, SetActivatorClient, wire
  <2>8. ASSUME NEW t \in Tools, NEW b \in BOOLEAN, ToolEvent(t, b) PROVE AskedInv'
    BY <2>8, MessageAsksOne DEF ToolEvent
  <2>9. ASSUME NEW kind \in {"event", "ui"}, SandboxMessage(kind) PROVE AskedInv'
    BY <2>9, MessageAsksOne DEF SandboxMessage
  <2>10. ASSUME RowActivated \/ DetachFires \/ ReaperSuspends \/ ReaperPaused \/ ReaperPauseFails
                \/ Tick
         PROVE  AskedInv'
    BY <2>0, <2>10
       DEF RowActivated, DetachFires, ReaperSuspends, ReaperPaused, ReaperPauseFails, Tick, wire
  <2>11. ASSUME RelayRestarts PROVE AskedInv'
    <3>1. journal' = journal /\ \A r \in Sockets : told'[r] = Untold
      BY <2>11 DEF RelayRestarts
    <3> QED BY <3>1, StreamsOnlyEnd
  <2>12. CASE UNCHANGED vars
    BY <2>0, <2>12 DEF vars, wire
  <2> QED
    BY <2>a, <2>1, <2>2, <2>3, <2>4, <2>5, <2>6, <2>7, <2>8, <2>9, <2>10, <2>11, <2>12 DEF Next
<1>3. AskedInv => OneClientIsAsked
  BY DEF AskedInv, SentLive, OneClientIsAsked
<1> QED BY <1>1, <1>2, <1>3, TypeCorrect, PTL DEF Spec

-----------------------------------------------------------------------------
(* What every socket is sent.                                              *)

(* A socket that is its client's only connection so far, registered and open. *)
Streaming(s) == Owner[s] \notin overlapped /\ entry[Owner[s]] = s /\ Live(s)

(* Nobody else is about to be greeted, or waits to be, on its behalf. *)
WaitsAlone(s) ==
  \A r \in Sockets : r # s /\ Owner[r] = Owner[s] =>
    pending[r] # "resume" /\ (attach # None => pending[r] # attach)

(* It waits and was sent nothing, or was greeted and sent all that it is owed. *)
SentSoFar(s) ==
  IF told[s].joined = None
    THEN told[s].inbox = <<>> /\ pending[s] # None
    ELSE /\ pending[s] = None
         /\ told[s].base \in 0..Len(journal) /\ told[s].joined \in 0..Len(journal)
         /\ InboxIsComplete(s)

(* Whoever waits for the hub's channel waits for the attachment of the hub; who *)
(* was alone when it opened is still the only one to be greeted.                *)
Streamed(s) ==
  /\ pending[s] \in Channels => pending[s] = attach
  /\ told[s].alone => WaitsAlone(s) /\ SentSoFar(s)

EntriesAreOwn == \A c \in Clients : entry[c] # None => Owner[entry[c]] = c
UnusedIsUntold == \A s \in Sockets : sock[s] = "unused" => told[s] = Untold
StreamInv == EntriesAreOwn /\ UnusedIsUntold /\ \A s \in Sockets : Streaming(s) => Streamed(s)

(* the journal gets no row that is sent to everybody *)
NoBroadcast == journal' = journal \/ \E kind \in {"prompt", "stray"} : journal' = Append(journal, kind)

\* The types of what the streams are made of.
LEMMA TypesOfStreams ==
  ASSUME TypeOK
  PROVE  /\ entry \in [Clients -> OrNone(Sockets)]
         /\ pending \in [Sockets -> OrNone(Channels) \union {"resume"}] /\ asked \in [Sockets -> Nat]
         /\ sock \in [Sockets -> {"unused", "open", "closing", "closed"}]
         /\ journal \in Seq({"prompt", "event", "ui", "stray"}) /\ Len(journal) \in Nat
         /\ told \in [Sockets -> StreamType] /\ \A s \in Sockets : told[s].inbox \in Seq(Nat)
         /\ attach \in OrNone(Channels) /\ channel \in OrNone(Channels)
         /\ None \notin Sockets /\ None \notin Channels /\ None \notin Nat
         /\ "resume" # None /\ "resume" \notin Channels /\ Owner \in [Sockets -> Clients]
BY HubConstants, NoneIsNoValue, ResumeIsNoChannel
   DEF TypeOK, RegistryTypes, LinkTypes, WireTypes, StreamTypes, StreamType

\* A replay is every row after its base, once and in order.
LEMMA ReplayIsComplete ==
  ASSUME Len(journal) \in Nat, NEW n \in Nat
  PROVE  LET base == IF MustReplay(n) THEN n ELSE Len(journal)
             sent == Replay(n)
         IN  /\ \A i \in 1..Len(sent) : base < sent[i] /\ sent[i] <= Len(journal)
             /\ \A i, j \in 1..Len(sent) : i < j => sent[i] < sent[j]
             /\ \A q \in base + 1 .. Len(journal) : \E i \in 1..Len(sent) : sent[i] = q
<1>1. CASE MustReplay(n)
  <2> DEFINE sent == [i \in 1 .. Len(journal) - n |-> n + i]
  <2>1. Replay(n) = sent /\ Len(journal) - n \in Nat
    BY <1>1 DEF Replay, MustReplay
  <2>2. Len(sent) = Len(journal) - n /\ \A i \in 1 .. Len(journal) - n : sent[i] = n + i
    BY <2>1
  <2> HIDE DEF sent
  <2>3. \A q \in n + 1 .. Len(journal) : q - n \in 1..Len(sent) /\ sent[q - n] = q
    BY <2>1, <2>2
  <2>4. /\ \A i \in 1..Len(sent) : n < sent[i] /\ sent[i] <= Len(journal)
        /\ \A i, j \in 1..Len(sent) : i < j => sent[i] < sent[j]
    BY <2>1, <2>2
  <2>5. \A q \in n + 1 .. Len(journal) : \E i \in 1..Len(sent) : sent[i] = q
    BY <2>3
  <2> QED BY <1>1, <2>1, <2>4, <2>5
<1>2. CASE ~MustReplay(n)
  BY <1>2 DEF Replay
<1> QED BY <1>1, <1>2

\* Rows that are not for everybody are owed to nobody.
LEMMA SentStill ==
  ASSUME TypeOK, NEW s \in Sockets, SentSoFar(s), told'[s] = told[s],
         pending'[s] # None <=> pending[s] # None, NoBroadcast
  PROVE  SentSoFar(s)'
<1>0. journal \in Seq({"prompt", "event", "ui", "stray"}) /\ Len(journal) \in Nat
  BY TypesOfStreams
<1>1. CASE told[s].joined = None
  BY <1>1 DEF SentSoFar
<1>2. CASE told[s].joined # None
  <2>1. /\ pending'[s] = None /\ told[s].base \in 0..Len(journal) /\ told[s].joined \in 0..Len(journal)
        /\ InboxIsComplete(s)
    BY <1>2 DEF SentSoFar
  <2>2. /\ Len(journal') \in Nat /\ Len(journal) <= Len(journal')
        /\ \A q \in 1..Len(journal) : journal'[q] = journal[q]
        /\ \A q \in 1..Len(journal') : q <= Len(journal) \/ journal'[q] # "event"
    BY <1>0 DEF NoBroadcast
  <2>3. Owed(s)' \subseteq Owed(s)
    BY <1>0, <2>1, <2>2 DEF Owed, Broadcast
  <2>4. InboxIsComplete(s)'
    <3> DEFINE inbox == told[s].inbox
    <3>1. /\ \A i \in 1..Len(inbox) : told[s].base < inbox[i] /\ inbox[i] <= Len(journal)
          /\ \A i, j \in 1..Len(inbox) : i < j => inbox[i] < inbox[j]
          /\ \A q \in Owed(s) : \E i \in 1..Len(inbox) : inbox[i] = q
      BY <2>1 DEF InboxIsComplete
    <3>2. \A i \in 1..Len(inbox) : inbox[i] \in Nat
      BY TypesOfStreams
    <3>3. \A i \in 1..Len(inbox) : inbox[i] <= Len(journal')
      BY <1>0, <2>2, <3>1, <3>2
    <3>4. \A q \in Owed(s)' : \E i \in 1..Len(inbox) : inbox[i] = q
      BY <2>3, <3>1
    <3> QED BY <3>1, <3>3, <3>4 DEF InboxIsComplete
  <2>5. told'[s].base \in 0..Len(journal') /\ told'[s].joined \in 0..Len(journal')
    BY <1>0, <2>1, <2>2
  <2> QED BY <1>2, <2>1, <2>4, <2>5 DEF SentSoFar
<1> QED BY <1>1, <1>2

\* A socket that a step leaves alone, and nobody who comes to wait on its behalf.
LEMMA StreamKept ==
  ASSUME TypeOK, StreamInv, NEW s \in Sockets, Streaming(s), told'[s] = told[s], pending'[s] = pending[s],
         NoBroadcast, \A r \in Sockets : pending'[r] \in {pending[r], None},
         attach' = attach \/ (attach' = None /\ pending[s] # attach)
  PROVE  Streamed(s)'
<1>1. Streamed(s)
  BY DEF StreamInv
<1>2. None \notin Channels /\ "resume" # None
  BY TypesOfStreams
<1>3. pending'[s] \in Channels => pending'[s] = attach'
  BY <1>1 DEF Streamed
<1>4. CASE told[s].alone
  <2>1. WaitsAlone(s) /\ SentSoFar(s)
    BY <1>1, <1>4 DEF Streamed
  <2>2. WaitsAlone(s)'
    BY <1>2, <2>1 DEF WaitsAlone
  <2> QED BY <1>3, <2>1, <2>2, SentStill DEF Streamed
<1> QED BY <1>3, <1>4 DEF Streamed

\* A step that greets nobody, opens nothing and sends nothing live.
LEMMA StreamsKept ==
  ASSUME TypeOK, StreamInv, NoBroadcast,
         \A c \in Clients : entry'[c] \in {entry[c], None}, overlapped \subseteq overlapped',
         \A s \in Sockets : sock'[s] = "unused" => sock[s] = "unused" /\ told'[s] = told[s],
         \A s \in Sockets : sock'[s] = "open" => sock[s] = "open" /\ told'[s] = told[s],
         \A s \in Sockets : pending'[s] \in {pending[s], None},
         \A s \in Sockets : Streaming(s) /\ sock'[s] = "open" =>
            pending'[s] = pending[s] /\ (attach' = attach \/ (attach' = None /\ pending[s] # attach))
  PROVE  StreamInv'
<1>1. EntriesAreOwn'
  BY DEF StreamInv, EntriesAreOwn
<1>2. UnusedIsUntold'
  BY DEF StreamInv, UnusedIsUntold
<1>3. ASSUME NEW s \in Sockets, Streaming(s)' PROVE Streamed(s)'
  <2>1. None # s /\ Owner[s] \in Clients
    BY TypesOfStreams
  <2>2. Streaming(s) /\ sock'[s] = "open"
    BY <1>3, <2>1 DEF Streaming, Live
  <2> QED BY <2>2, StreamKept
<1> QED BY <1>1, <1>2, <1>3 DEF StreamInv

\* A client that leaves takes its entry with it.
LEMMA EntriesOnlyGo ==
  ASSUME TypeOK, NEW c \in Clients, NEW s \in Sockets, RemoveClient(c, s)
  PROVE  /\ \A d \in Clients : entry'[d] \in {entry[d], None}
         /\ overlapped \subseteq overlapped'
<1>1. CASE hubUp /\ entry[c] # None
  <2>1. entry' = [entry EXCEPT ![c] = None] /\ overlapped \subseteq overlapped'
    BY <1>1 DEF RemoveClient, RemoveRegistered
  <2> QED BY <2>1, TypesOfStreams
<1>2. CASE ~(hubUp /\ entry[c] # None)
  BY <1>2 DEF RemoveClient, registry
<1> QED BY <1>1, <1>2

\* A socket that opens is its client's only connection, or is known to overlap; it
\* waits for the attachment of the hub, which nobody has waited for before if it is new.
LEMMA OpenBeginsStream ==
  ASSUME TypeOK, AttachmentsAreOwned, StreamInv, NEW s \in Sockets, OnOpen(s)
  PROVE  StreamInv'
<1> DEFINE c == Owner[s]
<1>0. /\ c \in Clients /\ s # None /\ journal' = journal
      /\ sock[s] = "unused" /\ \A r \in Sockets : pending[r] # "resume"
      /\ sock' = [sock EXCEPT ![s] = "open"]
      /\ told' = [told EXCEPT ![s].alone = NobodyElseWaits(s)]
      /\ entry' = [entry EXCEPT ![c] = s]
      /\ overlapped' = IF entry[c] = None THEN overlapped ELSE overlapped \union {c}
  BY TypesOfStreams DEF OnOpen, AddClient, Quiet
<1>1. /\ entry'[c] = s /\ \A d \in Clients : d # c => entry'[d] = entry[d]
      /\ \A r \in Sockets : r # s => sock'[r] = sock[r] /\ told'[r] = told[r]
  BY <1>0, TypesOfStreams
<1>2. /\ pending'[s] # None /\ (pending'[s] \in Channels => pending'[s] = attach')
      /\ \A r \in Sockets : r # s => pending'[r] = pending[r]
      /\ attach' = attach \/ (attach = None /\ \A r \in Sockets : pending[r] # attach')
      /\ NobodyElseWaits(s) => \A r \in Sockets : r # s /\ Owner[r] = c /\ attach' # None => pending[r] # attach'
  <2>1. CASE channel # None
    <3>1. pending' = [pending EXCEPT ![s] = "resume"] /\ attach' = attach /\ attach = None
      BY <2>1 DEF OnOpen, AddClient, EnsureAttached, AttachmentsAreOwned
    <3> QED BY <3>1, TypesOfStreams
  <2>2. CASE channel = None /\ attach # None
    <3>1. pending' = [pending EXCEPT ![s] = attach] /\ attach' = attach
      BY <2>2 DEF OnOpen, AddClient, EnsureAttached, JoinAttach
    <3> QED BY <2>2, <3>1, TypesOfStreams DEF NobodyElseWaits
  <2>3. CASE channel = None /\ attach = None
    <3>1. PICK h \in Channels : chan[h] = "closed" /\ attach' = h /\ pending' = [pending EXCEPT ![s] = h]
      BY <2>3 DEF OnOpen, AddClient, EnsureAttached, StartAttach
    <3>2. \A r \in Sockets : pending[r] # h
      BY <3>1 DEF AttachmentsAreOwned
    <3> QED BY <2>3, <3>1, <3>2, TypesOfStreams
  <2> QED BY <2>1, <2>2, <2>3
<1>3. EntriesAreOwn'
  BY <1>0, <1>1 DEF StreamInv, EntriesAreOwn
<1>4. UnusedIsUntold'
  BY <1>0, <1>1, TypesOfStreams DEF StreamInv, UnusedIsUntold
<1>5. Streamed(s)'
  <2>1. told[s] = Untold
    BY <1>0 DEF StreamInv, UnusedIsUntold
  <2>2. told'[s].joined = None /\ told'[s].inbox = <<>> /\ (told'[s].alone <=> NobodyElseWaits(s))
    <3>1. told'[s] = [told[s] EXCEPT !.alone = NobodyElseWaits(s)]
      BY <1>0, TypesOfStreams
    <3>2. told'[s] = [base |-> None, joined |-> None, inbox |-> <<>>, alone |-> NobodyElseWaits(s)]
      BY <2>1, <3>1 DEF Untold
    <3> QED BY <3>2
  <2>3. SentSoFar(s)'
    BY <1>2, <2>2 DEF SentSoFar
  <2>4. told'[s].alone => WaitsAlone(s)'
    BY <1>0, <1>2, <2>2 DEF WaitsAlone
  <2> QED BY <1>2, <2>3, <2>4 DEF Streamed
<1>6. ASSUME NEW r \in Sockets, r # s, Streaming(r)' PROVE Streamed(r)'
  <2>1. Owner[r] \in Clients /\ Owner[r] # c
    BY <1>1, <1>6, TypesOfStreams DEF Streaming
  <2>2. Streaming(r) /\ Streamed(r)
    BY <1>0, <1>1, <1>6, <2>1 DEF Streaming, Live, StreamInv
  <2>3. pending'[r] = pending[r] /\ told'[r] = told[r]
    BY <1>1, <1>2, <1>6
  <2>4. pending'[r] \in Channels => pending'[r] = attach'
    BY <1>2, <2>2, <2>3, TypesOfStreams DEF Streamed
  <2>5. CASE told[r].alone
    <3>1. WaitsAlone(r) /\ SentSoFar(r)
      BY <2>2, <2>5 DEF Streamed
    <3>2. SentSoFar(r)'
      BY <1>0, <2>3, <3>1, SentStill DEF NoBroadcast
    <3>3. WaitsAlone(r)'
      BY <1>2, <2>1, <3>1, TypesOfStreams DEF WaitsAlone
    <3> QED BY <2>4, <3>2, <3>3 DEF Streamed
  <2> QED BY <2>3, <2>4, <2>5 DEF Streamed
<1> QED BY <1>3, <1>4, <1>5, <1>6 DEF StreamInv

\* The greeting reaches the socket it was waited for on behalf of, which begins from
\* it; whoever is greeted on behalf of another was not alone.
LEMMA GreetBeginsInbox ==
  ASSUME TypeOK, StreamInv, NEW s \in Sockets, Greet(s)
  PROVE  StreamInv'
<1> DEFINE t == entry[Owner[s]]
           n == asked[s]
           greeted == [base   |-> IF MustReplay(n) THEN n ELSE Len(journal),
                       joined |-> Len(journal),
                       inbox  |-> told[t].inbox \o Replay(n),
                       alone  |-> told[t].alone]
<1>0. /\ pending[s] = "resume" /\ pending' = [pending EXCEPT ![s] = None]
      /\ UNCHANGED <<entry, overlapped, attach, sock, journal>>
      /\ told' = IF t # None /\ Live(t) THEN [told EXCEPT ![t] = greeted] ELSE told
  BY DEF Greet, registry, link
<1>1. NoBroadcast /\ \A r \in Sockets : pending'[r] \in {pending[r], None} /\ (r # s => pending'[r] = pending[r])
  BY <1>0, TypesOfStreams DEF NoBroadcast
<1>2. EntriesAreOwn'
  BY <1>0 DEF StreamInv, EntriesAreOwn
<1>t. Live(t) => sock[t] # "unused"
  BY DEF Live
<1>3. \A r \in Sockets : (r # t \/ t = None \/ ~Live(t)) => told'[r] = told[r]
  <2> HIDE DEF greeted, t
  <2> QED BY <1>0, TypesOfStreams
<1>4. UnusedIsUntold'
  BY <1>0, <1>t, <1>3 DEF StreamInv, UnusedIsUntold
<1>5. ASSUME NEW r \in Sockets, Streaming(r)' PROVE Streamed(r)'
  <2>1. Streaming(r) /\ Streamed(r) /\ Live(r) /\ r # None /\ entry[Owner[r]] = r
    BY <1>0, <1>5, TypesOfStreams DEF Streaming, Live, StreamInv
  <2>2. CASE r # t
    <3>1. r # s
      BY <2>1, <2>2
    <3>2. told'[r] = told[r] /\ pending'[r] = pending[r]
      BY <1>1, <1>3, <2>2, <3>1
    <3> QED BY <1>0, <1>1, <2>1, <3>2, StreamKept
  <2>3. CASE r = t
    <3>1. told'[r] = greeted /\ (told'[r].alone <=> told[r].alone)
      <4>1. told' = [told EXCEPT ![r] = greeted]
        BY <1>0, <2>1, <2>3
      <4>2. told'[r] = greeted
        <5> HIDE DEF greeted
        <5> QED BY <4>1, TypesOfStreams
      <4>3. greeted.alone = told[t].alone
        OBVIOUS
      <4> HIDE DEF greeted, t
      <4> QED BY <2>3, <4>2, <4>3
    <3>2. pending'[r] \in Channels => pending'[r] = attach'
      BY <1>0, <1>1, <2>1, TypesOfStreams DEF Streamed
    <3>3. ASSUME told[r].alone PROVE WaitsAlone(r)' /\ SentSoFar(r)'
      <4>1. WaitsAlone(r) /\ SentSoFar(r)
        BY <2>1, <3>3 DEF Streamed
      <4>2. Owner[r] = Owner[s]
        BY <2>1, <2>3, TypesOfStreams DEF StreamInv, EntriesAreOwn
      <4>3. r = s
        BY <1>0, <4>1, <4>2 DEF WaitsAlone
      <4>4. told[t].inbox = <<>>
        BY <1>0, <2>3, <4>1, <4>3, TypesOfStreams DEF SentSoFar
      <4>5. n \in Nat /\ Replay(n) \in Seq(Nat) /\ Len(journal) \in Nat
        BY TypesOfStreams, ReplayType
      <4>6. /\ told'[r].inbox = Replay(n) /\ told'[r].joined = Len(journal)
            /\ told'[r].base = IF MustReplay(n) THEN n ELSE Len(journal)
        <5>1. <<>> \o Replay(n) = Replay(n)
          BY <4>5
        <5> HIDE DEF t, n
        <5> QED BY <3>1, <4>4, <5>1
      <4>7. InboxIsComplete(r)'
        <5> HIDE DEF t, n, greeted
        <5>1. /\ \A i \in 1..Len(told'[r].inbox) : told'[r].base < told'[r].inbox[i]
                                                   /\ told'[r].inbox[i] <= Len(journal)
              /\ \A i, j \in 1..Len(told'[r].inbox) : i < j => told'[r].inbox[i] < told'[r].inbox[j]
              /\ \A q \in told'[r].base + 1 .. Len(journal) :
                   \E i \in 1..Len(told'[r].inbox) : told'[r].inbox[i] = q
          BY SMTT(20), <4>5, <4>6, ReplayIsComplete
        <5>2. Owed(r)' \subseteq told'[r].base + 1 .. Len(journal)
          BY <1>0 DEF Owed
        <5> QED BY <1>0, <5>1, <5>2 DEF InboxIsComplete
      <4>8. told'[r].base \in 0..Len(journal) /\ told'[r].joined \in 0..Len(journal) /\ told'[r].joined # None
        <5>1. MustReplay(n) => n <= Len(journal)
          BY <4>5 DEF MustReplay
        <5> HIDE DEF t, n, greeted
        <5> QED BY <4>5, <4>6, <5>1, TypesOfStreams
      <4>9. pending'[r] = None
        BY <1>0, <4>3, TypesOfStreams
      <4>10. SentSoFar(r)'
        BY <1>0, <4>7, <4>8, <4>9 DEF SentSoFar
      <4>11. WaitsAlone(r)'
        BY <1>0, <1>1, <4>1, TypesOfStreams DEF WaitsAlone
      <4> QED BY <4>10, <4>11
    <3> QED BY <3>1, <3>2, <3>3 DEF Streamed
  <2> QED BY <2>2, <2>3
<1> QED BY <1>2, <1>4, <1>5 DEF StreamInv

\* Rows that are sent live come after all that was sent before; a socket that waits
\* is not sent any, as its hub is not listening.
LEMMA MessageContinuesInbox ==
  ASSUME TypeOK, AttachmentsAreOwned, StreamInv, Quiet, Listening, NEW kind \in {"event", "ui"},
         HandleSandboxEvent(kind), UNCHANGED <<entry, overlapped, sock, pending, attach>>
  PROVE  StreamInv'
<1> DEFINE last == Len(journal) + 1
<1>0. attach = None /\ \A r \in Sockets : pending[r] # "resume"
  BY DEF Quiet, Listening, AttachmentsAreOwned
<1>1. /\ Len(journal) \in Nat /\ Len(journal') = last /\ journal'[last] = kind
      /\ \A q \in 1..Len(journal) : journal'[q] = journal[q]
  BY TypesOfStreams DEF HandleSandboxEvent
<1>2. ASSUME NEW s \in Sockets
      PROVE  /\ told'[s].joined = told[s].joined /\ told'[s].base = told[s].base
             /\ told'[s].alone = told[s].alone
             /\ told'[s].inbox = IF s \in Audience(kind) THEN Append(told[s].inbox, last) ELSE told[s].inbox
             /\ s \notin Audience(kind) => told'[s] = told[s]
  <2>1. told[s] \in StreamType
    BY TypesOfStreams
  <2>2. told'[s] = IF s \in Audience(kind) THEN [told[s] EXCEPT !.inbox = Append(@, last)] ELSE told[s]
    BY DEF HandleSandboxEvent
  <2> QED BY <2>1, <2>2 DEF StreamType
<1>3. EntriesAreOwn'
  BY DEF StreamInv, EntriesAreOwn
<1>4. UnusedIsUntold'
  <2>1. \A s \in Audience(kind) : sock[s] # "unused"
    BY DEF Audience, Live
  <2> QED BY <1>2, <2>1 DEF StreamInv, UnusedIsUntold
<1>5. ASSUME NEW s \in Sockets, Streaming(s)' PROVE Streamed(s)'
  <2>1. Streaming(s) /\ Streamed(s) /\ Live(s) /\ entry[Owner[s]] = s /\ Owner[s] \in Clients
    BY <1>5, TypesOfStreams DEF Streaming, Live, StreamInv
  <2>2. pending[s] = None
    BY <1>0, <2>1, TypesOfStreams DEF Streamed, OrNone
  <2>3. kind = "event" => s \in Audience(kind)
    BY <2>1 DEF Audience
  <2>4. ASSUME told[s].alone PROVE WaitsAlone(s)' /\ SentSoFar(s)'
    <3>1. WaitsAlone(s) /\ SentSoFar(s)
      BY <2>1, <2>4 DEF Streamed
    <3>2. /\ told[s].joined # None /\ told[s].base \in 0..Len(journal) /\ told[s].joined \in 0..Len(journal)
          /\ InboxIsComplete(s)
      BY <2>2, <3>1 DEF SentSoFar
    <3> DEFINE inbox == told[s].inbox
               inbox2 == told'[s].inbox
    <3>3. /\ inbox \in Seq(Nat) /\ Len(inbox) \in Nat
          /\ \A i \in 1..Len(inbox) : inbox[i] \in Nat
      BY TypesOfStreams
    <3>4. /\ \A i \in 1..Len(inbox) : told[s].base < inbox[i] /\ inbox[i] <= Len(journal)
          /\ \A i, j \in 1..Len(inbox) : i < j => inbox[i] < inbox[j]
          /\ \A q \in Owed(s) : \E i \in 1..Len(inbox) : inbox[i] = q
      BY <3>2 DEF InboxIsComplete
    <3>5. \/ inbox2 = inbox /\ kind # "event"
          \/ /\ Len(inbox2) = Len(inbox) + 1 /\ inbox2[Len(inbox) + 1] = last
             /\ \A i \in 1..Len(inbox) : inbox2[i] = inbox[i]
      <4>1. CASE s \notin Audience(kind)
        BY <1>2, <2>3, <4>1
      <4>2. CASE s \in Audience(kind)
        <5>1. inbox2 = Append(inbox, last)
          BY <1>2, <4>2
        <5> HIDE DEF inbox, inbox2
        <5> QED BY <1>1, <3>3, <5>1
      <4> QED BY <4>1, <4>2
    <3>6. \A q \in Owed(s)' : q \in Owed(s) \/ (q = last /\ kind = "event")
      BY <1>1, <1>2, <3>2 DEF Owed, Broadcast
    <3> HIDE DEF inbox, inbox2
    <3>7. /\ \A i \in 1..Len(inbox2) : told[s].base < inbox2[i] /\ inbox2[i] <= last
          /\ \A i, j \in 1..Len(inbox2) : i < j => inbox2[i] < inbox2[j]
      <4>1. CASE inbox2 = inbox
        BY <1>1, <3>2, <3>3, <3>4, <4>1
      <4>2. ASSUME Len(inbox2) = Len(inbox) + 1, inbox2[Len(inbox) + 1] = last,
                   \A i \in 1..Len(inbox) : inbox2[i] = inbox[i]
            PROVE  /\ \A i \in 1..Len(inbox2) : told[s].base < inbox2[i] /\ inbox2[i] <= last
                   /\ \A i, j \in 1..Len(inbox2) : i < j => inbox2[i] < inbox2[j]
        <5>1. \A i \in 1..Len(inbox2) : i \in 1..Len(inbox) \/ i = Len(inbox) + 1
          BY <3>3, <4>2
        <5>2. told[s].base < last /\ \A i \in 1..Len(inbox) : inbox[i] < last /\ inbox[i] <= last
          BY <1>1, <3>2, <3>3, <3>4
        <5>3. \A i \in 1..Len(inbox2) : told[s].base < inbox2[i] /\ inbox2[i] <= last
          BY <1>1, <3>4, <4>2, <5>1, <5>2
        <5>4. \A i, j \in 1..Len(inbox2) : i < j => inbox2[i] < inbox2[j]
          BY SMTT(20), <3>3, <3>4, <4>2, <5>1, <5>2
        <5> QED BY <5>3, <5>4
      <4> QED BY <3>5, <4>1, <4>2
    <3>9. \A q \in Owed(s)' : \E i \in 1..Len(inbox2) : inbox2[i] = q
      BY SMTT(20), <3>3, <3>4, <3>5, <3>6
    <3>10. InboxIsComplete(s)'
      BY <1>1, <1>2, <3>7, <3>9 DEF InboxIsComplete, inbox2
    <3>11. SentSoFar(s)'
      BY <1>1, <1>2, <2>2, <3>2, <3>10 DEF SentSoFar
    <3> QED BY <3>1, <3>11 DEF WaitsAlone
  <2> QED BY <1>2, <2>1, <2>4 DEF Streamed
<1> QED BY <1>3, <1>4, <1>5 DEF StreamInv

\* What a socket that is its client's only connection was sent stays complete.
LEMMA StreamsStayComplete ==
  ASSUME TypeOK, AttachmentsAreOwned, StreamInv, [Next]_vars
  PROVE  StreamInv'
<1>0. ASSUME UNCHANGED <<entry, overlapped, sock, told, pending, attach>>, NoBroadcast PROVE StreamInv'
  BY <1>0, StreamsKept
<1>u. ASSUME UNCHANGED journal PROVE NoBroadcast
  BY <1>u DEF NoBroadcast
<1>1. ASSUME NEW s \in Sockets, OnOpen(s) PROVE StreamInv'
  BY <1>1, OpenBeginsStream
<1>2. ASSUME NEW s \in Sockets, OnOpenRejected(s) PROVE StreamInv'
  <2>1. /\ sock' = [sock EXCEPT ![s] = "closing"]
        /\ UNCHANGED <<entry, overlapped, told, pending, attach, journal>>
    BY <1>2 DEF OnOpenRejected, registry, link
  <2> QED BY <1>u, <2>1, StreamsKept, TypesOfStreams
<1>3. ASSUME NEW s \in Sockets, OnClose(s) PROVE StreamInv'
  <2>1. /\ sock' = [sock EXCEPT ![s] = "closed"] /\ told' = [told EXCEPT ![s] = Untold]
        /\ UNCHANGED <<pending, attach, journal>> /\ RemoveClient(Owner[s], s)
    BY <1>3 DEF OnClose, link
  <2>2. /\ \A d \in Clients : entry'[d] \in {entry[d], None}
        /\ overlapped \subseteq overlapped'
    BY <2>1, EntriesOnlyGo, TypesOfStreams
  <2> QED BY <1>u, <2>1, <2>2, StreamsKept, TypesOfStreams
<1>4. ASSUME NEW s \in Sockets, OnError(s) PROVE StreamInv'
  <2>1. /\ sock' = [sock EXCEPT ![s] = "closing"] /\ UNCHANGED <<told, pending, attach, journal>>
        /\ RemoveClient(Owner[s], s)
    BY <1>4 DEF OnError, link
  <2>2. /\ \A d \in Clients : entry'[d] \in {entry[d], None}
        /\ overlapped \subseteq overlapped'
    BY <2>1, EntriesOnlyGo, TypesOfStreams
  <2> QED BY <1>u, <2>1, <2>2, StreamsKept, TypesOfStreams
<1>5. ASSUME NEW s \in Sockets, Greet(s) PROVE StreamInv'
  BY <1>5, GreetBeginsInbox
<1>6. ASSUME NEW s \in Sockets, RemoveFires(s) PROVE StreamInv'
  <2>1. CASE Removable
    <3>1. /\ UNCHANGED <<sock, told, pending, journal, overlapped>> /\ \A d \in Clients : entry'[d] = None
          /\ \A d \in Clients : entry[d] = None
      BY <1>6, <2>1 DEF RemoveFires, Removable, CloseHub, Registered
    <3>2. \A r \in Sockets : ~Streaming(r)
      BY <3>1, TypesOfStreams DEF Streaming
    <3> QED BY <1>u, <3>1, <3>2, StreamsKept
  <2>2. CASE ~Removable
    BY <1>0, <1>u, <1>6, <2>2 DEF RemoveFires, registry, link
  <2> QED BY <2>1, <2>2
<1>7. ASSUME NEW s \in Sockets, NEW type \in {"prompt", "steer"}, HandleClientCommand(s, type) PROVE StreamInv'
  BY <1>0, <1>7 DEF HandleClientCommand, NoBroadcast, registry, link, wire
<1>8. ASSUME NEW h \in Channels, AttachDone(h) PROVE StreamInv'
  <2>1. /\ UNCHANGED <<entry, overlapped, sock, told, journal>>
        /\ \A r \in Sockets : pending[r] # "resume"
        /\ pending' = [r \in Sockets |-> IF pending[r] = h THEN IF h = attach THEN "resume" ELSE None ELSE pending[r]]
        /\ attach' = IF h = attach THEN None ELSE attach
    BY <1>8 DEF AttachDone, Wake, Quiet, registry
  <2>2. CASE h # attach
    <3>1. \A r \in Sockets : Streaming(r) => pending[r] # h
      BY <2>2 DEF StreamInv, Streamed
    <3> QED BY <1>u, <2>1, <2>2, <3>1, StreamsKept
  <2>3. CASE h = attach
    <3>1. EntriesAreOwn' /\ UnusedIsUntold'
      BY <2>1 DEF StreamInv, EntriesAreOwn, UnusedIsUntold
    <3>2. ASSUME NEW s \in Sockets, Streaming(s)' PROVE Streamed(s)'
      <4>1. Streaming(s) /\ Streamed(s)
        BY <2>1, <3>2 DEF Streaming, Live, StreamInv
      <4>2. pending'[s] \notin Channels
        BY <2>1, <2>3, <4>1, TypesOfStreams DEF Streamed
      <4>3. CASE told[s].alone
        <5>1. WaitsAlone(s) /\ SentSoFar(s)
          BY <4>1, <4>3 DEF Streamed
        <5>2. WaitsAlone(s)'
          BY <2>1, <2>3, <5>1, TypesOfStreams DEF WaitsAlone
        <5>3. pending'[s] # None <=> pending[s] # None
          BY <2>1, <2>3, TypesOfStreams
        <5>4. SentSoFar(s)'
          BY <1>u, <2>1, <5>1, <5>3, SentStill
        <5> QED BY <4>2, <5>2, <5>4 DEF Streamed
      <4> QED BY <2>1, <4>2, <4>3 DEF Streamed
    <3> QED BY <3>1, <3>2 DEF StreamInv
  <2> QED BY <2>2, <2>3
<1>9. ASSUME NEW h \in Channels, AttachFails(h) PROVE StreamInv'
  <2>1. /\ UNCHANGED <<entry, overlapped, told, journal>>
        /\ pending' = [r \in Sockets |-> IF pending[r] = h THEN None ELSE pending[r]]
        /\ attach' = IF h = attach THEN None ELSE attach
        /\ sock' = [r \in Sockets |-> IF pending[r] = h /\ Live(r) THEN "closing" ELSE sock[r]]
    BY <1>9 DEF AttachFails, Wake, registry
  <2>2. \A r \in Sockets : sock'[r] = "open" => sock[r] = "open" /\ pending[r] # h
    BY <2>1 DEF Live
  <2>3. \A r \in Sockets : sock'[r] = "unused" => sock[r] = "unused"
    BY <2>1
  <2> QED BY <1>u, <2>1, <2>2, <2>3, StreamsKept
<1>10. ASSUME NEW h \in Channels, StrayMessage(h) PROVE StreamInv'
  BY <1>0, <1>10 DEF StrayMessage, NoBroadcast, registry, link, wire
<1>11. ASSUME NEW h \in Channels, TransportCloses(h) \/ HandleClosesChannel(h) PROVE StreamInv'
  BY <1>0, <1>u, <1>11 DEF TransportCloses, HandleClosesChannel, registry, wire
<1>12. ASSUME NEW c \in Clients, NEW b \in BOOLEAN, SetClientCapabilities(c, b) \/ SetActivatorClient(c)
       PROVE  StreamInv'
  BY <1>0, <1>u, <1>12 DEF SetClientCapabilities, SetActivatorClient, registry, link, wire
<1>13. ASSUME NEW t \in Tools, NEW b \in BOOLEAN, ToolEvent(t, b) PROVE StreamInv'
  BY <1>13, MessageContinuesInbox DEF ToolEvent, registry
<1>14. ASSUME NEW kind \in {"event", "ui"}, SandboxMessage(kind) PROVE StreamInv'
  BY <1>14, MessageContinuesInbox DEF SandboxMessage, registry, link
<1>15. CASE RowActivated \/ DetachFires \/ ReaperSuspends
  BY <1>0, <1>u, <1>15 DEF RowActivated, DetachFires, ReaperSuspends, registry, link, wire
<1>16. CASE ReaperPaused \/ ReaperPauseFails \/ Tick
  BY <1>0, <1>u, <1>16 DEF ReaperPaused, ReaperPauseFails, Tick, registry, link, wire
<1>17. CASE RelayRestarts
  <2>1. /\ UNCHANGED <<journal, overlapped>> /\ \A d \in Clients : entry'[d] = None
        /\ \A r \in Sockets : told'[r] = Untold
    BY <1>17 DEF RelayRestarts, CloseHub
  <2>2. \A r \in Sockets : ~Streaming(r)'
    BY <2>1, TypesOfStreams DEF Streaming
  <2> QED BY <2>1, <2>2 DEF StreamInv, EntriesAreOwn, UnusedIsUntold
<1>18. CASE UNCHANGED vars
  BY <1>0, <1>u, <1>18 DEF vars, registry, link, wire
<1> QED
  BY <1>1, <1>2, <1>3, <1>4, <1>5, <1>6, <1>7, <1>8, <1>9, <1>10, <1>11, <1>12, <1>13, <1>14, <1>15,
     <1>16, <1>17, <1>18 DEF Next

\* However the attachment, the replay and the messages of the sandbox interleave
\* (session-hub.ts: addClient, replayForClient, handleSandboxEvent), what a socket is
\* sent is in the order of the journal, without a gap or a repetition. The overlap
\* that is left out is the one that breaks it: a client that reconnects while its
\* last addClient still waits for the attachment is greeted on behalf of both.
THEOREM StreamStaysComplete == Spec => []StreamIsComplete
<1>1. Init => StreamInv
  <2> SUFFICES ASSUME Init PROVE StreamInv
    OBVIOUS
  <2>1. \A s \in Sockets : ~Streaming(s) /\ told[s] = Untold
    BY DEF Init, Streaming, Live
  <2> QED BY <2>1 DEF Init, StreamInv, EntriesAreOwn, UnusedIsUntold
<1>2. TypeOK /\ AttachmentsAreOwned /\ StreamInv /\ [Next]_vars => StreamInv'
  BY StreamsStayComplete
<1>3. TypeOK /\ StreamInv => StreamIsComplete
  <2> SUFFICES ASSUME TypeOK, StreamInv, NEW c \in Clients \ overlapped, c \in Registered,
                      Live(entry[c]), told[entry[c]].alone
               PROVE  IF told[entry[c]].joined = None
                        THEN told[entry[c]].inbox = <<>> /\ pending[entry[c]] # None
                        ELSE InboxIsComplete(entry[c])
    BY DEF StreamIsComplete
  <2>1. entry[c] \in Sockets /\ Owner[entry[c]] = c
    BY TypesOfStreams DEF Registered, StreamInv, EntriesAreOwn, OrNone
  <2>2. Streaming(entry[c])
    BY <2>1 DEF Streaming
  <2> QED BY <2>1, <2>2 DEF StreamInv, Streamed, SentSoFar
<1> QED BY <1>1, <1>2, <1>3, TypeCorrect, AttachmentsStayOwned, PTL DEF Spec
=============================================================================
