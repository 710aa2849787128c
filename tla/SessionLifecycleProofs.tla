------------------------ MODULE SessionLifecycleProofs ------------------------
(***************************************************************************)
(* Proofs about the life of a session, for every number of calls and       *)
(* provisionings under way together and of containers Docker may make.     *)
(***************************************************************************)
EXTENDS SessionLifecycle, TLAPS

\* A write of a status and an id leaves a well-typed row.
LEMMA UpdateRowTypes ==
  ASSUME RowTypes, NEW s \in Statuses, NEW b \in OrNone(Containers), UpdateRow(s, b)
  PROVE  RowTypes'
BY DEF RowTypes, UpdateRow, row

\* The status of a sandbox that can be found is one of a handle.
LEMMA HandleStatusType ==
  ASSUME DockerTypes, NEW b \in Containers, Known(b)
  PROVE  HandleStatus(b) \in {"resting", "creating", "running", "paused", "stopped"}
BY DEF DockerTypes, Known, HandleStatus, Cached, Exists, StatusOf

\* Only calls, provisionings and the reaper are ever under way.
LEMMA NoteLateTypes ==
  ASSUME ObservedTypes, NoteLate
  PROVE  late' \in SUBSET (Calls \union Tasks \union {Reaper})
BY DEF ObservedTypes, NoteLate, UnderWay

\* What a call, a provisioning and the reaper hold.
LEMMA ElementTypes ==
  ASSUME ProcessTypes
  PROVE  /\ \A c \in Calls : /\ call[c].op \in OrNone(Operations)
                             /\ call[c].box \in OrNone(Containers)
                             /\ call[c].writes \in BOOLEAN
         /\ \A t \in Tasks : /\ task[t].chain \in {"create", "restart", None}
                             /\ task[t].box \in OrNone(Containers)
         /\ reaper.box \in OrNone(Containers)
BY DEF ProcessTypes

\* A call that goes on is well-typed.
LEMMA CallGoesTypes ==
  ASSUME ProcessTypes, NEW c \in Calls, NEW op \in OrNone(Operations),
         NEW at \in {"resting", "polling", "resuming", "resumed", "terminating", "terminated"},
         NEW b \in OrNone(Containers), NEW writes \in BOOLEAN,
         CallGoes(c, op, at, b, writes), UNCHANGED <<task, reaper>>
  PROVE  ProcessTypes'
BY DEF ProcessTypes, CallGoes

\* A turn of activate's loop leaves the call well-typed.
LEMMA ActivateTurnTypes ==
  ASSUME RowTypes, ProcessTypes, NEW c \in Calls, ActivateTurn(c), UNCHANGED <<task, reaper>>
  PROVE  ProcessTypes'
<1>1. "activate" \in OrNone(Operations) /\ None \in OrNone(Containers)
      /\ providerId \in OrNone(Containers)
  BY DEF OrNone, Operations, RowTypes
<1>2. CASE providerId # None
  <2>1. PICK stale \in BOOLEAN :
          CallGoes(c, "activate", "resuming", providerId, stale \/ status # "active")
    BY <1>2, Zenon DEF ActivateTurn
  <2>2. (stale \/ status # "active") \in BOOLEAN
    OBVIOUS
  <2> QED BY <1>1, <2>1, <2>2, CallGoesTypes
<1>3. CASE providerId = None
  <2>1. CallGoes(c, "activate", "polling", None, FALSE)
    BY <1>3 DEF ActivateTurn
  <2> QED BY <1>1, <2>1, CallGoesTypes
<1> QED BY <1>2, <1>3

\* A provisioning that goes on is well-typed.
LEMMA TaskGoesTypes ==
  ASSUME ProcessTypes, NEW t \in Tasks, NEW b \in OrNone(Containers),
         NEW at \in {"queued", "building", "starting", "branching"},
         TaskGoes(t, at, b), UNCHANGED <<call, reaper>>
  PROVE  ProcessTypes'
<1>1. [task[t] EXCEPT !.at = at, !.box = b]
        \in [chain : {"create", "restart", None},
            at : {"resting", "queued", "building", "starting", "branching"}, box : OrNone(Containers)]
  BY DEF ProcessTypes
<1>2. task' = [task EXCEPT ![t] = [task[t] EXCEPT !.at = at, !.box = b]]
  BY DEF TaskGoes, ProcessTypes
<1> QED BY <1>1, <1>2 DEF ProcessTypes

\* A provisioning that begins is well-typed.
LEMMA SpawnTypes ==
  ASSUME ProcessTypes, NEW t \in Tasks, NEW chain \in {"create", "restart"}, Spawn(t, chain)
  PROVE  task' \in [Tasks -> [chain : {"create", "restart", None},
                        at : {"resting", "queued", "building", "starting", "branching"},
                        box : OrNone(Containers)]]
BY DEF ProcessTypes, Spawn, OrNone

\* Every variable keeps its type.
THEOREM TypeCorrect == Spec => []TypeOK
<1> USE LifecycleConstants DEF OrNone
<1>1. Init => TypeOK
  <2> SUFFICES ASSUME Init PROVE TypeOK
    OBVIOUS
  <2>1. RowTypes /\ DockerTypes
    BY DEF Init, RowTypes, DockerTypes, Statuses, Unused
  <2>2. ProcessTypes
    BY DEF Init, ProcessTypes, Resting, Unused, Unspawned
  <2>3. HubTypes /\ ObservedTypes
    BY DEF Init, HubTypes, ObservedTypes
  <2> QED BY <2>1, <2>2, <2>3 DEF TypeOK
<1>2. TypeOK /\ [Next]_vars => TypeOK'
  <2> SUFFICES ASSUME TypeOK, [Next]_vars PROVE TypeOK'
    OBVIOUS
  <2> USE DEF TypeOK
  <2>1. ASSUME NEW t \in Tasks, Create(t) PROVE TypeOK'
    <3>1. RowTypes'
      BY <2>1 DEF RowTypes, Create, Statuses
    <3>2. ProcessTypes'
      BY <2>1, SpawnTypes DEF ProcessTypes, Create, RowTypes
    <3>3. ObservedTypes'
      BY <2>1, NoteLateTypes DEF ObservedTypes, Create
    <3>4. DockerTypes' /\ HubTypes'
      BY <2>1 DEF DockerTypes, Create, docker, HubTypes, hub
    <3> QED BY <3>1, <3>2, <3>3, <3>4
  <2>2. ASSUME NEW t \in Tasks, ProvisionStarts(t) PROVE TypeOK'
    <3>1. RowTypes'
      BY <2>2, UpdateRowTypes, ElementTypes DEF RowTypes, ProvisionStarts, RecordSandbox,
         Resolves, row, Statuses, DockerTypes
    <3>2. ProcessTypes'
      BY <2>2, TaskGoesTypes, ElementTypes DEF ProcessTypes, ProvisionStarts, Resolves, TaskEnds,
         DockerTypes, Unspawned
    <3>3. ObservedTypes'
      BY <2>2, NoteLateTypes DEF ObservedTypes, ProvisionStarts, observed
    <3>4. DockerTypes' /\ HubTypes'
      BY <2>2 DEF DockerTypes, ProvisionStarts, docker, HubTypes, hub
    <3> QED BY <3>1, <3>2, <3>3, <3>4
  <2>3. ASSUME NEW t \in Tasks, ProvisionCreates(t) PROVE TypeOK'
    <3>1. DockerTypes'
      BY <2>3 DEF DockerTypes, ProvisionCreates, ContainerIs
    <3>2. ProcessTypes'
      BY <2>3, TaskGoesTypes DEF ProcessTypes, ProvisionCreates
    <3>3. ObservedTypes'
      BY <2>3, NoteLateTypes DEF ObservedTypes, ProvisionCreates, observed
    <3>4. RowTypes' /\ HubTypes'
      BY <2>3 DEF RowTypes, ProvisionCreates, row, HubTypes, hub
    <3> QED BY <3>1, <3>2, <3>3, <3>4
  <2>4. ASSUME NEW t \in Tasks, ProvisionBoots(t) PROVE TypeOK'
    <3>1. RowTypes'
      BY <2>4, UpdateRowTypes, ElementTypes DEF RowTypes, ProvisionBoots, RecordSandbox, Resolves,
         row, Statuses
    <3>2. DockerTypes'
      BY <2>4, ElementTypes DEF DockerTypes, ProvisionBoots, ContainerIs, HandleIs
    <3>3. ProcessTypes'
      BY <2>4, TaskGoesTypes, ElementTypes DEF ProcessTypes, ProvisionBoots, Resolves, TaskEnds,
         Unspawned
    <3>4. ObservedTypes'
      BY <2>4, NoteLateTypes DEF ObservedTypes, ProvisionBoots, observed
    <3>5. HubTypes'
      BY <2>4 DEF HubTypes, ProvisionBoots, hub
    <3> QED BY <3>1, <3>2, <3>3, <3>4, <3>5
  <2>5. ASSUME NEW t \in Tasks, ProvisionFails(t) PROVE TypeOK'
    <3>1. RowTypes'
      BY <2>5, UpdateRowTypes DEF RowTypes, ProvisionFails, RecordFailure, row, Statuses
    <3>2. ProcessTypes'
      BY <2>5 DEF ProcessTypes, ProvisionFails, TaskEnds, Unspawned
    <3>3. ObservedTypes'
      BY <2>5, NoteLateTypes DEF ObservedTypes, ProvisionFails, observed
    <3>4. DockerTypes' /\ HubTypes'
      BY <2>5 DEF DockerTypes, ProvisionFails, docker, HubTypes, hub
    <3> QED BY <3>1, <3>2, <3>3, <3>4
  <2>6. ASSUME NEW t \in Tasks, ProvisionReady(t) PROVE TypeOK'
    <3>1. RowTypes'
      BY <2>6, UpdateRowTypes, ElementTypes DEF RowTypes, ProvisionReady, RecordSandbox, row,
         Statuses
    <3>2. ProcessTypes'
      BY <2>6 DEF ProcessTypes, ProvisionReady, TaskEnds, Unspawned
    <3>3. ObservedTypes'
      BY <2>6, NoteLateTypes DEF ObservedTypes, ProvisionReady, observed
    <3>4. DockerTypes' /\ HubTypes'
      BY <2>6 DEF DockerTypes, ProvisionReady, docker, HubTypes, hub
    <3> QED BY <3>1, <3>2, <3>3, <3>4
  <2>7. ASSUME NEW t \in Tasks, ProvisionAbandons(t) PROVE TypeOK'
    <3>1. ProcessTypes'
      BY <2>7 DEF ProcessTypes, ProvisionAbandons, TaskEnds, Unspawned
    <3>2. ObservedTypes'
      BY <2>7, NoteLateTypes DEF ObservedTypes, ProvisionAbandons
    <3>3. RowTypes' /\ DockerTypes' /\ HubTypes'
      BY <2>7 DEF RowTypes, ProvisionAbandons, row, DockerTypes, docker, HubTypes, hub
    <3> QED BY <3>1, <3>2, <3>3
  <2>8. ASSUME NEW c \in Calls, ActivateBegins(c) PROVE TypeOK'
    <3>1. ProcessTypes'
      BY <2>8, ActivateTurnTypes DEF ActivateBegins
    <3>2. ObservedTypes'
      BY <2>8, NoteLateTypes DEF ObservedTypes, ActivateBegins, observed
    <3>3. RowTypes' /\ DockerTypes' /\ HubTypes'
      BY <2>8 DEF RowTypes, ActivateBegins, row, DockerTypes, docker, HubTypes, hub
    <3> QED BY <3>1, <3>2, <3>3
  <2>9. ASSUME NEW c \in Calls, ActivatePolls(c) PROVE TypeOK'
    <3>1. ProcessTypes'
      <4>1. CASE ActivateTurn(c)
        BY <2>9, <4>1, ActivateTurnTypes DEF ActivatePolls
      <4>2. CASE CallEnds(c)
        BY <2>9, <4>2 DEF ProcessTypes, ActivatePolls, CallEnds, Resting
      <4> QED BY <2>9, <4>1, <4>2 DEF ActivatePolls
    <3>2. ObservedTypes'
      BY <2>9, NoteLateTypes DEF ObservedTypes, ActivatePolls, observed
    <3>3. RowTypes' /\ DockerTypes' /\ HubTypes'
      BY <2>9 DEF RowTypes, ActivatePolls, row, DockerTypes, docker, HubTypes, hub
    <3> QED BY <3>1, <3>2, <3>3
  <2>10. ASSUME NEW c \in Calls, ActivateResumes(c) PROVE TypeOK'
    <3>1. DockerTypes'
      BY <2>10, ElementTypes DEF DockerTypes, ActivateResumes, ContainerIs, HandleIs, Resume
    <3>2. ProcessTypes'
      BY <2>10, CallGoesTypes, ElementTypes DEF ActivateResumes, Operations
    <3>3. ObservedTypes'
      BY <2>10, NoteLateTypes DEF ObservedTypes, ActivateResumes, observed
    <3>4. RowTypes' /\ HubTypes'
      BY <2>10 DEF RowTypes, ActivateResumes, row, HubTypes, hub
    <3> QED BY <3>1, <3>2, <3>3, <3>4
  <2>11. ASSUME NEW c \in Calls, ActivateFails(c) PROVE TypeOK'
    <3>1. DockerTypes'
      BY <2>11, HandleStatusType, ElementTypes DEF DockerTypes, ActivateFails, HandleIs, LooksUp,
         Known
    <3>2. ProcessTypes'
      BY <2>11 DEF ProcessTypes, ActivateFails, CallEnds, Resting
    <3>3. ObservedTypes'
      BY <2>11, NoteLateTypes DEF ObservedTypes, ActivateFails, observed
    <3>4. RowTypes' /\ HubTypes'
      BY <2>11 DEF RowTypes, ActivateFails, row, HubTypes, hub
    <3> QED BY <3>1, <3>2, <3>3, <3>4
  <2>12. ASSUME NEW c \in Calls, ActivateAnswers(c) PROVE TypeOK'
    <3>1. RowTypes'
      BY <2>12, UpdateRowTypes DEF RowTypes, ActivateAnswers, row, Statuses
    <3>2. ProcessTypes'
      BY <2>12 DEF ProcessTypes, ActivateAnswers, CallEnds, RowTypes, Resting
    <3>3. ObservedTypes'
      BY <2>12, NoteLateTypes DEF ObservedTypes, ActivateAnswers, observed
    <3>4. DockerTypes' /\ HubTypes'
      BY <2>12 DEF DockerTypes, ActivateAnswers, docker, HubTypes, hub
    <3> QED BY <3>1, <3>2, <3>3, <3>4
  <2>13. ASSUME NEW c \in Calls, RestartBegins(c) PROVE TypeOK'
    <3>1. ProcessTypes'
      BY <2>13, CallGoesTypes DEF RestartBegins, RowTypes, Operations
    <3>2. ObservedTypes'
      BY <2>13, NoteLateTypes DEF ObservedTypes, RestartBegins, observed
    <3>3. RowTypes' /\ DockerTypes' /\ HubTypes'
      BY <2>13 DEF RowTypes, RestartBegins, row, DockerTypes, docker, HubTypes, hub
    <3> QED BY <3>1, <3>2, <3>3
  <2>14. ASSUME NEW c \in Calls, ArchiveBegins(c) PROVE TypeOK'
    <3>1. ProcessTypes'
      BY <2>14, CallGoesTypes DEF ArchiveBegins, RowTypes, Operations
    <3>2. ObservedTypes'
      BY <2>14, NoteLateTypes DEF ObservedTypes, ArchiveBegins, observed
    <3>3. RowTypes' /\ DockerTypes' /\ HubTypes'
      BY <2>14 DEF RowTypes, ArchiveBegins, row, DockerTypes, docker, HubTypes, hub
    <3> QED BY <3>1, <3>2, <3>3
  <2>15. ASSUME NEW c \in Calls, DeleteBegins(c) PROVE TypeOK'
    <3>1. ProcessTypes'
      BY <2>15, CallGoesTypes DEF DeleteBegins, RowTypes, Operations
    <3>2. ObservedTypes'
      BY <2>15, NoteLateTypes DEF ObservedTypes, DeleteBegins, observed
    <3>3. RowTypes' /\ DockerTypes' /\ HubTypes'
      BY <2>15 DEF RowTypes, DeleteBegins, row, DockerTypes, docker, HubTypes, hub
    <3> QED BY <3>1, <3>2, <3>3
  <2>16. ASSUME NEW c \in Calls, Terminates(c) PROVE TypeOK'
    <3>1. DockerTypes'
      BY <2>16, ElementTypes DEF DockerTypes, Terminates, ContainerIs, HandleIs, Terminate, docker
    <3>2. ProcessTypes'
      BY <2>16, CallGoesTypes, ElementTypes DEF Terminates, Operations
    <3>3. ObservedTypes'
      BY <2>16, NoteLateTypes DEF ObservedTypes, Terminates, observed
    <3>4. RowTypes' /\ HubTypes'
      BY <2>16 DEF RowTypes, Terminates, row, HubTypes, hub
    <3> QED BY <3>1, <3>2, <3>3, <3>4
  <2>17. ASSUME NEW c \in Calls, NEW t \in Tasks, RestartEnds(c, t) PROVE TypeOK'
    <3>1. RowTypes'
      BY <2>17 DEF RowTypes, RestartEnds, Statuses
    <3>2. ProcessTypes'
      BY <2>17, SpawnTypes DEF ProcessTypes, RestartEnds, CallEnds, RowTypes, Resting
    <3>3. ObservedTypes'
      BY <2>17, NoteLateTypes DEF ObservedTypes, RestartEnds
    <3>4. DockerTypes' /\ HubTypes'
      BY <2>17 DEF DockerTypes, RestartEnds, docker, HubTypes, hub
    <3> QED BY <3>1, <3>2, <3>3, <3>4
  <2>18. ASSUME NEW c \in Calls, ArchiveEnds(c) PROVE TypeOK'
    <3>1. RowTypes'
      BY <2>18 DEF RowTypes, ArchiveEnds, Archived, row, Statuses
    <3>2. ProcessTypes'
      BY <2>18 DEF ProcessTypes, ArchiveEnds, CallEnds, Resting
    <3>3. ObservedTypes'
      BY <2>18, NoteLateTypes DEF ObservedTypes, ArchiveEnds
    <3>4. DockerTypes' /\ HubTypes'
      BY <2>18 DEF DockerTypes, ArchiveEnds, docker, HubTypes, hub
    <3> QED BY <3>1, <3>2, <3>3, <3>4
  <2>19. ASSUME NEW c \in Calls, DeleteEnds(c) PROVE TypeOK'
    <3>1. RowTypes'
      BY <2>19 DEF RowTypes, DeleteEnds, Statuses
    <3>2. ProcessTypes'
      BY <2>19 DEF ProcessTypes, DeleteEnds, CallEnds, RowTypes, Resting
    <3>3. ObservedTypes'
      BY <2>19, NoteLateTypes DEF ObservedTypes, DeleteEnds, observed
    <3>4. DockerTypes' /\ HubTypes'
      BY <2>19 DEF DockerTypes, DeleteEnds, docker, HubTypes, hub
    <3> QED BY <3>1, <3>2, <3>3, <3>4
  <2>20. ASSUME NEW b \in Containers, ContainerExits(b) PROVE TypeOK'
    <3>1. DockerTypes'
      BY <2>20 DEF DockerTypes, ContainerExits, ContainerIs
    <3>2. ObservedTypes'
      BY <2>20, NoteLateTypes DEF ObservedTypes, ContainerExits, observed
    <3>3. RowTypes' /\ ProcessTypes' /\ HubTypes'
      BY <2>20 DEF RowTypes, ContainerExits, row, ProcessTypes, processes, HubTypes, hub
    <3> QED BY <3>1, <3>2, <3>3
  <2>21. ASSUME NEW b \in Containers, MonitorReports(b) PROVE TypeOK'
    <3>1. DockerTypes'
      BY <2>21 DEF DockerTypes, MonitorReports, HandleIs
    <3>2. ObservedTypes'
      BY <2>21, NoteLateTypes DEF ObservedTypes, MonitorReports, observed
    <3>3. RowTypes' /\ ProcessTypes' /\ HubTypes'
      BY <2>21 DEF RowTypes, MonitorReports, row, ProcessTypes, processes, HubTypes, hub
    <3> QED BY <3>1, <3>2, <3>3
  <2>22. ASSUME ReaperLists PROVE TypeOK'
    <3>1. ProcessTypes'
      BY <2>22 DEF ProcessTypes, ReaperLists, ReaperGoes, RowTypes
    <3>2. ObservedTypes'
      BY <2>22, NoteLateTypes DEF ObservedTypes, ReaperLists, observed
    <3>3. RowTypes' /\ DockerTypes' /\ HubTypes'
      BY <2>22 DEF RowTypes, ReaperLists, row, DockerTypes, docker, HubTypes, hub
    <3> QED BY <3>1, <3>2, <3>3
  <2>23. ASSUME ReaperSkips PROVE TypeOK'
    <3>1. ProcessTypes'
      BY <2>23 DEF ProcessTypes, ReaperSkips, Unused
    <3>2. ObservedTypes'
      BY <2>23, NoteLateTypes DEF ObservedTypes, ReaperSkips, observed
    <3>3. RowTypes' /\ DockerTypes' /\ HubTypes'
      BY <2>23 DEF RowTypes, ReaperSkips, row, DockerTypes, docker, HubTypes, hub
    <3> QED BY <3>1, <3>2, <3>3
  <2>24. ASSUME ReaperSuspends PROVE TypeOK'
    <3>1. ProcessTypes'
      BY <2>24, ElementTypes DEF ProcessTypes, ReaperSuspends, ReaperGoes
    <3>2. ObservedTypes'
      BY <2>24, NoteLateTypes DEF ObservedTypes, ReaperSuspends, observed
    <3>3. RowTypes' /\ DockerTypes' /\ HubTypes'
      BY <2>24 DEF RowTypes, ReaperSuspends, row, DockerTypes, docker, HubTypes, hub
    <3> QED BY <3>1, <3>2, <3>3
  <2>25. ASSUME ReaperPauses PROVE TypeOK'
    <3>1. DockerTypes'
      BY <2>25, ElementTypes DEF DockerTypes, ReaperPauses, ContainerIs, HandleIs, Pause, docker
    <3>2. ProcessTypes'
      BY <2>25 DEF ProcessTypes, ReaperPauses, ReaperGoes
    <3>3. ObservedTypes'
      BY <2>25, NoteLateTypes DEF ObservedTypes, ReaperPauses, observed
    <3>4. RowTypes' /\ HubTypes'
      BY <2>25 DEF RowTypes, ReaperPauses, row, HubTypes, hub
    <3> QED BY <3>1, <3>2, <3>3, <3>4
  <2>26. ASSUME ReaperFails PROVE TypeOK'
    <3>1. DockerTypes'
      BY <2>26, HandleStatusType, ElementTypes DEF DockerTypes, ReaperFails, HandleIs, LooksUp,
         Known
    <3>2. ProcessTypes'
      BY <2>26 DEF ProcessTypes, ReaperFails, Unused
    <3>3. ObservedTypes'
      BY <2>26, NoteLateTypes DEF ObservedTypes, ReaperFails, observed
    <3>4. RowTypes' /\ HubTypes'
      BY <2>26 DEF RowTypes, ReaperFails, row, HubTypes, hub
    <3> QED BY <3>1, <3>2, <3>3, <3>4
  <2>27. ASSUME ReaperIdles PROVE TypeOK'
    <3>1. RowTypes'
      BY <2>27, UpdateRowTypes DEF RowTypes, ReaperIdles, row, Statuses
    <3>2. ProcessTypes'
      BY <2>27 DEF ProcessTypes, ReaperIdles, RowTypes, Unused
    <3>3. ObservedTypes'
      BY <2>27, NoteLateTypes DEF ObservedTypes, ReaperIdles, observed
    <3>4. DockerTypes' /\ HubTypes'
      BY <2>27 DEF DockerTypes, ReaperIdles, docker, HubTypes, hub
    <3> QED BY <3>1, <3>2, <3>3, <3>4
  <2>28. ASSUME ClientConnects PROVE TypeOK'
    <3>1. HubTypes'
      BY <2>28 DEF HubTypes, ClientConnects, RowTypes
    <3>2. ObservedTypes'
      BY <2>28, NoteLateTypes DEF ObservedTypes, ClientConnects
    <3>3. RowTypes' /\ DockerTypes' /\ ProcessTypes'
      BY <2>28 DEF RowTypes, ClientConnects, row, DockerTypes, docker, ProcessTypes, processes
    <3> QED BY <3>1, <3>2, <3>3
  <2>29. ASSUME ClientLeaves PROVE TypeOK'
    <3>1. HubTypes'
      BY <2>29 DEF HubTypes, ClientLeaves
    <3>2. ObservedTypes'
      BY <2>29, NoteLateTypes DEF ObservedTypes, ClientLeaves
    <3>3. RowTypes' /\ DockerTypes' /\ ProcessTypes'
      BY <2>29 DEF RowTypes, ClientLeaves, row, DockerTypes, docker, ProcessTypes, processes
    <3> QED BY <3>1, <3>2, <3>3
  <2>30. ASSUME HubAttaches PROVE TypeOK'
    <3>1. DockerTypes'
      BY <2>30, HandleStatusType, ElementTypes DEF DockerTypes, HubAttaches, Attach, ContainerIs,
         HandleIs, LooksUp, HubTypes, Known, Known
    <3>2. HubTypes'
      BY <2>30 DEF HubTypes, HubAttaches
    <3>3. ObservedTypes'
      BY <2>30, NoteLateTypes DEF ObservedTypes, HubAttaches, observed
    <3>4. RowTypes' /\ ProcessTypes'
      BY <2>30 DEF RowTypes, HubAttaches, row, ProcessTypes, processes
    <3> QED BY <3>1, <3>2, <3>3, <3>4
  <2>31. ASSUME RelayRestarts PROVE TypeOK'
    <3>1. DockerTypes'
      BY <2>31 DEF DockerTypes, RelayRestarts, Unused
    <3>2. ProcessTypes'
      BY <2>31 DEF ProcessTypes, RelayRestarts, Resting, Unused, Unspawned
    <3>3. HubTypes'
      BY <2>31 DEF HubTypes, RelayRestarts
    <3>4. ObservedTypes'
      BY <2>31, NoteLateTypes DEF ObservedTypes, RelayRestarts
    <3>5. RowTypes'
      BY <2>31 DEF RowTypes, RelayRestarts, row
    <3> QED BY <3>1, <3>2, <3>3, <3>4, <3>5
  <2>32. CASE UNCHANGED vars
    BY <2>32 DEF RowTypes, DockerTypes, ProcessTypes, HubTypes, ObservedTypes, vars, row, docker,
       processes, hub, observed
  <2> QED
    BY <2>1, <2>2, <2>3, <2>4, <2>5, <2>6, <2>7, <2>8, <2>9, <2>10, <2>11, <2>12, <2>13, <2>14,
       <2>15, <2>16, <2>17, <2>18, <2>19, <2>20, <2>21, <2>22, <2>23, <2>24, <2>25, <2>26, <2>27,
       <2>28, <2>29, <2>30, <2>31, <2>32 DEF Next
<1> QED BY <1>1, <1>2, PTL DEF Spec

\* Nothing brings a deleted session back: each of its writers finds the row gone.
THEOREM DeletedStaysDeleted == Spec => DeletedIsFinal
<1> USE LifecycleConstants DEF OrNone
<1>1. [Next]_vars => [status = "deleted" => status' = "deleted"]_vars
  <2> SUFFICES ASSUME Next PROVE status = "deleted" => status' = "deleted"
    OBVIOUS
  <2>1. ASSUME NEW t \in Tasks, Create(t) PROVE status = "deleted" => status' = "deleted"
    BY <2>1 DEF RowExists, Create
  <2>2. ASSUME NEW t \in Tasks, ProvisionStarts(t) PROVE status = "deleted" => status' = "deleted"
    BY <2>2 DEF RowExists, ProvisionStarts, RecordSandbox, Resolves, UpdateRow, row
  <2>3. ASSUME NEW t \in Tasks, ProvisionCreates(t)
         PROVE  status = "deleted" => status' = "deleted"
    BY <2>3 DEF RowExists, ProvisionCreates, row
  <2>4. ASSUME NEW t \in Tasks, ProvisionBoots(t) PROVE status = "deleted" => status' = "deleted"
    BY <2>4 DEF RowExists, ProvisionBoots, RecordSandbox, Resolves, UpdateRow, row
  <2>5. ASSUME NEW t \in Tasks, ProvisionFails(t) PROVE status = "deleted" => status' = "deleted"
    BY <2>5 DEF RowExists, ProvisionFails, RecordFailure, UpdateRow, row
  <2>6. ASSUME NEW t \in Tasks, ProvisionReady(t) PROVE status = "deleted" => status' = "deleted"
    BY <2>6 DEF RowExists, ProvisionReady, RecordSandbox, UpdateRow, row
  <2>7. ASSUME NEW t \in Tasks, ProvisionAbandons(t)
         PROVE  status = "deleted" => status' = "deleted"
    BY <2>7 DEF RowExists, ProvisionAbandons, row
  <2>8. ASSUME NEW c \in Calls, ActivateBegins(c) PROVE status = "deleted" => status' = "deleted"
    BY <2>8 DEF RowExists, ActivateBegins, row
  <2>9. ASSUME NEW c \in Calls, ActivatePolls(c) PROVE status = "deleted" => status' = "deleted"
    BY <2>9 DEF RowExists, ActivatePolls, row
  <2>10. ASSUME NEW c \in Calls, ActivateResumes(c)
         PROVE  status = "deleted" => status' = "deleted"
    BY <2>10 DEF RowExists, ActivateResumes, row
  <2>11. ASSUME NEW c \in Calls, ActivateFails(c) PROVE status = "deleted" => status' = "deleted"
    BY <2>11 DEF RowExists, ActivateFails, row
  <2>12. ASSUME NEW c \in Calls, ActivateAnswers(c)
         PROVE  status = "deleted" => status' = "deleted"
    BY <2>12 DEF RowExists, ActivateAnswers, UpdateRow, row
  <2>13. ASSUME NEW c \in Calls, RestartBegins(c) PROVE status = "deleted" => status' = "deleted"
    BY <2>13 DEF RowExists, RestartBegins, row
  <2>14. ASSUME NEW c \in Calls, ArchiveBegins(c) PROVE status = "deleted" => status' = "deleted"
    BY <2>14 DEF RowExists, ArchiveBegins, row
  <2>15. ASSUME NEW c \in Calls, DeleteBegins(c) PROVE status = "deleted" => status' = "deleted"
    BY <2>15 DEF RowExists, DeleteBegins, row
  <2>16. ASSUME NEW c \in Calls, Terminates(c) PROVE status = "deleted" => status' = "deleted"
    BY <2>16 DEF RowExists, Terminates, row
  <2>17. ASSUME NEW c \in Calls, NEW t \in Tasks, RestartEnds(c, t)
         PROVE  status = "deleted" => status' = "deleted"
    BY <2>17 DEF RowExists, RestartEnds
  <2>18. ASSUME NEW c \in Calls, ArchiveEnds(c) PROVE status = "deleted" => status' = "deleted"
    BY <2>18 DEF RowExists, ArchiveEnds, Archived, row
  <2>19. ASSUME NEW c \in Calls, DeleteEnds(c) PROVE status = "deleted" => status' = "deleted"
    BY <2>19 DEF RowExists, DeleteEnds
  <2>20. ASSUME NEW b \in Containers, ContainerExits(b)
         PROVE  status = "deleted" => status' = "deleted"
    BY <2>20 DEF RowExists, ContainerExits, row
  <2>21. ASSUME NEW b \in Containers, MonitorReports(b)
         PROVE  status = "deleted" => status' = "deleted"
    BY <2>21 DEF RowExists, MonitorReports, row
  <2>22. ASSUME ReaperLists PROVE status = "deleted" => status' = "deleted"
    BY <2>22 DEF RowExists, ReaperLists, row
  <2>23. ASSUME ReaperSkips PROVE status = "deleted" => status' = "deleted"
    BY <2>23 DEF RowExists, ReaperSkips, row
  <2>24. ASSUME ReaperSuspends PROVE status = "deleted" => status' = "deleted"
    BY <2>24 DEF RowExists, ReaperSuspends, row
  <2>25. ASSUME ReaperPauses PROVE status = "deleted" => status' = "deleted"
    BY <2>25 DEF RowExists, ReaperPauses, row
  <2>26. ASSUME ReaperFails PROVE status = "deleted" => status' = "deleted"
    BY <2>26 DEF RowExists, ReaperFails, row
  <2>27. ASSUME ReaperIdles PROVE status = "deleted" => status' = "deleted"
    BY <2>27 DEF RowExists, ReaperIdles, UpdateRow, row
  <2>28. ASSUME ClientConnects PROVE status = "deleted" => status' = "deleted"
    BY <2>28 DEF RowExists, ClientConnects, row
  <2>29. ASSUME ClientLeaves PROVE status = "deleted" => status' = "deleted"
    BY <2>29 DEF RowExists, ClientLeaves, row
  <2>30. ASSUME HubAttaches PROVE status = "deleted" => status' = "deleted"
    BY <2>30 DEF RowExists, HubAttaches, row
  <2>31. ASSUME RelayRestarts PROVE status = "deleted" => status' = "deleted"
    BY <2>31 DEF RowExists, RelayRestarts, row
  <2> QED
    BY <2>1, <2>2, <2>3, <2>4, <2>5, <2>6, <2>7, <2>8, <2>9, <2>10, <2>11, <2>12, <2>13, <2>14,
       <2>15, <2>16, <2>17, <2>18, <2>19, <2>20, <2>21, <2>22, <2>23, <2>24, <2>25, <2>26, <2>27,
       <2>28, <2>29, <2>30, <2>31 DEF Next
<1> QED BY <1>1, PTL DEF Spec, DeletedIsFinal

\* Who is where after a call goes on or ends, and after a provisioning begins, goes on
\* or ends.
LEMMA CallGoesAfter ==
  ASSUME ProcessTypes, NEW c \in Calls, NEW op, NEW at, NEW b, NEW writes,
         CallGoes(c, op, at, b, writes)
  PROVE  \A d \in Calls : IF d = c THEN call'[d].op = op /\ call'[d].at = at
                                    ELSE call'[d] = call[d]
BY DEF ProcessTypes, CallGoes

LEMMA CallEndsAfter ==
  ASSUME ProcessTypes, NEW c \in Calls, CallEnds(c)
  PROVE  \A d \in Calls : call'[d] = IF d = c THEN Resting ELSE call[d]
BY DEF ProcessTypes, CallEnds

LEMMA ActivateTurnAfter ==
  ASSUME ProcessTypes, NEW c \in Calls, ActivateTurn(c)
  PROVE  /\ RowExists
         /\ call'[c].at \in {"resuming", "polling"}
         /\ call'[c].at = "resuming" => providerId # None
         /\ \A d \in Calls : d # c => call'[d] = call[d]
BY DEF ProcessTypes, ActivateTurn, CallGoes

LEMMA SpawnAfter ==
  ASSUME ProcessTypes, NEW t \in Tasks, NEW chain, Spawn(t, chain)
  PROVE  \A u \in Tasks : IF u = t THEN task'[u].at = "queued" ELSE task'[u] = task[u]
BY DEF ProcessTypes, Spawn

LEMMA TaskGoesAfter ==
  ASSUME ProcessTypes, NEW t \in Tasks, NEW at, NEW b, TaskGoes(t, at, b)
  PROVE  \A u \in Tasks : IF u = t THEN task'[u].at = at /\ task'[u].box = b
                                    ELSE task'[u] = task[u]
BY DEF ProcessTypes, TaskGoes

LEMMA TaskEndsAfter ==
  ASSUME ProcessTypes, NEW t \in Tasks, TaskEnds(t)
  PROVE  \A u \in Tasks : task'[u] = IF u = t THEN Unspawned ELSE task[u]
BY DEF ProcessTypes, TaskEnds

\* A row is "creating" only while a provisioning is at work on the session, unless its
\* creation failed half-way or the relay stopped.
THEOREM CreatingStaysWorkedOn == Spec => []CreatingIsWorkedOn
<1> USE LifecycleConstants DEF OrNone
<1>1. Init => CreatingIsWorkedOn
  BY DEF Init, CreatingIsWorkedOn
<1>2. TypeOK /\ CreatingIsWorkedOn /\ [Next]_vars => CreatingIsWorkedOn'
  <2> SUFFICES ASSUME TypeOK, CreatingIsWorkedOn, [Next]_vars PROVE CreatingIsWorkedOn'
    OBVIOUS
  <2>1. ASSUME NEW t \in Tasks, Create(t) PROVE CreatingIsWorkedOn'
    BY <2>1, SpawnAfter DEF CreatingIsWorkedOn, TypeOK, RowExists, Create
  <2>2. ASSUME NEW t \in Tasks, ProvisionStarts(t) PROVE CreatingIsWorkedOn'
    BY <2>2, TaskGoesAfter, TaskEndsAfter DEF CreatingIsWorkedOn, TypeOK, RowExists,
       ProvisionStarts, RecordSandbox, Resolves, UpdateRow, observed, row
  <2>3. ASSUME NEW t \in Tasks, ProvisionCreates(t) PROVE CreatingIsWorkedOn'
    BY <2>3, TaskGoesAfter DEF CreatingIsWorkedOn, TypeOK, RowExists, ProvisionCreates, observed,
       row
  <2>4. ASSUME NEW t \in Tasks, ProvisionBoots(t) PROVE CreatingIsWorkedOn'
    BY <2>4, TaskGoesAfter, TaskEndsAfter DEF CreatingIsWorkedOn, TypeOK, RowExists,
       ProvisionBoots, RecordSandbox, Resolves, UpdateRow, observed, row
  <2>5. ASSUME NEW t \in Tasks, ProvisionFails(t) PROVE CreatingIsWorkedOn'
    BY <2>5, TaskEndsAfter DEF CreatingIsWorkedOn, TypeOK, RowExists, ProvisionFails,
       RecordFailure, UpdateRow, observed, row
  <2>6. ASSUME NEW t \in Tasks, ProvisionReady(t) PROVE CreatingIsWorkedOn'
    BY <2>6, TaskEndsAfter DEF CreatingIsWorkedOn, TypeOK, RowExists, ProvisionReady,
       RecordSandbox, UpdateRow, observed, row
  <2>7. ASSUME NEW t \in Tasks, ProvisionAbandons(t) PROVE CreatingIsWorkedOn'
    BY <2>7 DEF CreatingIsWorkedOn, TypeOK, RowExists, ProvisionAbandons, TaskEnds, row
  <2>8. ASSUME NEW c \in Calls, ActivateBegins(c) PROVE CreatingIsWorkedOn'
    BY <2>8 DEF CreatingIsWorkedOn, TypeOK, RowExists, ActivateBegins, observed, row
  <2>9. ASSUME NEW c \in Calls, ActivatePolls(c) PROVE CreatingIsWorkedOn'
    BY <2>9 DEF CreatingIsWorkedOn, TypeOK, RowExists, ActivatePolls, observed, row
  <2>10. ASSUME NEW c \in Calls, ActivateResumes(c) PROVE CreatingIsWorkedOn'
    BY <2>10 DEF CreatingIsWorkedOn, TypeOK, RowExists, ActivateResumes, observed, row
  <2>11. ASSUME NEW c \in Calls, ActivateFails(c) PROVE CreatingIsWorkedOn'
    BY <2>11 DEF CreatingIsWorkedOn, TypeOK, RowExists, ActivateFails, observed, row
  <2>12. ASSUME NEW c \in Calls, ActivateAnswers(c) PROVE CreatingIsWorkedOn'
    BY <2>12 DEF CreatingIsWorkedOn, TypeOK, RowExists, ActivateAnswers, UpdateRow, observed, row
  <2>13. ASSUME NEW c \in Calls, RestartBegins(c) PROVE CreatingIsWorkedOn'
    BY <2>13 DEF CreatingIsWorkedOn, TypeOK, RowExists, RestartBegins, observed, row
  <2>14. ASSUME NEW c \in Calls, ArchiveBegins(c) PROVE CreatingIsWorkedOn'
    BY <2>14 DEF CreatingIsWorkedOn, TypeOK, RowExists, ArchiveBegins, observed, row
  <2>15. ASSUME NEW c \in Calls, DeleteBegins(c) PROVE CreatingIsWorkedOn'
    BY <2>15 DEF CreatingIsWorkedOn, TypeOK, RowExists, DeleteBegins, observed, row
  <2>16. ASSUME NEW c \in Calls, Terminates(c) PROVE CreatingIsWorkedOn'
    BY <2>16 DEF CreatingIsWorkedOn, TypeOK, RowExists, Terminates, observed, row
  <2>17. ASSUME NEW c \in Calls, NEW t \in Tasks, RestartEnds(c, t) PROVE CreatingIsWorkedOn'
    BY <2>17, SpawnAfter DEF CreatingIsWorkedOn, TypeOK, RowExists, RestartEnds
  <2>18. ASSUME NEW c \in Calls, ArchiveEnds(c) PROVE CreatingIsWorkedOn'
    BY <2>18 DEF CreatingIsWorkedOn, TypeOK, RowExists, ArchiveEnds, Archived, row
  <2>19. ASSUME NEW c \in Calls, DeleteEnds(c) PROVE CreatingIsWorkedOn'
    BY <2>19 DEF CreatingIsWorkedOn, TypeOK, RowExists, DeleteEnds, observed
  <2>20. ASSUME NEW b \in Containers, ContainerExits(b) PROVE CreatingIsWorkedOn'
    BY <2>20 DEF CreatingIsWorkedOn, TypeOK, RowExists, ContainerExits, observed, processes, row
  <2>21. ASSUME NEW b \in Containers, MonitorReports(b) PROVE CreatingIsWorkedOn'
    BY <2>21 DEF CreatingIsWorkedOn, TypeOK, RowExists, MonitorReports, observed, processes, row
  <2>22. ASSUME ReaperLists PROVE CreatingIsWorkedOn'
    BY <2>22 DEF CreatingIsWorkedOn, TypeOK, RowExists, ReaperLists, observed, row
  <2>23. ASSUME ReaperSkips PROVE CreatingIsWorkedOn'
    BY <2>23 DEF CreatingIsWorkedOn, TypeOK, RowExists, ReaperSkips, observed, row
  <2>24. ASSUME ReaperSuspends PROVE CreatingIsWorkedOn'
    BY <2>24 DEF CreatingIsWorkedOn, TypeOK, RowExists, ReaperSuspends, observed, row
  <2>25. ASSUME ReaperPauses PROVE CreatingIsWorkedOn'
    BY <2>25 DEF CreatingIsWorkedOn, TypeOK, RowExists, ReaperPauses, observed, row
  <2>26. ASSUME ReaperFails PROVE CreatingIsWorkedOn'
    BY <2>26 DEF CreatingIsWorkedOn, TypeOK, RowExists, ReaperFails, observed, row
  <2>27. ASSUME ReaperIdles PROVE CreatingIsWorkedOn'
    BY <2>27 DEF CreatingIsWorkedOn, TypeOK, RowExists, ReaperIdles, UpdateRow, observed, row
  <2>28. ASSUME ClientConnects PROVE CreatingIsWorkedOn'
    BY <2>28 DEF CreatingIsWorkedOn, TypeOK, RowExists, ClientConnects, processes, row
  <2>29. ASSUME ClientLeaves PROVE CreatingIsWorkedOn'
    BY <2>29 DEF CreatingIsWorkedOn, TypeOK, RowExists, ClientLeaves, processes, row
  <2>30. ASSUME HubAttaches PROVE CreatingIsWorkedOn'
    BY <2>30 DEF CreatingIsWorkedOn, TypeOK, RowExists, HubAttaches, observed, processes, row
  <2>31. ASSUME RelayRestarts PROVE CreatingIsWorkedOn'
    BY <2>31 DEF CreatingIsWorkedOn, TypeOK, RowExists, RelayRestarts, row
  <2>32. CASE UNCHANGED vars
    BY <2>32 DEF CreatingIsWorkedOn, vars, row, docker, processes, hub, observed
  <2> QED
    BY <2>1, <2>2, <2>3, <2>4, <2>5, <2>6, <2>7, <2>8, <2>9, <2>10, <2>11, <2>12, <2>13, <2>14,
       <2>15, <2>16, <2>17, <2>18, <2>19, <2>20, <2>21, <2>22, <2>23, <2>24, <2>25, <2>26, <2>27,
       <2>28, <2>29, <2>30, <2>31, <2>32 DEF Next
<1> QED BY <1>1, <1>2, TypeCorrect, PTL DEF Spec

\* What the writers that set only the status count on: whoever resumed or suspends a
\* sandbox read its id from a row that has not lost it, a provisioning that has a
\* container knows which, and nobody but a provisioning acts before the row exists.
SandboxIdsHeld ==
  /\ \A c \in Calls : RowExists /\ call[c].at \in {"resuming", "resumed"} => providerId # None
  /\ RowExists /\ reaper.at # "resting" => providerId # None
  /\ \A t \in Tasks : task[t].at \in {"starting", "branching"} => task[t].box # None
  /\ status = "unborn" => reaper.at = "resting" /\ \A c \in Calls : call[c].at = "resting"

SandboxNamed == RowNamesSandbox /\ SandboxIdsHeld

\* SandboxNamed is inductive.
THEOREM SandboxStaysNamed == Spec => []SandboxNamed
<1> USE LifecycleConstants DEF OrNone
<1>1. Init => SandboxNamed
  BY DEF Init, SandboxNamed, RowNamesSandbox, SandboxIdsHeld, RowExists, Resting, Unused, Unspawned
<1>2. TypeOK /\ SandboxNamed /\ [Next]_vars => SandboxNamed'
  <2> SUFFICES ASSUME TypeOK, SandboxNamed, [Next]_vars PROVE SandboxNamed'
    OBVIOUS
  <2>1. ASSUME NEW t \in Tasks, Create(t) PROVE SandboxNamed'
    BY <2>1, SpawnAfter DEF SandboxNamed, RowNamesSandbox, SandboxIdsHeld, RowExists, TypeOK,
       Create
  <2>2. ASSUME NEW t \in Tasks, ProvisionStarts(t) PROVE SandboxNamed'
    BY <2>2, TaskGoesAfter, TaskEndsAfter DEF SandboxNamed, RowNamesSandbox, SandboxIdsHeld,
       RowExists, TypeOK, ProvisionStarts, RecordSandbox, Resolves, UpdateRow, row, Unspawned
  <2>3. ASSUME NEW t \in Tasks, ProvisionCreates(t) PROVE SandboxNamed'
    BY <2>3, TaskGoesAfter DEF SandboxNamed, RowNamesSandbox, SandboxIdsHeld, RowExists, TypeOK,
       ProvisionCreates, row
  <2>4. ASSUME NEW t \in Tasks, ProvisionBoots(t) PROVE SandboxNamed'
    BY <2>4, TaskGoesAfter, TaskEndsAfter DEF SandboxNamed, RowNamesSandbox, SandboxIdsHeld,
       RowExists, TypeOK, ProvisionBoots, RecordSandbox, Resolves, UpdateRow, row, Unspawned
  <2>5. ASSUME NEW t \in Tasks, ProvisionFails(t) PROVE SandboxNamed'
    BY <2>5, TaskEndsAfter DEF SandboxNamed, RowNamesSandbox, SandboxIdsHeld, RowExists, TypeOK,
       ProvisionFails, RecordFailure, UpdateRow, row, Unspawned
  <2>6. ASSUME NEW t \in Tasks, ProvisionReady(t) PROVE SandboxNamed'
    BY <2>6, TaskEndsAfter DEF SandboxNamed, RowNamesSandbox, SandboxIdsHeld, RowExists, TypeOK,
       ProvisionReady, RecordSandbox, UpdateRow, row, Unspawned
  <2>7. ASSUME NEW t \in Tasks, ProvisionAbandons(t) PROVE SandboxNamed'
    BY <2>7, TaskEndsAfter DEF SandboxNamed, RowNamesSandbox, SandboxIdsHeld, RowExists, TypeOK,
       ProvisionAbandons, row, Unspawned
  <2>8. ASSUME NEW c \in Calls, ActivateBegins(c) PROVE SandboxNamed'
    BY <2>8, ActivateTurnAfter DEF SandboxNamed, RowNamesSandbox, SandboxIdsHeld, RowExists, row,
       TypeOK, ActivateBegins
  <2>9. ASSUME NEW c \in Calls, ActivatePolls(c) PROVE SandboxNamed'
    <3>1. CASE ActivateTurn(c)
      BY <2>9, <3>1, ActivateTurnAfter DEF SandboxNamed, RowNamesSandbox, SandboxIdsHeld,
         RowExists, row, TypeOK, ActivatePolls
    <3>2. CASE CallEnds(c)
      BY <2>9, <3>2, CallEndsAfter DEF SandboxNamed, RowNamesSandbox, SandboxIdsHeld, RowExists,
         row, TypeOK, ActivatePolls, Resting
    <3> QED BY <2>9, <3>1, <3>2 DEF ActivatePolls
  <2>10. ASSUME NEW c \in Calls, ActivateResumes(c) PROVE SandboxNamed'
    BY <2>10, CallGoesAfter DEF SandboxNamed, RowNamesSandbox, SandboxIdsHeld, RowExists, TypeOK,
       ActivateResumes, row
  <2>11. ASSUME NEW c \in Calls, ActivateFails(c) PROVE SandboxNamed'
    BY <2>11, CallEndsAfter DEF SandboxNamed, RowNamesSandbox, SandboxIdsHeld, RowExists, TypeOK,
       ActivateFails, row, Resting
  <2>12. ASSUME NEW c \in Calls, ActivateAnswers(c) PROVE SandboxNamed'
    BY <2>12, CallEndsAfter DEF SandboxNamed, RowNamesSandbox, SandboxIdsHeld, RowExists, TypeOK,
       ActivateAnswers, UpdateRow, row, Resting
  <2>13. ASSUME NEW c \in Calls, RestartBegins(c) PROVE SandboxNamed'
    <3>1. PICK at \in {"terminated", "terminating"} :
            CallGoes(c, "restart", at, providerId, FALSE)
      BY <2>13 DEF RestartBegins
    <3>2. \A d \in Calls : call'[d].at \in {"resuming", "resumed"} =>
            call[d].at \in {"resuming", "resumed"}
      BY <3>1, CallGoesAfter DEF TypeOK
    <3> QED BY <2>13, <3>2 DEF SandboxNamed, RowNamesSandbox, SandboxIdsHeld, RowExists, row,
       RestartBegins, Restartable
  <2>14. ASSUME NEW c \in Calls, ArchiveBegins(c) PROVE SandboxNamed'
    <3>1. PICK at \in {"terminated", "terminating"} :
            CallGoes(c, "archive", at, providerId, FALSE)
      BY <2>14 DEF ArchiveBegins
    <3>2. \A d \in Calls : call'[d].at \in {"resuming", "resumed"} =>
            call[d].at \in {"resuming", "resumed"}
      BY <3>1, CallGoesAfter DEF TypeOK
    <3> QED BY <2>14, <3>2 DEF SandboxNamed, RowNamesSandbox, SandboxIdsHeld, RowExists, row,
       ArchiveBegins
  <2>15. ASSUME NEW c \in Calls, DeleteBegins(c) PROVE SandboxNamed'
    <3>1. PICK at \in {"terminated", "terminating"} :
            CallGoes(c, "delete", at, providerId, FALSE)
      BY <2>15 DEF DeleteBegins
    <3>2. \A d \in Calls : call'[d].at \in {"resuming", "resumed"} =>
            call[d].at \in {"resuming", "resumed"}
      BY <3>1, CallGoesAfter DEF TypeOK
    <3> QED BY <2>15, <3>2 DEF SandboxNamed, RowNamesSandbox, SandboxIdsHeld, RowExists, row,
       DeleteBegins
  <2>16. ASSUME NEW c \in Calls, Terminates(c) PROVE SandboxNamed'
    <3>1. CallGoes(c, call[c].op, "terminated", None, FALSE) /\ call[c].at = "terminating"
      BY <2>16 DEF Terminates
    <3>2. \A d \in Calls : IF d = c THEN call'[d].at = "terminated" ELSE call'[d] = call[d]
      BY ZenonT(40), <3>1, CallGoesAfter DEF TypeOK
    <3>3. UNCHANGED <<status, providerId, task, reaper>>
      BY <2>16 DEF Terminates, row
    <3> QED BY <3>1, <3>2, <3>3 DEF SandboxNamed, RowNamesSandbox, SandboxIdsHeld, RowExists
  <2>17. ASSUME NEW c \in Calls, NEW t \in Tasks, RestartEnds(c, t) PROVE SandboxNamed'
    BY <2>17, CallEndsAfter, SpawnAfter DEF SandboxNamed, RowNamesSandbox, SandboxIdsHeld,
       RowExists, TypeOK, RestartEnds, Resting
  <2>18. ASSUME NEW c \in Calls, ArchiveEnds(c) PROVE SandboxNamed'
    BY <2>18, CallEndsAfter DEF SandboxNamed, RowNamesSandbox, SandboxIdsHeld, RowExists, TypeOK,
       ArchiveEnds, Archived, row, Resting
  <2>19. ASSUME NEW c \in Calls, DeleteEnds(c) PROVE SandboxNamed'
    BY <2>19, CallEndsAfter DEF SandboxNamed, RowNamesSandbox, SandboxIdsHeld, RowExists, TypeOK,
       DeleteEnds, Resting
  <2>20. ASSUME NEW b \in Containers, ContainerExits(b) PROVE SandboxNamed'
    BY <2>20 DEF SandboxNamed, RowNamesSandbox, SandboxIdsHeld, RowExists, TypeOK, ContainerExits,
       processes, row
  <2>21. ASSUME NEW b \in Containers, MonitorReports(b) PROVE SandboxNamed'
    BY <2>21 DEF SandboxNamed, RowNamesSandbox, SandboxIdsHeld, RowExists, TypeOK, MonitorReports,
       processes, row
  <2>22. ASSUME ReaperLists PROVE SandboxNamed'
    BY <2>22 DEF SandboxNamed, RowNamesSandbox, SandboxIdsHeld, RowExists, TypeOK, ReaperLists,
       ReaperGoes, row
  <2>23. ASSUME ReaperSkips PROVE SandboxNamed'
    BY <2>23 DEF SandboxNamed, RowNamesSandbox, SandboxIdsHeld, RowExists, TypeOK, ReaperSkips,
       row
  <2>24. ASSUME ReaperSuspends PROVE SandboxNamed'
    BY <2>24 DEF SandboxNamed, RowNamesSandbox, SandboxIdsHeld, RowExists, TypeOK, ReaperSuspends,
       ReaperGoes, row
  <2>25. ASSUME ReaperPauses PROVE SandboxNamed'
    BY <2>25 DEF SandboxNamed, RowNamesSandbox, SandboxIdsHeld, RowExists, TypeOK, ReaperPauses,
       ReaperGoes, row
  <2>26. ASSUME ReaperFails PROVE SandboxNamed'
    BY <2>26 DEF SandboxNamed, RowNamesSandbox, SandboxIdsHeld, RowExists, TypeOK, ReaperFails,
       row
  <2>27. ASSUME ReaperIdles PROVE SandboxNamed'
    BY <2>27 DEF SandboxNamed, RowNamesSandbox, SandboxIdsHeld, RowExists, TypeOK, ReaperIdles,
       UpdateRow, row
  <2>28. ASSUME ClientConnects PROVE SandboxNamed'
    BY <2>28 DEF SandboxNamed, RowNamesSandbox, SandboxIdsHeld, RowExists, TypeOK, ClientConnects,
       processes, row
  <2>29. ASSUME ClientLeaves PROVE SandboxNamed'
    BY <2>29 DEF SandboxNamed, RowNamesSandbox, SandboxIdsHeld, RowExists, TypeOK, ClientLeaves,
       processes, row
  <2>30. ASSUME HubAttaches PROVE SandboxNamed'
    BY <2>30 DEF SandboxNamed, RowNamesSandbox, SandboxIdsHeld, RowExists, TypeOK, HubAttaches,
       processes, row
  <2>31. ASSUME RelayRestarts PROVE SandboxNamed'
    BY <2>31 DEF SandboxNamed, RowNamesSandbox, SandboxIdsHeld, RowExists, TypeOK, RelayRestarts,
       row, Resting, Unused, Unspawned
  <2>32. CASE UNCHANGED vars
    BY <2>32 DEF SandboxNamed, RowNamesSandbox, SandboxIdsHeld, RowExists, vars, row, docker,
       processes, hub, observed
  <2> QED
    BY <2>1, <2>2, <2>3, <2>4, <2>5, <2>6, <2>7, <2>8, <2>9, <2>10, <2>11, <2>12, <2>13, <2>14,
       <2>15, <2>16, <2>17, <2>18, <2>19, <2>20, <2>21, <2>22, <2>23, <2>24, <2>25, <2>26, <2>27,
       <2>28, <2>29, <2>30, <2>31, <2>32 DEF Next
<1> QED BY <1>1, <1>2, TypeCorrect, PTL DEF Spec

\* An active or idle session names its sandbox, whoever wrote its status last.
THEOREM RowStaysNamed == Spec => []RowNamesSandbox
<1>1. SandboxNamed => RowNamesSandbox
  BY DEF SandboxNamed
<1> QED BY <1>1, SandboxStaysNamed, PTL

\* Whoever is at work on an archived session was so when it was archived, or is deleting it.
LateWriters ==
  status = "archived" =>
    \A x \in UnderWay : x \in late \/ (x \in Calls /\ call[x].op = "delete")

\* LateWriters is inductive: nothing but a deletion begins on an archived session.
THEOREM LateWritersOnly == Spec => []LateWriters
<1> USE LifecycleConstants DEF OrNone
<1>1. Init => LateWriters
  BY DEF Init, LateWriters
<1>2. TypeOK /\ LateWriters /\ [Next]_vars => LateWriters'
  <2> SUFFICES ASSUME TypeOK, LateWriters, [Next]_vars PROVE LateWriters'
    OBVIOUS
  <2>1. ASSUME NEW t \in Tasks, Create(t) PROVE LateWriters'
    BY <2>1 DEF LateWriters, UnderWay, NoteLate, TypeOK, ProcessTypes, Create, Spawn
  <2>2. ASSUME NEW t \in Tasks, ProvisionStarts(t) PROVE LateWriters'
    BY <2>2 DEF LateWriters, UnderWay, NoteLate, TypeOK, ProcessTypes, ProvisionStarts,
       RecordSandbox, Resolves, TaskEnds, TaskGoes, UpdateRow, row
  <2>3. ASSUME NEW t \in Tasks, ProvisionCreates(t) PROVE LateWriters'
    BY <2>3 DEF LateWriters, UnderWay, NoteLate, TypeOK, ProcessTypes, ProvisionCreates, TaskGoes,
       row
  <2>4. ASSUME NEW t \in Tasks, ProvisionBoots(t) PROVE LateWriters'
    BY <2>4 DEF LateWriters, UnderWay, NoteLate, TypeOK, ProcessTypes, ProvisionBoots,
       RecordSandbox, Resolves, TaskEnds, TaskGoes, UpdateRow, row
  <2>5. ASSUME NEW t \in Tasks, ProvisionFails(t) PROVE LateWriters'
    BY <2>5 DEF LateWriters, UnderWay, NoteLate, TypeOK, ProcessTypes, ProvisionFails,
       RecordFailure, TaskEnds, UpdateRow, row
  <2>6. ASSUME NEW t \in Tasks, ProvisionReady(t) PROVE LateWriters'
    BY <2>6 DEF LateWriters, UnderWay, NoteLate, TypeOK, ProcessTypes, ProvisionReady,
       RecordSandbox, TaskEnds, UpdateRow, row
  <2>7. ASSUME NEW t \in Tasks, ProvisionAbandons(t) PROVE LateWriters'
    BY <2>7 DEF LateWriters, UnderWay, NoteLate, TypeOK, ProcessTypes, ProvisionAbandons,
       TaskEnds, row
  <2>8. ASSUME NEW c \in Calls, ActivateBegins(c) PROVE LateWriters'
    BY <2>8 DEF LateWriters, UnderWay, NoteLate, TypeOK, ProcessTypes, ActivateBegins, Activatable,
       ActivateTurn, CallGoes
  <2>9. ASSUME NEW c \in Calls, ActivatePolls(c) PROVE LateWriters'
    BY <2>9 DEF LateWriters, UnderWay, NoteLate, TypeOK, ProcessTypes, ActivatePolls,
       ActivateTurn, CallEnds, CallGoes, row
  <2>10. ASSUME NEW c \in Calls, ActivateResumes(c) PROVE LateWriters'
    BY <2>10 DEF LateWriters, UnderWay, NoteLate, TypeOK, ProcessTypes, ActivateResumes, CallGoes,
       row
  <2>11. ASSUME NEW c \in Calls, ActivateFails(c) PROVE LateWriters'
    BY <2>11 DEF LateWriters, UnderWay, NoteLate, TypeOK, ProcessTypes, ActivateFails, CallEnds,
       row
  <2>12. ASSUME NEW c \in Calls, ActivateAnswers(c) PROVE LateWriters'
    BY <2>12 DEF LateWriters, UnderWay, NoteLate, TypeOK, ProcessTypes, ActivateAnswers, CallEnds,
       UpdateRow, row
  <2>13. ASSUME NEW c \in Calls, RestartBegins(c) PROVE LateWriters'
    BY <2>13 DEF LateWriters, UnderWay, NoteLate, TypeOK, ProcessTypes, RestartBegins, Restartable,
       CallGoes
  <2>14. ASSUME NEW c \in Calls, ArchiveBegins(c) PROVE LateWriters'
    BY <2>14 DEF LateWriters, UnderWay, NoteLate, TypeOK, ProcessTypes, ArchiveBegins, CallGoes,
       row
  <2>15. ASSUME NEW c \in Calls, DeleteBegins(c) PROVE LateWriters'
    BY <2>15 DEF LateWriters, UnderWay, NoteLate, TypeOK, ProcessTypes, DeleteBegins, CallGoes,
       row
  <2>16. ASSUME NEW c \in Calls, Terminates(c) PROVE LateWriters'
    BY <2>16 DEF LateWriters, UnderWay, NoteLate, TypeOK, ProcessTypes, Terminates, CallGoes, row
  <2>17. ASSUME NEW c \in Calls, NEW t \in Tasks, RestartEnds(c, t) PROVE LateWriters'
    BY <2>17 DEF LateWriters, UnderWay, NoteLate, TypeOK, ProcessTypes, RestartEnds, CallEnds,
       Spawn
  <2>18. ASSUME NEW c \in Calls, ArchiveEnds(c) PROVE LateWriters'
    BY <2>18 DEF LateWriters, UnderWay, NoteLate, TypeOK, ProcessTypes, ArchiveEnds, Archived,
       CallEnds, row
  <2>19. ASSUME NEW c \in Calls, DeleteEnds(c) PROVE LateWriters'
    BY <2>19 DEF LateWriters, UnderWay, NoteLate, TypeOK, ProcessTypes, DeleteEnds, CallEnds
  <2>20. ASSUME NEW b \in Containers, ContainerExits(b) PROVE LateWriters'
    BY <2>20 DEF LateWriters, UnderWay, NoteLate, TypeOK, ProcessTypes, ContainerExits, processes,
       row
  <2>21. ASSUME NEW b \in Containers, MonitorReports(b) PROVE LateWriters'
    BY <2>21 DEF LateWriters, UnderWay, NoteLate, TypeOK, ProcessTypes, MonitorReports, processes,
       row
  <2>22. ASSUME ReaperLists PROVE LateWriters'
    BY <2>22 DEF LateWriters, UnderWay, NoteLate, TypeOK, ProcessTypes, ReaperLists, ReaperGoes,
       row
  <2>23. ASSUME ReaperSkips PROVE LateWriters'
    BY <2>23 DEF LateWriters, UnderWay, NoteLate, TypeOK, ProcessTypes, ReaperSkips, row
  <2>24. ASSUME ReaperSuspends PROVE LateWriters'
    BY <2>24 DEF LateWriters, UnderWay, NoteLate, TypeOK, ProcessTypes, ReaperSuspends,
       ReaperGoes, row
  <2>25. ASSUME ReaperPauses PROVE LateWriters'
    BY <2>25 DEF LateWriters, UnderWay, NoteLate, TypeOK, ProcessTypes, ReaperPauses, ReaperGoes,
       row
  <2>26. ASSUME ReaperFails PROVE LateWriters'
    BY <2>26 DEF LateWriters, UnderWay, NoteLate, TypeOK, ProcessTypes, ReaperFails, row
  <2>27. ASSUME ReaperIdles PROVE LateWriters'
    BY <2>27 DEF LateWriters, UnderWay, NoteLate, TypeOK, ProcessTypes, ReaperIdles, UpdateRow,
       row
  <2>28. ASSUME ClientConnects PROVE LateWriters'
    BY <2>28 DEF LateWriters, UnderWay, NoteLate, TypeOK, ProcessTypes, ClientConnects, processes,
       row
  <2>29. ASSUME ClientLeaves PROVE LateWriters'
    BY <2>29 DEF LateWriters, UnderWay, NoteLate, TypeOK, ProcessTypes, ClientLeaves, processes,
       row
  <2>30. ASSUME HubAttaches PROVE LateWriters'
    BY <2>30 DEF LateWriters, UnderWay, NoteLate, TypeOK, ProcessTypes, HubAttaches, processes,
       row
  <2>31. ASSUME RelayRestarts PROVE LateWriters'
    BY <2>31 DEF LateWriters, UnderWay, NoteLate, RelayRestarts, Resting, Unspawned, Unused
  <2>32. CASE UNCHANGED vars
    BY <2>32 DEF LateWriters, UnderWay, observed, vars, row, docker, processes, hub, observed
  <2> QED
    BY <2>1, <2>2, <2>3, <2>4, <2>5, <2>6, <2>7, <2>8, <2>9, <2>10, <2>11, <2>12, <2>13, <2>14,
       <2>15, <2>16, <2>17, <2>18, <2>19, <2>20, <2>21, <2>22, <2>23, <2>24, <2>25, <2>26, <2>27,
       <2>28, <2>29, <2>30, <2>31, <2>32 DEF Next
<1> QED BY <1>1, <1>2, TypeCorrect, PTL DEF Spec

\* A session leaves the archive.
Unarchived == status = "archived" /\ status' \notin {"archived", "deleted"}

\* Only a call, a provisioning or a suspension already under way when the session was
\* archived can take it out of the archive.
THEOREM ArchivedStaysArchived == Spec => OnlyLateWritersUnarchive
<1> USE LifecycleConstants DEF OrNone
<1>1. LateWriters /\ [Next]_vars => [Unarchived => late \intersect UnderWay # {}]_vars
  <2> SUFFICES ASSUME LateWriters, Next PROVE Unarchived => late \intersect UnderWay # {}
    OBVIOUS
  <2>1. ASSUME NEW t \in Tasks, Create(t) PROVE Unarchived => late \intersect UnderWay # {}
    BY <2>1 DEF Unarchived, LateWriters, UnderWay, RowExists, Restartable, Create
  <2>2. ASSUME NEW t \in Tasks, ProvisionStarts(t)
         PROVE  Unarchived => late \intersect UnderWay # {}
    BY <2>2 DEF Unarchived, LateWriters, UnderWay, RowExists, Restartable, ProvisionStarts,
       RecordSandbox, Resolves, UpdateRow, row
  <2>3. ASSUME NEW t \in Tasks, ProvisionCreates(t)
         PROVE  Unarchived => late \intersect UnderWay # {}
    BY <2>3 DEF Unarchived, LateWriters, UnderWay, RowExists, Restartable, ProvisionCreates, row
  <2>4. ASSUME NEW t \in Tasks, ProvisionBoots(t)
         PROVE  Unarchived => late \intersect UnderWay # {}
    BY <2>4 DEF Unarchived, LateWriters, UnderWay, RowExists, Restartable, ProvisionBoots,
       RecordSandbox, Resolves, UpdateRow, row
  <2>5. ASSUME NEW t \in Tasks, ProvisionFails(t)
         PROVE  Unarchived => late \intersect UnderWay # {}
    BY <2>5 DEF Unarchived, LateWriters, UnderWay, RowExists, Restartable, ProvisionFails,
       RecordFailure, UpdateRow, row
  <2>6. ASSUME NEW t \in Tasks, ProvisionReady(t)
         PROVE  Unarchived => late \intersect UnderWay # {}
    BY <2>6 DEF Unarchived, LateWriters, UnderWay, RowExists, Restartable, ProvisionReady,
       RecordSandbox, UpdateRow, row
  <2>7. ASSUME NEW t \in Tasks, ProvisionAbandons(t)
         PROVE  Unarchived => late \intersect UnderWay # {}
    BY <2>7 DEF Unarchived, LateWriters, UnderWay, RowExists, Restartable, ProvisionAbandons, row
  <2>8. ASSUME NEW c \in Calls, ActivateBegins(c)
         PROVE  Unarchived => late \intersect UnderWay # {}
    BY <2>8 DEF Unarchived, LateWriters, UnderWay, RowExists, Restartable, ActivateBegins, row
  <2>9. ASSUME NEW c \in Calls, ActivatePolls(c) PROVE Unarchived => late \intersect UnderWay # {}
    BY <2>9 DEF Unarchived, LateWriters, UnderWay, RowExists, Restartable, ActivatePolls, row
  <2>10. ASSUME NEW c \in Calls, ActivateResumes(c)
         PROVE  Unarchived => late \intersect UnderWay # {}
    BY <2>10 DEF Unarchived, LateWriters, UnderWay, RowExists, Restartable, ActivateResumes, row
  <2>11. ASSUME NEW c \in Calls, ActivateFails(c)
         PROVE  Unarchived => late \intersect UnderWay # {}
    BY <2>11 DEF Unarchived, LateWriters, UnderWay, RowExists, Restartable, ActivateFails, row
  <2>12. ASSUME NEW c \in Calls, ActivateAnswers(c)
         PROVE  Unarchived => late \intersect UnderWay # {}
    BY <2>12 DEF Unarchived, LateWriters, UnderWay, RowExists, Restartable, ActivateAnswers,
       UpdateRow, row
  <2>13. ASSUME NEW c \in Calls, RestartBegins(c)
         PROVE  Unarchived => late \intersect UnderWay # {}
    BY <2>13 DEF Unarchived, LateWriters, UnderWay, RowExists, Restartable, RestartBegins, row
  <2>14. ASSUME NEW c \in Calls, ArchiveBegins(c)
         PROVE  Unarchived => late \intersect UnderWay # {}
    BY <2>14 DEF Unarchived, LateWriters, UnderWay, RowExists, Restartable, ArchiveBegins, row
  <2>15. ASSUME NEW c \in Calls, DeleteBegins(c) PROVE Unarchived => late \intersect UnderWay # {}
    BY <2>15 DEF Unarchived, LateWriters, UnderWay, RowExists, Restartable, DeleteBegins, row
  <2>16. ASSUME NEW c \in Calls, Terminates(c) PROVE Unarchived => late \intersect UnderWay # {}
    BY <2>16 DEF Unarchived, LateWriters, UnderWay, RowExists, Restartable, Terminates, row
  <2>17. ASSUME NEW c \in Calls, NEW t \in Tasks, RestartEnds(c, t)
         PROVE  Unarchived => late \intersect UnderWay # {}
    BY <2>17 DEF Unarchived, LateWriters, UnderWay, RowExists, Restartable, RestartEnds
  <2>18. ASSUME NEW c \in Calls, ArchiveEnds(c) PROVE Unarchived => late \intersect UnderWay # {}
    BY <2>18 DEF Unarchived, LateWriters, UnderWay, RowExists, Restartable, ArchiveEnds, Archived,
       row
  <2>19. ASSUME NEW c \in Calls, DeleteEnds(c) PROVE Unarchived => late \intersect UnderWay # {}
    BY <2>19 DEF Unarchived, LateWriters, UnderWay, RowExists, Restartable, DeleteEnds
  <2>20. ASSUME NEW b \in Containers, ContainerExits(b)
         PROVE  Unarchived => late \intersect UnderWay # {}
    BY <2>20 DEF Unarchived, LateWriters, UnderWay, RowExists, Restartable, ContainerExits, row
  <2>21. ASSUME NEW b \in Containers, MonitorReports(b)
         PROVE  Unarchived => late \intersect UnderWay # {}
    BY <2>21 DEF Unarchived, LateWriters, UnderWay, RowExists, Restartable, MonitorReports, row
  <2>22. ASSUME ReaperLists PROVE Unarchived => late \intersect UnderWay # {}
    BY <2>22 DEF Unarchived, LateWriters, UnderWay, RowExists, Restartable, ReaperLists, row
  <2>23. ASSUME ReaperSkips PROVE Unarchived => late \intersect UnderWay # {}
    BY <2>23 DEF Unarchived, LateWriters, UnderWay, RowExists, Restartable, ReaperSkips, row
  <2>24. ASSUME ReaperSuspends PROVE Unarchived => late \intersect UnderWay # {}
    BY <2>24 DEF Unarchived, LateWriters, UnderWay, RowExists, Restartable, ReaperSuspends, row
  <2>25. ASSUME ReaperPauses PROVE Unarchived => late \intersect UnderWay # {}
    BY <2>25 DEF Unarchived, LateWriters, UnderWay, RowExists, Restartable, ReaperPauses, row
  <2>26. ASSUME ReaperFails PROVE Unarchived => late \intersect UnderWay # {}
    BY <2>26 DEF Unarchived, LateWriters, UnderWay, RowExists, Restartable, ReaperFails, row
  <2>27. ASSUME ReaperIdles PROVE Unarchived => late \intersect UnderWay # {}
    BY <2>27 DEF Unarchived, LateWriters, UnderWay, RowExists, Restartable, ReaperIdles,
       UpdateRow, row
  <2>28. ASSUME ClientConnects PROVE Unarchived => late \intersect UnderWay # {}
    BY <2>28 DEF Unarchived, LateWriters, UnderWay, RowExists, Restartable, ClientConnects, row
  <2>29. ASSUME ClientLeaves PROVE Unarchived => late \intersect UnderWay # {}
    BY <2>29 DEF Unarchived, LateWriters, UnderWay, RowExists, Restartable, ClientLeaves, row
  <2>30. ASSUME HubAttaches PROVE Unarchived => late \intersect UnderWay # {}
    BY <2>30 DEF Unarchived, LateWriters, UnderWay, RowExists, Restartable, HubAttaches, row
  <2>31. ASSUME RelayRestarts PROVE Unarchived => late \intersect UnderWay # {}
    BY <2>31 DEF Unarchived, LateWriters, UnderWay, RowExists, Restartable, RelayRestarts, row
  <2> QED
    BY <2>1, <2>2, <2>3, <2>4, <2>5, <2>6, <2>7, <2>8, <2>9, <2>10, <2>11, <2>12, <2>13, <2>14,
       <2>15, <2>16, <2>17, <2>18, <2>19, <2>20, <2>21, <2>22, <2>23, <2>24, <2>25, <2>26, <2>27,
       <2>28, <2>29, <2>30, <2>31 DEF Next
<1> QED BY <1>1, LateWritersOnly, PTL DEF Spec, OnlyLateWritersUnarchive, Unarchived

-----------------------------------------------------------------------------
(* The reaper and the clients.                                             *)

\* A client under a session that is being suspended, or has been, came late.
CameLate ==
  /\ status = "idle" /\ connected => lateClient
  /\ reaper.at \in {"suspending", "suspended"} /\ connected => lateClient

\* A session is idle under a connected client only if that client came while the
\* reaper was suspending it (idle-reaper.ts:149).
THEOREM IdleClientsCameLate == Spec => []IdleClientCameLate
<1>1. Init => CameLate
  BY DEF Init, CameLate
<1>2. CameLate /\ [Next]_vars => CameLate'
  <2> SUFFICES ASSUME CameLate, [Next]_vars PROVE CameLate'
    OBVIOUS
  <2>0. ASSUME status' # "idle" \/ status' = status, UNCHANGED <<reaper, connected, lateClient>>
        PROVE  CameLate'
    BY <2>0 DEF CameLate
  <2>1. ASSUME NEW t \in Tasks,
               \/ Create(t) \/ ProvisionStarts(t) \/ ProvisionCreates(t) \/ ProvisionBoots(t)
               \/ ProvisionFails(t) \/ ProvisionReady(t) \/ ProvisionAbandons(t)
        PROVE  CameLate'
    BY <2>0, <2>1
       DEF Create, ProvisionStarts, ProvisionCreates, ProvisionBoots, ProvisionFails,
           ProvisionReady, ProvisionAbandons, Resolves, RecordSandbox, RecordFailure, UpdateRow,
           row, hub, observed
  <2>2. ASSUME NEW c \in Calls,
               \/ ActivateBegins(c) \/ ActivatePolls(c) \/ ActivateResumes(c) \/ ActivateFails(c)
               \/ ActivateAnswers(c) \/ RestartBegins(c) \/ ArchiveBegins(c) \/ DeleteBegins(c)
               \/ Terminates(c) \/ (\E t \in Tasks : RestartEnds(c, t)) \/ ArchiveEnds(c)
               \/ DeleteEnds(c)
        PROVE  CameLate'
    BY <2>0, <2>2
       DEF ActivateBegins, ActivatePolls, ActivateResumes, ActivateFails, ActivateAnswers,
           RestartBegins, ArchiveBegins, DeleteBegins, Terminates, RestartEnds, ArchiveEnds,
           DeleteEnds, UpdateRow, Archived, row, hub, observed
  <2>3. ASSUME NEW b \in Containers, ContainerExits(b) \/ MonitorReports(b) PROVE CameLate'
    BY <2>3 DEF CameLate, ContainerExits, MonitorReports, row, processes, hub, observed
  <2>4. CASE ReaperLists \/ ReaperSkips \/ ReaperFails
    BY <2>4 DEF CameLate, ReaperLists, ReaperSkips, ReaperFails, ReaperGoes, Unused, row, hub,
       observed
  <2>5. CASE ReaperSuspends
    BY <2>5 DEF CameLate, ReaperSuspends, NobodyConnected, row, hub, observed
  <2>6. CASE ReaperPauses
    BY <2>6 DEF CameLate, ReaperPauses, row, hub, observed
  <2>7. CASE ReaperIdles
    BY <2>7 DEF CameLate, ReaperIdles, Unused, hub, observed
  <2>8. CASE ClientConnects
    BY <2>8 DEF CameLate, ClientConnects, row, processes
  <2>9. CASE ClientLeaves \/ RelayRestarts
    BY <2>9 DEF CameLate, ClientLeaves, RelayRestarts
  <2>10. CASE HubAttaches
    BY <2>10 DEF CameLate, HubAttaches, row, processes, observed
  <2>11. CASE UNCHANGED vars
    BY <2>11 DEF CameLate, vars, row, processes, hub, observed
  <2> QED
    BY <2>1, <2>2, <2>3, <2>4, <2>5, <2>6, <2>7, <2>8, <2>9, <2>10, <2>11 DEF Next
<1> QED BY <1>1, <1>2, PTL DEF Spec, CameLate, IdleClientCameLate

-----------------------------------------------------------------------------
(* The handle and Docker.                                                  *)

\* Finding a sandbox, in the cache or by asking Docker, tells the truth about it.
LEMMA LookingUpIsTruthful ==
  ASSUME HandleIsTruthful, NEW b, Known(b), HandleIs(b, HandleStatus(b)), UNCHANGED container
  PROVE  HandleIsTruthful'
BY DEF HandleIsTruthful, Known, HandleIs, HandleStatus, Cached, StatusOf

\* A handle that says it is stopped claims nothing.
LEMMA StoppedIsTruthful ==
  ASSUME NEW b, HandleIs(b, "stopped")
  PROVE  HandleIsTruthful'
BY DEF HandleIsTruthful, HandleIs, Cached

\* A handle whose container has just been brought to the state it names.
LEMMA DoneIsTruthful ==
  ASSUME TypeOK, NEW b, NEW s \in {"running", "paused"}, HandleIs(b, s), ContainerIs(b, s)
  PROVE  HandleIsTruthful'
BY DEF HandleIsTruthful, HandleIs, ContainerIs, Cached, TypeOK, DockerTypes

\* The status the provider caches and trusts agrees with Docker but for an exit not
\* yet reported: no unpause that is needed is skipped (docker.ts:936).
THEOREM HandleStaysTruthful == Spec => []HandleIsTruthful
<1> USE LifecycleConstants
<1>1. Init => HandleIsTruthful
  BY DEF Init, HandleIsTruthful, Cached, Unused
<1>2. TypeOK /\ HandleIsTruthful /\ [Next]_vars => HandleIsTruthful'
  <2> SUFFICES ASSUME TypeOK, HandleIsTruthful, [Next]_vars PROVE HandleIsTruthful'
    OBVIOUS
  <2>0. ASSUME UNCHANGED docker PROVE HandleIsTruthful'
    BY <2>0 DEF HandleIsTruthful, Cached, docker
  <2>1. ASSUME NEW t \in Tasks,
               \/ Create(t) \/ ProvisionStarts(t) \/ ProvisionFails(t) \/ ProvisionReady(t)
               \/ ProvisionAbandons(t)
        PROVE  HandleIsTruthful'
    BY <2>0, <2>1
       DEF Create, ProvisionStarts, ProvisionFails, ProvisionReady, ProvisionAbandons
  <2>2. ASSUME NEW t \in Tasks, ProvisionCreates(t) PROVE HandleIsTruthful'
    <3>1. handle' = handle
      BY <2>2 DEF ProvisionCreates
    <3>2. PICK b \in Containers : container[b] = "unmade" /\ ContainerIs(b, "made")
      BY <2>2 DEF ProvisionCreates
    <3> QED BY <3>1, <3>2 DEF HandleIsTruthful, Cached, ContainerIs, TypeOK, DockerTypes
  <2>3. ASSUME NEW t \in Tasks, ProvisionBoots(t) PROVE HandleIsTruthful'
    BY <2>3, DoneIsTruthful DEF ProvisionBoots
  <2>4. ASSUME NEW b, Resume(b) PROVE HandleIsTruthful'
    <3>1. CASE HandleStatus(b) = "running"
      BY <2>4, <3>1, LookingUpIsTruthful DEF Resume
    <3>2. CASE HandleStatus(b) # "running"
      BY <2>4, <3>2, DoneIsTruthful DEF Resume
    <3> QED BY <3>1, <3>2
  <2>5. ASSUME NEW b, LooksUp(b), UNCHANGED container PROVE HandleIsTruthful'
    BY <2>0, <2>5, LookingUpIsTruthful DEF LooksUp, docker
  <2>6. ASSUME NEW c \in Calls,
               \/ ActivateBegins(c) \/ ActivatePolls(c) \/ ActivateAnswers(c) \/ RestartBegins(c)
               \/ ArchiveBegins(c) \/ DeleteBegins(c) \/ (\E t \in Tasks : RestartEnds(c, t))
               \/ ArchiveEnds(c) \/ DeleteEnds(c)
        PROVE  HandleIsTruthful'
    BY <2>0, <2>6
       DEF ActivateBegins, ActivatePolls, ActivateAnswers, RestartBegins, ArchiveBegins,
           DeleteBegins, RestartEnds, ArchiveEnds, DeleteEnds
  <2>7. ASSUME NEW c \in Calls, ActivateResumes(c) PROVE HandleIsTruthful'
    BY <2>4, <2>7 DEF ActivateResumes
  <2>8. ASSUME NEW c \in Calls, ActivateFails(c) PROVE HandleIsTruthful'
    BY <2>5, <2>8 DEF ActivateFails
  <2>9. ASSUME NEW c \in Calls, Terminates(c) PROVE HandleIsTruthful'
    BY <2>0, <2>9, StoppedIsTruthful DEF Terminates, Terminate
  <2>10. ASSUME NEW b \in Containers, ContainerExits(b) PROVE HandleIsTruthful'
    BY <2>10 DEF HandleIsTruthful, Cached, ContainerExits, ContainerIs, TypeOK, DockerTypes
  <2>11. ASSUME NEW b \in Containers, MonitorReports(b) PROVE HandleIsTruthful'
    BY <2>11, StoppedIsTruthful DEF MonitorReports
  <2>12. CASE ReaperLists \/ ReaperSkips \/ ReaperSuspends \/ ReaperIdles \/ ClientConnects
              \/ ClientLeaves
    BY <2>0, <2>12 DEF ReaperLists, ReaperSkips, ReaperSuspends, ReaperIdles, ClientConnects,
       ClientLeaves
  <2>13. CASE ReaperPauses
    BY <2>0, <2>13, DoneIsTruthful DEF ReaperPauses, Pause
  <2>14. CASE ReaperFails
    BY <2>5, <2>14 DEF ReaperFails
  <2>15. CASE HubAttaches
    <3>1. CASE Exists(attaching) /\ Attach(attaching)
      <4>1. Known(attaching)
        BY <2>15, <3>1 DEF HubAttaches, Known
      <4>2. CASE container[attaching] = "exited"
        BY <3>1, <4>2, DoneIsTruthful DEF Attach
      <4>3. CASE container[attaching] # "exited"
        BY <3>1, <4>1, <4>3, LookingUpIsTruthful DEF Attach
      <4> QED BY <4>2, <4>3
    <3>2. CASE UNCHANGED container /\ LooksUp(attaching)
      BY <2>5, <3>2
    <3> QED BY <2>15, <3>1, <3>2 DEF HubAttaches
  <2>16. CASE RelayRestarts
    BY <2>16 DEF HandleIsTruthful, Cached, RelayRestarts, Unused
  <2>17. CASE UNCHANGED vars
    BY <2>0, <2>17 DEF vars
  <2> QED
    BY <2>1, <2>2, <2>3, <2>6, <2>7, <2>8, <2>9, <2>10, <2>11, <2>12, <2>13, <2>14, <2>15, <2>16,
       <2>17 DEF Next
<1> QED BY <1>1, <1>2, TypeCorrect, PTL DEF Spec

-----------------------------------------------------------------------------
(* No sandbox is lost.                                                     *)

\* A container that no provisioning has returned yet.
Fresh(b) == container[b] \in {"unmade", "made"}

\* Somebody, other than the provisioning that makes it, has the id of container b.
Named(b) ==
  \/ b \in {providerId, handle.box, attaching, reaper.box}
  \/ \E c \in Calls : call[c].box = b
  \/ \E t \in Tasks : task[t].at # "starting" /\ task[t].box = b

\* Docker's one name for the containers of a session leaves one of them at a time; one
\* that is being made is known to one provisioning only; and one that has run is in the
\* cache until the relay stops.
OneSandbox ==
  /\ \A b, d \in Containers : Exists(b) /\ Exists(d) => b = d
  /\ \A b \in Containers : Named(b) => ~Fresh(b)
  /\ \A t \in Tasks : task[t].at = "starting" =>
       /\ task[t].box \in Containers /\ container[task[t].box] = "made"
       /\ \A u \in Tasks : task[u].at = "starting" => u = t
  /\ \A b \in Containers : container[b] \in {"running", "paused", "exited"} =>
       handle.box = b \/ handle = Unused

\* Nobody but the provider learns the id of a container nobody had.
NoNewNames ==
  /\ \A b \in Containers : b \in {providerId', attaching', reaper'.box} => Named(b)
  /\ \A c \in Calls : \A b \in Containers : call'[c].box = b => Named(b)
  /\ \A t \in Tasks :
       \/ task'[t] = task[t]
       \/ task'[t].at # "starting" /\ \A b \in Containers : task'[t].box = b => Named(b)

\* The provider does something to the container b, which has been made before.
WorksOn(b) ==
  /\ ~Fresh(b)
  /\ handle' = handle \/ (Known(b) /\ handle'.box = b)
  /\ ~Fresh(b)' /\ (Exists(b)' => Exists(b))
  /\ \A d \in Containers \ {b} : container'[d] = container[d]

\* Work on a container that is known keeps the rest as it is.
LEMMA WorkKeepsOne ==
  ASSUME TypeOK, OneSandbox, NEW b \in Containers, WorksOn(b), NoNewNames
  PROVE  OneSandbox'
<1> USE LifecycleConstants
<1>1. \A d \in Containers : (Exists(d)' => Exists(d)) /\ (~Fresh(d) => ~Fresh(d)')
  BY DEF WorksOn, Exists, Fresh
<1>2. ASSUME NEW d \in Containers, Named(d)' PROVE ~Fresh(d)
  <2>1. CASE Named(d)
    BY <2>1 DEF OneSandbox
  <2>2. CASE d = handle'.box
    BY <2>2 DEF WorksOn, OneSandbox, Named
  <2>3. CASE d \in {providerId', attaching', reaper'.box}
             \/ \E c \in Calls : call'[c].box = d
    BY <2>1, <2>3 DEF NoNewNames
  <2>4. CASE \E t \in Tasks : task'[t].at # "starting" /\ task'[t].box = d
    BY <2>1, <2>4 DEF NoNewNames, Named
  <2> QED BY <1>2, <2>2, <2>3, <2>4 DEF Named
<1>3. ASSUME NEW t \in Tasks, task'[t].at = "starting" PROVE task'[t] = task[t]
  BY <1>3 DEF NoNewNames
<1>4. ASSUME NEW d \in Containers, container'[d] \in {"running", "paused", "exited"}
      PROVE  handle'.box = d \/ handle' = Unused
  <2>1. Exists(d)
    BY <1>1, <1>4 DEF Exists
  <2>2. handle.box = d \/ handle = Unused
    <3>1. CASE d = b
      <4>1. container[d] \in {"running", "paused", "exited"}
        BY <2>1, <3>1 DEF WorksOn, Fresh, Exists, TypeOK, DockerTypes
      <4> QED BY <4>1 DEF OneSandbox
    <3>2. CASE d # b
      BY <1>4, <3>2 DEF WorksOn, OneSandbox
    <3> QED BY <3>1, <3>2
  <2>3. CASE handle' = handle
    BY <2>2, <2>3
  <2>4. CASE Known(b) /\ handle'.box = b
    <3>1. CASE Exists(b)
      BY <2>1, <2>4, <3>1 DEF OneSandbox
    <3>2. CASE Cached(b)
      BY <2>2, <2>4, <3>2 DEF Cached, Unused
    <3> QED BY <2>4, <3>1, <3>2 DEF Known
  <2> QED BY <2>3, <2>4 DEF WorksOn
<1>5. \A d, e \in Containers : Exists(d)' /\ Exists(e)' => d = e
  BY <1>1 DEF OneSandbox
<1>6. \A d \in Containers : Named(d)' => ~Fresh(d)'
  BY <1>1, <1>2
<1>7. ASSUME NEW t \in Tasks, task'[t].at = "starting"
      PROVE  /\ task'[t].box \in Containers /\ container'[task'[t].box] = "made"
             /\ \A u \in Tasks : task'[u].at = "starting" => u = t
  <2>1. /\ task[t].at = "starting" /\ task'[t].box = task[t].box
        /\ \A u \in Tasks : task'[u].at = "starting" => task[u].at = "starting"
    BY <1>3, <1>7
  <2>2. /\ task[t].box \in Containers /\ container[task[t].box] = "made"
        /\ \A u \in Tasks : task[u].at = "starting" => u = t
    BY <2>1 DEF OneSandbox
  <2>3. task[t].box # b
    BY <2>2 DEF WorksOn, Fresh
  <2> QED BY <2>1, <2>2, <2>3 DEF WorksOn
<1> QED BY <1>4, <1>5, <1>6, <1>7 DEF OneSandbox

\* So does a step that does nothing to Docker or the handle.
LEMMA RestKeepsOne ==
  ASSUME OneSandbox, UNCHANGED docker, NoNewNames
  PROVE  OneSandbox'
<1>1. container' = container /\ handle' = handle
  BY DEF docker
<1>2. ASSUME NEW d \in Containers, Named(d)' PROVE Named(d)
  <2>1. CASE d = handle'.box
    BY <1>1, <2>1 DEF Named
  <2>2. CASE d \in {providerId', attaching', reaper'.box}
             \/ \E c \in Calls : call'[c].box = d
    BY <2>2 DEF NoNewNames
  <2>3. CASE \E t \in Tasks : task'[t].at # "starting" /\ task'[t].box = d
    BY <2>3 DEF NoNewNames, Named
  <2> QED BY <1>2, <2>1, <2>2, <2>3 DEF Named
<1>3. \A t \in Tasks : task'[t].at = "starting" => task'[t] = task[t]
  BY DEF NoNewNames
<1>4. \A d \in Containers : Named(d)' => ~Fresh(d)'
  BY <1>1, <1>2 DEF OneSandbox, Fresh
<1>5. \A d, e \in Containers : Exists(d)' /\ Exists(e)' => d = e
  BY <1>1 DEF OneSandbox, Exists
<1>6. \A t \in Tasks : task'[t].at = "starting" =>
        /\ task'[t].box \in Containers /\ container'[task'[t].box] = "made"
        /\ \A u \in Tasks : task'[u].at = "starting" => u = t
  BY <1>1, <1>3 DEF OneSandbox
<1>7. \A d \in Containers : container'[d] \in {"running", "paused", "exited"} =>
        handle'.box = d \/ handle' = Unused
  BY <1>1 DEF OneSandbox
<1> QED BY <1>4, <1>5, <1>6, <1>7 DEF OneSandbox

\* A provisioning that begins holds nothing.
LEMMA SpawnHolds ==
  ASSUME ProcessTypes, NEW t \in Tasks, NEW chain, Spawn(t, chain)
  PROVE  \A u \in Tasks : task'[u] = task[u] \/ (task'[u].at # "starting" /\ task'[u].box = None)
BY DEF ProcessTypes, Spawn

\* What a call holds after it goes on.
LEMMA CallHolds ==
  ASSUME ProcessTypes, NEW c \in Calls, NEW op, NEW at, NEW b, NEW writes,
         CallGoes(c, op, at, b, writes)
  PROVE  \A d \in Calls : call'[d].box \in {call[d].box, b}
BY DEF ProcessTypes, CallGoes

\* A call that goes on with nothing, or with what the row names, learns nothing new.
LEMMA CallLearnsNothing ==
  ASSUME TypeOK, NEW c \in Calls, NEW op, NEW at, NEW b \in {None, providerId}, NEW writes,
         CallGoes(c, op, at, b, writes),
         providerId' \in {None, providerId}, UNCHANGED <<attaching, reaper, task>>
  PROVE  NoNewNames
<1> USE LifecycleConstants
<1>1. \A d \in Calls : call'[d].box \in {call[d].box, b}
  BY CallHolds DEF TypeOK
<1>2. \A d \in Calls : \A e \in Containers : call'[d].box = e => Named(e)
  BY <1>1 DEF Named
<1> QED BY <1>2 DEF NoNewNames, Named

\* A call that ends forgets.
LEMMA CallForgets ==
  ASSUME TypeOK, NEW c \in Calls, CallEnds(c),
         providerId' \in {None, providerId}, UNCHANGED <<attaching, reaper>>,
         \A t \in Tasks : task'[t] = task[t] \/ (task'[t].at # "starting" /\ task'[t].box = None)
  PROVE  NoNewNames
<1> USE LifecycleConstants
<1>1. \A d \in Calls : call'[d].box \in {call[d].box, None}
  BY CallEndsAfter DEF TypeOK, Resting
<1>2. \A d \in Calls : \A e \in Containers : call'[d].box = e => Named(e)
  BY <1>1 DEF Named
<1> QED BY <1>2 DEF NoNewNames, Named

\* The reaper, a client and the hub know what the row names.
LEMMA OthersLearnNothing ==
  ASSUME providerId' = providerId, UNCHANGED <<call, task>>,
         attaching' \in {None, attaching, providerId},
         reaper'.box \in {None, reaper.box, providerId}
  PROVE  NoNewNames
BY LifecycleConstants DEF NoNewNames, Named

\* A provisioning that goes on, but to start a container, learns what the cache holds,
\* and may write what it has into the row.
LEMMA TaskLearnsNothing ==
  ASSUME TypeOK, NEW t \in Tasks, UNCHANGED <<call, reaper, attaching>>,
         \A u \in Tasks \ {t} : task'[u] = task[u],
         task'[t].at # "starting",
         \A b \in Containers : b \in {task'[t].box, providerId'} => Named(b)
  PROVE  NoNewNames
BY DEF NoNewNames, Named

\* What the provider does to a container somebody named.
LEMMA OperationsWork ==
  ASSUME TypeOK, OneSandbox, NEW b \in Containers, Named(b)
  PROVE  /\ Resume(b) => WorksOn(b)
         /\ Terminate(b) => WorksOn(b)
         /\ LooksUp(b) /\ UNCHANGED container => WorksOn(b)
         /\ Exists(b) /\ Attach(b) => WorksOn(b)
         /\ Known(b) /\ container[b] = "running" /\ Pause(b) => WorksOn(b)
<1>1. ~Fresh(b)
  BY DEF OneSandbox
<1>2. container \in [Containers -> {"unmade", "made", "running", "paused", "exited", "removed"}]
  BY DEF TypeOK, DockerTypes
<1>3. ASSUME UNCHANGED container, handle' = handle \/ (Known(b) /\ handle'.box = b)
      PROVE  WorksOn(b)
  BY <1>1, <1>3 DEF WorksOn, Fresh, Exists
<1>4. ASSUME NEW s, ContainerIs(b, s), s \in {"running", "paused", "exited"}, Exists(b),
             handle' = handle \/ (Known(b) /\ handle'.box = b)
      PROVE  WorksOn(b)
  BY <1>1, <1>2, <1>4 DEF WorksOn, Fresh, Exists, ContainerIs
<1>5. ASSUME ContainerIs(b, "removed"), Known(b), handle'.box = b
      PROVE  WorksOn(b)
  BY <1>1, <1>2, <1>5 DEF WorksOn, Fresh, Exists, ContainerIs
<1>6. ASSUME Resume(b) PROVE WorksOn(b)
  <2>1. Known(b) /\ handle'.box = b
    BY <1>6 DEF Resume, HandleIs
  <2>2. \/ UNCHANGED container
        \/ container[b] \in {"paused", "exited"} /\ ContainerIs(b, "running")
    BY <1>6 DEF Resume
  <2> QED BY <1>3, <1>4, <2>1, <2>2 DEF Exists
<1>7. ASSUME Terminate(b) PROVE WorksOn(b)
  <2>1. CASE Known(b)
    <3>1. handle'.box = b
      BY <1>7, <2>1 DEF Terminate, HandleIs
    <3> QED BY <1>3, <1>4, <1>5, <1>7, <2>1, <3>1 DEF Terminate
  <2>2. CASE ~Known(b)
    <3>1. container' = container /\ handle' = handle
      BY <1>7, <2>2 DEF Terminate, docker
    <3> QED BY <1>3, <3>1
  <2> QED BY <2>1, <2>2
<1>8. ASSUME LooksUp(b), UNCHANGED container PROVE WorksOn(b)
  <2>1. handle' = handle \/ (Known(b) /\ handle'.box = b)
    BY <1>8 DEF LooksUp, HandleIs
  <2> QED BY <1>3, <1>8, <2>1
<1>9. ASSUME Exists(b), Attach(b), b # None PROVE WorksOn(b)
  <2>1. Known(b) /\ handle'.box = b
    BY <1>9 DEF Attach, Known, HandleIs
  <2> QED BY <1>3, <1>4, <1>9, <2>1 DEF Attach
<1>10. ASSUME Known(b), Pause(b), container[b] = "running" PROVE WorksOn(b)
  BY <1>4, <1>10 DEF Pause, HandleIs, Exists
<1> QED BY <1>6, <1>7, <1>8, <1>9, <1>10, LifecycleConstants

\* A sandbox that has run is never lost while the relay runs, whatever overlaps and
\* fails (sessions.ts:1184, docker.ts:284).
THEOREM SandboxStaysFindable == Spec => []SandboxIsFindable
<1> USE LifecycleConstants
<1>1. Init => OneSandbox
  BY DEF Init, OneSandbox, Exists, Fresh, Unspawned, Unused, Named, Resting
<1>2. TypeOK /\ OneSandbox /\ [Next]_vars => OneSandbox'
  <2> SUFFICES ASSUME TypeOK, OneSandbox, [Next]_vars PROVE OneSandbox'
    OBVIOUS
  <2>0. /\ providerId \in OrNone(Containers) /\ attaching \in OrNone(Containers)
        /\ reaper.box \in OrNone(Containers) /\ ProcessTypes
        /\ \A c \in Calls : call[c].box \in OrNone(Containers)
        /\ \A t \in Tasks : task[t].box \in OrNone(Containers)
    BY ElementTypes DEF TypeOK, RowTypes, HubTypes
  <2>1. ASSUME NEW t \in Tasks, Create(t) PROVE OneSandbox'
    <3>1. UNCHANGED <<providerId, call, reaper, attaching, docker>>
      BY <2>1 DEF Create, hub
    <3>2. \A u \in Tasks : task'[u] = task[u] \/ (task'[u].at # "starting" /\ task'[u].box = None)
      <4>1. task' = task \/ Spawn(t, "create")
        BY <2>1 DEF Create
      <4> QED BY <2>0, <4>1, SpawnHolds
    <3>3. NoNewNames
      BY <3>1, <3>2 DEF NoNewNames, Named
    <3> QED BY <3>1, <3>3, RestKeepsOne
  <2>2. ASSUME NEW t \in Tasks, ProvisionStarts(t) PROVE OneSandbox'
    <3>1. UNCHANGED <<call, reaper, attaching, docker>>
      BY <2>2 DEF ProvisionStarts, hub
    <3>2. /\ providerId' \in {providerId, handle.box}
          /\ task'[t].at # "starting" /\ task'[t].box \in {None, handle.box}
          /\ \A u \in Tasks \ {t} : task'[u] = task[u]
      BY <2>0, <2>2, TaskGoesAfter, TaskEndsAfter
         DEF ProvisionStarts, Resolves, RecordSandbox, UpdateRow, Unspawned, row
    <3>3. \A b \in Containers : b \in {task'[t].box, providerId'} => Named(b)
      BY <3>2 DEF Named
    <3> QED BY <3>1, <3>2, <3>3, TaskLearnsNothing, RestKeepsOne
  <2>3. ASSUME NEW t \in Tasks, ProvisionCreates(t) PROVE OneSandbox'
    <3>1. PICK b \in Containers : /\ container[b] = "unmade" /\ ContainerIs(b, "made")
                                  /\ TaskGoes(t, "starting", b)
      BY <2>3 DEF ProvisionCreates
    <3>2. /\ container'[b] = "made"
          /\ \A d \in Containers \ {b} : container'[d] = container[d] /\ ~Exists(d)'
      BY <2>3, <3>1 DEF ContainerIs, ProvisionCreates, NameFree, Exists, TypeOK, DockerTypes
    <3>3. /\ task'[t].at = "starting" /\ task'[t].box = b
          /\ \A u \in Tasks \ {t} : task'[u] = task[u]
      BY <2>0, <3>1, TaskGoesAfter
    <3>4. \A u \in Tasks : task[u].at # "starting"
      BY <2>3 DEF OneSandbox, ProvisionCreates, NameFree, Exists
    <3>5. UNCHANGED <<providerId, handle, attaching, reaper, call>>
      BY <2>3 DEF ProvisionCreates, hub, row
    <3>6. \A d \in Containers : Named(d)' => Named(d)
      BY <3>3, <3>5 DEF Named
    <3>7. \A d \in Containers : Named(d)' => ~Fresh(d)'
      BY <3>1, <3>2, <3>6 DEF OneSandbox, Fresh
    <3> QED BY <3>2, <3>3, <3>4, <3>7 DEF OneSandbox, Exists
  <2>4. ASSUME NEW t \in Tasks, ProvisionBoots(t) PROVE OneSandbox'
    <3>1. PICK b \in Containers : b = task[t].box /\ container[b] = "made"
      BY <2>4 DEF ProvisionBoots, OneSandbox
    <3>2. /\ container'[b] = "running" /\ handle'.box = b
          /\ \A d \in Containers \ {b} : container'[d] = container[d] /\ ~Exists(d)
      BY <2>4, <3>1 DEF ProvisionBoots, ContainerIs, HandleIs, OneSandbox, Exists, TypeOK,
         DockerTypes
    <3>3. /\ providerId' \in {providerId, b} /\ UNCHANGED <<attaching, reaper, call>>
          /\ task'[t].at # "starting" /\ task'[t].box \in {None, b}
          /\ \A u \in Tasks \ {t} : task'[u] = task[u] /\ task[u].at # "starting"
      BY <2>0, <2>4, <3>1, TaskGoesAfter, TaskEndsAfter
         DEF ProvisionBoots, Resolves, RecordSandbox, UpdateRow, Unspawned, OneSandbox, row, hub
    <3>4. \A d \in Containers \ {b} : Named(d)' => Named(d)
      BY <3>2, <3>3 DEF Named
    <3>5. \A d \in Containers : Named(d)' => ~Fresh(d)'
      BY <3>2, <3>4 DEF OneSandbox, Fresh
    <3> QED BY <3>2, <3>3, <3>5 DEF OneSandbox, Exists
  <2>5. ASSUME NEW t \in Tasks, ProvisionFails(t) \/ ProvisionAbandons(t) PROVE OneSandbox'
    <3>1. UNCHANGED <<providerId, call, reaper, attaching, docker>> /\ TaskEnds(t)
      BY <2>5 DEF ProvisionFails, ProvisionAbandons, RecordFailure, UpdateRow, hub, row
    <3>2. /\ task'[t].at # "starting" /\ task'[t].box = None
          /\ \A u \in Tasks \ {t} : task'[u] = task[u]
      BY <2>0, <3>1, TaskEndsAfter DEF Unspawned
    <3>3. \A b \in Containers : b \in {task'[t].box, providerId'} => Named(b)
      BY <3>1, <3>2 DEF Named
    <3> QED BY <3>1, <3>2, <3>3, TaskLearnsNothing, RestKeepsOne
  <2>6. ASSUME NEW t \in Tasks, ProvisionReady(t) PROVE OneSandbox'
    <3>1. /\ UNCHANGED <<call, reaper, attaching, docker>> /\ TaskEnds(t)
          /\ task[t].at = "branching" /\ providerId' \in {providerId, task[t].box}
      BY <2>6 DEF ProvisionReady, RecordSandbox, UpdateRow, hub, row
    <3>2. /\ task'[t].at # "starting" /\ task'[t].box = None
          /\ \A u \in Tasks \ {t} : task'[u] = task[u]
      BY <2>0, <3>1, TaskEndsAfter DEF Unspawned
    <3>3. \A b \in Containers : b \in {task'[t].box, providerId'} => Named(b)
      BY <3>1, <3>2 DEF Named
    <3> QED BY <3>1, <3>2, <3>3, TaskLearnsNothing, RestKeepsOne
  <2>7. ASSUME NEW c \in Calls,
               \/ ActivateBegins(c) \/ (ActivatePolls(c) /\ ActivateTurn(c))
               \/ RestartBegins(c) \/ ArchiveBegins(c) \/ DeleteBegins(c)
        PROVE  OneSandbox'
    <3>1. UNCHANGED <<providerId, task, reaper, attaching, docker>>
      BY <2>7 DEF ActivateBegins, ActivatePolls, RestartBegins, ArchiveBegins, DeleteBegins, hub,
         row
    <3>2. \E op, at, writes : \E b \in {None, providerId} : CallGoes(c, op, at, b, writes)
      BY <2>7, Zenon DEF ActivateBegins, ActivatePolls, ActivateTurn, RestartBegins,
         ArchiveBegins, DeleteBegins
    <3> QED BY <3>1, <3>2, CallLearnsNothing, RestKeepsOne
  <2>8. ASSUME NEW c \in Calls,
               \/ (ActivatePolls(c) /\ CallEnds(c)) \/ ActivateAnswers(c)
               \/ (\E t \in Tasks : RestartEnds(c, t)) \/ ArchiveEnds(c) \/ DeleteEnds(c)
        PROVE  OneSandbox'
    <3>1. /\ providerId' \in {None, providerId} /\ UNCHANGED <<reaper, attaching, docker>>
          /\ CallEnds(c)
      BY <2>8 DEF ActivatePolls, ActivateAnswers, RestartEnds, ArchiveEnds, DeleteEnds, UpdateRow,
         Archived, hub, row
    <3>2. \A u \in Tasks : task'[u] = task[u] \/ (task'[u].at # "starting" /\ task'[u].box = None)
      <4>1. task' = task \/ \E t \in Tasks : Spawn(t, "restart")
        BY <2>8 DEF ActivatePolls, ActivateAnswers, RestartEnds, ArchiveEnds, DeleteEnds
      <4> QED BY <2>0, <4>1, SpawnHolds
    <3> QED BY <3>1, <3>2, CallForgets, RestKeepsOne
  <2>9. ASSUME NEW b \in OrNone(Containers), Named(b), NoNewNames,
               \/ Resume(b) \/ Terminate(b) \/ (LooksUp(b) /\ UNCHANGED container)
               \/ b # None /\ Exists(b) /\ Attach(b)
               \/ Known(b) /\ container[b] = "running" /\ Pause(b)
        PROVE  OneSandbox'
    <3>1. CASE b = None
      <4>1. UNCHANGED docker
        BY <2>9, <3>1 DEF Resume, Terminate, LooksUp, Known, Pause, docker
      <4> QED BY <2>9, <4>1, RestKeepsOne
    <3>2. CASE b # None
      <4>1. b \in Containers
        BY <3>2 DEF OrNone
      <4> QED BY <2>9, <4>1, OperationsWork, WorkKeepsOne
    <3> QED BY <3>1, <3>2
  <2>10. ASSUME NEW c \in Calls, ActivateResumes(c) \/ Terminates(c) PROVE OneSandbox'
    <3>1. /\ UNCHANGED <<providerId, task, reaper, attaching>>
          /\ Resume(call[c].box) \/ Terminate(call[c].box)
          /\ \E op, at, writes : CallGoes(c, op, at, None, writes)
      BY <2>10, Zenon DEF ActivateResumes, Terminates, hub, row
    <3>2. NoNewNames
      BY <3>1, CallLearnsNothing
    <3>3. Named(call[c].box)
      BY DEF Named
    <3> QED BY <2>0, <2>9, <3>1, <3>2, <3>3
  <2>11. ASSUME NEW c \in Calls, ActivateFails(c) PROVE OneSandbox'
    <3>1. /\ UNCHANGED <<reaper, attaching, container>>
          /\ providerId' = providerId /\ task' = task
          /\ LooksUp(call[c].box) /\ CallEnds(c)
      BY <2>11 DEF ActivateFails, hub, row
    <3>2. NoNewNames
      BY <3>1, CallForgets
    <3>3. Named(call[c].box)
      BY DEF Named
    <3> QED BY <2>0, <2>9, <3>1, <3>2, <3>3
  <2>12. ASSUME NEW b \in Containers, ContainerExits(b) \/ MonitorReports(b) PROVE OneSandbox'
    <3>1. NoNewNames
      BY <2>12, OthersLearnNothing DEF ContainerExits, MonitorReports, row, processes, hub
    <3>2. CASE ContainerExits(b)
      <4>1. /\ container[b] = "running" /\ container'[b] = "exited" /\ handle' = handle
            /\ \A d \in Containers \ {b} : container'[d] = container[d]
        BY <3>2 DEF ContainerExits, ContainerIs, TypeOK, DockerTypes
      <4>2. WorksOn(b)
        BY <4>1 DEF WorksOn, Fresh, Exists
      <4> QED BY <3>1, <4>2, WorkKeepsOne
    <3>3. CASE MonitorReports(b)
      <4>1. ~Fresh(b) /\ Known(b) /\ handle'.box = b /\ container' = container
        BY <3>3 DEF MonitorReports, Cached, HandleIs, Known, OneSandbox, Named
      <4>2. WorksOn(b)
        BY <4>1 DEF WorksOn, Fresh, Exists
      <4> QED BY <3>1, <4>2, WorkKeepsOne
    <3> QED BY <2>12, <3>2, <3>3
  <2>13. CASE \/ ReaperLists \/ ReaperSkips \/ ReaperSuspends \/ ReaperIdles \/ ClientConnects
              \/ ClientLeaves
    <3>1. /\ providerId' = providerId /\ UNCHANGED <<call, task, docker>>
          /\ attaching' \in {None, attaching, providerId}
          /\ reaper'.box \in {None, reaper.box, providerId}
      BY <2>13 DEF ReaperLists, ReaperSkips, ReaperSuspends, ReaperIdles, ClientConnects,
         ClientLeaves, ReaperGoes, UpdateRow, Unused, row, processes, hub
    <3> QED BY <3>1, OthersLearnNothing, RestKeepsOne
  <2>14. CASE ReaperPauses \/ ReaperFails
    <3>1. /\ providerId' = providerId /\ UNCHANGED <<call, task, attaching>>
          /\ reaper'.box = None
      BY <2>14 DEF ReaperPauses, ReaperFails, ReaperGoes, Unused, row, hub
    <3>2. NoNewNames
      BY <3>1, OthersLearnNothing
    <3>3. \/ UNCHANGED docker
          \/ LooksUp(reaper.box) /\ UNCHANGED container
          \/ Known(reaper.box) /\ container[reaper.box] = "running" /\ Pause(reaper.box)
      BY <2>14 DEF ReaperPauses, ReaperFails
    <3>4. Named(reaper.box)
      BY DEF Named
    <3> QED BY <2>0, <2>9, <3>2, <3>3, <3>4, RestKeepsOne
  <2>15. CASE HubAttaches
    <3>1. /\ providerId' = providerId /\ UNCHANGED <<call, task, reaper>> /\ attaching' = None
          /\ \/ Exists(attaching) /\ Attach(attaching)
             \/ LooksUp(attaching) /\ UNCHANGED container
      BY <2>15 DEF HubAttaches, row, processes
    <3>2. NoNewNames
      BY <3>1, OthersLearnNothing
    <3>3. Named(attaching)
      BY DEF Named
    <3> QED BY <2>0, <2>9, <2>15, <3>1, <3>2, <3>3 DEF HubAttaches
  <2>16. CASE RelayRestarts
    <3>1. /\ container' = container /\ handle' = Unused /\ attaching' = None
          /\ providerId' = providerId /\ reaper'.box = None
          /\ \A c \in Calls : call'[c].box = None
          /\ \A t \in Tasks : task'[t].box = None /\ task'[t].at # "starting"
      BY <2>16 DEF RelayRestarts, Unused, Unspawned, Resting, row
    <3>2. \A b \in Containers : Named(b)' => Named(b)
      BY <3>1 DEF Named, Unused
    <3> QED BY <3>1, <3>2 DEF OneSandbox, Exists, Fresh
  <2>17. CASE UNCHANGED vars
    BY <2>17 DEF OneSandbox, Exists, Fresh, Named, vars, docker, processes, hub, row
  <2> QED
    <3>1. ASSUME NEW c \in Calls, ActivatePolls(c) PROVE OneSandbox'
      BY <2>7, <2>8, <3>1 DEF ActivatePolls
    <3> QED
      BY <2>1, <2>2, <2>3, <2>4, <2>5, <2>6, <2>7, <2>8, <2>10, <2>11, <2>12, <2>13, <2>14, <2>15,
         <2>16, <2>17, <3>1 DEF Next
<1>3. OneSandbox => SandboxIsFindable
  BY DEF OneSandbox, SandboxIsFindable
<1> QED BY <1>1, <1>2, <1>3, TypeCorrect, PTL DEF Spec

===============================================================================
