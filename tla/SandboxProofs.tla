---------------------------- MODULE SandboxProofs ----------------------------
(***************************************************************************)
(* The providers of sandboxes other than Docker: that the mock and the     *)
(* Gondolin provider implement Sandbox, and that the Cloudflare worker loses *)
(* no work but in the ways that are known to lose it.                      *)
(***************************************************************************)
EXTENDS MockSandbox, Gondolin, Cloudflare, FiniteSetTheorems, TLAPS

-----------------------------------------------------------------------------
(***************************************************************************)
(* Proofs about the mock provider, for any callers and any commands: it    *)
(* implements Sandbox, and its events pair up.  The mapping makes the      *)
(* timer of the constructor the one call that can be under way.  The proof *)
(* turns on what "met" records: until the timer fires the handle is being  *)
(* created, unless a pause or a termination came first.                    *)
(***************************************************************************)

StartIsDue == (booting /\ ~met => entry = "creating") /\ (entry = "creating" => booting)

(* who is at work is the one that speaks, and an interruption is noted *)
OneSpeaks ==
  /\ \A p, q \in speaking : p = q
  /\ \A p \in Prompts : stage[p] \in {"thinking", "streaming"} => p \in speaking
  /\ ~astray => \A p \in Prompts : stage[p] # "ending"

\* The commands that nothing below touches leave the life of the handle alone.
LEMMA CommandsKeepLife ==
  ASSUME MockAttaches \/ MockDetaches \/ Abort \/ AbortBash
         \/ (\E p \in Prompts : Speak(p) \/ Streams(p) \/ Finishes(p) \/ EndsLate(p))
         \/ (\E b \in Shells : Bash(b) \/ BashEnds(b))
  PROVE  UNCHANGED lifeVars
BY DEF MockAttaches, MockDetaches, Abort, AbortBash, Speak, Streams, Finishes, EndsLate, Bash, BashEnds

\* The state of the handle and of its commands is well typed.
THEOREM MockTypeCorrect == MockSpec => []MockTypeOK
<1>1. MockInit => MockTypeOK
  BY DEF MockInit, MockTypeOK, Nobody
<1>2. MockTypeOK /\ [MockNext]_mockVars => MockTypeOK'
  <2> SUFFICES ASSUME MockTypeOK, [MockNext]_mockVars
               PROVE  MockTypeOK'
    OBVIOUS
  <2> USE DEF MockTypeOK, lifeVars
  <2>a. /\ \A c \in Commands : Interrupt(c) \in
             {"new", "thinking", "streaming", "ending", "sleeping", "answered", "dropped"}
        /\ \A c \in Commands : Kill(c) \in
             {"new", "thinking", "streaming", "ending", "sleeping", "answered", "dropped"}
    BY DEF Interrupt, Kill
  <2>b. Prompts \subseteq Commands /\ Shells \subseteq Commands
    BY DEF Commands
  <2>1. CASE MockCreates BY <2>1 DEF MockCreates, Nobody
  <2>2. CASE MockStarts BY <2>2 DEF MockStarts
  <2>3. CASE MockPauses BY <2>3 DEF MockPauses
  <2>4. CASE MockTerminates
    <3>1. stage' \in [Commands ->
             {"new", "thinking", "streaming", "ending", "sleeping", "answered", "dropped"}]
      BY <2>4, <2>a DEF MockTerminates, Aborted
    <3>2. Cut \in BOOLEAN
      BY DEF Cut
    <3> QED BY <2>4, <3>1, <3>2 DEF MockTerminates
  <2>5. CASE MockCleanup BY <2>5 DEF MockCleanup
  <2>6. CASE MockAttaches BY <2>6 DEF MockAttaches
  <2>7. CASE MockDetaches BY <2>7 DEF MockDetaches
  <2>8. CASE Abort BY <2>8, <2>a DEF Abort, Cut
  <2>9. CASE AbortBash BY <2>9, <2>a DEF AbortBash
  <2>10. ASSUME NEW c \in Callers, MockResumes(c) PROVE MockTypeOK'
    BY <2>10 DEF MockResumes
  <2>11. ASSUME NEW p \in Prompts, Speak(p) PROVE MockTypeOK'
    BY <2>11, <2>a DEF Speak, Cut
  <2>12. ASSUME NEW p \in Prompts, Streams(p) PROVE MockTypeOK'
    BY <2>12 DEF Streams
  <2>13. ASSUME NEW p \in Prompts, Finishes(p) PROVE MockTypeOK'
    BY <2>13 DEF Finishes, Emit
  <2>14. ASSUME NEW p \in Prompts, EndsLate(p) PROVE MockTypeOK'
    BY <2>14 DEF EndsLate, Emit
  <2>15. ASSUME NEW b \in Shells, Bash(b) PROVE MockTypeOK'
    BY <2>15, <2>a DEF Bash
  <2>16. ASSUME NEW b \in Shells, BashEnds(b) PROVE MockTypeOK'
    BY <2>16 DEF BashEnds
  <2>17. CASE UNCHANGED mockVars BY <2>17 DEF mockVars
  <2> QED BY <2>1, <2>2, <2>3, <2>4, <2>5, <2>6, <2>7, <2>8, <2>9, <2>10, <2>11, <2>12, <2>13,
             <2>14, <2>15, <2>16, <2>17 DEF MockNext
<1> QED BY <1>1, <1>2, PTL DEF MockSpec

\* A handle is being created as long as its timer is due, unless something
\* met it on the way.
LEMMA StartStaysDue ==
  ASSUME MockTypeOK, StartIsDue, [MockNext]_mockVars
  PROVE  StartIsDue'
<1> USE DEF MockTypeOK, StartIsDue, Exists
<1>1. CASE MockCreates BY <1>1 DEF MockCreates
<1>2. CASE MockStarts BY <1>2 DEF MockStarts
<1>3. CASE MockPauses BY <1>3 DEF MockPauses
<1>4. CASE MockTerminates BY <1>4 DEF MockTerminates
<1>5. CASE MockCleanup BY <1>5 DEF MockCleanup
<1>6. ASSUME NEW c \in Callers, MockResumes(c) PROVE StartIsDue'
  BY <1>6 DEF MockResumes
<1>7. CASE UNCHANGED lifeVars BY <1>7 DEF lifeVars
<1>8. CASE UNCHANGED mockVars BY <1>8 DEF mockVars
<1> QED BY <1>1, <1>2, <1>3, <1>4, <1>5, <1>6, <1>7, <1>8, CommandsKeepLife DEF MockNext

\* The mapped call: one is under way exactly when the timer is due.
LEMMA MappedCalls == MockedSandbox!Busy <=> booting
BY DEF MockedSandbox!Busy

\* The mapped sandbox is sound whenever the mock is at rest.
LEMMA MappedIsSound == MockTypeOK' => MockedSandbox!Sound'
BY DEF MockedSandbox!Sound

\* The mock provider implements the sandbox that types.ts describes
\* (mock.ts: MockSandboxHandle): every step of it is one of Sandbox, or none.
THEOREM MockImplementsSandbox == MockSpec => MockIsASandbox
<1>1. MockInit => MockedSandbox!Init
  BY DEF MockInit, MockedSandbox!Init
<1>2. MockInit => StartIsDue
  BY DEF MockInit, StartIsDue
<1>3. MockTypeOK /\ MockTypeOK' /\ StartIsDue /\ [MockNext]_mockVars
        => [MockedSandbox!Next]_(MockedSandbox!sandboxVars)
  <2> SUFFICES ASSUME MockTypeOK, MockTypeOK', StartIsDue, [MockNext]_mockVars
               PROVE  MockedSandbox!Next \/ UNCHANGED MockedSandbox!sandboxVars
    OBVIOUS
  <2>s. MockedSandbox!SoundWhenDone
    BY MappedIsSound DEF MockedSandbox!SoundWhenDone
  <2>m. met /\ met' => MockedSandbox!Next
    BY DEF MockedSandbox!Next, MockedSandbox!MixedUp
  <2>1. CASE MockCreates
    <3>1. CASE booting
      BY <2>1, <2>m, <3>1 DEF MockCreates, StartIsDue, Exists
    <3>2. CASE ~booting
      <4>1. MockedSandbox!Begin("start", "create")
        BY <2>1, <3>2 DEF MockCreates, MockedSandbox!Begin, MockedSandbox!Busy, MockedSandbox!Found,
                          MockTypeOK
      <4> QED BY <4>1 DEF MockedSandbox!Next, MockedSandbox!Operations
    <3> QED BY <3>1, <3>2
  <2>2. CASE MockStarts
    <3>1. MockedSandbox!Succeed("start")
      BY <2>2, <2>s DEF MockStarts, MockedSandbox!Succeed, MockedSandbox!Outcome
    <3> QED BY <3>1 DEF MockedSandbox!Next
  <2>3. CASE MockPauses
    <3>1. MockedSandbox!AtOnce("pause")
      BY <2>3, <2>s, MappedCalls DEF MockPauses, MockedSandbox!AtOnce, MockedSandbox!Outcome,
                         MockedSandbox!Found
    <3> QED BY <3>1 DEF MockedSandbox!Next, MockedSandbox!Operations
  <2>4. CASE MockTerminates
    <3>1. MockedSandbox!AtOnce("terminate")
      BY <2>4, <2>s, MappedCalls DEF MockTerminates, MockedSandbox!AtOnce, MockedSandbox!Outcome,
                         MockedSandbox!Found
    <3> QED BY <3>1 DEF MockedSandbox!Next, MockedSandbox!Operations
  <2>5. CASE MockCleanup
    <3>1. CASE booting
      BY <2>5, <2>m, <3>1 DEF MockCleanup, StartIsDue
    <3>2. CASE ~booting
      <4>1. MockedSandbox!Drift
        BY <2>5, <3>2 DEF MockCleanup, MockedSandbox!Drift
      <4> QED BY <4>1 DEF MockedSandbox!Next
    <3> QED BY <3>1, <3>2
  <2>6. ASSUME NEW c \in Callers, MockResumes(c)
        PROVE  MockedSandbox!Next \/ UNCHANGED MockedSandbox!sandboxVars
    <3>1. CASE entry = "creating"
      BY <2>6, <3>1 DEF MockResumes, MockedSandbox!sandboxVars
    <3>2. CASE entry # "creating" /\ booting
      BY <2>6, <2>m, <3>2 DEF MockResumes, StartIsDue
    <3>3. CASE entry # "creating" /\ ~booting
      <4>1. entry' = "running" /\ UNCHANGED <<booting, met>> /\ entry \in MockedSandbox!Found
        BY <2>6, <3>3 DEF MockResumes, Exists, MockedSandbox!Found
      <4>2. MockedSandbox!Outcome("resume", entry) = "running"
        BY DEF MockedSandbox!Outcome
      <4>3. entry' \in {MockedSandbox!Outcome("resume", s) : s \in MockedSandbox!Found}
        BY <4>1, <4>2
      <4>4. MockedSandbox!AtOnce("resume")
        BY <2>s, <3>3, <4>1, <4>3, MappedCalls DEF MockedSandbox!AtOnce, MockTypeOK
      <4> QED BY <4>4 DEF MockedSandbox!Next, MockedSandbox!Operations
    <3> QED BY <3>1, <3>2, <3>3
  <2>7. CASE UNCHANGED lifeVars
    BY <2>7 DEF lifeVars, MockedSandbox!sandboxVars
  <2>8. CASE UNCHANGED mockVars
    BY <2>7, <2>8 DEF mockVars, lifeVars
  <2> QED BY <2>1, <2>2, <2>3, <2>4, <2>5, <2>6, <2>7, <2>8, CommandsKeepLife DEF MockNext
<1>4. MockTypeOK /\ StartIsDue /\ [MockNext]_mockVars => StartIsDue'
  BY StartStaysDue
<1> QED BY <1>1, <1>2, <1>3, <1>4, MockTypeCorrect, PTL DEF MockSpec, MockIsASandbox, MockedSandbox!Spec

\* agent_start and agent_end pair up on the channel of a session unless a
\* generation was aborted or an event fell between two channels
\* (mock.ts:731).
THEOREM TurnsPair == MockSpec => []TurnsArePaired
<1> DEFINE Inv == OneSpeaks /\ TurnsArePaired
<1>1. MockInit => Inv
  BY DEF MockInit, OneSpeaks, TurnsArePaired, Nobody, Commands
<1>2. MockTypeOK /\ Inv /\ [MockNext]_mockVars => Inv'
  <2> SUFFICES ASSUME MockTypeOK, Inv, [MockNext]_mockVars
               PROVE  Inv'
    OBVIOUS
  <2> USE DEF OneSpeaks, TurnsArePaired, MockTypeOK
  <2>a. Prompts \subseteq Commands /\ Shells \subseteq Commands
    BY DEF Commands
  <2>b. \A c \in Commands :
          /\ stage[c] \in {"thinking", "streaming"} => Interrupt(c) \notin {"thinking", "streaming"}
          /\ stage[c] \notin {"thinking", "streaming"} => Interrupt(c) = stage[c]
    BY DEF Interrupt
  <2>c. \A c \in Commands : stage[c] # "sleeping" => Kill(c) = stage[c]
    BY DEF Kill
  <2>d. \A c \in Commands : Kill(c) \in {stage[c], "dropped"} /\ (Kill(c) # stage[c] => stage[c] = "sleeping")
    BY DEF Kill
  <2>1. CASE MockCreates BY <2>1, <2>a DEF MockCreates, Nobody
  <2>2. CASE MockStarts BY <2>2 DEF MockStarts
  <2>3. CASE MockPauses BY <2>3 DEF MockPauses
  <2>4. CASE MockTerminates
    <3>1. \A c \in Commands : stage'[c] = IF c \in speaking THEN Interrupt(c)
                                          ELSE IF c \in running THEN Kill(c) ELSE stage[c]
      BY <2>4 DEF MockTerminates, Aborted
    <3>2. UNCHANGED <<speaking, heard>> /\ (astray' <=> astray \/ Cut)
      BY <2>4 DEF MockTerminates
    <3>3. Cut <=> \E c \in speaking : stage[c] \in {"thinking", "streaming"}
      BY DEF Cut
    <3>4. \A p \in Prompts : stage'[p] \in {"thinking", "streaming"} => stage[p] \in {"thinking", "streaming"}
      BY <2>a, <2>b, <2>d, <3>1
    <3>5. ~astray' => \A p \in Prompts :
            /\ stage'[p] = "ending" => stage[p] = "ending"
            /\ stage'[p] \in {"thinking", "streaming"} <=> stage[p] \in {"thinking", "streaming"}
      BY <2>a, <2>b, <2>d, <3>1, <3>2, <3>3
    <3> QED BY <3>2, <3>4, <3>5
  <2>5. CASE MockCleanup BY <2>5 DEF MockCleanup
  <2>6. CASE MockAttaches BY <2>6 DEF MockAttaches
  <2>7. CASE MockDetaches BY <2>7 DEF MockDetaches
  <2>8. CASE Abort
    <3>1. \A c \in Commands : stage'[c] = IF c \in speaking THEN Interrupt(c) ELSE stage[c]
      BY <2>8 DEF Abort
    <3>2. UNCHANGED <<speaking, heard>> /\ (astray' <=> astray \/ Cut)
      BY <2>8 DEF Abort
    <3>3. Cut <=> \E c \in speaking : stage[c] \in {"thinking", "streaming"}
      BY DEF Cut
    <3>4. \A p \in Prompts : stage'[p] \in {"thinking", "streaming"} => stage[p] \in {"thinking", "streaming"}
      BY <2>a, <2>b, <3>1
    <3>5. ~astray' => \A p \in Prompts : stage'[p] = stage[p]
      BY <2>a, <2>b, <3>1, <3>2, <3>3
    <3> QED BY <3>2, <3>4, <3>5
  <2>9. CASE AbortBash
    <3>1. \A p \in Prompts : stage'[p] \in {stage[p], "dropped"} /\ (stage'[p] # stage[p] => stage[p] = "sleeping")
      BY <2>9, <2>a, <2>d DEF AbortBash
    <3> QED BY <2>9, <3>1 DEF AbortBash
  <2>10. ASSUME NEW c \in Callers, MockResumes(c) PROVE Inv'
    BY <2>10 DEF MockResumes
  <2>11. ASSUME NEW p \in Prompts, Speak(p) PROVE Inv'
    <3>1. \A c \in Commands : stage'[c] = IF c = p THEN "thinking"
                                          ELSE IF c \in speaking THEN Interrupt(c) ELSE stage[c]
      BY <2>11 DEF Speak
    <3>2. speaking' = {p} /\ heard' = "agent_start" /\ (astray' <=> astray \/ Cut)
      BY <2>11 DEF Speak
    <3>3. Cut <=> \E c \in speaking : stage[c] \in {"thinking", "streaming"}
      BY DEF Cut
    <3>4. \A q \in Prompts : q # p => stage'[q] \notin {"thinking", "streaming"}
      BY <2>a, <2>b, <3>1
    <3>5. ~astray' => \A q \in Prompts : stage'[q] # "ending"
      BY <2>a, <2>b, <3>1, <3>2, <3>3
    <3> QED BY <2>a, <3>1, <3>2, <3>4, <3>5
  <2>12. ASSUME NEW p \in Prompts, Streams(p) PROVE Inv'
    BY <2>12, <2>a DEF Streams
  <2>13. ASSUME NEW p \in Prompts, Finishes(p) PROVE Inv'
    <3>1. \A q \in Prompts : stage'[q] = IF q = p THEN (IF open THEN "answered" ELSE "dropped") ELSE stage[q]
      BY <2>13, <2>a DEF Finishes
    <3>2. speaking' = speaking /\ heard' = (IF open THEN "agent_end" ELSE heard) /\ (astray' <=> astray \/ ~open)
      BY <2>13 DEF Finishes, Emit
    <3>3. \A q \in Prompts : stage'[q] \notin {"thinking", "streaming"}
      BY <2>13, <3>1 DEF Finishes
    <3> QED BY <3>1, <3>2, <3>3
  <2>14. ASSUME NEW p \in Prompts, EndsLate(p) PROVE Inv'
    <3>1. astray /\ astray' /\ speaking' = speaking
      BY <2>14 DEF EndsLate, Emit
    <3>2. \A q \in Prompts : stage'[q] \in {stage[q], "dropped"}
      BY <2>14, <2>a DEF EndsLate
    <3> QED BY <3>1, <3>2
  <2>15. ASSUME NEW b \in Shells, Bash(b) PROVE Inv'
    <3>1. \A p \in Prompts : stage'[p] \in {"thinking", "streaming", "ending"} <=>
                             stage[p] \in {"thinking", "streaming", "ending"}
      BY <2>15, <2>a, <2>d DEF Bash
    <3>2. \A p \in Prompts : stage'[p] \in {"thinking", "streaming", "ending"} => stage'[p] = stage[p]
      BY <2>15, <2>a, <2>d DEF Bash
    <3> QED BY SMTT(20), <2>15, <3>1, <3>2 DEF Bash
  <2>16. ASSUME NEW b \in Shells, BashEnds(b) PROVE Inv'
    BY <2>16, <2>a DEF BashEnds
  <2>17. CASE UNCHANGED mockVars BY <2>17 DEF mockVars
  <2> QED BY <2>1, <2>2, <2>3, <2>4, <2>5, <2>6, <2>7, <2>8, <2>9, <2>10, <2>11, <2>12, <2>13,
             <2>14, <2>15, <2>16, <2>17 DEF MockNext
<1> QED BY <1>1, <1>2, MockTypeCorrect, PTL DEF MockSpec

-----------------------------------------------------------------------------
(***************************************************************************)
(* The Gondolin provider, for any calls, handles, machines and lines: its  *)
(* types, the order it keeps when it is called by one at a time (Orderly), *)
(* and from that order, that it implements Sandbox.                        *)
(***************************************************************************)

HandleType == [status : {"none", "running", "paused", "stopped"}, vm : SUBSET VMs, channel : SUBSET Lines]
CallType == [op : {"none", "create", "resume", "attach", "pause", "terminate"},
             at : {"none", "cloning", "booting", "checking", "probing", "closing", "closed"},
             on : SUBSET Handles, vm : SUBSET VMs]

(* one handle is cached at most; a call that does nothing holds nothing *)
MachineTypes ==
  /\ dir \in BOOLEAN /\ crossed \in BOOLEAN
  /\ cache = {} \/ \E h \in Handles : cache = {h}
  /\ vms \in SUBSET VMs /\ handle \in [Handles -> HandleType] /\ line \in [Lines -> SUBSET VMs]
  /\ call \in [Calls -> CallType]
  /\ \A c \in Calls : call[c].op = "none" \/ call[c].at = "none" => Idle(c)

\* A look-up finds the cached handle as it is, or a free one, made anew.
LEMMA Looked ==
  ASSUME MachineTypes, Findable
  PROVE  /\ Found \in Handles
         /\ \/ cache = {Found} /\ WhenFound(Found) = handle[Found] /\ handle[Found].status # "stopped"
            \/ /\ Found \notin cache /\ WhenFound(Found) = [status |-> "paused", vm |-> {}, channel |-> {}]
               /\ \A h \in cache : handle[h].status = "stopped"
<1>1. CASE Cached # {}
  <2>1. Found \in Cached
    BY <1>1 DEF Found
  <2>2. Found \in cache /\ handle[Found].status # "stopped" /\ WhenFound(Found) = handle[Found]
    BY <2>1 DEF Cached, WhenFound
  <2> QED BY <2>2 DEF MachineTypes
<1>2. CASE Cached = {}
  <2>1. Found \in FreeHandles
    BY <1>2 DEF Found, Findable
  <2>0. cache \subseteq Held
    BY DEF Held
  <2>2. Found \in Handles /\ Found \notin cache
    BY <2>0, <2>1 DEF FreeHandles
  <2>3. WhenFound(Found) = [NoHandle EXCEPT !.status = "paused"]
    BY <2>2 DEF WhenFound, Cached
  <2> QED BY <1>2, <2>2, <2>3 DEF Cached, NoHandle
<1> QED BY <1>1, <1>2

\* A look-up finds a handle that is well typed.
LEMMA LookedTypes ==
  ASSUME MachineTypes, Findable
  PROVE  Found \in Handles /\ WhenFound(Found) \in HandleType
BY Looked DEF MachineTypes, HandleType

\* The provider begins well typed, with nothing cached and nobody at work.
LEMMA MachineTypesInit == GondolinInit => MachineTypes
<1>1. NoHandle \in HandleType /\ NoCall \in CallType
  BY DEF NoHandle, NoCall, HandleType, CallType
<1> QED BY <1>1 DEF GondolinInit, MachineTypes, NotOpen, Idle

\* Every step of a call, of pi and of the process keeps the types.
LEMMA MachineTypesStep ==
  ASSUME MachineTypes, [GondolinNext]_gondolinVars
  PROVE  MachineTypes'
<1>0. /\ dir \in BOOLEAN /\ crossed \in BOOLEAN /\ vms \in SUBSET VMs /\ handle \in [Handles -> HandleType]
      /\ line \in [Lines -> SUBSET VMs] /\ call \in [Calls -> CallType]
      /\ \A c \in Calls : call[c].op = "none" \/ call[c].at = "none" => Idle(c)
      /\ cache = {} \/ \E h \in Handles : cache = {h}
  BY DEF MachineTypes
<1>n. NoHandle \in HandleType /\ NoCall \in CallType /\ NoCall.op = "none"
  BY DEF NoHandle, NoCall, HandleType, CallType
<1>e. ASSUME NEW c \in Calls, NEW op \in {"create", "resume", "attach", "pause", "terminate"},
             NEW at \in {"cloning", "booting", "checking", "probing", "closing", "closed"},
             NEW on \in SUBSET Handles, NEW vm \in SUBSET VMs, Enter(c, op, at, on, vm)
      PROVE  /\ call' \in [Calls -> CallType] /\ crossed' \in BOOLEAN
             /\ \A d \in Calls : call'[d].op = "none" \/ call'[d].at = "none" => call'[d] = NoCall
  <2>1. call' = [call EXCEPT ![c] = [op |-> op, at |-> at, on |-> on, vm |-> vm]]
    BY <1>e DEF Enter
  <2>2. [op |-> op, at |-> at, on |-> on, vm |-> vm] \in CallType
    BY DEF CallType
  <2> QED BY <1>0, <1>e, <2>1, <2>2 DEF Enter, Idle
<1>l. ASSUME NEW c \in Calls, Leave(c)
      PROVE  /\ call' \in [Calls -> CallType]
             /\ \A d \in Calls : call'[d].op = "none" \/ call'[d].at = "none" => call'[d] = NoCall
  BY <1>0, <1>l, <1>n DEF Leave, Idle
<1>a. ASSUME AtOnce
      PROVE  /\ call' \in [Calls -> CallType] /\ crossed' \in BOOLEAN
             /\ \A d \in Calls : call'[d].op = "none" \/ call'[d].at = "none" => call'[d] = NoCall
  BY <1>0, <1>a DEF AtOnce, Idle
<1>h. ASSUME NEW lines, Hang(lines) PROVE line' \in [Lines -> SUBSET VMs]
  BY <1>0, <1>h DEF Hang, NotOpen
<1>c. ASSUME NEW h \in Handles, NEW new \in HandleType, handle' = [handle EXCEPT ![h] = new]
      PROVE  handle' \in [Handles -> HandleType]
  BY <1>0, <1>c
<1>f. Findable => Found \in Handles /\ WhenFound(Found) \in HandleType
  BY LookedTypes
<1>d. \A h \in Handles : /\ handle[h] \in HandleType /\ [handle[h] EXCEPT !.channel = {}] \in HandleType
                         /\ handle[h].vm \in SUBSET VMs
  BY <1>0 DEF HandleType
<1>1. CASE GetSandbox
  <2>1. /\ Findable /\ cache' = {Found} /\ handle' = [handle EXCEPT ![Found] = WhenFound(Found)] /\ AtOnce
        /\ UNCHANGED <<dir, vms, line>>
    BY <1>1 DEF GetSandbox
  <2> QED BY <1>0, <1>a, <1>c, <1>f, <2>1 DEF MachineTypes, Idle
<1>2. ASSUME NEW c \in Calls, CreateBegins(c) PROVE MachineTypes'
  <2>1. call' \in [Calls -> CallType] /\ crossed' \in BOOLEAN
        /\ \A d \in Calls : call'[d].op = "none" \/ call'[d].at = "none" => call'[d] = NoCall
    BY <1>2, <1>e DEF CreateBegins
  <2> QED BY <1>0, <1>2, <2>1 DEF CreateBegins, MachineTypes, Idle
<1>3. ASSUME NEW c \in Calls, Cloned(c) PROVE MachineTypes'
  <2>1. call[c].at = "cloning" /\ call' = [call EXCEPT ![c].at = "booting"] /\ call[c].op # "none"
    BY <1>0, <1>3 DEF Cloned, Idle, NoCall
  <2>a. [call[c] EXCEPT !.at = "booting"] \in CallType
    <3>1. call[c] \in CallType
      BY <1>0
    <3> QED BY <3>1 DEF CallType
  <2>2. call' \in [Calls -> CallType]
    BY <1>0, <2>1, <2>a
  <2>3. \A d \in Calls : call'[d].op = "none" \/ call'[d].at = "none" => call'[d] = NoCall
    BY <1>0, <2>1 DEF Idle, CallType
  <2> QED BY <1>0, <1>3, <2>2, <2>3 DEF Cloned, MachineTypes, Idle
<1>4. ASSUME NEW c \in Calls, CallFails(c) PROVE MachineTypes'
  BY <1>0, <1>l, <1>4 DEF CallFails, MachineTypes, Idle
<1>5. ASSUME NEW c \in Calls, VmBoots(c) PROVE MachineTypes'
  <2>1. PICK v \in VMs : vms' = vms \union {v} /\ call' = [call EXCEPT ![c].at = "checking", ![c].vm = {v}]
    <3>1. (CHOOSE v \in FreeVMs : TRUE) \in FreeVMs
      BY <1>5 DEF VmBoots
    <3> QED BY <1>5, <3>1 DEF VmBoots, FreeVMs
  <2>2. call[c].op # "none"
    BY <1>0, <1>5 DEF VmBoots, Idle, NoCall
  <2>a. [call[c] EXCEPT !.at = "checking", !.vm = {v}] \in CallType
    <3>1. call[c] \in CallType
      BY <1>0
    <3> QED BY <3>1 DEF CallType
  <2>b. call' = [call EXCEPT ![c] = [call[c] EXCEPT !.at = "checking", !.vm = {v}]]
    <3>1. call[c] \in CallType
      BY <1>0
    <3> QED BY <1>0, <2>1, <3>1 DEF CallType
  <2>3. call' \in [Calls -> CallType]
    BY <1>0, <2>a, <2>b
  <2>4. \A d \in Calls : call'[d].op = "none" \/ call'[d].at = "none" => call'[d] = NoCall
    BY <1>0, <2>1, <2>2 DEF Idle, CallType
  <2> QED BY <1>0, <1>5, <2>1, <2>3, <2>4 DEF VmBoots, MachineTypes, Idle
<1>6. ASSUME NEW c \in Calls, NpmFails(c) PROVE MachineTypes'
  BY <1>0, <1>l, <1>6 DEF NpmFails, MachineTypes, Idle
<1>7. ASSUME NEW c \in Calls, CreateEnds(c) PROVE MachineTypes'
  <2>1. PICK h \in Handles : /\ cache' = {h}
                             /\ handle' = [handle EXCEPT ![h] = [status |-> "running", vm |-> call[c].vm, channel |-> {}]]
    <3>1. (CHOOSE h \in FreeHandles : TRUE) \in FreeHandles
      BY <1>7 DEF CreateEnds
    <3> QED BY <1>7, <3>1 DEF CreateEnds, FreeHandles
  <2>2. [status |-> "running", vm |-> call[c].vm, channel |-> {}] \in HandleType
    BY <1>0 DEF CallType, HandleType
  <2> QED BY <1>0, <1>c, <1>l, <1>7, <2>1, <2>2 DEF CreateEnds, MachineTypes, Idle
<1>8. ASSUME NEW c \in Calls, ResumeBegins(c) PROVE MachineTypes'
  <2>1. /\ Findable /\ cache' = {Found} /\ handle' = [handle EXCEPT ![Found] = WhenFound(Found)]
        /\ Enter(c, "resume", "booting", {Found}, {}) /\ UNCHANGED <<dir, vms, line>>
    BY <1>8 DEF ResumeBegins
  <2>2. call' \in [Calls -> CallType] /\ crossed' \in BOOLEAN
        /\ \A d \in Calls : call'[d].op = "none" \/ call'[d].at = "none" => call'[d] = NoCall
    BY <1>e, <1>f, <2>1
  <2> QED BY <1>0, <1>c, <1>f, <2>1, <2>2 DEF MachineTypes, Idle
<1>9. ASSUME NEW c \in Calls, ResumeEnds(c) PROVE MachineTypes'
  <2>1. PICK h \in call[c].on : handle' = [handle EXCEPT ![h].status = "running", ![h].vm = call[c].vm]
    BY <1>9 DEF ResumeEnds
  <2>2. handle' \in [Handles -> HandleType]
    BY <1>0, <2>1 DEF HandleType, CallType
  <2> QED BY <1>0, <1>l, <1>9, <2>2 DEF ResumeEnds, MachineTypes, Idle
<1>10. ASSUME NEW c \in Calls, AttachBegins(c) PROVE MachineTypes'
  <2>1. /\ Findable /\ Hang(handle[Found].channel) /\ handle' = [handle EXCEPT ![Found].channel = {}]
        /\ Enter(c, "attach", "probing", {Found}, {}) /\ UNCHANGED <<dir, cache, vms>>
    BY <1>10 DEF AttachBegins
  <2>2. call' \in [Calls -> CallType] /\ crossed' \in BOOLEAN
        /\ \A d \in Calls : call'[d].op = "none" \/ call'[d].at = "none" => call'[d] = NoCall
    BY <1>e, <1>f, <2>1
  <2>3. handle' \in [Handles -> HandleType]
    BY <1>0, <1>d, <1>f, <2>1
  <2> QED BY <1>0, <1>h, <2>1, <2>2, <2>3 DEF MachineTypes, Idle
<1>11. ASSUME NEW c \in Calls, AttachEnds(c) PROVE MachineTypes'
  <2>1. PICK h \in call[c].on : LET l == CHOOSE l \in FreeLines : TRUE IN
          line' = [line EXCEPT ![l] = handle[h].vm] /\ handle' = [handle EXCEPT ![h].channel = {l}]
    BY <1>11 DEF AttachEnds
  <2>2. PICK l \in Lines : line' = [line EXCEPT ![l] = handle[h].vm] /\ handle' = [handle EXCEPT ![h].channel = {l}]
    <3>1. (CHOOSE l \in FreeLines : TRUE) \in FreeLines
      BY <1>11 DEF AttachEnds
    <3> QED BY <2>1, <3>1 DEF FreeLines
  <2>3. h \in Handles
    BY <1>0 DEF CallType
  <2>4. handle' \in [Handles -> HandleType] /\ line' \in [Lines -> SUBSET VMs]
    BY <1>0, <2>2, <2>3 DEF HandleType
  <2> QED BY <1>0, <1>l, <1>11, <2>4 DEF AttachEnds, MachineTypes, Idle
<1>12. ASSUME NEW c \in Calls, NEW op \in {"pause", "terminate"}, StopBegins(c, op) PROVE MachineTypes'
  <2>1. /\ Findable /\ Hang(handle[Found].channel) /\ handle' = [handle EXCEPT ![Found].channel = {}]
        /\ Enter(c, op, "closing", {Found}, handle[Found].vm) /\ UNCHANGED <<dir, cache, vms>>
    BY <1>12 DEF StopBegins
  <2>2. call' \in [Calls -> CallType] /\ crossed' \in BOOLEAN
        /\ \A d \in Calls : call'[d].op = "none" \/ call'[d].at = "none" => call'[d] = NoCall
    BY <1>d, <1>e, <1>f, <2>1
  <2>3. handle' \in [Handles -> HandleType]
    BY <1>0, <1>d, <1>f, <2>1
  <2> QED BY <1>0, <1>h, <2>1, <2>2, <2>3 DEF MachineTypes, Idle
<1>13. ASSUME NEW op \in {"pause", "terminate"}, StopAtOnce(op) PROVE MachineTypes'
  <2>1. /\ Findable /\ Hang(WhenFound(Found).channel) /\ cache' = {Found} /\ AtOnce /\ UNCHANGED <<dir, vms>>
        /\ handle' = [handle EXCEPT ![Found] = [NoHandle EXCEPT !.status = Rest(op)]]
    BY <1>13 DEF StopAtOnce
  <2>2. [NoHandle EXCEPT !.status = Rest(op)] \in HandleType
    BY DEF NoHandle, HandleType, Rest
  <2> QED BY <1>0, <1>a, <1>c, <1>f, <1>h, <2>1, <2>2 DEF MachineTypes, Idle
<1>14. ASSUME NEW c \in Calls, VmCloses(c) PROVE MachineTypes'
  <2>1. call[c].at = "closing" /\ call' = [call EXCEPT ![c].at = "closed"] /\ call[c].op # "none" /\ vms' = vms \ call[c].vm
    BY <1>0, <1>14 DEF VmCloses, Idle, NoCall
  <2>2. call' \in [Calls -> CallType]
    BY <1>0, <2>1 DEF CallType
  <2>3. \A d \in Calls : call'[d].op = "none" \/ call'[d].at = "none" => call'[d] = NoCall
    BY <1>0, <2>1 DEF Idle, CallType
  <2> QED BY <1>0, <1>14, <2>1, <2>2, <2>3 DEF VmCloses, MachineTypes, Idle
<1>15. ASSUME NEW c \in Calls, StopEnds(c) PROVE MachineTypes'
  <2>1. PICK h \in call[c].on : handle' = [handle EXCEPT ![h].vm = {}, ![h].status = Rest(call[c].op)]
    BY <1>15 DEF StopEnds
  <2>a. h \in Handles /\ Rest(call[c].op) \in {"paused", "stopped"}
    BY <1>0 DEF CallType, Rest
  <2>b. [handle[h] EXCEPT !.vm = {}, !.status = Rest(call[c].op)] \in HandleType
    BY <1>0, <2>a DEF HandleType
  <2>c. handle' = [handle EXCEPT ![h] = [handle[h] EXCEPT !.vm = {}, !.status = Rest(call[c].op)]]
    BY <1>0, <2>1, <2>a DEF HandleType
  <2>2. handle' \in [Handles -> HandleType]
    BY <1>0, <2>a, <2>b, <2>c
  <2> QED BY <1>0, <1>l, <1>15, <2>2 DEF StopEnds, MachineTypes, Idle
<1>16. CASE Cleanup
  BY <1>0, <1>16 DEF Cleanup, MachineTypes, Idle
<1>17. CASE GondolinRestarts
  BY <1>0, <1>n, <1>17 DEF GondolinRestarts, MachineTypes, NotOpen, Idle
<1>18. ASSUME NEW l \in Lines, PiEnds(l) PROVE MachineTypes'
  <2>1. handle' \in [Handles -> HandleType]
    BY <1>0, <1>18 DEF PiEnds, HandleType
  <2> QED BY <1>0, <1>18, <2>1 DEF PiEnds, NotOpen, MachineTypes, Idle
<1>19. CASE UNCHANGED gondolinVars
  BY <1>0, <1>19 DEF gondolinVars, MachineTypes, Idle
<1> QED BY <1>1, <1>2, <1>3, <1>4, <1>5, <1>6, <1>7, <1>8, <1>9, <1>10, <1>11, <1>12, <1>13, <1>14,
           <1>15, <1>16, <1>17, <1>18, <1>19 DEF GondolinNext

\* Handles, machines, lines and calls are well typed, and the provider caches one
\* handle of a session at most (gondolin.ts: getSandbox, createSandbox).
THEOREM GondolinTypeCorrect == GondolinSpec => []GondolinTypeOK
<1>1. MachineTypes => GondolinTypeOK
  <2>1. Cardinality({}) <= 1 /\ \A h : Cardinality({h}) <= 1
    BY FS_EmptySet, FS_Singleton
  <2> QED BY <2>1 DEF MachineTypes, GondolinTypeOK, HandleType, CallType
<1> QED BY <1>1, MachineTypesInit, MachineTypesStep, PTL DEF GondolinSpec

(***************************************************************************)
(* Used by one caller at a time, the provider keeps its books: what each   *)
(* handle says of its machine is so, and what a call holds is what the     *)
(* cached handle had when it began.                                        *)
(***************************************************************************)
OneAtATime == \A c, d \in Calls : ~Idle(c) /\ ~Idle(d) => c = d
BooksOfHandle ==
  \A h \in cache :
    /\ handle[h].status \in {"running", "paused", "stopped"}
    /\ IF handle[h].status = "running" THEN \E v \in VMs : handle[h].vm = {v} ELSE handle[h].vm = {}
    /\ handle[h].channel = {} \/ \E l \in Lines : handle[h].channel = {l}
BooksOfLines ==
  \A l \in Lines : line[l] # NotOpen => \E h \in cache : l \in handle[h].channel /\ line[l] = handle[h].vm
BooksOfVMs ==
  (\A c \in Calls : call[c].at \notin {"checking", "closed"})
    => \A v \in VMs : v \in vms <=> \E h \in cache : v \in handle[h].vm
Makes(c) ==
  call[c].at \in {"cloning", "booting", "checking"} =>
    \/ call[c].op = "create" /\ call[c].on = {} /\ \A h \in cache : handle[h].status = "stopped"
    \/ /\ call[c].op = "resume" /\ call[c].on = cache /\ cache # {}
       /\ \A h \in cache : handle[h].status = "paused"
Checks(c) == call[c].at = "checking" => call[c].vm = vms /\ \E v \in VMs : vms = {v}
Attaches(c) ==
  call[c].at = "probing" =>
    /\ call[c].op = "attach" /\ call[c].on = cache /\ cache # {}
    /\ \A h \in cache : handle[h].status = "running"
    /\ \A l \in Lines : line[l] = NotOpen
Stops(c) ==
  call[c].at \in {"closing", "closed"} =>
    /\ call[c].op \in {"pause", "terminate"} /\ call[c].on = cache /\ cache # {}
    /\ \A h \in cache : handle[h].status = "running" /\ call[c].vm = handle[h].vm
    /\ \A l \in Lines : line[l] = NotOpen
    /\ call[c].at = "closed" => vms = {}
CallBooks(c) == Makes(c) /\ Checks(c) /\ Attaches(c) /\ Stops(c)
Orderly ==
  ~crossed =>
    /\ OneAtATime /\ BooksOfHandle /\ BooksOfLines /\ BooksOfVMs
    /\ \A c \in Calls : CallBooks(c)

\* A call that does nothing has no books to keep.
LEMMA NothingToKeep ==
  ASSUME NEW c \in Calls, Idle(c)
  PROVE  CallBooks(c) /\ call[c].at = "none" /\ call[c].op = "none"
BY DEF Idle, NoCall, CallBooks, Makes, Checks, Attaches, Stops

\* Nor has one that ends with this step.
LEMMA NothingToKeepThen ==
  ASSUME NEW c \in Calls, call'[c] = NoCall
  PROVE  CallBooks(c)' /\ call'[c].at = "none" /\ call'[c].op = "none"
BY DEF NoCall, CallBooks, Makes, Checks, Attaches, Stops

(* the call c, if any, is the one that is not idle *)
Alone(c) == \A d \in Calls : d # c => call[d] = NoCall

\* The books begin in order.
LEMMA OrderlyInit == GondolinInit => Orderly
BY NothingToKeep DEF GondolinInit, Orderly, OneAtATime, BooksOfHandle, BooksOfLines, BooksOfVMs, Idle, NotOpen

\* No step breaks the order that calls kept.
LEMMA OrderlyStep ==
  ASSUME MachineTypes, MachineTypes', Orderly, [GondolinNext]_gondolinVars
  PROVE  Orderly'
<1>r. CASE GondolinRestarts
  <2>1. \A c \in Calls : call'[c] = NoCall
    BY <1>r DEF GondolinRestarts
  <2> QED BY <1>r, <2>1, NothingToKeepThen
          DEF GondolinRestarts, Orderly, OneAtATime, BooksOfHandle, BooksOfLines, BooksOfVMs, Idle, NotOpen
<1> SUFFICES ASSUME ~crossed', ~GondolinRestarts
             PROVE  /\ OneAtATime' /\ BooksOfHandle' /\ BooksOfLines' /\ BooksOfVMs'
                    /\ \A c \in Calls : CallBooks(c)'
  BY <1>r DEF Orderly
<1>0. /\ dir \in BOOLEAN /\ vms \in SUBSET VMs /\ handle \in [Handles -> HandleType]
      /\ line \in [Lines -> SUBSET VMs] /\ call \in [Calls -> CallType]
      /\ \A c \in Calls : call[c].op = "none" \/ call[c].at = "none" => Idle(c)
      /\ cache \subseteq Handles /\ \A g, h \in cache : g = h
  BY DEF MachineTypes
<1>x. ~crossed
  BY DEF GondolinNext, GetSandbox, CreateBegins, Cloned, CallFails, VmBoots, NpmFails, CreateEnds, ResumeBegins, ResumeEnds,
         AttachBegins, AttachEnds, StopBegins, VmCloses, StopEnds, StopAtOnce, Cleanup, PiEnds, Enter, AtOnce, gondolinVars
<1>1. OneAtATime /\ BooksOfHandle /\ BooksOfLines /\ BooksOfVMs /\ \A c \in Calls : CallBooks(c)
  BY <1>x DEF Orderly
\* what begins finds everyone idle
<1>b. ASSUME NEW c \in Calls, NEW op, NEW at, NEW on, NEW vm, Enter(c, op, at, on, vm)
      PROVE  /\ \A d \in Calls : Idle(d)
             /\ call'[c] = [op |-> op, at |-> at, on |-> on, vm |-> vm]
             /\ \A d \in Calls : d # c => call'[d] = NoCall
  BY <1>0, <1>b DEF Enter, SomeoneBusy, Idle
<1>a. ASSUME AtOnce PROVE (\A d \in Calls : Idle(d)) /\ (\A d \in Calls : call'[d] = NoCall)
  BY <1>a DEF AtOnce, SomeoneBusy, Idle
\* what goes on is the only thing that does
<1>g. ASSUME NEW c \in Calls, ~Idle(c) PROVE Alone(c)
  BY <1>1, <1>g DEF OneAtATime, Alone, Idle
<1>l. ASSUME NEW c \in Calls, ~Idle(c), Leave(c) PROVE \A d \in Calls : call'[d] = NoCall
  BY <1>0, <1>g, <1>l DEF Leave, Alone
<1>q. ASSUME \A d \in Calls : call'[d] = NoCall
      PROVE  OneAtATime' /\ \A d \in Calls : CallBooks(d)'
  BY <1>q, NothingToKeepThen DEF OneAtATime, Idle
<1>p. ASSUME NEW c \in Calls, \A d \in Calls : d # c => call'[d] = NoCall, CallBooks(c)'
      PROVE  OneAtATime' /\ \A d \in Calls : CallBooks(d)'
  BY <1>p, NothingToKeepThen DEF OneAtATime, Idle
<1>v. ASSUME \A d \in Calls : Idle(d)
      PROVE  \A v \in VMs : v \in vms <=> \E h \in cache : v \in handle[h].vm
  BY <1>1, <1>v, NothingToKeep DEF BooksOfVMs
<1>n. \A c \in Calls : call[c].at # "none" => ~Idle(c)
  BY DEF Idle, NoCall
<1>d. ASSUME \A h \in cache : handle[h].status # "running"
      PROVE  /\ \A l \in Lines : line[l] = NotOpen
             /\ \A h \in cache : handle[h].vm = {}
  <2>1. \A h \in cache : handle[h].vm = {}
    BY <1>1, <1>d DEF BooksOfHandle
  <2> QED BY <1>1, <2>1 DEF BooksOfLines, NotOpen
<1>k. \A c \in Calls : ~Idle(c) /\ call[c].at \notin {"checking", "closed"} =>
        \A v \in VMs : v \in vms <=> \E h \in cache : v \in handle[h].vm
  <2> SUFFICES ASSUME NEW c \in Calls, ~Idle(c), call[c].at \notin {"checking", "closed"}
               PROVE  \A v \in VMs : v \in vms <=> \E h \in cache : v \in handle[h].vm
    OBVIOUS
  <2>1. \A d \in Calls : call[d].at \notin {"checking", "closed"}
    BY <1>g DEF Alone, NoCall
  <2> QED BY <1>1, <2>1 DEF BooksOfVMs
<1>w. ASSUME Findable, \A d \in Calls : Idle(d)
      PROVE  /\ Found \in Handles
             /\ \/ cache = {Found} /\ WhenFound(Found) = handle[Found] /\ handle[Found].status # "stopped"
                \/ /\ Found \notin cache /\ WhenFound(Found) = [status |-> "paused", vm |-> {}, channel |-> {}]
                   /\ \A h \in cache : handle[h].status = "stopped"
                   /\ vms = {}
                   /\ \A l \in Lines : line[l] = NotOpen
  <2>1. CASE \A h \in cache : handle[h].status = "stopped"
    <3>1. vms = {} /\ \A l \in Lines : line[l] = NotOpen
      BY <1>0, <1>d, <1>v, <1>w, <2>1
    <3> QED BY <1>w, <2>1, <3>1, Looked
  <2>2. CASE ~\A h \in cache : handle[h].status = "stopped"
    BY <1>w, <2>2, Looked
  <2> QED BY <2>1, <2>2
<1>z. ASSUME Findable, \A d \in Calls : Idle(d), cache' = {Found},
             handle' = [handle EXCEPT ![Found] = WhenFound(Found)], UNCHANGED <<vms, line>>
      PROVE  BooksOfHandle' /\ BooksOfLines' /\ BooksOfVMs'
  <2>1. CASE cache = {Found} /\ WhenFound(Found) = handle[Found]
    <3>1. cache' = cache /\ handle' = handle
      BY <1>0, <1>w, <1>z, <2>1
    <3> QED BY <1>1, <1>v, <1>z, <3>1 DEF BooksOfHandle, BooksOfLines, BooksOfVMs
  <2>2. CASE /\ WhenFound(Found) = [status |-> "paused", vm |-> {}, channel |-> {}]
             /\ vms = {}
             /\ \A l \in Lines : line[l] = NotOpen
    <3>1. handle'[Found] = [status |-> "paused", vm |-> {}, channel |-> {}]
      BY <1>0, <1>w, <1>z, <2>2
    <3> QED BY <1>z, <2>2, <3>1 DEF BooksOfHandle, BooksOfLines, BooksOfVMs, NotOpen
  <2> QED BY <1>w, <1>z, <2>1, <2>2
<1>2. CASE GetSandbox
  BY <1>2, <1>a, <1>q, <1>z DEF GetSandbox
<1>3. ASSUME NEW c \in Calls, CreateBegins(c)
      PROVE  OneAtATime' /\ BooksOfHandle' /\ BooksOfLines' /\ BooksOfVMs' /\ \A d \in Calls : CallBooks(d)'
  <2>1. PICK at \in {"cloning", "booting"} : Enter(c, "create", at, {}, {})
    BY <1>3 DEF CreateBegins
  <2>2. UNCHANGED <<cache, handle, vms, line>> /\ \A h \in cache : handle[h].status = "stopped"
    BY <1>3 DEF CreateBegins, Cached
  <2>a. /\ call'[c].op = "create" /\ call'[c].at \in {"cloning", "booting"} /\ call'[c].on = {}
    <3>1. call'[c] = [op |-> "create", at |-> at, on |-> {}, vm |-> {}]
      BY <1>b, <2>1
    <3> QED BY <2>1, <3>1
  <2>3. CallBooks(c)'
    BY <2>a, <2>2 DEF CallBooks, Makes, Checks, Attaches, Stops
  <2>4. BooksOfHandle' /\ BooksOfLines' /\ BooksOfVMs'
    BY <1>1, <1>b, <1>v, <2>1, <2>2 DEF BooksOfHandle, BooksOfLines, BooksOfVMs
  <2> QED BY <1>b, <1>p, <2>1, <2>3, <2>4
<1>4. ASSUME NEW c \in Calls, Cloned(c)
      PROVE  OneAtATime' /\ BooksOfHandle' /\ BooksOfLines' /\ BooksOfVMs' /\ \A d \in Calls : CallBooks(d)'
  <2>1. ~Idle(c) /\ Alone(c) /\ call[c].at = "cloning" /\ UNCHANGED <<cache, handle, vms, line>>
    BY <1>4, <1>n, <1>g DEF Cloned
  <2>2. /\ \A d \in Calls : d # c => call'[d] = NoCall
        /\ call'[c] = [call[c] EXCEPT !.at = "booting"]
    BY <1>0, <1>4, <2>1 DEF Cloned, Alone
  <2>3. /\ call'[c].at = "booting" /\ call'[c].op = call[c].op /\ call'[c].on = call[c].on
    BY <1>0, <2>2 DEF CallType
  <2>4. Makes(c)
    BY <1>1 DEF CallBooks
  <2>5. CallBooks(c)'
    BY <2>1, <2>3, <2>4 DEF CallBooks, Makes, Checks, Attaches, Stops
  <2>6. BooksOfHandle' /\ BooksOfLines' /\ BooksOfVMs'
    BY <1>1, <1>k, <2>1 DEF BooksOfHandle, BooksOfLines, BooksOfVMs
  <2> QED BY <1>p, <2>2, <2>5, <2>6
<1>5. ASSUME NEW c \in Calls, CallFails(c)
      PROVE  OneAtATime' /\ BooksOfHandle' /\ BooksOfLines' /\ BooksOfVMs' /\ \A d \in Calls : CallBooks(d)'
  <2>1. ~Idle(c) /\ call[c].at \notin {"checking", "closed"} /\ UNCHANGED <<cache, handle, vms, line>> /\ Leave(c)
    BY <1>5, <1>n DEF CallFails
  <2>2. BooksOfHandle' /\ BooksOfLines' /\ BooksOfVMs'
    BY <1>1, <1>k, <2>1 DEF BooksOfHandle, BooksOfLines, BooksOfVMs
  <2> QED BY <1>l, <1>q, <2>1, <2>2
<1>6. ASSUME NEW c \in Calls, VmBoots(c)
      PROVE  OneAtATime' /\ BooksOfHandle' /\ BooksOfLines' /\ BooksOfVMs' /\ \A d \in Calls : CallBooks(d)'
  <2>1. ~Idle(c) /\ Alone(c) /\ call[c].at = "booting" /\ UNCHANGED <<cache, handle, line>>
    BY <1>6, <1>n, <1>g DEF VmBoots
  <2>2. PICK v \in VMs : vms' = vms \union {v} /\ call' = [call EXCEPT ![c].at = "checking", ![c].vm = {v}]
    <3>1. (CHOOSE v \in FreeVMs : TRUE) \in FreeVMs
      BY <1>6 DEF VmBoots
    <3> QED BY <1>6, <3>1 DEF VmBoots, FreeVMs
  <2>3. /\ \A d \in Calls : d # c => call'[d] = NoCall
        /\ call'[c].at = "checking" /\ call'[c].op = call[c].op /\ call'[c].on = call[c].on /\ call'[c].vm = {v}
    <3>1. call[c] \in CallType
      BY <1>0
    <3> QED BY <1>0, <2>1, <2>2, <3>1 DEF Alone, CallType
  <2>4. Makes(c)
    BY <1>1 DEF CallBooks
  <2>5. vms = {}
    <3>1. \A h \in cache : handle[h].status # "running"
      BY <2>1, <2>4 DEF Makes
    <3> QED BY <1>0, <1>d, <1>k, <2>1, <3>1
  <2>6. CallBooks(c)'
    BY <2>1, <2>2, <2>3, <2>4, <2>5 DEF CallBooks, Makes, Checks, Attaches, Stops
  <2>7. BooksOfHandle' /\ BooksOfLines' /\ BooksOfVMs'
    BY <1>1, <2>1, <2>3 DEF BooksOfHandle, BooksOfLines, BooksOfVMs
  <2> QED BY <1>p, <2>3, <2>6, <2>7
<1>7. ASSUME NEW c \in Calls, NpmFails(c) PROVE FALSE
  BY <1>7 DEF NpmFails
<1>8. ASSUME NEW c \in Calls, CreateEnds(c)
      PROVE  OneAtATime' /\ BooksOfHandle' /\ BooksOfLines' /\ BooksOfVMs' /\ \A d \in Calls : CallBooks(d)'
  <2>1. ~Idle(c) /\ Leave(c) /\ UNCHANGED <<vms, line>> /\ call[c].op = "create" /\ call[c].at = "checking"
    BY <1>8, <1>n DEF CreateEnds
  <2>2. PICK h \in Handles : /\ cache' = {h}
                             /\ handle' = [handle EXCEPT ![h] = [status |-> "running", vm |-> call[c].vm, channel |-> {}]]
    <3>1. (CHOOSE h \in FreeHandles : TRUE) \in FreeHandles
      BY <1>8 DEF CreateEnds
    <3> QED BY <1>8, <3>1 DEF CreateEnds, FreeHandles
  <2>3. Makes(c) /\ Checks(c)
    BY <1>1 DEF CallBooks
  <2>4. \A l \in Lines : line[l] = NotOpen
    BY <1>d, <2>1, <2>3 DEF Makes
  <2>5. call[c].vm = vms /\ \E v \in VMs : vms = {v}
    BY <2>1, <2>3 DEF Checks
  <2>6. handle'[h] = [status |-> "running", vm |-> vms, channel |-> {}]
    BY <1>0, <2>2, <2>5
  <2>7. BooksOfHandle' /\ BooksOfLines' /\ BooksOfVMs'
    BY <2>1, <2>2, <2>4, <2>5, <2>6 DEF BooksOfHandle, BooksOfLines, BooksOfVMs
  <2> QED BY <1>l, <1>q, <2>1, <2>7
<1>9. ASSUME NEW c \in Calls, ResumeBegins(c)
      PROVE  OneAtATime' /\ BooksOfHandle' /\ BooksOfLines' /\ BooksOfVMs' /\ \A d \in Calls : CallBooks(d)'
  <2>1. /\ Findable /\ cache' = {Found} /\ handle' = [handle EXCEPT ![Found] = WhenFound(Found)]
        /\ WhenFound(Found).status # "running"
        /\ Enter(c, "resume", "booting", {Found}, {}) /\ UNCHANGED <<vms, line>>
    BY <1>9 DEF ResumeBegins
  <2>2. /\ \A d \in Calls : Idle(d)
        /\ \A d \in Calls : d # c => call'[d] = NoCall
        /\ call'[c] = [op |-> "resume", at |-> "booting", on |-> {Found}, vm |-> {}]
    BY <1>b, <2>1
  <2>3. handle'[Found].status = "paused"
    <3>1. handle'[Found] = WhenFound(Found)
      BY <1>0, <1>w, <2>1, <2>2
    <3>2. WhenFound(Found).status = "paused"
      BY <1>1, <1>w, <2>1, <2>2 DEF BooksOfHandle
    <3> QED BY <3>1, <3>2
  <2>4. CallBooks(c)'
    BY <2>1, <2>2, <2>3 DEF CallBooks, Makes, Checks, Attaches, Stops
  <2> QED BY <1>p, <1>z, <2>1, <2>2, <2>4
<1>10. ASSUME NEW c \in Calls, ResumeEnds(c)
       PROVE  OneAtATime' /\ BooksOfHandle' /\ BooksOfLines' /\ BooksOfVMs' /\ \A d \in Calls : CallBooks(d)'
  <2>1. ~Idle(c) /\ Leave(c) /\ UNCHANGED <<cache, vms, line>> /\ call[c].op = "resume" /\ call[c].at = "checking"
    BY <1>10, <1>n DEF ResumeEnds
  <2>2. Makes(c) /\ Checks(c)
    BY <1>1 DEF CallBooks
  <2>3. /\ call[c].on = cache /\ cache # {} /\ \A h \in cache : handle[h].status = "paused"
        /\ call[c].vm = vms /\ \E v \in VMs : vms = {v}
    BY <2>1, <2>2 DEF Makes, Checks
  <2>4. PICK h \in cache : handle' = [handle EXCEPT ![h].status = "running", ![h].vm = call[c].vm]
    BY <1>10, <2>3 DEF ResumeEnds
  <2>5. handle'[h].status = "running" /\ handle'[h].vm = vms /\ handle'[h].channel = handle[h].channel
    <3>1. h \in Handles /\ handle[h] \in HandleType
      BY <1>0, <2>4
    <3> QED BY <1>0, <2>3, <2>4, <3>1 DEF HandleType
  <2>6. \A l \in Lines : line[l] = NotOpen
    BY <1>d, <2>3
  <2>7. cache' = {h}
    BY <1>0, <2>1, <2>4
  <2>a. BooksOfHandle'
    <3>1. handle'[h].channel = {} \/ \E l \in Lines : handle'[h].channel = {l}
      BY <1>1, <2>4, <2>5 DEF BooksOfHandle
    <3> QED BY <2>3, <2>5, <2>7, <3>1 DEF BooksOfHandle
  <2>b. BooksOfLines' /\ BooksOfVMs'
    BY <2>1, <2>5, <2>6, <2>7 DEF BooksOfLines, BooksOfVMs
  <2>8. BooksOfHandle' /\ BooksOfLines' /\ BooksOfVMs'
    BY <2>a, <2>b
  <2> QED BY <1>l, <1>q, <2>1, <2>8
<1>11. ASSUME NEW c \in Calls, AttachBegins(c)
       PROVE  OneAtATime' /\ BooksOfHandle' /\ BooksOfLines' /\ BooksOfVMs' /\ \A d \in Calls : CallBooks(d)'
  <2>1. /\ Findable /\ Hang(handle[Found].channel) /\ handle' = [handle EXCEPT ![Found].channel = {}]
        /\ WhenFound(Found).status = "running"
        /\ Enter(c, "attach", "probing", {Found}, {}) /\ UNCHANGED <<cache, vms>>
    BY <1>11 DEF AttachBegins
  <2>2. /\ \A d \in Calls : Idle(d)
        /\ \A d \in Calls : d # c => call'[d] = NoCall
        /\ call'[c] = [op |-> "attach", at |-> "probing", on |-> {Found}, vm |-> {}]
    BY <1>b, <2>1
  <2>3. cache = {Found} /\ handle[Found].status = "running" /\ Found \in Handles
    BY <1>w, <2>1, <2>2
  <2>4. \A l \in Lines : line'[l] = NotOpen
    BY <1>1, <2>1, <2>3 DEF BooksOfLines, Hang
  <2>5. handle'[Found].status = "running" /\ handle'[Found].vm = handle[Found].vm /\ handle'[Found].channel = {}
    <3>1. handle[Found] \in HandleType
      BY <1>0, <2>3
    <3> QED BY <1>0, <2>1, <2>3, <3>1 DEF HandleType
  <2>6. CallBooks(c)'
    BY <2>1, <2>2, <2>3, <2>4, <2>5 DEF CallBooks, Makes, Checks, Attaches, Stops
  <2>7. BooksOfHandle' /\ BooksOfLines' /\ BooksOfVMs'
    BY <1>1, <1>v, <2>1, <2>2, <2>3, <2>4, <2>5 DEF BooksOfHandle, BooksOfLines, BooksOfVMs
  <2> QED BY <1>p, <2>2, <2>6, <2>7
<1>12. ASSUME NEW c \in Calls, AttachEnds(c)
       PROVE  OneAtATime' /\ BooksOfHandle' /\ BooksOfLines' /\ BooksOfVMs' /\ \A d \in Calls : CallBooks(d)'
  <2>1. ~Idle(c) /\ Leave(c) /\ UNCHANGED <<cache, vms>> /\ call[c].at = "probing" /\ Attaches(c)
    BY <1>1, <1>12, <1>n DEF AttachEnds, CallBooks
  <2>2. /\ call[c].on = cache /\ \A h \in cache : handle[h].status = "running"
        /\ \A l \in Lines : line[l] = NotOpen
    BY <2>1 DEF Attaches
  <2>3. PICK h \in cache : LET l == CHOOSE l \in FreeLines : TRUE IN
          line' = [line EXCEPT ![l] = handle[h].vm] /\ handle' = [handle EXCEPT ![h].channel = {l}]
    BY <1>12, <2>2 DEF AttachEnds
  <2>4. PICK l \in Lines : line' = [line EXCEPT ![l] = handle[h].vm] /\ handle' = [handle EXCEPT ![h].channel = {l}]
    <3>1. (CHOOSE l \in FreeLines : TRUE) \in FreeLines
      BY <1>12 DEF AttachEnds
    <3> QED BY <2>3, <3>1 DEF FreeLines
  <2>5. /\ cache = {h}
        /\ handle'[h].status = "running" /\ handle'[h].vm = handle[h].vm /\ handle'[h].channel = {l}
        /\ line'[l] = handle[h].vm /\ \A m \in Lines : m # l => line'[m] = NotOpen
    <3>1. h \in Handles /\ handle[h] \in HandleType
      BY <1>0, <2>3
    <3> QED BY <1>0, <2>2, <2>3, <2>4, <3>1 DEF HandleType
  <2>6. BooksOfHandle' /\ BooksOfLines'
    BY <1>1, <2>1, <2>2, <2>5 DEF BooksOfHandle, BooksOfLines
  <2>7. BooksOfVMs'
    BY <1>k, <2>1, <2>5 DEF BooksOfVMs
  <2> QED BY <1>l, <1>q, <2>1, <2>6, <2>7
<1>13. ASSUME NEW c \in Calls, NEW op \in {"pause", "terminate"}, StopBegins(c, op)
       PROVE  OneAtATime' /\ BooksOfHandle' /\ BooksOfLines' /\ BooksOfVMs' /\ \A d \in Calls : CallBooks(d)'
  <2>1. /\ Findable /\ Hang(handle[Found].channel) /\ handle' = [handle EXCEPT ![Found].channel = {}]
        /\ WhenFound(Found).vm # {}
        /\ Enter(c, op, "closing", {Found}, handle[Found].vm) /\ UNCHANGED <<cache, vms>>
    BY <1>13 DEF StopBegins
  <2>2. /\ \A d \in Calls : Idle(d)
        /\ \A d \in Calls : d # c => call'[d] = NoCall
        /\ call'[c] = [op |-> op, at |-> "closing", on |-> {Found}, vm |-> handle[Found].vm]
    BY <1>b, <2>1
  <2>3. cache = {Found} /\ handle[Found].vm # {} /\ Found \in Handles
    BY <1>w, <2>1, <2>2
  <2>s. handle[Found].status = "running"
    BY <1>1, <2>3 DEF BooksOfHandle
  <2>4. \A l \in Lines : line'[l] = NotOpen
    BY <1>1, <2>1, <2>3 DEF BooksOfLines, Hang
  <2>5. handle'[Found].status = "running" /\ handle'[Found].vm = handle[Found].vm /\ handle'[Found].channel = {}
    <3>1. handle[Found] \in HandleType
      BY <1>0, <2>3
    <3> QED BY <1>0, <2>1, <2>3, <2>s, <3>1 DEF HandleType
  <2>6. CallBooks(c)'
    BY <2>1, <2>2, <2>3, <2>4, <2>5 DEF CallBooks, Makes, Checks, Attaches, Stops
  <2>7. BooksOfHandle' /\ BooksOfLines' /\ BooksOfVMs'
    BY <1>1, <1>v, <2>1, <2>2, <2>3, <2>s, <2>4, <2>5 DEF BooksOfHandle, BooksOfLines, BooksOfVMs
  <2> QED BY <1>p, <2>2, <2>6, <2>7
<1>14. ASSUME NEW op \in {"pause", "terminate"}, StopAtOnce(op)
       PROVE  OneAtATime' /\ BooksOfHandle' /\ BooksOfLines' /\ BooksOfVMs' /\ \A d \in Calls : CallBooks(d)'
  <2>1. /\ Findable /\ Hang(WhenFound(Found).channel) /\ WhenFound(Found).vm = {} /\ AtOnce
        /\ cache' = {Found} /\ handle' = [handle EXCEPT ![Found] = [NoHandle EXCEPT !.status = Rest(op)]]
        /\ UNCHANGED vms
    BY <1>14 DEF StopAtOnce
  <2>2. (\A d \in Calls : Idle(d)) /\ (\A d \in Calls : call'[d] = NoCall)
    BY <1>a, <2>1
  <2>3. vms = {} /\ \A l \in Lines : line[l] = NotOpen
    <3>1. CASE cache = {Found} /\ handle[Found].vm = {}
      <4>1. handle[Found].status # "running"
        BY <1>1, <3>1 DEF BooksOfHandle
      <4> QED BY <1>0, <1>d, <1>v, <2>2, <3>1, <4>1
    <3> QED BY <1>w, <2>1, <2>2, <3>1
  <2>4. \A l \in Lines : line'[l] = NotOpen
    BY <2>1, <2>3 DEF Hang
  <2>5. handle'[Found] = [status |-> Rest(op), vm |-> {}, channel |-> {}] /\ Rest(op) \in {"paused", "stopped"}
    BY <1>0, <1>w, <2>1, <2>2 DEF NoHandle, Rest
  <2>6. BooksOfHandle' /\ BooksOfLines' /\ BooksOfVMs'
    BY <2>1, <2>3, <2>4, <2>5 DEF BooksOfHandle, BooksOfLines, BooksOfVMs
  <2> QED BY <1>q, <2>2, <2>6
<1>15. ASSUME NEW c \in Calls, VmCloses(c)
       PROVE  OneAtATime' /\ BooksOfHandle' /\ BooksOfLines' /\ BooksOfVMs' /\ \A d \in Calls : CallBooks(d)'
  <2>1. /\ ~Idle(c) /\ Alone(c) /\ call[c].at = "closing" /\ UNCHANGED <<cache, handle, line>> /\ Stops(c)
        /\ vms' = vms \ call[c].vm
    BY <1>1, <1>15, <1>n, <1>g DEF VmCloses, CallBooks
  <2>2. /\ \A d \in Calls : d # c => call'[d] = NoCall
        /\ call'[c] = [call[c] EXCEPT !.at = "closed"]
    BY <1>0, <1>15, <2>1 DEF VmCloses, Alone
  <2>3. /\ call'[c].at = "closed" /\ call'[c].op = call[c].op /\ call'[c].on = call[c].on /\ call'[c].vm = call[c].vm
    BY <1>0, <2>2 DEF CallType
  <2>4. vms' = {}
    <3>1. \A h \in cache : call[c].vm = handle[h].vm
      BY <2>1 DEF Stops
    <3> QED BY <1>0, <1>k, <2>1, <3>1
  <2>5. CallBooks(c)'
    BY <2>1, <2>3, <2>4 DEF CallBooks, Makes, Checks, Attaches, Stops
  <2>6. BooksOfHandle' /\ BooksOfLines' /\ BooksOfVMs'
    BY <1>1, <2>1, <2>3 DEF BooksOfHandle, BooksOfLines, BooksOfVMs
  <2> QED BY <1>p, <2>2, <2>5, <2>6
<1>16. ASSUME NEW c \in Calls, StopEnds(c)
       PROVE  OneAtATime' /\ BooksOfHandle' /\ BooksOfLines' /\ BooksOfVMs' /\ \A d \in Calls : CallBooks(d)'
  <2>1. ~Idle(c) /\ Leave(c) /\ UNCHANGED <<cache, vms, line>> /\ call[c].at = "closed" /\ Stops(c)
    BY <1>1, <1>16, <1>n DEF StopEnds, CallBooks
  <2>2. /\ call[c].on = cache /\ vms = {} /\ call[c].op \in {"pause", "terminate"}
        /\ \A l \in Lines : line[l] = NotOpen
    BY <2>1 DEF Stops
  <2>3. PICK h \in cache : handle' = [handle EXCEPT ![h].vm = {}, ![h].status = Rest(call[c].op)]
    BY <1>16, <2>2 DEF StopEnds
  <2>4. /\ cache = {h} /\ Rest(call[c].op) \in {"paused", "stopped"}
        /\ handle'[h].status = Rest(call[c].op) /\ handle'[h].vm = {} /\ handle'[h].channel = handle[h].channel
    <3>1. h \in Handles /\ handle[h] \in HandleType
      BY <1>0, <2>3
    <3>2. Rest(call[c].op) \in {"paused", "stopped"}
      BY DEF Rest
    <3> QED BY <1>0, <2>3, <3>1, <3>2 DEF HandleType
  <2>5. BooksOfHandle' /\ BooksOfLines' /\ BooksOfVMs'
    BY <1>1, <2>1, <2>2, <2>4 DEF BooksOfHandle, BooksOfLines, BooksOfVMs
  <2> QED BY <1>l, <1>q, <2>1, <2>5
<1>17. CASE Cleanup
  <2>1. /\ cache' = {} /\ UNCHANGED <<handle, vms, line, call>>
        /\ \A h \in cache : handle[h].status = "stopped"
        /\ cache # {}
    BY <1>17 DEF Cleanup, Cached
  <2>2. BooksOfHandle' /\ BooksOfLines' /\ BooksOfVMs'
    BY <1>1, <1>d, <2>1 DEF BooksOfHandle, BooksOfLines, BooksOfVMs
  <2>3. \A c \in Calls : CallBooks(c)'
    BY <1>1, <2>1 DEF CallBooks, Makes, Checks, Attaches, Stops
  <2> QED BY <1>1, <2>1, <2>2, <2>3 DEF OneAtATime, Idle
<1>18. ASSUME NEW l \in Lines, PiEnds(l)
       PROVE  OneAtATime' /\ BooksOfHandle' /\ BooksOfLines' /\ BooksOfVMs' /\ \A d \in Calls : CallBooks(d)'
  <2>1. /\ line' = [line EXCEPT ![l] = NotOpen] /\ UNCHANGED <<cache, vms, call>>
        /\ \A h \in Handles : /\ handle'[h].status = handle[h].status /\ handle'[h].vm = handle[h].vm
                              /\ handle'[h].channel = handle[h].channel \ {l}
    BY <1>0, <1>18 DEF PiEnds, HandleType
  <2>2. \A h \in cache : /\ handle'[h].status = handle[h].status /\ handle'[h].vm = handle[h].vm
                         /\ handle'[h].channel = handle[h].channel \ {l}
    BY <1>0, <2>1
  <2>3. BooksOfHandle'
    BY <1>1, <2>1, <2>2 DEF BooksOfHandle
  <2>4. BooksOfLines'
    BY <1>0, <1>1, <2>1, <2>2 DEF BooksOfLines
  <2>5. BooksOfVMs'
    BY <1>1, <2>1, <2>2 DEF BooksOfVMs
  <2>6. \A c \in Calls : CallBooks(c)'
    BY <1>0, <1>1, <2>1, <2>2 DEF CallBooks, Makes, Checks, Attaches, Stops
  <2> QED BY <1>1, <2>1, <2>3, <2>4, <2>5, <2>6 DEF OneAtATime, Idle
<1>19. CASE UNCHANGED gondolinVars
  BY <1>1, <1>19 DEF gondolinVars, OneAtATime, Idle, BooksOfHandle, BooksOfLines, BooksOfVMs, CallBooks, Makes, Checks,
                     Attaches, Stops
<1> QED BY <1>2, <1>3, <1>4, <1>5, <1>6, <1>7, <1>8, <1>9, <1>10, <1>11, <1>12, <1>13, <1>14, <1>15, <1>16,
           <1>17, <1>18, <1>19 DEF GondolinNext

(***************************************************************************)
(* The mapping.                                                            *)
(***************************************************************************)
\* A call of the model is under way where one of Sandbox is.
LEMMA MappedBusy ==
  ASSUME MachineTypes
  PROVE  /\ GondolinSandbox!Busy <=> SomeoneBusy
         /\ \A c \in Calls : call[c].op = "none" <=> Idle(c)
<1>1. \A c \in Calls : call[c].op = "none" <=> Idle(c)
  BY DEF MachineTypes, Idle, NoCall
<1> QED BY <1>1 DEF GondolinSandbox!Busy, SomeoneBusy

\* The cached handle is the one whose status the look-up reports.
LEMMA MappedStatus ==
  ASSUME MachineTypes
  PROVE  /\ cache = {} => KnownStatus = "none"
         /\ \A h \in cache : KnownStatus = handle[h].status
<1>1. cache # {} => (CHOOSE h \in cache : TRUE) \in cache
  OBVIOUS
<1> QED BY <1>1 DEF MachineTypes, KnownStatus

\* In order, with nobody at work, what the look-up would say is what runs.
LEMMA QuietIsSound ==
  ASSUME MachineTypes', Orderly'
  PROVE  GondolinSandbox!SoundWhenDone
<1> SUFFICES ASSUME ~crossed', \A c \in Calls : call'[c].op = "none"
             PROVE  GondolinSandbox!Sound'
  BY DEF GondolinSandbox!SoundWhenDone
<1>0. /\ vms' \in SUBSET VMs /\ line' \in [Lines -> SUBSET VMs]
      /\ \A c \in Calls : call'[c] = NoCall
      /\ cache' = {} \/ \E h \in Handles : cache' = {h}
  BY DEF MachineTypes, Idle
<1>1. BooksOfHandle' /\ BooksOfLines' /\ \A v \in VMs : v \in vms' <=> \E h \in cache' : v \in handle'[h].vm
  BY <1>0 DEF Orderly, BooksOfVMs, NoCall
<1>2. (cache' = {} => KnownStatus' = "none") /\ \A h \in cache' : KnownStatus' = handle'[h].status
  <2>1. cache' # {} => (CHOOSE h \in cache' : TRUE) \in cache'
    OBVIOUS
  <2> QED BY <1>0, <2>1 DEF KnownStatus
<1>3. CASE \E h \in cache' : handle'[h].status = "running"
  <2>1. PICK h \in cache' : handle'[h].status = "running"
    BY <1>3
  <2>2. PICK v \in VMs : handle'[h].vm = {v}
    BY <1>1, <2>1 DEF BooksOfHandle
  <2>3. cache' = {h} /\ vms' = {v}
    BY <1>0, <1>1, <2>1, <2>2
  <2>4. OpenLines' = {} \/ \E l \in Lines : OpenLines' = {l}
    <3>1. handle'[h].channel = {} \/ \E l \in Lines : handle'[h].channel = {l}
      BY <1>1, <2>1 DEF BooksOfHandle
    <3>2. OpenLines' \subseteq handle'[h].channel /\ OpenLines' \subseteq Lines
      BY <1>1, <2>3 DEF BooksOfLines, OpenLines, NotOpen
    <3> QED BY <3>1, <3>2
  <2>5. Cardinality(vms') = 1 /\ Cardinality(OpenLines') \in {0, 1}
    BY <2>3, <2>4, FS_EmptySet, FS_Singleton
  <2>6. KnownStatus' = "running"
    BY <1>2, <2>1
  <2> QED BY <2>5, <2>6 DEF GondolinSandbox!Sound
<1>4. CASE ~\E h \in cache' : handle'[h].status = "running"
  <2>1. \A h \in cache' : handle'[h].vm = {}
    BY <1>1, <1>4 DEF BooksOfHandle
  <2>2. vms' = {} /\ OpenLines' = {}
    BY <1>0, <1>1, <2>1 DEF BooksOfLines, OpenLines, NotOpen
  <2>3. Cardinality(vms') = 0 /\ Cardinality(OpenLines') = 0
    BY <2>2, FS_EmptySet
  <2>4. KnownStatus' \notin {"creating", "running"}
    BY <1>0, <1>1, <1>2, <1>4 DEF BooksOfHandle
  <2> QED BY <2>3, <2>4 DEF GondolinSandbox!Sound
<1> QED BY <1>3, <1>4

\* One caller at a time never has two pi processes that listen.
LEMMA OneLineAtMost ==
  ASSUME MachineTypes, Orderly, ~crossed
  PROVE  OpenLines = {} \/ \E l \in Lines : OpenLines = {l}
<1>1. BooksOfHandle /\ BooksOfLines
  BY DEF Orderly
<1>2. CASE OpenLines = {}
  BY <1>2
<1>3. CASE OpenLines # {}
  <2>1. PICK m \in OpenLines : TRUE
    BY <1>3
  <2>2. PICK h \in cache : m \in handle[h].channel
    BY <1>1, <2>1 DEF BooksOfLines, OpenLines, NotOpen
  <2>3. PICK l \in Lines : handle[h].channel = {l}
    BY <1>1, <2>2 DEF BooksOfHandle
  <2>4. \A g \in cache : g = h
    BY <2>2 DEF MachineTypes
  <2>5. \A n \in OpenLines : n \in handle[h].channel
    BY <1>1, <2>4 DEF BooksOfLines, OpenLines, NotOpen
  <2> QED BY <1>3, <2>3, <2>5
<1> QED BY <1>2, <1>3

\* The Gondolin provider implements the sandbox that types.ts describes
\* (gondolin.ts: GondolinSandboxProvider): used by one caller at a time it never
\* leaves a machine running behind a sandbox that does not, and never runs two.
THEOREM GondolinImplementsSandbox == GondolinSpec => GondolinIsASandbox
<1>1. GondolinInit => GondolinSandbox!Init
  <2> SUFFICES ASSUME GondolinInit PROVE GondolinSandbox!Init
    OBVIOUS
  <2>1. vms = {} /\ OpenLines = {} /\ cache = {} /\ \A c \in Calls : call[c].op = "none"
    BY DEF GondolinInit, OpenLines, NotOpen, NoCall
  <2>2. Cardinality(vms) = 0 /\ Cardinality(OpenLines) = 0 /\ KnownStatus = "none"
    BY <2>1, FS_EmptySet DEF KnownStatus
  <2> QED BY <2>1, <2>2 DEF GondolinInit, GondolinSandbox!Init
<1>2. MachineTypes /\ MachineTypes' /\ Orderly /\ Orderly' /\ [GondolinNext]_gondolinVars
        => [GondolinSandbox!Next]_(GondolinSandbox!sandboxVars)
  <2> SUFFICES ASSUME MachineTypes, MachineTypes', Orderly, Orderly', [GondolinNext]_gondolinVars
               PROVE  GondolinSandbox!Next \/ UNCHANGED GondolinSandbox!sandboxVars
    OBVIOUS
  <2>s. GondolinSandbox!SoundWhenDone
    BY QuietIsSound
  <2>m. crossed /\ crossed' => GondolinSandbox!Next
    BY DEF GondolinSandbox!Next, GondolinSandbox!MixedUp
  <2>0. /\ handle \in [Handles -> HandleType] /\ call \in [Calls -> CallType] /\ crossed \in BOOLEAN
        /\ cache \subseteq Handles /\ \A g, h \in cache : g = h
    BY DEF MachineTypes
  <2>b. (GondolinSandbox!Busy <=> SomeoneBusy) /\ \A c \in Calls : call[c].op = "none" <=> Idle(c)
    BY MappedBusy
  <2>k. (cache = {} => KnownStatus = "none") /\ \A h \in cache : KnownStatus = handle[h].status
    BY MappedStatus
  <2>p. (cache' = {} => KnownStatus' = "none") /\ \A h \in cache' : KnownStatus' = handle'[h].status
    <3>1. cache' # {} => (CHOOSE h \in cache' : TRUE) \in cache'
      OBVIOUS
    <3> QED BY <3>1 DEF MachineTypes, KnownStatus
  <2>u. ASSUME UNCHANGED <<cache, handle>> PROVE UNCHANGED KnownStatus
    BY <2>u DEF KnownStatus
  \* a look-up says what was known, or finds the directory
  <2>f. ASSUME Findable
        PROVE  /\ Found \in Handles
               /\ WhenFound(Found).status \in GondolinSandbox!Found
               /\ \/ cache = {Found} /\ WhenFound(Found).status = KnownStatus
                  \/ KnownStatus \in {"none", "stopped"} /\ WhenFound(Found).status = "paused"
                     /\ WhenFound(Found).vm = {}
    <3>1. CASE cache = {Found} /\ WhenFound(Found) = handle[Found]
      BY <2>0, <2>k, <3>1 DEF GondolinSandbox!Found
    <3>2. CASE /\ WhenFound(Found) = [status |-> "paused", vm |-> {}, channel |-> {}]
               /\ \A h \in cache : handle[h].status = "stopped"
      <4>1. KnownStatus \in {"none", "stopped"}
        BY <2>k, <3>2
      <4>2. Found \in Handles
        BY <2>f, Looked
      <4> QED BY <3>2, <4>1, <4>2 DEF GondolinSandbox!Found
    <3> QED BY <2>f, <3>1, <3>2, Looked
  <2>e. ASSUME NEW c \in Calls, NEW op \in GondolinSandbox!Operations, NEW at, NEW on, NEW vm, Enter(c, op, at, on, vm)
        PROVE  /\ call[c].op = "none" \/ ~Idle(c)
               /\ [d \in Calls |-> call'[d].op] = [[d \in Calls |-> call[d].op] EXCEPT ![c] = op]
               /\ crossed' = (crossed \/ GondolinSandbox!Busy)
    BY <2>0, <2>b, <2>e DEF Enter
  <2>l. ASSUME NEW c \in Calls, Leave(c)
        PROVE  [d \in Calls |-> call'[d].op] = [[d \in Calls |-> call[d].op] EXCEPT ![c] = "none"]
    BY <2>0, <2>l DEF Leave, NoCall
  <2>n. \A c \in Calls : call[c].at # "none" => call[c].op # "none" /\ SomeoneBusy
    BY <2>b DEF Idle, NoCall, SomeoneBusy
  <2>w. ASSUME SomeoneBusy, UNCHANGED <<cache, handle, crossed>>,
               \A d \in Calls : call'[d].op = call[d].op
        PROVE  GondolinSandbox!Next
    <3>1. GondolinSandbox!Work
      BY <2>b, <2>u, <2>w DEF GondolinSandbox!Work
    <3> QED BY <3>1 DEF GondolinSandbox!Next
  <2>d. ASSUME OpenLines' \subseteq OpenLines, UNCHANGED <<vms, call, crossed>>,
               KnownStatus' \in {KnownStatus} \union (IF KnownStatus = "stopped" THEN {"none"} ELSE {})
        PROVE  GondolinSandbox!Next
    <3>1. CASE crossed
      BY <2>d, <2>m, <3>1
    <3>2. CASE ~crossed
      <4>1. OpenLines = {} \/ \E l \in Lines : OpenLines = {l}
        BY <3>2, OneLineAtMost
      <4>2. OpenLines' = {} \/ OpenLines' = OpenLines
        BY <2>d, <4>1
      <4>3. Cardinality(OpenLines') <= Cardinality(OpenLines)
        <5>1. Cardinality({}) = 0 /\ \A l \in Lines : Cardinality({l}) = 1
          BY FS_EmptySet, FS_Singleton
        <5> QED BY <4>1, <4>2, <5>1
      <4>4. GondolinSandbox!Drift
        BY <2>d, <4>3 DEF GondolinSandbox!Drift
      <4> QED BY <4>4 DEF GondolinSandbox!Next
    <3> QED BY <2>0, <3>1, <3>2
  \* a call of Sandbox begins where one of the provider does
  <2>g. ASSUME NEW c \in Calls, NEW op \in GondolinSandbox!Operations, NEW at, NEW on, NEW vm, Enter(c, op, at, on, vm),
               Idle(c), KnownStatus' \in GondolinSandbox!Found, UNCHANGED vms \/ op = "create"
        PROVE  GondolinSandbox!Next
    <3>1. GondolinSandbox!Begin(c, op)
      BY <2>b, <2>e, <2>g DEF GondolinSandbox!Begin
    <3> QED BY <3>1 DEF GondolinSandbox!Next
  <2>h. ASSUME NEW c \in Calls, call[c].op # "none", Leave(c), UNCHANGED crossed,
               KnownStatus' = GondolinSandbox!Outcome(call[c].op, KnownStatus)
        PROVE  GondolinSandbox!Next
    <3>1. GondolinSandbox!Succeed(c)
      BY <2>h, <2>l, <2>s DEF GondolinSandbox!Succeed
    <3> QED BY <3>1 DEF GondolinSandbox!Next
  <2>i. ASSUME NEW c \in Calls, call[c].op # "none", Leave(c), crossed' \in {crossed, TRUE}, UNCHANGED KnownStatus
        PROVE  GondolinSandbox!Next
    <3>1. GondolinSandbox!Fail(c)
      BY <2>i, <2>l, <2>s DEF GondolinSandbox!Fail
    <3> QED BY <3>1 DEF GondolinSandbox!Next
  <2>j. ASSUME NEW op \in GondolinSandbox!Operations, AtOnce,
               KnownStatus' \in {GondolinSandbox!Outcome(op, s) : s \in GondolinSandbox!Found} \union GondolinSandbox!Found
        PROVE  GondolinSandbox!Next
    <3>1. GondolinSandbox!AtOnce(op)
      BY <2>b, <2>j, <2>s DEF GondolinSandbox!AtOnce, AtOnce
    <3> QED BY <3>1 DEF GondolinSandbox!Next
  <2>o. /\ {"create", "resume", "attach", "pause", "terminate"} \subseteq GondolinSandbox!Operations
        /\ KnownStatus \in GondolinSandbox!Found
    BY DEF GondolinSandbox!Operations, GondolinSandbox!Found
  <2>1. CASE GetSandbox
    <3>1. Findable /\ cache' = {Found} /\ handle' = [handle EXCEPT ![Found] = WhenFound(Found)] /\ AtOnce
      BY <2>1 DEF GetSandbox
    <3>2. KnownStatus' = WhenFound(Found).status
      BY <2>0, <2>f, <2>p, <3>1
    <3> QED BY <2>f, <2>j, <2>o, <3>1, <3>2
  <2>2. ASSUME NEW c \in Calls, CreateBegins(c) PROVE GondolinSandbox!Next
    <3>1. PICK at \in {"cloning", "booting"} : Enter(c, "create", at, {}, {})
      BY <2>2 DEF CreateBegins
    <3> QED BY <2>2, <2>g, <2>o, <2>u, <3>1 DEF CreateBegins
  <2>3. ASSUME NEW c \in Calls, Cloned(c) PROVE GondolinSandbox!Next
    <3>1. call[c].at # "none" /\ call' = [call EXCEPT ![c].at = "booting"] /\ UNCHANGED <<cache, handle, crossed>>
      BY <2>3 DEF Cloned
    <3>2. \A d \in Calls : call'[d].op = call[d].op
      BY <2>0, <3>1 DEF CallType
    <3> QED BY <2>n, <2>w, <3>1, <3>2
  <2>4. ASSUME NEW c \in Calls, CallFails(c) PROVE GondolinSandbox!Next
    BY <2>4, <2>i, <2>n, <2>u DEF CallFails
  <2>5. ASSUME NEW c \in Calls, VmBoots(c) PROVE GondolinSandbox!Next
    <3>1. call[c].at # "none" /\ UNCHANGED <<cache, handle, crossed>>
      BY <2>5 DEF VmBoots
    <3>2. PICK v : call' = [call EXCEPT ![c].at = "checking", ![c].vm = {v}]
      BY <2>5 DEF VmBoots
    <3>3. \A d \in Calls : call'[d].op = call[d].op
      BY <2>0, <3>2 DEF CallType
    <3> QED BY <2>n, <2>w, <3>1, <3>3
  <2>6. ASSUME NEW c \in Calls, NpmFails(c) PROVE GondolinSandbox!Next
    BY <2>6, <2>i, <2>n, <2>u DEF NpmFails
  <2>7. ASSUME NEW c \in Calls, CreateEnds(c) PROVE GondolinSandbox!Next
    <3>1. PICK h \in Handles : /\ cache' = {h}
                               /\ handle' = [handle EXCEPT ![h] = [status |-> "running", vm |-> call[c].vm, channel |-> {}]]
      <4>1. (CHOOSE h \in FreeHandles : TRUE) \in FreeHandles
        BY <2>7 DEF CreateEnds
      <4> QED BY <2>7, <4>1 DEF CreateEnds, FreeHandles
    <3>2. KnownStatus' = "running"
      BY <2>0, <2>p, <3>1
    <3> QED BY <2>7, <2>h, <3>2 DEF CreateEnds, GondolinSandbox!Outcome
  <2>8. ASSUME NEW c \in Calls, ResumeBegins(c) PROVE GondolinSandbox!Next
    <3>1. /\ Findable /\ cache' = {Found} /\ handle' = [handle EXCEPT ![Found] = WhenFound(Found)]
          /\ Idle(c) /\ Enter(c, "resume", "booting", {Found}, {}) /\ UNCHANGED vms
      BY <2>8 DEF ResumeBegins
    <3>2. KnownStatus' = WhenFound(Found).status
      BY <2>0, <2>f, <2>p, <3>1
    <3> QED BY <2>f, <2>g, <2>o, <3>1, <3>2
  <2>9. ASSUME NEW c \in Calls, ResumeEnds(c) PROVE GondolinSandbox!Next
    <3>1. call[c].op = "resume" /\ call[c].at = "checking" /\ Leave(c) /\ UNCHANGED <<cache, crossed>>
      BY <2>9 DEF ResumeEnds
    <3>2. CASE crossed BY <2>m, <3>1, <3>2
    <3>3. CASE ~crossed
      <4>1. call[c].on = cache /\ cache # {}
        BY <3>1, <3>3 DEF Orderly, CallBooks, Makes
      <4>2. PICK h \in cache : handle' = [handle EXCEPT ![h].status = "running", ![h].vm = call[c].vm]
        BY <2>9, <4>1 DEF ResumeEnds
      <4>3. handle'[h].status = "running"
        <5>1. h \in Handles /\ handle[h] \in HandleType
          BY <2>0, <4>2
        <5> QED BY <2>0, <4>2, <5>1 DEF HandleType
      <4>4. KnownStatus' = "running"
        BY <2>p, <3>1, <4>2, <4>3
      <4> QED BY <2>h, <3>1, <4>4 DEF GondolinSandbox!Outcome
    <3> QED BY <2>0, <3>2, <3>3
  <2>10. ASSUME NEW c \in Calls, AttachBegins(c) PROVE GondolinSandbox!Next
    <3>1. /\ Findable /\ handle' = [handle EXCEPT ![Found].channel = {}] /\ WhenFound(Found).status = "running"
          /\ Idle(c) /\ Enter(c, "attach", "probing", {Found}, {}) /\ UNCHANGED <<cache, vms>>
      BY <2>10 DEF AttachBegins
    <3>2. \A h \in cache : handle'[h].status = handle[h].status
      BY <2>0, <3>1 DEF HandleType
    <3>3. KnownStatus' = KnownStatus
      BY <2>k, <2>p, <3>1, <3>2
    <3> QED BY <2>g, <2>o, <3>1, <3>3
  <2>11. ASSUME NEW c \in Calls, AttachEnds(c) PROVE GondolinSandbox!Next
    <3>1. call[c].at = "probing" /\ Leave(c) /\ UNCHANGED <<cache, crossed>>
      BY <2>11 DEF AttachEnds
    <3>2. CASE crossed BY <2>m, <3>1, <3>2
    <3>3. CASE ~crossed
      <4>1. call[c].op = "attach" /\ call[c].on = cache
        BY <3>1, <3>3 DEF Orderly, CallBooks, Attaches
      <4>2. PICK h \in cache : \E l : handle' = [handle EXCEPT ![h].channel = {l}]
        BY <2>11, <4>1 DEF AttachEnds
      <4>3. \A g \in cache : handle'[g].status = handle[g].status
        BY <2>0, <4>2 DEF HandleType
      <4>4. KnownStatus' = KnownStatus
        BY <2>k, <2>p, <3>1, <4>3
      <4> QED BY <2>h, <3>1, <4>1, <4>4 DEF GondolinSandbox!Outcome
    <3> QED BY <2>0, <3>2, <3>3
  <2>12. ASSUME NEW c \in Calls, NEW op \in {"pause", "terminate"}, StopBegins(c, op) PROVE GondolinSandbox!Next
    <3>1. /\ Findable /\ handle' = [handle EXCEPT ![Found].channel = {}]
          /\ Idle(c) /\ Enter(c, op, "closing", {Found}, handle[Found].vm) /\ UNCHANGED <<cache, vms>>
      BY <2>12 DEF StopBegins
    <3>2. \A h \in cache : handle'[h].status = handle[h].status
      BY <2>0, <3>1 DEF HandleType
    <3>3. KnownStatus' = KnownStatus
      BY <2>k, <2>p, <3>1, <3>2
    <3>4. op \in GondolinSandbox!Operations
      BY <2>o
    <3> QED BY <2>g, <2>o, <3>1, <3>3, <3>4
  <2>13. ASSUME NEW op \in {"pause", "terminate"}, StopAtOnce(op) PROVE GondolinSandbox!Next
    <3>1. /\ Findable /\ AtOnce /\ cache' = {Found}
          /\ handle' = [handle EXCEPT ![Found] = [NoHandle EXCEPT !.status = Rest(op)]]
      BY <2>13 DEF StopAtOnce
    <3>2. handle'[Found].status = Rest(op)
      BY <2>0, <2>f, <3>1 DEF NoHandle
    <3>3. KnownStatus' = GondolinSandbox!Outcome(op, KnownStatus)
      BY <2>p, <3>1, <3>2 DEF Rest, GondolinSandbox!Outcome
    <3>4. op \in GondolinSandbox!Operations
      BY <2>o
    <3> QED BY <2>j, <2>o, <3>1, <3>3, <3>4
  <2>14. ASSUME NEW c \in Calls, VmCloses(c) PROVE GondolinSandbox!Next
    <3>1. call[c].at # "none" /\ call' = [call EXCEPT ![c].at = "closed"] /\ UNCHANGED <<cache, handle, crossed>>
      BY <2>14 DEF VmCloses
    <3>2. \A d \in Calls : call'[d].op = call[d].op
      BY <2>0, <3>1 DEF CallType
    <3> QED BY <2>n, <2>w, <3>1, <3>2
  <2>15. ASSUME NEW c \in Calls, StopEnds(c) PROVE GondolinSandbox!Next
    <3>1. call[c].at = "closed" /\ Leave(c) /\ UNCHANGED <<cache, crossed>>
      BY <2>15 DEF StopEnds
    <3>2. CASE crossed BY <2>m, <3>1, <3>2
    <3>3. CASE ~crossed
      <4>1. call[c].op \in {"pause", "terminate"} /\ call[c].on = cache
        BY <3>1, <3>3 DEF Orderly, CallBooks, Stops
      <4>2. PICK h \in cache : handle' = [handle EXCEPT ![h].vm = {}, ![h].status = Rest(call[c].op)]
        BY <2>15, <4>1 DEF StopEnds
      <4>3. handle'[h].status = Rest(call[c].op)
        <5>1. h \in Handles /\ handle[h] \in HandleType
          BY <2>0, <4>2
        <5> QED BY <2>0, <4>2, <5>1 DEF HandleType
      <4>4. KnownStatus' = Rest(call[c].op)
        BY <2>p, <3>1, <4>2, <4>3
      <4> QED BY <2>h, <3>1, <4>1, <4>4 DEF GondolinSandbox!Outcome, Rest
    <3> QED BY <2>0, <3>2, <3>3
  <2>16. CASE Cleanup
    <3>1. /\ cache # {} /\ cache' = {} /\ UNCHANGED <<handle, vms, line, call, crossed>>
          /\ \A h \in cache : handle[h].status = "stopped"
      BY <2>16 DEF Cleanup, Cached
    <3>2. KnownStatus = "stopped" /\ KnownStatus' = "none" /\ OpenLines' = OpenLines
      BY <2>k, <2>p, <3>1 DEF OpenLines
    <3> QED BY <2>d, <3>1, <3>2
  <2>17. CASE GondolinRestarts
    <3>1. cache' = {} /\ vms' = {} /\ OpenLines' = {} /\ \A c \in Calls : call'[c].op = "none"
      BY <2>17 DEF GondolinRestarts, OpenLines, NotOpen, NoCall
    <3>2. Cardinality(vms') = 0 /\ Cardinality(OpenLines') = 0 /\ KnownStatus' = "none"
      BY <2>p, <3>1, FS_EmptySet
    <3>3. GondolinSandbox!Restart
      BY <2>17, <3>1, <3>2 DEF GondolinRestarts, GondolinSandbox!Restart
    <3> QED BY <3>3 DEF GondolinSandbox!Next
  <2>18. ASSUME NEW l \in Lines, PiEnds(l) PROVE GondolinSandbox!Next
    <3>1. /\ line' = [line EXCEPT ![l] = NotOpen] /\ UNCHANGED <<cache, vms, call, crossed>>
          /\ \A h \in cache : handle'[h].status = handle[h].status
      BY <2>0, <2>18 DEF PiEnds, HandleType
    <3>2. KnownStatus' = KnownStatus
      BY <2>k, <2>p, <3>1
    <3>3. OpenLines' \subseteq OpenLines
      <4>1. line \in [Lines -> SUBSET VMs]
        BY DEF MachineTypes
      <4> QED BY <3>1, <4>1 DEF OpenLines, NotOpen
    <3> QED BY <2>d, <3>1, <3>2, <3>3
  <2>19. CASE UNCHANGED gondolinVars
    <3>1. UNCHANGED <<KnownStatus, OpenLines>>
      BY <2>19, <2>u DEF gondolinVars, OpenLines
    <3> QED BY <2>19, <3>1 DEF gondolinVars, GondolinSandbox!sandboxVars
  <2> QED BY <2>1, <2>2, <2>3, <2>4, <2>5, <2>6, <2>7, <2>8, <2>9, <2>10, <2>11, <2>12, <2>13, <2>14,
             <2>15, <2>16, <2>17, <2>18, <2>19 DEF GondolinNext
<1>3. MachineTypes /\ MachineTypes' /\ Orderly /\ [GondolinNext]_gondolinVars => Orderly'
  BY OrderlyStep
<1>4. MachineTypes /\ [GondolinNext]_gondolinVars => MachineTypes'
  BY MachineTypesStep
<1> QED BY <1>1, <1>2, <1>3, <1>4, MachineTypesInit, OrderlyInit, PTL
        DEF GondolinSpec, GondolinIsASandbox, GondolinSandbox!Spec

-----------------------------------------------------------------------------
(***************************************************************************)
(* The Cloudflare worker, for any requests and any amount of work.  A unit *)
(* of work is lost in many ways, all of them noted when they happen; that  *)
(* there is no other follows from where the one request that may then be   *)
(* under way expects the work to be (Careful).                             *)
(***************************************************************************)

Ops == {"none", "create", "pause", "expire", "resume", "terminate"}
Places == {"none", "starting", "reading", "saving", "destroying", "restoring", "ending", "deleting"}
Asked == [op : Ops, at : Places, read : SUBSET Backups]

CloudTypes ==
  /\ container \in {"stopped", "running"} /\ pi \in {"waiting", "running", "exited"}
  /\ waits \in BOOLEAN /\ sockets \in BOOLEAN /\ done \in 0 .. MaxWork
  /\ files \in SUBSET (1 .. MaxWork) /\ stored \in SUBSET Backups /\ req \in [Requests -> Asked]

(* what is stored is one backup at most, and so is what a request has read *)
OneBackup ==
  /\ Cardinality(stored) <= 1
  /\ \A r \in Requests : Cardinality(req[r].read) <= 1

\* A set of nothing, or of one thing, is small.
LEMMA SmallSets == Cardinality({}) <= 1 /\ \A b : Cardinality({b}) <= 1
BY FS_EmptySet, FS_Singleton

\* The worker, its container and its requests begin well typed.
LEMMA CloudTypesInit == CloudflareInit => CloudTypes /\ OneBackup
<1> SUFFICES ASSUME CloudflareInit PROVE CloudTypes /\ OneBackup
  OBVIOUS
<1>1. NoRequest \in Asked /\ NoRequest.read = {}
  BY DEF NoRequest, Asked, Ops, Places
<1>2. CloudTypes
  <2>1. 0 \in 0 .. MaxWork /\ {} \in SUBSET (1 .. MaxWork) /\ {} \in SUBSET Backups
    BY CloudflareBounds
  <2> QED BY <1>1, <2>1 DEF CloudflareInit, CloudTypes
<1>3. OneBackup
  BY <1>1, SmallSets DEF CloudflareInit, OneBackup
<1> QED BY <1>2, <1>3

\* Every step of the worker, of pi and of a request keeps the types.
LEMMA CloudTypesStep ==
  ASSUME CloudTypes, [CloudflareNext]_cloudflareVars
  PROVE  CloudTypes'
<1> USE DEF CloudTypes
<1>1. CASE PiWorks
  BY <1>1, CloudflareBounds DEF PiWorks
<1>2. CASE PiExits
  BY <1>2 DEF PiExits
<1>3. CASE RestoreTimeout
  BY <1>3 DEF RestoreTimeout
<1>4. CASE ContainerCrashes
  BY <1>4 DEF ContainerCrashes, Destroy
<1>5. CASE CloudflareAttach
  BY <1>5 DEF CloudflareAttach
<1>n. NoRequest \in Asked
  BY DEF NoRequest, Asked, Ops, Places
<1>b. Backup(files) \in Backups /\ Torn \in Backups
  BY DEF Backup, Torn, Backups
<1>g. ASSUME NEW r \in Requests, NEW op \in Ops, NEW at \in Places, NEW read \in SUBSET Backups, Go(r, op, at, read)
      PROVE  req' \in [Requests -> Asked]
  BY <1>g DEF Go, Asked
<1>a. ASSUME NEW r \in Requests, Answer(r) PROVE req' \in [Requests -> Asked]
  BY <1>a, <1>n DEF Answer
<1>r. \A r \in Requests : req[r].op \in Ops /\ req[r].at \in Places /\ req[r].read \in SUBSET Backups
  BY DEF Asked
<1>s. ASSUME NEW wait \in BOOLEAN, Start(wait)
      PROVE  /\ container' \in {"stopped", "running"} /\ pi' \in {"waiting", "running", "exited"}
             /\ waits' \in BOOLEAN /\ sockets' \in BOOLEAN /\ files' \in SUBSET (1 .. MaxWork)
  BY <1>s DEF Start
<1>6. ASSUME NEW r \in Requests, HandleCreate(r) PROVE CloudTypes'
  BY <1>6, <1>g DEF HandleCreate, Ops, Places
<1>7. ASSUME NEW r \in Requests, CreateStarts(r) PROVE CloudTypes'
  BY <1>7, <1>a, <1>s DEF CreateStarts
<1>8. ASSUME NEW r \in Requests, StartFails(r) PROVE CloudTypes'
  BY <1>8, <1>a DEF StartFails
<1>9. ASSUME NEW r \in Requests, HandlePause(r) PROVE CloudTypes'
  BY <1>9, <1>g DEF HandlePause, Ops, Places
<1>10. ASSUME NEW r \in Requests, BackupRead(r) PROVE CloudTypes'
  BY <1>10, <1>b, <1>g, <1>r DEF BackupRead, Places
<1>11. ASSUME NEW r \in Requests, BackupFails(r) PROVE CloudTypes'
  BY <1>11, <1>a, <1>g DEF BackupFails, Ops, Places
<1>12. ASSUME NEW r \in Requests, BackupSaved(r) PROVE CloudTypes'
  BY <1>12, <1>g, <1>r DEF BackupSaved, Places
<1>13. ASSUME NEW r \in Requests, PauseEnds(r) PROVE CloudTypes'
  BY <1>13, <1>a DEF PauseEnds, Destroy
<1>14. ASSUME NEW r \in Requests, HandleResume(r) PROVE CloudTypes'
  BY <1>14, <1>g DEF HandleResume, Ops, Places
<1>15. ASSUME NEW r \in Requests, ResumeStarts(r) PROVE CloudTypes'
  <2>1. req' \in [Requests -> Asked]
    BY <1>15, <1>a, <1>g, <1>r DEF ResumeStarts, Ops, Places
  <2>2. (req[r].read # {}) \in BOOLEAN /\ Start(req[r].read # {})
    BY <1>15 DEF ResumeStarts
  <2> QED BY <1>15, <1>s, <2>1, <2>2 DEF ResumeStarts
<1>16. ASSUME NEW r \in Requests, Restored(r) PROVE CloudTypes'
  <2>1. files' \in SUBSET (1 .. MaxWork)
    BY <1>16 DEF Restored, Backups
  <2> QED BY <1>16, <1>a, <2>1 DEF Restored
<1>17. ASSUME NEW r \in Requests, RestoreFails(r) PROVE CloudTypes'
  BY <1>17, <1>a DEF RestoreFails
<1>18. ASSUME NEW r \in Requests, HandleTerminate(r) PROVE CloudTypes'
  BY <1>18, <1>g DEF HandleTerminate, Ops, Places
<1>19. ASSUME NEW r \in Requests, TerminateDestroys(r) PROVE CloudTypes'
  <2>1. req' \in [Requests -> Asked]
    BY <1>19, <1>g DEF TerminateDestroys, Ops, Places
  <2> QED BY <1>19, <2>1 DEF TerminateDestroys, Destroy
<1>20. ASSUME NEW r \in Requests, TerminateEnds(r) PROVE CloudTypes'
  BY <1>20, <1>a DEF TerminateEnds
<1>21. CASE UNCHANGED cloudflareVars
  BY <1>21 DEF cloudflareVars
<1> QED BY <1>1, <1>2, <1>3, <1>4, <1>5, <1>6, <1>7, <1>8, <1>9, <1>10, <1>11, <1>12, <1>13, <1>14,
           <1>15, <1>16, <1>17, <1>18, <1>19, <1>20, <1>21 DEF CloudflareNext

\* No step stores a second backup, or reads one: a save replaces what was stored.
LEMMA OneBackupStep ==
  ASSUME CloudTypes, OneBackup, [CloudflareNext]_cloudflareVars
  PROVE  OneBackup'
<1>0. req \in [Requests -> Asked]
  BY DEF CloudTypes
<1>n. NoRequest.read = {}
  BY DEF NoRequest
<1>1. ASSUME stored' = stored, req' = req PROVE OneBackup'
  BY <1>1 DEF OneBackup
<1>2. ASSUME NEW r \in Requests, stored' \in {stored, req[r].read, {}},
             \/ Answer(r)
             \/ \E op, at : \E read \in {{}, stored, req[r].read} \union {{b} : b \in {Backup(files), Torn}} : Go(r, op, at, read)
      PROVE  OneBackup'
  <2>1. Cardinality(stored') <= 1
    BY <1>2, SmallSets DEF OneBackup
  <2>2. CASE Answer(r)
    BY <1>0, <1>n, <2>1, <2>2, SmallSets DEF Answer, OneBackup
  <2>3. CASE \E op, at : \E read \in {{}, stored, req[r].read} \union {{b} : b \in {Backup(files), Torn}} : Go(r, op, at, read)
    <3> DEFINE reads == {{}, stored, req[r].read} \union {{b} : b \in {Backup(files), Torn}}
    <3>a. PICK op, at : \E read \in reads : Go(r, op, at, read)
      BY <2>3
    <3>b. PICK read \in reads : Go(r, op, at, read)
      BY <3>a
    <3>1. req' = [req EXCEPT ![r] = [op |-> op, at |-> at, read |-> read]]
      BY <3>b DEF Go
    <3>2. Cardinality(read) <= 1
      BY <3>b, SmallSets DEF OneBackup
    <3> QED BY <1>0, <2>1, <3>1, <3>2 DEF OneBackup
  <2> QED BY <1>2, <2>2, <2>3
<1>3. CASE PiWorks \/ PiExits \/ RestoreTimeout \/ ContainerCrashes \/ CloudflareAttach \/ UNCHANGED cloudflareVars
  BY <1>1, <1>3 DEF PiWorks, PiExits, RestoreTimeout, ContainerCrashes, CloudflareAttach, cloudflareVars
<1>4. ASSUME NEW r \in Requests, \/ CreateStarts(r) \/ StartFails(r) \/ PauseEnds(r) \/ Restored(r) \/ RestoreFails(r)
                                \/ TerminateEnds(r)
      PROVE  OneBackup'
  BY <1>2, <1>4 DEF CreateStarts, StartFails, PauseEnds, Restored, RestoreFails, TerminateEnds
<1>5. ASSUME NEW r \in Requests, \/ HandleCreate(r) \/ HandlePause(r) \/ HandleResume(r) \/ HandleTerminate(r)
                                \/ TerminateDestroys(r) \/ BackupSaved(r)
      PROVE  OneBackup'
  <2>1. stored' \in {stored, req[r].read, {}}
    BY <1>5 DEF HandleCreate, HandlePause, HandleResume, HandleTerminate, TerminateDestroys, BackupSaved
  <2>2. \E op, at : \E read \in {{}, stored, req[r].read} : Go(r, op, at, read)
    BY <1>5, Zenon DEF HandleCreate, HandlePause, HandleResume, HandleTerminate, TerminateDestroys, BackupSaved
  <2> QED BY <1>2, <2>1, <2>2
<1>6. ASSUME NEW r \in Requests, BackupRead(r) PROVE OneBackup'
  BY <1>2, <1>6 DEF BackupRead
<1>7. ASSUME NEW r \in Requests, BackupFails(r) \/ ResumeStarts(r) PROVE OneBackup'
  BY <1>2, <1>7 DEF BackupFails, ResumeStarts
<1> QED BY <1>3, <1>4, <1>5, <1>6, <1>7 DEF CloudflareNext

\* The container, the backups and the requests are well typed, and the worker
\* keeps one backup at most (sandbox.ts: saveBackup, deleteBackup).
THEOREM CloudflareTypeCorrect == CloudflareSpec => []CloudflareTypeOK
<1>1. CloudflareInit => CloudTypes /\ OneBackup
  BY CloudTypesInit
<1>2. CloudTypes /\ OneBackup /\ [CloudflareNext]_cloudflareVars => CloudTypes' /\ OneBackup'
  BY CloudTypesStep, OneBackupStep
<1>3. CloudTypes /\ OneBackup => CloudflareTypeOK
  BY DEF CloudTypes, OneBackup, CloudflareTypeOK, Asked, Ops, Places
<1> QED BY <1>1, <1>2, <1>3, PTL DEF CloudflareSpec

-----------------------------------------------------------------------------
Works == 1 .. done
Restoring == \E r \in Requests : req[r].at = "restoring"
InBackup == (\A b \in stored : Works \subseteq b.units) /\ (stored = {} => Works = {})

(* What a request at a given place has made of the container and knows. *)
InStep(r) ==
  /\ req[r].at = "starting" => \/ req[r].op = "create" /\ ~Running /\ stored = {}
                               \/ req[r].op = "resume" /\ req[r].read = stored /\ (Running => stored = {})
  /\ req[r].at = "restoring" => Running /\ pi = "waiting"
  /\ req[r].at \in {"reading", "saving", "destroying"} => Running
  /\ req[r].at = "destroying" => stored = req[r].read
  /\ req[r].at \notin {"ending", "deleting"}

(* While nothing has harmed it, the work is where the one request that is   *)
(* under way expects it: on the disk, or in the backup.                     *)
Careful ==
  harmed = {} =>
    /\ \A r, s \in Requests : req[r] # NoRequest /\ req[s] # NoRequest => r = s
    /\ ~Running => files = {}
    /\ IF Running /\ ~Restoring THEN Works \subseteq files ELSE InBackup
    /\ \A r \in Requests : InStep(r)

\* Of a request that is under way alone, or begins alone, all is known that
\* is to be known of requests.
LEMMA AloneUnderWay ==
  ASSUME CloudTypes, NEW r \in Requests, \A s \in Requests : s # r => req[s] = NoRequest,
         NEW q, req' = [req EXCEPT ![r] = q]
  PROVE  /\ \A s, t \in Requests : req'[s] # NoRequest /\ req'[t] # NoRequest => s = t
         /\ Restoring' <=> q.at = "restoring"
         /\ req'[r] = q
         /\ InStep(r)' => \A s \in Requests : InStep(s)'
<1>1. req'[r] = q /\ \A s \in Requests : s # r => req'[s] = NoRequest
  BY DEF CloudTypes
<1>2. NoRequest.at = "none"
  BY DEF NoRequest
<1>3. \A s \in Requests : s # r => InStep(s)'
  BY <1>1, <1>2 DEF InStep
<1>4. Restoring' <=> q.at = "restoring"
  BY <1>1, <1>2 DEF Restoring
<1> QED BY <1>1, <1>3, <1>4

\* Whatever does no harm leaves the work where the request under way expects it.
LEMMA CarefulStep ==
  ASSUME CloudTypes, Careful, [CloudflareNext]_cloudflareVars
  PROVE  Careful'
<1>s. SUFFICES ASSUME harmed' = {} PROVE Careful'
  BY DEF Careful
<1>h. harmed = {}
  <2>1. (\E reasons : Note(reasons)) \/ harmed' = harmed
    BY Zenon DEF CloudflareNext, PiWorks, PiExits, RestoreTimeout, ContainerCrashes, CloudflareAttach, HandleCreate,
       CreateStarts, StartFails, HandlePause, BackupRead, BackupFails, BackupSaved, PauseEnds, HandleResume,
       ResumeStarts, Restored, RestoreFails, HandleTerminate, TerminateDestroys, TerminateEnds, cloudflareVars
  <2> QED BY <1>s, <2>1 DEF Note
<1>0. /\ \A r, s \in Requests : req[r] # NoRequest /\ req[s] # NoRequest => r = s
      /\ ~Running => files = {}
      /\ IF Running /\ ~Restoring THEN Works \subseteq files ELSE InBackup
      /\ \A r \in Requests : InStep(r)
  BY <1>h DEF Careful
<1>t. /\ done \in Nat /\ req \in [Requests -> Asked] /\ Works = 1 .. done
  BY CloudflareBounds DEF CloudTypes, Works
<1>n. NoRequest.at = "none" /\ NoRequest.op = "none"
  BY DEF NoRequest
<1>w. ASSUME NEW r \in Requests, req[r].at # "none" PROVE \A s \in Requests : s # r => req[s] = NoRequest
  BY <1>0, <1>n, <1>w
<1>o. ASSUME NEW r \in Requests, NotBusy(r), NEW more, Note(Overlap \union more)
      PROVE  more = {} /\ \A s \in Requests : req[s] = NoRequest
  BY <1>s, <1>o DEF Note, Overlap, NotBusy
<1>k. ASSUME stored' = stored, done' = done, UNCHANGED <<container, files>>,
             \A r \in Requests : InStep(r)', Restoring' <=> Restoring,
             \A r, s \in Requests : req'[r] # NoRequest /\ req'[s] # NoRequest => r = s
      PROVE  Careful'
  BY <1>0, <1>k DEF Careful, Running, Works, InBackup
<1>1. CASE PiWorks
  <2>1. ~Restoring /\ Running
    BY <1>0, <1>1 DEF PiWorks, Restoring, InStep
  <2>2. UNCHANGED <<container, stored, req, pi>> /\ files' = files \union {done + 1} /\ done' = done + 1
    BY <1>1 DEF PiWorks
  <2>3. Works' \subseteq files'
    BY <1>0, <1>t, <2>1, <2>2 DEF Works
  <2>4. \A r \in Requests : InStep(r)'
    BY <1>0, <2>2 DEF InStep, Running
  <2> QED BY <1>0, <2>1, <2>2, <2>3, <2>4 DEF Careful, Running, Restoring
<1>2. CASE PiExits
  <2>1. UNCHANGED <<container, files, stored, req, done>> /\ pi = "running"
    BY <1>2 DEF PiExits
  <2>2. \A r \in Requests : InStep(r)'
    BY <1>0, <2>1 DEF InStep, Running
  <2> QED BY <1>k, <1>0, <2>1, <2>2 DEF Restoring
<1>3. CASE RestoreTimeout \/ ContainerCrashes
  BY <1>s, <1>3 DEF RestoreTimeout, ContainerCrashes, Note
<1>4. CASE CloudflareAttach \/ UNCHANGED cloudflareVars
  <2>1. UNCHANGED <<container, files, stored, req, done, pi>>
    BY <1>4 DEF CloudflareAttach, cloudflareVars
  <2>2. \A r \in Requests : InStep(r)'
    BY <1>0, <2>1 DEF InStep, Running
  <2> QED BY <1>k, <1>0, <2>1, <2>2 DEF Restoring
<1>5. ASSUME NEW r \in Requests, HandleCreate(r) PROVE Careful'
  <2>1. /\ ~Running /\ NotBusy(r) /\ Note(Overlap \union (IF stored # {} THEN {"otherwise"} ELSE {}))
        /\ UNCHANGED <<container, files, stored, done>> /\ req' = [req EXCEPT ![r] = [op |-> "create", at |-> "starting", read |-> {}]]
    BY <1>5 DEF HandleCreate, Go
  <2>2. stored = {} /\ \A s \in Requests : req[s] = NoRequest
    BY <2>1, <1>o
  <2>3. InStep(r)'
    BY <1>t, <2>1, <2>2 DEF InStep, Running
  <2> QED BY ZenonT(40), <1>k, <1>n, <2>1, <2>2, <2>3, AloneUnderWay DEF Restoring
<1>6. ASSUME NEW r \in Requests, CreateStarts(r) PROVE Careful'
  <2>1. ~Running /\ stored = {} /\ \A s \in Requests : s # r => req[s] = NoRequest
    BY <1>0, <1>n, <1>w, <1>6 DEF CreateStarts, InStep
  <2>2. /\ container' = "running" /\ files' = {} /\ UNCHANGED <<stored, done>> /\ req' = [req EXCEPT ![r] = NoRequest]
    BY <1>6, <2>1 DEF CreateStarts, Start, Answer
  <2>3. Works = {}
    BY <1>0, <2>1 DEF InBackup
  <2>4. InStep(r)' /\ ~Restoring'
    BY <1>n, <1>t, <2>1, <2>2, AloneUnderWay DEF InStep
  <2> QED BY <1>n, <2>1, <2>2, <2>3, <2>4, AloneUnderWay DEF Careful, Running, Works
<1>7. ASSUME NEW r \in Requests, StartFails(r) PROVE Careful'
  <2>1. /\ req[r].at = "starting" /\ UNCHANGED <<container, files, stored, done>> /\ req' = [req EXCEPT ![r] = NoRequest]
    BY <1>7 DEF StartFails, Answer
  <2>2. \A s \in Requests : s # r => req[s] = NoRequest
    BY <1>w, <2>1
  <2>3. InStep(r)' /\ ~Restoring' /\ ~Restoring
    BY <1>n, <1>t, <2>1, <2>2, AloneUnderWay DEF InStep, Restoring
  <2> QED BY <1>k, <2>1, <2>2, <2>3, AloneUnderWay
<1>8. ASSUME NEW r \in Requests, HandlePause(r) PROVE Careful'
  <2>1. /\ Running /\ NotBusy(r) /\ Note(Overlap \union {}) /\ UNCHANGED <<container, files, stored, done>>
        /\ \E op \in {"pause", "expire"} : req' = [req EXCEPT ![r] = [op |-> op, at |-> "reading", read |-> {}]]
    BY <1>8 DEF HandlePause, Go
  <2>2. \A s \in Requests : req[s] = NoRequest
    BY <2>1, <1>o
  <2>3. PICK op \in {"pause", "expire"} : req' = [req EXCEPT ![r] = [op |-> op, at |-> "reading", read |-> {}]]
    BY <2>1
  <2>4. InStep(r)'
    BY <1>t, <2>1, <2>2, <2>3 DEF InStep, Running
  <2>5. ~Restoring' /\ ~Restoring
    BY <1>n, <2>2, <2>3, AloneUnderWay DEF Restoring
  <2> QED BY <1>k, <2>1, <2>2, <2>3, <2>4, <2>5, AloneUnderWay
<1>9. ASSUME NEW r \in Requests, BackupRead(r) PROVE Careful'
  <2>1. PICK b \in {Backup(files), Torn} :
          /\ req' = [req EXCEPT ![r] = [op |-> req[r].op, at |-> "saving", read |-> {b}]]
          /\ Note(IF b.whole THEN {} ELSE {"otherwise"})
    BY <1>9 DEF BackupRead, Go
  <2>2. Running /\ req[r].at = "reading" /\ UNCHANGED <<container, files, stored, done>>
    BY <1>9 DEF BackupRead
  <2>3. \A s \in Requests : s # r => req[s] = NoRequest
    BY <1>w, <2>2
  <2>4. InStep(r)'
    BY <1>t, <2>1, <2>2 DEF InStep, Running
  <2>5. ~Restoring' /\ ~Restoring
    BY <1>n, <2>1, <2>2, <2>3, AloneUnderWay DEF Restoring
  <2> QED BY <1>k, <2>1, <2>2, <2>3, <2>4, <2>5, AloneUnderWay
<1>10. ASSUME NEW r \in Requests, BackupFails(r) PROVE Careful'
  <2>1. /\ req[r].at \in {"reading", "saving"} /\ UNCHANGED <<container, files, stored, done>>
        /\ req' = [req EXCEPT ![r] = NoRequest]
    BY <1>s, <1>10 DEF BackupFails, Answer, Note
  <2>2. \A s \in Requests : s # r => req[s] = NoRequest
    BY <1>w, <2>1
  <2>3. InStep(r)' /\ ~Restoring' /\ ~Restoring
    BY <1>n, <1>t, <2>1, <2>2, AloneUnderWay DEF InStep, Restoring
  <2> QED BY <1>k, <2>1, <2>2, <2>3, AloneUnderWay
<1>11. ASSUME NEW r \in Requests, BackupSaved(r) PROVE Careful'
  <2>1. /\ req[r].at = "saving" /\ UNCHANGED <<container, files, done>> /\ stored' = req[r].read
        /\ req' = [req EXCEPT ![r] = [op |-> req[r].op, at |-> "destroying", read |-> req[r].read]]
    BY <1>11 DEF BackupSaved, Go
  <2>2. /\ Running /\ \A s \in Requests : s # r => req[s] = NoRequest
    BY <1>0, <1>w, <2>1 DEF InStep
  <2>3. ~Restoring' /\ ~Restoring
    BY <1>n, <2>1, <2>2, AloneUnderWay DEF Restoring
  <2>4. InStep(r)'
    BY <1>t, <2>1, <2>2 DEF InStep, Running
  <2> QED BY <1>0, <2>1, <2>2, <2>3, <2>4, AloneUnderWay DEF Careful, Running, Works
<1>12. ASSUME NEW r \in Requests, PauseEnds(r) PROVE Careful'
  <2>1. /\ req[r].at = "destroying" /\ container' = "stopped" /\ files' = {} /\ UNCHANGED <<stored, done>>
        /\ req' = [req EXCEPT ![r] = NoRequest]
        /\ Note(IF Running /\ req[r].read # {Backup(files)} THEN {"otherwise"} ELSE {})
    BY <1>12 DEF PauseEnds, Destroy, Answer
  <2>2. /\ Running /\ stored = req[r].read /\ \A s \in Requests : s # r => req[s] = NoRequest
    BY <1>0, <1>w, <2>1 DEF InStep
  <2>3. stored = {Backup(files)}
    BY <1>s, <2>1, <2>2 DEF Note
  <2>4. ~Restoring' /\ ~Restoring /\ InStep(r)'
    BY <1>n, <1>t, <2>1, <2>2, AloneUnderWay DEF Restoring, InStep
  <2>5. InBackup'
    <3>1. Works \subseteq files /\ Works' = Works /\ stored' = {Backup(files)}
      BY <1>0, <2>1, <2>2, <2>3, <2>4 DEF Works
    <3>2. Backup(files).units = files
      BY DEF Backup
    <3> QED BY <3>1, <3>2 DEF InBackup
  <2> QED BY <2>1, <2>2, <2>4, <2>5, AloneUnderWay DEF Careful, Running
<1>13. ASSUME NEW r \in Requests, HandleResume(r) PROVE Careful'
  <2>1. /\ NotBusy(r) /\ Note(Overlap \union (IF Running /\ stored # {} THEN {"resumed"} ELSE {}))
        /\ UNCHANGED <<container, files, stored, done>>
        /\ req' = [req EXCEPT ![r] = [op |-> "resume", at |-> "starting", read |-> stored]]
    BY <1>13 DEF HandleResume, Go
  <2>2. ~(Running /\ stored # {}) /\ \A s \in Requests : req[s] = NoRequest
    BY <2>1, <1>o
  <2>3. InStep(r)'
    BY <1>t, <2>1, <2>2 DEF InStep, Running
  <2>4. ~Restoring' /\ ~Restoring
    BY <1>n, <2>1, <2>2, AloneUnderWay DEF Restoring
  <2> QED BY <1>k, <2>1, <2>2, <2>3, <2>4, AloneUnderWay
<1>14. ASSUME NEW r \in Requests, ResumeStarts(r) PROVE Careful'
  <2>1. /\ req[r].at = "starting" /\ req[r].op = "resume" /\ Start(req[r].read # {}) /\ UNCHANGED <<stored, done>>
        /\ IF req[r].read = {} THEN req' = [req EXCEPT ![r] = NoRequest]
           ELSE req' = [req EXCEPT ![r] = [op |-> "resume", at |-> "restoring", read |-> req[r].read]]
    BY <1>14 DEF ResumeStarts, Answer, Go
  <2>2. /\ req[r].read = stored /\ (Running => stored = {}) /\ \A s \in Requests : s # r => req[s] = NoRequest
    BY <1>0, <1>w, <2>1 DEF InStep
  <2>3. ~Restoring
    BY <1>n, <2>1, <2>2 DEF Restoring
  <2>4. CASE stored = {}
    <3>1. req' = [req EXCEPT ![r] = NoRequest] /\ container' = "running" /\ (Running => files' = files) /\ (~Running => files' = {})
      BY <2>1, <2>2, <2>4 DEF Start, Running
    <3>2. InStep(r)' /\ ~Restoring'
      BY <1>n, <1>t, <2>2, <3>1, AloneUnderWay DEF InStep
    <3>3. Works \subseteq files'
      BY <1>0, <2>3, <2>4, <3>1 DEF InBackup
    <3> QED BY <2>1, <2>2, <3>1, <3>2, <3>3, AloneUnderWay DEF Careful, Running, Works
  <2>5. CASE stored # {}
    <3>1. req' = [req EXCEPT ![r] = [op |-> "resume", at |-> "restoring", read |-> req[r].read]]
          /\ container' = "running" /\ files' = {} /\ pi' = "waiting"
      BY <2>1, <2>2, <2>5 DEF Start
    <3>2. InStep(r)' /\ Restoring'
      <4> DEFINE q == [op |-> "resume", at |-> "restoring", read |-> req[r].read]
      <4>1. Restoring' /\ req'[r] = q
        BY <2>2, <3>1, AloneUnderWay
      <4> QED BY <3>1, <4>1 DEF InStep, Running
    <3>3. InBackup'
      BY <1>0, <2>1, <2>2, <2>5 DEF InBackup, Works
    <3> QED BY <2>1, <2>2, <3>1, <3>2, <3>3, AloneUnderWay DEF Careful, Running
  <2> QED BY <2>4, <2>5
<1>15. ASSUME NEW r \in Requests, Restored(r) PROVE Careful'
  <2>1. PICK b \in stored : b.units \subseteq files'
    BY <1>15 DEF Restored
  <2>2. req[r].at = "restoring" /\ Running /\ UNCHANGED <<container, stored, done>> /\ req' = [req EXCEPT ![r] = NoRequest]
    BY <1>15 DEF Restored, Answer
  <2>3. \A s \in Requests : s # r => req[s] = NoRequest
    BY <1>w, <2>2
  <2>4. InStep(r)' /\ ~Restoring' /\ Restoring
    BY <1>n, <1>t, <2>2, <2>3, AloneUnderWay DEF InStep, Restoring
  <2>5. Works \subseteq files'
    BY <1>0, <2>1, <2>4 DEF InBackup
  <2> QED BY <2>2, <2>3, <2>4, <2>5, AloneUnderWay DEF Careful, Running, Works
<1>16. ASSUME NEW r \in Requests, RestoreFails(r) \/ HandleTerminate(r) PROVE Careful'
  BY <1>s, <1>16 DEF RestoreFails, HandleTerminate, Note
<1>17. ASSUME NEW r \in Requests, TerminateDestroys(r) \/ TerminateEnds(r) PROVE Careful'
  BY <1>0, <1>17 DEF TerminateDestroys, TerminateEnds, InStep
<1> QED BY <1>1, <1>2, <1>3, <1>4, <1>5, <1>6, <1>7, <1>8, <1>9, <1>10, <1>11, <1>12, <1>13, <1>14,
           <1>15, <1>16, <1>17 DEF CloudflareNext

\* What pi has written is on the disk of a running container or in the backup of
\* one that rests (the worker's sandbox.ts, cloudflare.ts), until something that
\* is known to lose it has happened.
THEOREM WorkStays == CloudflareSpec => []WorkIsKept
<1>1. CloudflareInit => CloudTypes /\ Careful
  <2> SUFFICES ASSUME CloudflareInit PROVE Careful
    BY CloudTypesInit
  <2>1. \A r \in Requests : req[r] = NoRequest /\ req[r].at = "none"
    BY DEF CloudflareInit, NoRequest
  <2>2. \A r \in Requests : InStep(r)
    BY <2>1 DEF InStep
  <2>3. ~Restoring /\ InBackup /\ ~Running /\ files = {}
    BY <2>1 DEF CloudflareInit, Restoring, InBackup, Works, Running
  <2> QED BY <2>1, <2>2, <2>3 DEF Careful
<1>2. CloudTypes /\ Careful /\ [CloudflareNext]_cloudflareVars => CloudTypes' /\ Careful'
  BY CloudTypesStep, CarefulStep
<1>3. CloudTypes /\ Careful => WorkIsKept
  BY DEF Careful, WorkIsKept, Kept, Works, InBackup
<1> QED BY <1>1, <1>2, <1>3, PTL DEF CloudflareSpec
=============================================================================
