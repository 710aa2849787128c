------------------------------ MODULE MockSandbox ------------------------------
(***************************************************************************)
(* The mock provider, seen from one session: the handle in its map, the    *)
(* timer that starts it, and the commands of pi it imitates.  A prompt, a  *)
(* steer and a follow-up are the same generation; what is said and stored, *)
(* and the commands that are answered at once, are left out.               *)
(***************************************************************************)
EXTENDS Naturals, FiniteSets

CONSTANTS
  Callers,      \* callers of resume that may wait for the start together
  Prompts,      \* prompt, steer and follow_up commands that may be sent
  Shells        \* bash commands that may be sent

Commands == Prompts \union Shells
Nobody == {}

VARIABLES
  entry,        \* status of the handle in the map, "none" when there is none
  booting,      \* the timer of its constructor has yet to fire
  waiting,      \* callers of resume that wait for "running"
  open,         \* its channel is open
  stage,        \* of each command: "new", "thinking", "streaming", "ending",
                \* "sleeping", "answered" or "dropped"
  speaking,     \* the prompt whose AbortController the handle holds
  running,      \* the bash command whose AbortController it holds
  heard,        \* the last of agent_start and agent_end on the channel
  astray,       \* observation: an abort, or an event nobody heard
  met           \* observation: terminated before it had started

mockVars == <<entry, booting, waiting, open, stage, speaking, running, heard, astray, met>>
lifeVars == <<entry, booting, waiting, met>>

MockInit ==
  /\ entry = "none" /\ booting = FALSE /\ waiting = {} /\ open = FALSE /\ met = FALSE
  /\ stage = [c \in Commands |-> "new"]
  /\ speaking = Nobody /\ running = Nobody
  /\ heard = "agent_end" /\ astray = FALSE

Exists == entry \notin {"none", "stopped"}

(***************************************************************************)
(* The life of the handle.                                                 *)
(***************************************************************************)
(* What was under way belongs to the handle that is replaced. *)
MockCreates ==
  /\ ~Exists
  /\ entry' = "creating" /\ booting' = TRUE /\ waiting' = {} /\ open' = FALSE
  /\ stage' = [c \in Commands |-> IF stage[c] = "new" THEN "new" ELSE "dropped"]
  /\ speaking' = Nobody /\ running' = Nobody
  /\ heard' = "agent_end" /\ astray' = FALSE /\ met' = (met \/ booting)

(* The timer asks nothing: what was paused or stopped meanwhile runs. *)
MockStarts ==
  /\ booting
  /\ entry' = "running" /\ booting' = FALSE /\ waiting' = {}
  /\ UNCHANGED <<open, stage, speaking, running, heard, astray, met>>

(* resume without a look at what is stopped *)
MockRevives(c) ==
  /\ entry # "none"
  /\ entry' = "running"
  /\ UNCHANGED <<booting, waiting, open, stage, speaking, running, heard, astray, met>>

(* A paused sandbox runs, and whoever waited for it goes on; one that is being *)
(* created is waited for; a stopped one is not found.                         *)
MockResumes(c) ==
  /\ Exists
  /\ IF entry = "creating"
     THEN waiting' = waiting \union {c} /\ UNCHANGED entry
     ELSE entry' = "running" /\ waiting' = IF entry = "paused" THEN {} ELSE waiting
  /\ UNCHANGED <<booting, met, open, stage, speaking, running, heard, astray>>

MockPauses ==
  /\ Exists
  /\ entry' = "paused"
  /\ met' = (met \/ booting)
  /\ UNCHANGED <<booting, waiting, open, stage, speaking, running, heard, astray>>

Interrupt(c) == IF stage[c] = "thinking" THEN "dropped"
                ELSE IF stage[c] = "streaming" THEN "ending" ELSE stage[c]
Kill(c) == IF stage[c] = "sleeping" THEN "dropped" ELSE stage[c]
Aborted == [c \in Commands |-> IF c \in speaking THEN Interrupt(c)
                               ELSE IF c \in running THEN Kill(c) ELSE stage[c]]
Cut == \E c \in speaking : stage[c] \in {"thinking", "streaming"}

MockTerminates ==
  /\ Exists
  /\ entry' = "stopped" /\ open' = FALSE
  /\ stage' = Aborted
  /\ astray' = (astray \/ Cut)
  /\ met' = (met \/ booting)
  /\ UNCHANGED <<booting, waiting, speaking, running, heard>>

(* the old channel is closed, what is generated goes on into the new one *)
MockAttaches ==
  /\ Exists
  /\ open' = TRUE
  /\ UNCHANGED <<lifeVars, stage, speaking, running, heard, astray>>

MockDetaches ==
  /\ open /\ open' = FALSE
  /\ UNCHANGED <<lifeVars, stage, speaking, running, heard, astray>>

MockCleanup ==
  /\ entry = "stopped" /\ entry' = "none" /\ booting' = FALSE
  /\ UNCHANGED <<waiting, open, stage, speaking, running, heard, astray, met>>

(***************************************************************************)
(* The commands.  An event nobody listens to is lost.                      *)
(***************************************************************************)
Emit(event) ==
  /\ heard' = IF open THEN event ELSE heard
  /\ astray' = (astray \/ ~open)

(* prompt, steer and follow_up: the one before is aborted *)
Speak(p) ==
  /\ open /\ stage[p] = "new"
  /\ stage' = [c \in Commands |-> IF c = p THEN "thinking" ELSE IF c \in speaking THEN Interrupt(c) ELSE stage[c]]
  /\ speaking' = {p}
  /\ heard' = "agent_start"
  /\ astray' = (astray \/ Cut)
  /\ UNCHANGED <<lifeVars, open, running>>

Streams(p) ==
  /\ stage[p] = "thinking"
  /\ stage' = [stage EXCEPT ![p] = "streaming"]
  /\ UNCHANGED <<lifeVars, open, speaking, running, heard, astray>>

(* message_end, agent_end and the answer to the command *)
Finishes(p) ==
  /\ stage[p] = "streaming"
  /\ stage' = [stage EXCEPT ![p] = IF open THEN "answered" ELSE "dropped"]
  /\ Emit("agent_end")
  /\ UNCHANGED <<lifeVars, open, speaking, running>>

(* An interrupted generation wakes and ends the turn that replaced it. *)
EndsLate(p) ==
  /\ stage[p] = "ending"
  /\ stage' = [stage EXCEPT ![p] = "dropped"]
  /\ Emit("agent_end")
  /\ UNCHANGED <<lifeVars, open, speaking, running>>

Abort ==
  /\ open
  /\ stage' = [c \in Commands |-> IF c \in speaking THEN Interrupt(c) ELSE stage[c]]
  /\ astray' = (astray \/ Cut)
  /\ UNCHANGED <<lifeVars, open, speaking, running, heard>>

Bash(b) ==
  /\ open /\ stage[b] = "new"
  /\ stage' = [c \in Commands |-> IF c = b THEN "sleeping" ELSE IF c \in running THEN Kill(c) ELSE stage[c]]
  /\ running' = {b}
  /\ UNCHANGED <<lifeVars, open, speaking, heard, astray>>

BashEnds(b) ==
  /\ stage[b] = "sleeping"
  /\ stage' = [stage EXCEPT ![b] = IF open THEN "answered" ELSE "dropped"]
  /\ UNCHANGED <<lifeVars, open, speaking, running, heard, astray>>

AbortBash ==
  /\ open
  /\ stage' = [c \in Commands |-> IF c \in running THEN Kill(c) ELSE stage[c]]
  /\ UNCHANGED <<lifeVars, open, speaking, running, heard, astray>>

MockNext ==
  \/ MockCreates \/ MockStarts \/ MockPauses \/ MockTerminates \/ MockCleanup
  \/ MockAttaches \/ MockDetaches \/ Abort \/ AbortBash
  \/ \E c \in Callers : MockResumes(c)
  \/ \E p \in Prompts : Speak(p) \/ Streams(p) \/ Finishes(p) \/ EndsLate(p)
  \/ \E b \in Shells : Bash(b) \/ BashEnds(b)

MockSpec == MockInit /\ [][MockNext]_mockVars

-----------------------------------------------------------------------------
MockTypeOK ==
  /\ entry \in {"none", "creating", "running", "paused", "stopped"}
  /\ booting \in BOOLEAN /\ open \in BOOLEAN /\ astray \in BOOLEAN /\ met \in BOOLEAN
  /\ waiting \in SUBSET Callers
  /\ stage \in [Commands -> {"new", "thinking", "streaming", "ending", "sleeping", "answered", "dropped"}]
  /\ speaking \in SUBSET Prompts /\ running \in SUBSET Shells
  /\ heard \in {"agent_start", "agent_end"}

(***************************************************************************)
(* Whoever listens knows whether the agent is at work: agent_start and     *)
(* agent_end pair up (mock.ts:731) unless a generation was aborted, by     *)
(* abort or by the next prompt, or an event fell between two channels.     *)
(***************************************************************************)
TurnsArePaired ==
  ~astray => (heard = "agent_start" <=> \E p \in Prompts : stage[p] \in {"thinking", "streaming"})

(***************************************************************************)
(* The mock keeps the promise of types.ts, its start being a call of its   *)
(* own: what is stopped after it started stays stopped, and only resume    *)
(* makes a paused sandbox run.                                             *)
(***************************************************************************)
MockedSandbox == INSTANCE Sandbox WITH
  Calls <- {"start"},
  status <- entry,
  machines <- IF entry \in {"creating", "running"} THEN 1 ELSE 0,
  lines <- 0,
  doing <- [c \in {"start"} |-> IF booting THEN "create" ELSE "none"],
  mixed <- met

MockIsASandbox == MockedSandbox!Spec
=============================================================================
