-------------------------------- MODULE Sandbox --------------------------------
(***************************************************************************)
(* What a sandbox provider promises the relay (sandbox/types.ts): the      *)
(* sandbox of one session, the machine behind it and the pi process the    *)
(* relay talks to, for callers that wait for one call to end before they   *)
(* make the next.  Calls that overlap, and a machine that fails half made, *)
(* mix the sandbox up: nothing is promised of it from then on, until the   *)
(* relay restarts.  MockSandbox and Gondolin implement it.                 *)
(***************************************************************************)
EXTENDS Naturals

CONSTANT Calls          \* calls that may be under way together

VARIABLES
  status,     \* of the handle the relay would be given: "none" when it has none
  machines,   \* how many machines run for the session
  lines,      \* how many open channels reach a pi process on one of them
  doing,      \* what each call is doing: "none", or an operation
  mixed       \* calls overlapped, or left something half made

sandboxVars == <<status, machines, lines, doing, mixed>>

Operations == {"create", "resume", "pause", "terminate", "attach"}

Init ==
  /\ status = "none" /\ machines = 0 /\ lines = 0
  /\ doing = [c \in Calls |-> "none"]
  /\ mixed = FALSE

Busy == \E c \in Calls : doing[c] # "none"

(* resume: ensure that it runs; pause: freeze it; terminate: stop it *)
Outcome(op, before) ==
  CASE op \in {"create", "resume"} -> "running"
    [] op = "pause" -> "paused"
    [] op = "terminate" -> "stopped"
    [] OTHER -> before

(* A sandbox that is known to run is the only one that does. *)
Sound ==
  /\ machines = IF status \in {"creating", "running"} THEN 1 ELSE 0
  /\ lines <= machines

SoundWhenDone == mixed' \/ (\E c \in Calls : doing'[c] # "none") \/ Sound'

(* A look-up may find the files of a sandbox that is gone, as a paused one. *)
Found == IF status \in {"none", "stopped"} THEN {status, "paused"} ELSE {status}

Begin(c, op) ==
  /\ doing[c] = "none"
  /\ doing' = [doing EXCEPT ![c] = op]
  /\ mixed' = (mixed \/ Busy)
  /\ status' \in Found \union (IF op = "create" THEN {"creating"} ELSE {})
  /\ UNCHANGED machines \/ op = "create"

(* a call at work: machines and channels come and go, the status does not *)
Work ==
  /\ Busy
  /\ UNCHANGED <<status, doing, mixed>>

Succeed(c) ==
  /\ doing[c] # "none"
  /\ doing' = [doing EXCEPT ![c] = "none"]
  /\ status' = Outcome(doing[c], status)
  /\ UNCHANGED mixed
  /\ SoundWhenDone

Fail(c) ==
  /\ doing[c] # "none"
  /\ doing' = [doing EXCEPT ![c] = "none"]
  /\ UNCHANGED status
  /\ mixed' \in {mixed, TRUE}
  /\ SoundWhenDone

(* a call that never has to wait *)
AtOnce(op) ==
  /\ status' \in {Outcome(op, s) : s \in Found} \union Found
  /\ UNCHANGED doing
  /\ mixed' = (mixed \/ Busy)
  /\ SoundWhenDone

(* pi ends on its own, a stopped sandbox is forgotten *)
Drift ==
  /\ status' \in {status} \union (IF status = "stopped" THEN {"none"} ELSE {})
  /\ machines' = machines /\ lines' <= lines
  /\ UNCHANGED <<doing, mixed>>

MixedUp == mixed /\ mixed'

Restart ==
  /\ status' = "none" /\ machines' = 0 /\ lines' = 0
  /\ doing' = [c \in Calls |-> "none"]
  /\ mixed' = FALSE

Next ==
  \/ Drift \/ Work \/ MixedUp \/ Restart
  \/ \E c \in Calls : Succeed(c) \/ Fail(c) \/ \E op \in Operations : Begin(c, op)
  \/ \E op \in Operations : AtOnce(op)

Spec == Init /\ [][Next]_sandboxVars
=============================================================================
