------------------------------ MODULE Cloudflare -------------------------------
(***************************************************************************)
(* A sandbox on Cloudflare: the container with its bridge and pi, the      *)
(* Durable Object that starts, backs up and destroys it, the backup in R2, *)
(* and the relay's calls, each cut at the awaits of the worker.  The work  *)
(* done in a container is a set of units, so that what a backup holds, and *)
(* what a restore takes back, can be told apart.                           *)
(***************************************************************************)
EXTENDS Naturals, FiniteSets

CONSTANTS
  Requests,     \* requests the worker may be handling together
  MaxWork       \* units of work pi may do (a bound)

ASSUME CloudflareBounds == MaxWork \in Nat

VARIABLES
  container,    \* "stopped" or "running"
  files,        \* the units on its disk
  waits,        \* it was started with WAIT_FOR_RESTORE
  pi,           \* the bridge's piState
  sockets,      \* the relay's channel reaches the bridge
  stored,       \* what R2 holds: a set of at most one backup
  req,          \* what each request does, where it waits, what it has read
  done,         \* units done so far
  harmed        \* observation: a container was "resumed" that ran, or work may
                \* be gone "otherwise"

cloudflareVars == <<container, files, waits, pi, sockets, stored, req, done, harmed>>

NoRequest == [op |-> "none", at |-> "none", read |-> {}]
Torn == [whole |-> FALSE, units |-> {}]
Backup(units) == [whole |-> TRUE, units |-> units]

CloudflareInit ==
  /\ container = "stopped" /\ files = {} /\ waits = FALSE /\ pi = "exited"
  /\ sockets = FALSE /\ stored = {}
  /\ req = [r \in Requests |-> NoRequest]
  /\ done = 0 /\ harmed = {}

Running == container = "running"
NotBusy(r) == req[r] = NoRequest
Go(r, op, at, read) == req' = [req EXCEPT ![r] = [op |-> op, at |-> at, read |-> read]]
Answer(r) == req' = [req EXCEPT ![r] = NoRequest]
Note(reasons) == harmed' = harmed \union reasons
Overlap == IF \E r \in Requests : ~NotBusy(r) THEN {"otherwise"} ELSE {}

(***************************************************************************)
(* The container.                                                          *)
(***************************************************************************)
(* startAndWaitForPorts: nothing to do for one that runs *)
Start(wait) ==
  IF Running THEN UNCHANGED <<container, files, waits, pi, sockets>>
  ELSE /\ container' = "running" /\ files' = {} /\ waits' = wait
       /\ pi' = IF wait THEN "waiting" ELSE "running"
       /\ UNCHANGED sockets

Destroy ==
  /\ container' = "stopped" /\ files' = {} /\ pi' = "exited" /\ sockets' = FALSE
  /\ UNCHANGED waits

PiWorks ==
  /\ Running /\ pi = "running" /\ done < MaxWork
  /\ done' = done + 1 /\ files' = files \union {done + 1}
  /\ UNCHANGED <<container, waits, pi, sockets, stored, req, harmed>>

(* nothing starts pi again; the next socket reaches no one *)
PiExits ==
  /\ pi = "running" /\ pi' = "exited" /\ sockets' = FALSE
  /\ UNCHANGED <<container, files, waits, stored, req, done, harmed>>

RestoreTimeout ==
  /\ pi = "waiting" /\ pi' = "running"
  /\ Note({"otherwise"})
  /\ UNCHANGED <<container, files, waits, sockets, stored, req, done>>

ContainerCrashes ==
  /\ Running /\ Destroy
  /\ Note({"otherwise"})
  /\ UNCHANGED <<stored, req, done>>

(* attach: a WebSocket to the bridge, whatever pi is doing *)
CloudflareAttach ==
  /\ Running /\ sockets' = TRUE
  /\ UNCHANGED <<container, files, waits, pi, stored, req, done, harmed>>

(***************************************************************************)
(* create                                                                  *)
(***************************************************************************)
HandleCreate(r) ==
  /\ NotBusy(r) /\ ~Running
  /\ Go(r, "create", "starting", {})
  /\ Note(Overlap \union (IF stored # {} THEN {"otherwise"} ELSE {}))
  /\ UNCHANGED <<container, files, waits, pi, sockets, stored, done>>

CreateStarts(r) ==
  /\ req[r].op = "create" /\ req[r].at = "starting"
  /\ Start(FALSE)
  /\ Answer(r)
  /\ UNCHANGED <<stored, done, harmed>>

(***************************************************************************)
(* pause: read the whole backup, put it into R2, destroy the container;    *)
(* an expired activity does the same, and destroys it in any case          *)
(***************************************************************************)
HandlePause(r) ==
  /\ NotBusy(r) /\ Running
  /\ \E op \in {"pause", "expire"} : Go(r, op, "reading", {})
  /\ Note(Overlap)
  /\ UNCHANGED <<container, files, waits, pi, sockets, stored, done>>

(* The bridge has answered 200 before tar fails: what it sends then is torn. *)
BackupRead(r) ==
  /\ req[r].at = "reading" /\ Running
  /\ \E b \in {Backup(files), Torn} :
       /\ Go(r, req[r].op, "saving", {b})
       /\ Note(IF b.whole THEN {} ELSE {"otherwise"})
  /\ UNCHANGED <<container, files, waits, pi, sockets, stored, done>>

(* containerFetch or put throws: a pause gives up, an expiry goes on *)
BackupFails(r) ==
  /\ req[r].at \in {"reading", "saving"}
  /\ IF req[r].op = "pause" THEN Answer(r) /\ UNCHANGED harmed
     ELSE Go(r, "expire", "destroying", {}) /\ Note({"otherwise"})
  /\ UNCHANGED <<container, files, waits, pi, sockets, stored, done>>

(* the container goes and what was read is not kept *)
BackupDropped(r) ==
  /\ req[r].at = "saving"
  /\ Go(r, req[r].op, "destroying", req[r].read)
  /\ UNCHANGED <<container, files, waits, pi, sockets, stored, done, harmed>>

(* pi goes on working until the container is destroyed *)
BackupSaved(r) ==
  /\ req[r].at = "saving"
  /\ stored' = req[r].read
  /\ Go(r, req[r].op, "destroying", req[r].read)
  /\ UNCHANGED <<container, files, waits, pi, sockets, done, harmed>>

PauseEnds(r) ==
  /\ req[r].at = "destroying"
  /\ Destroy
  /\ Answer(r)
  /\ Note(IF Running /\ req[r].read # {Backup(files)} THEN {"otherwise"} ELSE {})
  /\ UNCHANGED <<stored, done>>

(***************************************************************************)
(* resume: start the container, and extract the backup into whatever runs  *)
(***************************************************************************)
HandleResume(r) ==
  /\ NotBusy(r)
  /\ Go(r, "resume", "starting", stored)
  /\ Note(Overlap \union (IF Running /\ stored # {} THEN {"resumed"} ELSE {}))
  /\ UNCHANGED <<container, files, waits, pi, sockets, stored, done>>

ResumeStarts(r) ==
  /\ req[r].op = "resume" /\ req[r].at = "starting"
  /\ Start(req[r].read # {})
  /\ IF req[r].read = {} THEN Answer(r) ELSE Go(r, "resume", "restoring", req[r].read)
  /\ UNCHANGED <<stored, done, harmed>>

(* tar writes the files of the backup over those of the container: of what *)
(* pi has written since, what is in the same files is gone                 *)
Restored(r) ==
  /\ req[r].at = "restoring" /\ Running
  /\ \E b \in stored, spared \in SUBSET files :
       /\ b.whole
       /\ files' = b.units \union spared
  /\ pi' = IF waits /\ pi = "waiting" THEN "running" ELSE pi
  /\ Answer(r)
  /\ UNCHANGED <<container, waits, sockets, stored, done, harmed>>

(* no backup by now, a torn one, or no container: the backup is deleted *)
RestoreFails(r) ==
  /\ req[r].at = "restoring"
  /\ stored' = {}
  /\ Answer(r)
  /\ Note({"otherwise"})
  /\ UNCHANGED <<container, files, waits, pi, sockets, done>>

(* the container does not come up: nothing has changed *)
StartFails(r) ==
  /\ req[r].at = "starting"
  /\ Answer(r)
  /\ UNCHANGED <<container, files, waits, pi, sockets, stored, done, harmed>>

(***************************************************************************)
(* terminate                                                               *)
(***************************************************************************)
HandleTerminate(r) ==
  /\ NotBusy(r)
  /\ Go(r, "terminate", "ending", {})
  /\ Note(Overlap \union {"otherwise"})
  /\ UNCHANGED <<container, files, waits, pi, sockets, stored, done>>

TerminateDestroys(r) ==
  /\ req[r].at = "ending"
  /\ Destroy
  /\ Go(r, "terminate", "deleting", {})
  /\ UNCHANGED <<stored, done, harmed>>

TerminateEnds(r) ==
  /\ req[r].at = "deleting"
  /\ stored' = {}
  /\ Answer(r)
  /\ UNCHANGED <<container, files, waits, pi, sockets, done, harmed>>

CloudflareNext ==
  \/ PiWorks \/ PiExits \/ RestoreTimeout \/ ContainerCrashes \/ CloudflareAttach
  \/ \E r \in Requests :
       \/ HandleCreate(r) \/ CreateStarts(r) \/ StartFails(r)
       \/ HandlePause(r) \/ BackupRead(r) \/ BackupFails(r) \/ BackupSaved(r) \/ PauseEnds(r)
       \/ HandleResume(r) \/ ResumeStarts(r) \/ Restored(r) \/ RestoreFails(r)
       \/ HandleTerminate(r) \/ TerminateDestroys(r) \/ TerminateEnds(r)

CloudflareSpec == CloudflareInit /\ [][CloudflareNext]_cloudflareVars

-----------------------------------------------------------------------------
Backups == [whole : BOOLEAN, units : SUBSET (1..MaxWork)]
CloudflareTypeOK ==
  /\ container \in {"stopped", "running"} /\ pi \in {"waiting", "running", "exited"}
  /\ waits \in BOOLEAN /\ sockets \in BOOLEAN /\ done \in 0..MaxWork
  /\ files \in SUBSET (1..MaxWork)
  /\ stored \in SUBSET Backups /\ Cardinality(stored) <= 1
  /\ req \in [Requests ->
       [op : {"none", "create", "pause", "expire", "resume", "terminate"},
        at : {"none", "starting", "reading", "saving", "destroying", "restoring", "ending", "deleting"},
        read : SUBSET Backups]]

Kept(unit) == unit \in files \/ \E b \in stored : unit \in b.units

(***************************************************************************)
(* No unit of work is lost by pausing, expiring and resuming: each is on   *)
(* the disk of the container or in the backup, whatever waits and fails,   *)
(* but for the ways there are to lose it: a crash, requests that overlap,  *)
(* a backup that fails while the container goes anyway (sandbox.ts:60) or  *)
(* is torn, a restore that fails or comes after the bridge has given up    *)
(* waiting, work done after the backup was read, a resume of a container   *)
(* that runs, a sandbox created anew, and terminate.                       *)
(***************************************************************************)
WorkIsKept == harmed = {} => \A unit \in 1..done : Kept(unit)

(***************************************************************************)
(* "If running: no-op" (types.ts:95): resuming a running sandbox takes     *)
(* nothing from its files.  Every activation of a session resumes its      *)
(* sandbox, and the worker extracts the backup of the last pause into it.  *)
(***************************************************************************)
ResumeOfRunningIsNoOp ==
  [][\A r \in Requests :
       req[r].op = "resume" /\ container = "running" /\ container' = "running"
       /\ "otherwise" \notin harmed => files \subseteq files']_cloudflareVars
=============================================================================
