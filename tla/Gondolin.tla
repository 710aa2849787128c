------------------------------- MODULE Gondolin --------------------------------
(***************************************************************************)
(* The Gondolin provider, seen from one session: the cache of handles, the *)
(* VMs it boots, the pi process an attachment starts in one, and the calls *)
(* of the relay, cut at their awaits.  Clones, images, secrets and npm     *)
(* matter by succeeding or failing.                                        *)
(***************************************************************************)
EXTENDS Naturals, FiniteSets, Sequences

CONSTANTS
  Calls,        \* calls of the relay that may be under way together
  Handles,      \* GondolinSandboxHandle objects
  VMs,          \* machines
  Lines         \* GondolinSandboxChannel objects

VARIABLES
  dir,          \* the session has a directory
  cache,        \* handleCache, a set of at most one handle
  handle,       \* what each handle holds: its status, its VM and its channel
  vms,          \* machines that run
  line,         \* the VM an open channel's pi process was started in
  call,         \* what each call does, where it waits, and what it holds
  crossed       \* observation: calls overlapped, or a boot failed half way

gondolinVars == <<dir, cache, handle, vms, line, call, crossed>>

NoHandle == [status |-> "none", vm |-> {}, channel |-> {}]
NoCall == [op |-> "none", at |-> "none", on |-> {}, vm |-> {}]
NotOpen == {}

GondolinInit ==
  /\ dir = FALSE /\ cache = {} /\ vms = {} /\ crossed = FALSE
  /\ handle = [h \in Handles |-> NoHandle]
  /\ line = [l \in Lines |-> NotOpen]
  /\ call = [c \in Calls |-> NoCall]

Idle(c) == call[c] = NoCall
SomeoneBusy == \E c \in Calls : ~Idle(c)
Held == cache \union UNION {call[c].on : c \in Calls}
FreeHandles == {h \in Handles : h \notin Held}
InUse == vms \union (UNION {handle[h].vm : h \in Held}) \union (UNION {call[c].vm : c \in Calls})
FreeVMs == VMs \ InUse
FreeLines == {l \in Lines : line[l] = NotOpen /\ \A h \in Held : l \notin handle[h].channel}

Enter(c, op, at, on, vm) ==
  /\ call' = [call EXCEPT ![c] = [op |-> op, at |-> at, on |-> on, vm |-> vm]]
  /\ crossed' = (crossed \/ SomeoneBusy)
Leave(c) == call' = [call EXCEPT ![c] = NoCall]
(* an operation that answers before anything else can happen *)
AtOnce ==
  /\ UNCHANGED call
  /\ crossed' = (crossed \/ SomeoneBusy)

(***************************************************************************)
(* getSandbox: the cached handle, or a new paused one for the directory.   *)
(***************************************************************************)
Cached == {h \in cache : handle[h].status # "stopped"}
Findable == Cached # {} \/ (dir /\ FreeHandles # {})
Found == IF Cached # {} THEN CHOOSE h \in Cached : TRUE ELSE CHOOSE h \in FreeHandles : TRUE
WhenFound(h) ==
  IF h \in Cached THEN handle[h] ELSE [NoHandle EXCEPT !.status = "paused"]

GetSandbox ==
  /\ Findable
  /\ cache' = {Found}
  /\ handle' = [handle EXCEPT ![Found] = WhenFound(Found)]
  /\ AtOnce
  /\ UNCHANGED <<dir, vms, line>>

(***************************************************************************)
(* createSandbox                                                           *)
(***************************************************************************)
CreateBegins(c) ==
  /\ Idle(c) /\ Cached = {} /\ FreeHandles # {}
  /\ dir' = TRUE
  /\ \E at \in {"cloning", "booting"} : Enter(c, "create", at, {}, {})
  /\ UNCHANGED <<cache, handle, vms, line>>

Cloned(c) ==
  /\ call[c].at = "cloning"
  /\ call' = [call EXCEPT ![c].at = "booting"]
  /\ UNCHANGED <<dir, cache, handle, vms, line, crossed>>

(* git clone fails, the image is missing, the VM does not come up *)
CallFails(c) ==
  /\ call[c].at \in {"cloning", "booting", "probing"}
  /\ Leave(c)
  /\ UNCHANGED <<dir, cache, handle, vms, line, crossed>>

VmBoots(c) ==
  /\ call[c].at = "booting"
  /\ FreeVMs # {}
  /\ LET v == CHOOSE v \in FreeVMs : TRUE IN
       /\ vms' = vms \union {v}
       /\ call' = [call EXCEPT ![c].at = "checking", ![c].vm = {v}]
  /\ UNCHANGED <<dir, cache, handle, line, crossed>>

(* ensureWorkingNpm throws, and nobody closes the VM *)
NpmFails(c) ==
  /\ call[c].at = "checking"
  /\ Leave(c)
  /\ crossed' = TRUE
  /\ UNCHANGED <<dir, cache, handle, vms, line>>

CreateEnds(c) ==
  /\ call[c].op = "create" /\ call[c].at = "checking"
  /\ FreeHandles # {}
  /\ LET h == CHOOSE h \in FreeHandles : TRUE IN
       /\ cache' = {h}
       /\ handle' = [handle EXCEPT ![h] = [status |-> "running", vm |-> call[c].vm, channel |-> {}]]
  /\ Leave(c)
  /\ UNCHANGED <<dir, vms, line, crossed>>

(***************************************************************************)
(* resume, of the handle a look-up gave: a running one has nothing to do.  *)
(***************************************************************************)
ResumeBegins(c) ==
  /\ Idle(c) /\ Findable
  /\ WhenFound(Found).status # "running"
  /\ cache' = {Found}
  /\ handle' = [handle EXCEPT ![Found] = WhenFound(Found)]
  /\ Enter(c, "resume", "booting", {Found}, {})
  /\ UNCHANGED <<dir, vms, line>>

ResumeEnds(c) ==
  /\ call[c].op = "resume" /\ call[c].at = "checking"
  /\ \E h \in call[c].on :
       handle' = [handle EXCEPT ![h].status = "running", ![h].vm = call[c].vm]
  /\ Leave(c)
  /\ UNCHANGED <<dir, cache, vms, line, crossed>>

(***************************************************************************)
(* attach: the old channel is closed, the image is probed for the native   *)
(* bridge, and pi is started in whatever VM the handle has by then.        *)
(***************************************************************************)
Hang(lines) == line' = [l \in Lines |-> IF l \in lines THEN NotOpen ELSE line[l]]

(* without the close of the channel there was *)
AttachBeside(c) ==
  /\ Idle(c) /\ Findable
  /\ WhenFound(Found).status = "running" /\ WhenFound(Found).vm # {}
  /\ handle' = [handle EXCEPT ![Found].channel = {}]
  /\ Enter(c, "attach", "probing", {Found}, {})
  /\ UNCHANGED <<dir, cache, vms, line>>

AttachBegins(c) ==
  /\ Idle(c) /\ Findable
  /\ WhenFound(Found).status = "running" /\ WhenFound(Found).vm # {}
  /\ Hang(handle[Found].channel)
  /\ handle' = [handle EXCEPT ![Found].channel = {}]
  /\ Enter(c, "attach", "probing", {Found}, {})
  /\ UNCHANGED <<dir, cache, vms>>

AttachEnds(c) ==
  /\ call[c].at = "probing"
  /\ FreeLines # {}
  /\ \E h \in call[c].on : LET l == CHOOSE l \in FreeLines : TRUE IN
       /\ handle[h].vm # {}
       /\ line' = [line EXCEPT ![l] = handle[h].vm]
       /\ handle' = [handle EXCEPT ![h].channel = {l}]
  /\ Leave(c)
  /\ UNCHANGED <<dir, cache, vms, crossed>>

(* proc.result: pi ends, by itself or with its VM, and the channel tells *)
PiEnds(l) ==
  /\ line[l] # NotOpen
  /\ line' = [line EXCEPT ![l] = NotOpen]
  /\ handle' = [h \in Handles |-> [handle[h] EXCEPT !.channel = @ \ {l}]]
  /\ UNCHANGED <<dir, cache, vms, call, crossed>>

(***************************************************************************)
(* pause and terminate: close the channel, await the end of the VM, and    *)
(* forget whatever VM the handle has by then.                              *)
(***************************************************************************)
Rest(op) == IF op = "pause" THEN "paused" ELSE "stopped"

StopBegins(c, op) ==
  /\ Idle(c) /\ Findable
  /\ WhenFound(Found).vm # {}
  /\ Hang(handle[Found].channel)
  /\ handle' = [handle EXCEPT ![Found].channel = {}]
  /\ Enter(c, op, "closing", {Found}, handle[Found].vm)
  /\ UNCHANGED <<dir, cache, vms>>

StopAtOnce(op) ==
  /\ Findable
  /\ WhenFound(Found).vm = {}
  /\ Hang(WhenFound(Found).channel)
  /\ cache' = {Found}
  /\ handle' = [handle EXCEPT ![Found] = [NoHandle EXCEPT !.status = Rest(op)]]
  /\ AtOnce
  /\ UNCHANGED <<dir, vms>>

VmCloses(c) ==
  /\ call[c].at = "closing"
  /\ vms' = vms \ call[c].vm
  /\ call' = [call EXCEPT ![c].at = "closed"]
  /\ UNCHANGED <<dir, cache, handle, line, crossed>>

StopEnds(c) ==
  /\ call[c].at = "closed"
  /\ \E h \in call[c].on :
       handle' = [handle EXCEPT ![h].vm = {}, ![h].status = Rest(call[c].op)]
  /\ Leave(c)
  /\ UNCHANGED <<dir, cache, vms, line, crossed>>

Cleanup ==
  /\ cache # {} /\ Cached = {}
  /\ cache' = {}
  /\ UNCHANGED <<dir, handle, vms, line, call, crossed>>

(* The relay goes, with its VMs; the directory stays. *)
GondolinRestarts ==
  /\ cache' = {} /\ vms' = {} /\ crossed' = FALSE
  /\ handle' = [h \in Handles |-> NoHandle]
  /\ line' = [l \in Lines |-> NotOpen]
  /\ call' = [c \in Calls |-> NoCall]
  /\ UNCHANGED dir

GondolinNext ==
  \/ \E c \in Calls :
       \/ CreateBegins(c) \/ Cloned(c) \/ CallFails(c) \/ VmBoots(c) \/ NpmFails(c) \/ CreateEnds(c)
       \/ ResumeBegins(c) \/ ResumeEnds(c) \/ AttachBegins(c) \/ AttachEnds(c)
       \/ \E op \in {"pause", "terminate"} : StopBegins(c, op)
       \/ VmCloses(c) \/ StopEnds(c)
  \/ \E op \in {"pause", "terminate"} : StopAtOnce(op)
  \/ GetSandbox \/ Cleanup \/ GondolinRestarts
  \/ \E l \in Lines : PiEnds(l)

GondolinSpec == GondolinInit /\ [][GondolinNext]_gondolinVars

-----------------------------------------------------------------------------
GondolinTypeOK ==
  /\ dir \in BOOLEAN /\ crossed \in BOOLEAN
  /\ cache \in SUBSET Handles /\ Cardinality(cache) <= 1
  /\ vms \in SUBSET VMs
  /\ handle \in [Handles -> [status : {"none", "running", "paused", "stopped"},
                             vm : SUBSET VMs, channel : SUBSET Lines]]
  /\ line \in [Lines -> SUBSET VMs]
  /\ call \in [Calls -> [op : {"none", "create", "resume", "attach", "pause", "terminate"},
                         at : {"none", "cloning", "booting", "checking", "probing", "closing", "closed"},
                         on : SUBSET Handles, vm : SUBSET VMs]]

(***************************************************************************)
(* The provider keeps the promise of types.ts: used by one caller at a     *)
(* time it never leaves a VM running behind a sandbox that is paused,      *)
(* stopped or unknown, never runs two, and never has two pi processes      *)
(* listening, whatever fails; the status changes only by its calls.        *)
(***************************************************************************)
KnownStatus == IF cache = {} THEN "none" ELSE handle[CHOOSE h \in cache : TRUE].status
OpenLines == {l \in Lines : line[l] # {} /\ line[l] \subseteq vms}

GondolinSandbox == INSTANCE Sandbox WITH
  status <- KnownStatus,
  machines <- Cardinality(vms),
  lines <- Cardinality(OpenLines),
  doing <- [c \in Calls |-> call[c].op],
  mixed <- crossed

GondolinIsASandbox == GondolinSandbox!Spec
=============================================================================
