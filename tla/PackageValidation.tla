-------------------------- MODULE PackageValidation --------------------------
(***************************************************************************)
(* Trying out an extension package: the sandbox manager lets one           *)
(* validation run at a time and lets anybody cancel it; the Gondolin       *)
(* provider installs the package in a throwaway VM; POST                   *)
(* /extension-configs adds the package when the answer is not a refusal.   *)
(* The manager's lock is read before an await and written after it, and    *)
(* every validation that ends clears it, whoever holds it.                 *)
(***************************************************************************)
EXTENDS Naturals, FiniteSets

CONSTANTS
  Validations,    \* requests to add a package, validated first
  NoValidation    \* activeValidationAbort is null

ASSUME NoValidationIsNone == NoValidation \notin Validations

VARIABLES
  active,     \* activeValidationAbort: whose controller it is
  trial,      \* where each request is
  aborted,    \* requests whose controller has been aborted
  added,      \* requests whose package was added
  raced,      \* observation: past the check when another one took the lock
  heeded      \* observation: aborted before the install had ended

validationVars == <<active, trial, aborted, added, raced, heeded>>

ValidationInit ==
  /\ active = NoValidation
  /\ trial = [v \in Validations |-> "unsent"]
  /\ aborted = {}
  /\ added = {}
  /\ raced = {}
  /\ heeded = {}

Asking == {v \in Validations : trial[v] = "asking"}
Validating == {v \in Validations : trial[v] \in {"booting", "probing", "installing", "closing"}}

Goes(v, to) == trial' = [trial EXCEPT ![v] = to]

(* a check that is not made *)
MayStart(v) == TRUE

NoneActive(v) == active = NoValidation

ValidationBusy(v) ==
  /\ trial[v] = "unsent"
  /\ ~NoneActive(v)
  /\ Goes(v, "refused")
  /\ UNCHANGED <<active, aborted, added, raced, heeded>>

ValidationAsks(v) ==
  /\ trial[v] = "unsent"
  /\ NoneActive(v)
  /\ Goes(v, "asking")
  /\ UNCHANGED <<active, aborted, added, raced, heeded>>

(* QEMU is missing, or anything throws: the answer is null, and the package *)
(* is added without validation                                              *)
ValidationSkipped(v) ==
  /\ trial[v] = "asking"
  /\ Goes(v, "answered")
  /\ active' = NoValidation
  /\ added' = added \union {v}
  /\ UNCHANGED <<aborted, raced, heeded>>

ValidationStarts(v) ==
  /\ trial[v] = "asking"
  /\ Goes(v, "booting")
  /\ active' = v
  /\ raced' = raced \union (Asking \ {v})
  /\ UNCHANGED <<aborted, added, heeded>>

(* the VM is up; a signal aborted by now does not close it any more *)
ValidationBoots(v) ==
  /\ trial[v] = "booting"
  /\ Goes(v, "probing")
  /\ UNCHANGED <<active, aborted, added, raced, heeded>>

(* npm works or was repaired; an install under an aborted signal throws *)
ValidationProbed(v) ==
  /\ trial[v] = "probing"
  /\ v \notin aborted
  /\ Goes(v, "installing")
  /\ UNCHANGED <<active, aborted, added, raced, heeded>>

(* an install that ignores the signal *)
InstallGoesOn(v) == TRUE

(* neither aborted nor timed out *)
InstallMayEnd(v) == v \notin aborted

ValidationInstalled(v) ==
  /\ trial[v] = "installing"
  /\ InstallMayEnd(v)
  /\ Goes(v, "closing")
  /\ UNCHANGED <<active, aborted, added, raced, heeded>>

LockCleared == active' = NoValidation

(* the VM is closed: valid, and the route adds the package *)
ValidationSucceeds(v) ==
  /\ trial[v] = "closing"
  /\ Goes(v, "answered")
  /\ LockCleared
  /\ added' = added \union {v}
  /\ UNCHANGED <<aborted, raced, heeded>>

(* the install fails or times out, or the abort ends it *)
ValidationFails(v) ==
  /\ trial[v] \in {"booting", "probing", "installing"}
  /\ Goes(v, "refused")
  /\ LockCleared
  /\ UNCHANGED <<aborted, added, raced, heeded>>

CancelValidation ==
  /\ active # NoValidation
  /\ active' = NoValidation
  /\ aborted' = aborted \union {active}
  /\ heeded' = IF trial[active] = "closing" THEN heeded ELSE heeded \union {active}
  /\ UNCHANGED <<trial, added, raced>>

ValidationNext ==
  \/ \E v \in Validations :
       \/ ValidationBusy(v) \/ ValidationAsks(v) \/ ValidationSkipped(v) \/ ValidationStarts(v)
       \/ ValidationBoots(v) \/ ValidationProbed(v) \/ ValidationInstalled(v)
       \/ ValidationSucceeds(v) \/ ValidationFails(v)
  \/ CancelValidation

ValidationSpec == ValidationInit /\ [][ValidationNext]_validationVars

-----------------------------------------------------------------------------
ValidationTypeOK ==
  /\ active \in Validations \union {NoValidation}
  /\ trial \in [Validations -> {"unsent", "asking", "booting", "probing", "installing",
                                "closing", "answered", "refused"}]
  /\ aborted \subseteq Validations
  /\ added \subseteq Validations
  /\ raced \subseteq Validations
  /\ heeded \subseteq Validations

(***************************************************************************)
(* The lock never outlives the validation that took it (manager.ts:204):   *)
(* otherwise no package could be validated again until a restart.          *)
(***************************************************************************)
LockHasOwner == active # NoValidation => active \in Validating

(***************************************************************************)
(* Cancelling before the install has ended keeps the package out           *)
(* (manager.ts:210, provider.ts:168), in whatever order boots, answers and *)
(* other validations come.                                                 *)
(***************************************************************************)
CanceledIsNotAdded == heeded \intersect added = {}

(***************************************************************************)
(* Two validations run side by side only once two requests have passed the *)
(* check together (manager.ts:184), or one has been canceled, which frees  *)
(* the lock before its VM is gone.                                         *)
(***************************************************************************)
OnlyRacesRunBeside ==
  Cardinality(Validating) > 1 => raced # {} \/ aborted # {}
=============================================================================
