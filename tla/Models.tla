------------------------------- MODULE Models -------------------------------
(* The models of GET /models (routes/models.ts): introspected from a sandbox made
   for the purpose (services/models-introspection.service.ts), cached under a
   fingerprint of the packages and the secrets they depend on, and forgotten by
   POST /models/refresh.  Requests interleave where they wait for a provider or a
   sandbox; what only waits for the database runs in one turn.                  *)
EXTENDS Naturals, Sequences, SequencesExt, TLC

CONSTANTS
    Inputs,        \* what the packages and the secrets may be
    Sources,       \* the environments, as a set
    Askers,        \* requests of GET /models that may be under way together
    MaxRefreshes   \* bound: POST /models/refresh in a behaviour

ASSUME ModelsAssumption == Inputs # {} /\ IsFiniteSet(Sources) /\ MaxRefreshes \in Nat

VARIABLES
    inputs,        \* the packages and secrets now
    refreshes,     \* refreshes so far
    cache,         \* the cached* variables of modelsRoutes, or NoCache
    ask,           \* the requests
    introspection          \* the introspections: one per request and environment

modelsVars == <<inputs, refreshes, cache, ask, introspection>>

NoCache == [print |-> "none"]
NoTrial == [at |-> "none", of |-> "none", calm |-> TRUE]
NoAsk == [at |-> "idle", print |-> "none", since |-> 0, left |-> <<>>, calm |-> TRUE]

ModelsInit ==
    /\ inputs \in Inputs
    /\ refreshes = 0
    /\ cache = NoCache
    /\ ask = [a \in Askers |-> NoAsk]
    /\ introspection = [a \in Askers |-> [e \in Sources |-> NoTrial]]

BlindCandidates(configured) == <<configured>> \o SetToSeq(Sources \ {configured})
(* The environment of the "models_introspection" setting first, when it has one,
   then the others in the order of the list.                                   *)
BuildIntrospectionCandidates(configured) ==
    LET others == SetToSeq(Sources \ {configured})
    IN  IF configured = "none" THEN others ELSE <<configured>> \o others

Unanswered == {a \in Askers : ask[a].at \notin {"idle", "answered"}}

-----------------------------------------------------------------------------
(* What other routes change meanwhile. *)

(* Packages and secrets are edited; "calm" notes it in the requests under way. *)
InputsChange ==
    /\ inputs' \in Inputs \ {inputs}
    /\ ask' = [a \in Askers |-> IF a \in Unanswered THEN [ask[a] EXCEPT !.calm = FALSE]
                                                  ELSE ask[a]]
    /\ UNCHANGED <<refreshes, cache, introspection>>

KeepModels == UNCHANGED cache
ClearCaches == cache' = NoCache

Refresh ==
    /\ refreshes < MaxRefreshes
    /\ refreshes' = refreshes + 1
    /\ ClearCaches
    /\ UNCHANGED <<inputs, ask, introspection>>

-----------------------------------------------------------------------------
(* GET /models *)

AnswerWith(a, asked, models, degraded) ==
    ask' = [ask EXCEPT ![a] = 
        [at |-> "answered", print |-> asked.print, since |-> asked.since, left |-> <<>>,
         models |-> models, degraded |-> degraded]]

AnyCached == cache # NoCache
FreshlyCached == cache # NoCache /\ cache.print = inputs

(* The fingerprint is taken, and either answers from the cache or lists the
   candidates, all in one turn.                                               *)
Asks(a) ==
    /\ ask[a].at \in {"idle", "answered"}
    /\ \A e \in Sources : introspection[a][e].at = "none"
    /\ LET asked == [NoAsk EXCEPT !.print = inputs, !.since = refreshes]
       IN  IF FreshlyCached
           THEN AnswerWith(a, asked, cache.models, FALSE)
           ELSE \E configured \in Sources \cup {"none"} :
                    ask' = [ask EXCEPT ![a] = [asked EXCEPT !.at = "choosing",
                               !.left = BuildIntrospectionCandidates(configured)]]
    /\ UNCHANGED <<inputs, refreshes, cache, introspection>>

(* The environment is gone, or its provider is not available: try the next. *)
SkipCandidate(a) ==
    /\ ask[a].at = "choosing" /\ ask[a].left # <<>>
    /\ ask' = [ask EXCEPT ![a].left = Tail(@)]
    /\ UNCHANGED <<inputs, refreshes, cache, introspection>>

(* The settings of the sandbox are written and its creation asked for. *)
StartIntrospection(a) ==
    /\ ask[a].at = "choosing" /\ ask[a].left # <<>>
    /\ ask' = [ask EXCEPT ![a].at = "introspecting"]
    /\ introspection' = [introspection EXCEPT ![a][Head(ask[a].left)] =
                    [at |-> "creating", of |-> inputs, calm |-> ask[a].calm]]
    /\ UNCHANGED <<inputs, refreshes, cache>>

Waiting(a, e) == ask[a].at = "introspecting" /\ Head(ask[a].left) = e

(* The answer of an introspection reaches the request that still waits for it. *)
Gives(a, e, models) ==
    IF ~ Waiting(a, e) THEN UNCHANGED <<cache, ask>>
    ELSE /\ cache' = [print |-> ask[a].print, models |-> models]
         /\ AnswerWith(a, ask[a], models, FALSE)

NextCandidate(a) == ask' = [ask EXCEPT ![a].at = "choosing", ![a].left = Tail(@)]

(* getModels() races the introspection against 30 s: it goes on unheard. *)
IntrospectionTimesOut(a) ==
    /\ ask[a].at = "introspecting"
    /\ NextCandidate(a)
    /\ LET e == Head(ask[a].left)
       IN  introspection' = [introspection EXCEPT ![a][e] = [NoTrial EXCEPT !.at = introspection[a][e].at]]
    /\ UNCHANGED <<inputs, refreshes, cache>>

NoCandidateLeft(a) ==
    /\ ask[a].at = "choosing" /\ ask[a].left = <<>>
    /\ IF AnyCached THEN AnswerWith(a, ask[a], cache.models, TRUE)
       ELSE ask' = [ask EXCEPT ![a] = NoAsk]
    /\ UNCHANGED <<inputs, refreshes, cache, introspection>>

-----------------------------------------------------------------------------
(* getIntrospectionWithTimeout *)

Trials(at) == {p \in Askers \X Sources : introspection[p[1]][p[2]].at = at}

SandboxIsMade(a, e) ==
    /\ <<a, e>> \in Trials("creating")
    /\ introspection' = [introspection EXCEPT ![a][e].at = "running"]
    /\ UNCHANGED <<inputs, refreshes, cache, ask>>

(* Resumed, pi found, attached, ready or not within 10 s, and queried. *)
ModelsArrive(a, e) ==
    /\ <<a, e>> \in Trials("running")
    /\ introspection' = [introspection EXCEPT ![a][e].at = "leaving"]
    /\ UNCHANGED <<inputs, refreshes, cache, ask>>

(* The sandbox cannot be made, resumed or attached, has no pi, closes its
   channel, answers an error or nothing within 30 s.                       *)
IntrospectionFails(a, e) ==
    /\ <<a, e>> \in Trials("creating") \cup Trials("running")
    /\ introspection' = [introspection EXCEPT ![a][e] = [NoTrial EXCEPT !.at = "failing"]]
    /\ UNCHANGED <<inputs, refreshes, cache, ask>>

(* finally: the sandbox is terminated before the result is returned, whether or
   not that succeeds; it may also hang for ever, which is never to get here.    *)
TearDown(a, e) ==
    /\ <<a, e>> \in Trials("leaving") \cup Trials("failing")
    /\ introspection' = [introspection EXCEPT ![a][e] = NoTrial]
    /\ IF introspection[a][e].at = "leaving"
       THEN Gives(a, e, [of |-> introspection[a][e].of, from |-> e,
                         stored |-> refreshes, calm |-> introspection[a][e].calm])
       ELSE /\ IF Waiting(a, e) THEN NextCandidate(a) ELSE UNCHANGED ask
            /\ UNCHANGED cache
    /\ UNCHANGED <<inputs, refreshes>>

ModelsNext ==
    \/ InputsChange \/ Refresh
    \/ \E a \in Askers :
        \/ Asks(a) \/ SkipCandidate(a) \/ StartIntrospection(a)
        \/ IntrospectionTimesOut(a) \/ NoCandidateLeft(a)
        \/ \E e \in Sources : SandboxIsMade(a, e) \/ ModelsArrive(a, e)
                              \/ IntrospectionFails(a, e) \/ TearDown(a, e)

ModelsSpec == ModelsInit /\ [][ModelsNext]_modelsVars

-----------------------------------------------------------------------------
(* Types of the variables of routes/models.ts and of its introspections. *)
ModelsTypeOK ==
    /\ inputs \in Inputs
    /\ refreshes \in 0..MaxRefreshes
    /\ cache # NoCache => cache.print \in Inputs /\ cache.models.of \in Inputs
    /\ \A a \in Askers :
        /\ ask[a].at \in {"idle", "choosing", "introspecting", "answered"}
        /\ ask[a].left \in Seq(Sources)
        /\ \A e \in Sources : introspection[a][e].at \in
            {"none", "creating", "running", "leaving", "failing"}

(* The models a request is answered with were stored since the last refresh it
   could know of, and, unless the answer says it is degraded, are those of the
   packages and secrets it came for, or of ones edited while it was looking for
   a sandbox to ask (routes/models.ts takes its fingerprint before it waits).   *)
ServedModelsAreCurrent ==
    \A a \in Askers : ask[a].at = "answered" =>
        /\ ask[a].models.stored >= ask[a].since
        /\ \/ ask[a].degraded
           \/ ask[a].models.of = ask[a].print
           \/ ~ ask[a].models.calm
=============================================================================
