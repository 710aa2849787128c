------------------------------ MODULE Composer ------------------------------
(* The model picker of the composer: handleModelChange (chat-input.tsx) calls
   setModel (use-session-events.ts), which shows the model chosen at once, sends
   set_model and then get_state over the session's socket, waits for each answer
   by its id, and puts the previous model back when either fails.  The picker is
   not disabled meanwhile: a second choice may overlap the first.              *)
EXTENDS Naturals, Sequences, SequencesExt

CONSTANTS
    PiModels,      \* models of the session's pi
    BadModels,     \* models of GET /models this pi refuses
    Switches,      \* model choices that may be under way together
    MaxChoices     \* bound: choices in a behaviour

ASSUME ComposerAssumption == PiModels # {} /\ MaxChoices \in Nat

Listed == PiModels \cup BadModels

VARIABLES
    piModel,       \* the model pi uses
    sessionModel,  \* session.currentModel* of the page
    selectedModel, \* what the picker of the composer shows
    switch,        \* the calls of handleModelChange
    toPi, fromPi,  \* commands and answers on their way, in order
    choices,       \* choices so far
    doubtful       \* a switch failed in a way that leaves pi's model unknown

composerVars == <<piModel, sessionModel, selectedModel, switch, toPi, fromPi, choices, doubtful>>

NoSwitch == [at |-> "none", previous |-> "none", selected |-> "none", amid |-> FALSE]

ComposerInit ==
    /\ piModel \in PiModels
    /\ sessionModel = piModel /\ selectedModel = piModel
    /\ switch = [s \in Switches |-> NoSwitch]
    /\ toPi = <<>> /\ fromPi = <<>>
    /\ choices = 0 /\ doubtful = FALSE

Switching == {s \in Switches : switch[s].at # "none"}

(* A change of the session's model is shown by the picker (chat-input.tsx:115). *)
ShowSession(model, otherwise) ==
    /\ sessionModel' = model
    /\ selectedModel' = IF model # sessionModel THEN model ELSE otherwise

ChooseModel(s, model) ==
    /\ s \notin Switching /\ choices < MaxChoices
    /\ \A i \in 1..Len(toPi) : toPi[i].id # s
    /\ \A i \in 1..Len(fromPi) : fromPi[i].id # s
    /\ model # selectedModel
    /\ choices' = choices + 1
    /\ switch' = [switch EXCEPT ![s] = [at |-> "set_model", previous |-> sessionModel,
                                        selected |-> selectedModel, amid |-> Switching # {}]]
    /\ ShowSession(model, model)
    /\ toPi' = Append(toPi, [id |-> s, command |-> "set_model", model |-> model])
    /\ UNCHANGED <<piModel, fromPi, doubtful>>

PiAnswers ==
    /\ toPi # <<>>
    /\ LET asked == Head(toPi)
           taken == asked.command = "set_model" /\ asked.model \in PiModels
       IN  /\ piModel' = IF taken THEN asked.model ELSE piModel
           /\ fromPi' = Append(fromPi, [id |-> asked.id, command |-> asked.command, model |-> piModel',
                                        success |-> taken \/ asked.command = "get_state"])
    /\ toPi' = Tail(toPi)
    /\ UNCHANGED <<sessionModel, selectedModel, switch, choices, doubtful>>

-----------------------------------------------------------------------------
ShowNone(s) == ShowSession("none", "none")
LeaveChosen(s) == UNCHANGED <<sessionModel, selectedModel>>
(* What a switch that fails leaves in the page: what it found there. *)
PutBack(s) == ShowSession(switch[s].previous, switch[s].selected)

(* pi refused: its model is the one the switch found, unless that was another
   switch's own choice.                                                       *)
Refused(s) ==
    /\ PutBack(s)
    /\ switch' = [switch EXCEPT ![s] = NoSwitch]
    /\ doubtful' = (doubtful \/ switch[s].amid)
    /\ UNCHANGED toPi

ModelTaken(s) ==
    /\ switch' = [switch EXCEPT ![s].at = "get_state"]
    /\ toPi' = Append(toPi, [id |-> s, command |-> "get_state", model |-> "none"])
    /\ UNCHANGED <<sessionModel, selectedModel, doubtful>>

SwitchesAreOnTheirWay ==
    \E told \in ToSet(toPi \o fromPi) : told.command = "set_model"

(* The state pi reports last settles what earlier failures left in doubt. *)
StateTold(s, model) ==
    /\ ShowSession(model, selectedModel)
    /\ switch' = [switch EXCEPT ![s] = NoSwitch]
    /\ doubtful' = (doubtful /\ (Switching # {s} \/ SwitchesAreOnTheirWay))
    /\ UNCHANGED toPi

HearAnswer ==
    /\ fromPi # <<>>
    /\ LET heard == Head(fromPi)
           s == heard.id
       IN  IF switch[s].at # heard.command THEN UNCHANGED <<sessionModel, selectedModel, switch, doubtful, toPi>>
           ELSE IF heard.command = "get_state" THEN StateTold(s, heard.model)
           ELSE IF heard.success THEN ModelTaken(s)
           ELSE Refused(s)
    /\ fromPi' = Tail(fromPi)
    /\ UNCHANGED <<piModel, choices>>

(* COMMAND_TIMEOUT_MS passes, or the socket closes, which rejects what waits
   (use-session-events.ts:438): pi may have switched, or may yet.            *)
SwitchTimesOut(s) ==
    /\ s \in Switching
    /\ PutBack(s)
    /\ switch' = [switch EXCEPT ![s] = NoSwitch]
    /\ doubtful' = TRUE
    /\ UNCHANGED <<piModel, toPi, fromPi, choices>>

ComposerNext ==
    \/ PiAnswers \/ HearAnswer
    \/ \E s \in Switches : SwitchTimesOut(s) \/ \E model \in Listed : ChooseModel(s, model)

ComposerSpec == ComposerInit /\ [][ComposerNext]_composerVars

-----------------------------------------------------------------------------
(* Types of the state of the model picker. *)
SwitchCommands == {"set_model", "get_state"}
Switch == [at : SwitchCommands, previous : Listed, selected : Listed, amid : BOOLEAN]

ComposerTypeOK ==
    /\ piModel \in PiModels
    /\ {sessionModel, selectedModel} \subseteq Listed
    /\ switch \in [Switches -> Switch \cup {NoSwitch}]
    /\ toPi \in Seq([id : Switches, command : SwitchCommands, model : Listed \cup {"none"}])
    /\ fromPi \in Seq([id : Switches, command : SwitchCommands, model : PiModels, success : BOOLEAN])
    /\ choices \in 0..MaxChoices /\ doubtful \in BOOLEAN

(* Once no switch is under way, picker and page show the model pi uses, unless a
   switch was refused that began during another, or one timed out: what
   chat-input.tsx and use-session-events.ts put back is then what the switch
   found, which pi may not be using.                                            *)
OnlyDoubtfulSwitchesMislead ==
    Switching = {} /\ ~ doubtful => sessionModel = piModel /\ selectedModel = piModel
=============================================================================
