------------------------------- MODULE NativeBridge ----------------------------
(***************************************************************************)
(* The extension of pi by which a device lends its tools: before each turn *)
(* of the agent it asks the device which tools it has, and it calls one by *)
(* a request that the hub takes to the controller.  An answer may be late, *)
(* may come twice, and may come after the request has timed out or the     *)
(* turn was aborted.  pi and the device are external.                      *)
(***************************************************************************)
EXTENDS Naturals, FiniteSets

CONSTANTS
  DeviceTools,   \* tools that a device may have
  MaxRequests    \* requests made (a bound)

ASSUME BridgeAssumption == MaxRequests \in Nat /\ "tools" \notin DeviceTools

VARIABLES
  turn,              \* of the agent: "idle", "asking" for tools, "running"
  request,           \* requests made: what for, how they ended, by which answer
  pendingRequests,   \* those that wait for an answer
  answers,           \* answers that the device gave and that have not come
  registeredToolNames, currentToolNames

bridgeVars == <<turn, request, pendingRequests, answers, registeredToolNames, currentToolNames>>

Ids == 1..MaxRequests
Made == {i \in Ids : request[i].what # {}}
Unmade == [what |-> {}, end |-> "none", by |-> {}]
ToolAnswers == [to : Ids, tools : SUBSET DeviceTools, cancelled : BOOLEAN]
BridgeRequest == [what : SUBSET ({"tools"} \union DeviceTools), by : SUBSET ToolAnswers,
                  end : {"none", "answered", "cancelled", "timeout", "aborted", "lost"}]

BridgeInit ==
  /\ turn = "idle" /\ request = [i \in Ids |-> Unmade]
  /\ pendingRequests = {} /\ answers = {}
  /\ registeredToolNames = {} /\ currentToolNames = {}

(***************************************************************************)
(* sendRequest.  A request that is aborted already is not sent at all.     *)
(***************************************************************************)
SendRequest(what, aborted) ==
  \E i \in Ids :
    /\ i \notin Made /\ \A j \in 1..(i - 1) : j \in Made
    /\ request' = [request EXCEPT ![i] = [what |-> {what}, end |-> IF aborted THEN "aborted" ELSE "none",
                                         by |-> {}]]
    /\ pendingRequests' = IF aborted THEN pendingRequests ELSE pendingRequests \union {i}

(* a tool that pi refuses to register is tried again with the next report *)
RegisterTools(tools) ==
  /\ currentToolNames' = tools
  /\ \E new \in SUBSET (tools \ registeredToolNames) :
       registeredToolNames' = registeredToolNames \union new

(* the request ends; one that asked for tools lets the turn begin *)
Settle(i, end, by, tools) ==
  /\ pendingRequests' = pendingRequests \ {i}
  /\ request' = [request EXCEPT ![i].end = end, ![i].by = by]
  /\ IF request[i].what = {"tools"} THEN turn' = "running" /\ RegisterTools(tools)
     ELSE UNCHANGED <<turn, registeredToolNames, currentToolNames>>

BeforeAgentStart ==
  /\ turn = "idle" /\ turn' = "asking"
  /\ SendRequest("tools", FALSE)
  /\ UNCHANGED <<answers, registeredToolNames, currentToolNames>>

(* what the agent calls is registered; what the device no longer has is refused *)
Execute(t, aborted) ==
  /\ turn = "running" /\ t \in registeredToolNames \cap currentToolNames
  /\ SendRequest(t, aborted)
  /\ UNCHANGED <<turn, answers, registeredToolNames, currentToolNames>>

RequestTimesOut(i) ==
  /\ i \in pendingRequests
  /\ Settle(i, "timeout", {}, {})
  /\ UNCHANGED answers
RequestAborted(i) ==
  /\ i \in pendingRequests /\ request[i].what # {"tools"}
  /\ Settle(i, "aborted", {}, {})
  /\ UNCHANGED answers

(* rl.on("line"): the request that an answer names, if it still waits *)
MeantAlike(a) == {i \in pendingRequests : request[i].what = request[a.to].what}
MeantBy(a) == pendingRequests \cap {a.to}
AnswerComes(a, again) ==
  /\ a \in answers
  /\ answers' = IF again THEN answers ELSE answers \ {a}
  /\ IF MeantBy(a) = {}
     THEN UNCHANGED <<turn, request, pendingRequests, registeredToolNames, currentToolNames>>
     ELSE \E i \in MeantBy(a) :
            IF a.cancelled THEN Settle(i, "cancelled", {a}, {}) ELSE Settle(i, "answered", {a}, a.tools)

(***************************************************************************)
(* pi: a turn ends when no call of it waits, a new pi remembers nothing.   *)
(***************************************************************************)
TurnEnds ==
  /\ turn = "running" /\ pendingRequests = {} /\ turn' = "idle"
  /\ UNCHANGED <<request, pendingRequests, answers, registeredToolNames, currentToolNames>>
PiRestarts ==
  /\ Made # {} /\ turn' = "idle" /\ pendingRequests' = {}
  /\ registeredToolNames' = {} /\ currentToolNames' = {}
  /\ request' = [i \in Ids |-> IF i \in pendingRequests THEN [request[i] EXCEPT !.end = "lost"] ELSE request[i]]
  /\ UNCHANGED answers

(* the device: what it has may change from one answer to the next *)
DeviceAnswers(i) ==
  /\ i \in Made /\ ~\E a \in answers : a.to = i
  /\ \E a \in ToolAnswers : a.to = i /\ (request[i].what # {"tools"} \/ a.cancelled => a.tools = {})
                        /\ answers' = answers \union {a}
  /\ UNCHANGED <<turn, request, pendingRequests, registeredToolNames, currentToolNames>>

BridgeNext ==
  \/ BeforeAgentStart \/ TurnEnds \/ PiRestarts
  \/ \E t \in DeviceTools, aborted \in BOOLEAN : Execute(t, aborted)
  \/ \E i \in Ids : RequestTimesOut(i) \/ RequestAborted(i) \/ DeviceAnswers(i)
  \/ \E a \in answers, again \in BOOLEAN : AnswerComes(a, again)

BridgeSpec == BridgeInit /\ [][BridgeNext]_bridgeVars

BridgeTypeOK ==
  /\ turn \in {"idle", "asking", "running"}
  /\ request \in [Ids -> BridgeRequest]
  /\ pendingRequests = {i \in Made : request[i].end = "none"} /\ answers \subseteq ToolAnswers
  /\ registeredToolNames \subseteq DeviceTools /\ currentToolNames \subseteq DeviceTools

(***************************************************************************)
(* Answers come late, twice and out of order, some after their request was *)
(* given up and another like it was made.  None settles a request but its  *)
(* own, so the tools offered in a turn of the agent are those the device   *)
(* named when it was asked for that turn, or none if it did not say in     *)
(* time: never those of an earlier turn.                                   *)
(***************************************************************************)
AsksForTools == {i \in Made : request[i].what = {"tools"}}
BridgeIsTruthful ==
  /\ \A i \in Made : \A a \in request[i].by : a.to = i
  /\ turn = "running" =>
       \E i \in AsksForTools :
          /\ \A j \in AsksForTools : j <= i
          /\ currentToolNames = UNION {a.tools : a \in request[i].by}
=============================================================================
