------------------------- MODULE SessionPartsProofs -------------------------
(***************************************************************************)
(* What an open session is made of beside its hub and its sandbox: the     *)
(* bridge to the tools of a device, the page that follows the session and what *)
(* it makes of the journal, its terminals and its composer.                *)
(***************************************************************************)
EXTENDS NativeBridge, SessionClient, Terminal, Composer, Conversation, SequenceTheorems, FiniteSetTheorems, WellFoundedInduction, TLAPS

-----------------------------------------------------------------------------
(***************************************************************************)
(* Proofs about the bridge to the tools of a device, for any tools and any *)
(* number of requests.  Why a late answer misleads nobody: a turn begins   *)
(* when the request that asked for its tools ends, only one such request   *)
(* waits at a time, and it is the latest there is.                         *)
(***************************************************************************)

(* requests are numbered in the order in which they are made *)
MadeInOrder == \A i \in Made : \A j \in 1..(i - 1) : j \in Made
Latest(i) == i \in AsksForTools /\ \A j \in AsksForTools : j <= i
AskedForThisTurn ==
  /\ turn = "asking" => \E i \in pendingRequests : Latest(i)
  /\ \A i \in pendingRequests : request[i].what = {"tools"} => turn = "asking" /\ Latest(i)
CancelledNamesNone == \A a \in answers : a.cancelled => a.tools = {}
BridgeInv == MadeInOrder /\ AskedForThisTurn /\ CancelledNamesNone /\ BridgeIsTruthful

\* A new request comes after every other.
LEMMA SentIsLast ==
  ASSUME MadeInOrder, NEW i \in Ids, i \notin Made, NEW j \in Made
  PROVE  j < i
<1>1. i \in 1..MaxRequests /\ j \in 1..MaxRequests
  BY DEF Ids, Made
<1>2. ~(i \in 1..(j - 1))
  BY DEF MadeInOrder
<1>3. i # j
  OBVIOUS
<1> QED BY BridgeAssumption, <1>1, <1>2, <1>3

\* What a request that is sent leaves behind.
LEMMA Sent ==
  ASSUME BridgeTypeOK, MadeInOrder, NEW what \in {"tools"} \union DeviceTools, NEW aborted \in BOOLEAN,
         SendRequest(what, aborted)
  PROVE  \E i \in Ids :
           /\ i \notin Made /\ (\A j \in Made : j < i) /\ Made' = Made \union {i} /\ MadeInOrder'
           /\ request'[i] = [what |-> {what}, end |-> IF aborted THEN "aborted" ELSE "none", by |-> {}]
           /\ \A j \in Made : request'[j] = request[j]
           /\ pendingRequests' = IF aborted THEN pendingRequests ELSE pendingRequests \union {i}
           /\ request' \in [Ids -> BridgeRequest]
           /\ pendingRequests' = {j \in Made' : request'[j].end = "none"}
<1>1. PICK i \in Ids : /\ i \notin Made /\ \A j \in 1..(i - 1) : j \in Made
                       /\ request' = [request EXCEPT ![i] = [what |-> {what},
                              end |-> IF aborted THEN "aborted" ELSE "none", by |-> {}]]
                       /\ pendingRequests' = IF aborted THEN pendingRequests ELSE pendingRequests \union {i}
  BY DEF SendRequest
<1>2. /\ request'[i] = [what |-> {what}, end |-> IF aborted THEN "aborted" ELSE "none", by |-> {}]
      /\ \A j \in Ids : j # i => request'[j] = request[j]
  BY <1>1 DEF BridgeTypeOK
<1>3. Made' = Made \union {i}
  BY <1>2 DEF Made
<1>4. \A j \in Made : j < i
  BY <1>1, SentIsLast
<1>5. MadeInOrder'
  BY <1>1, <1>3 DEF MadeInOrder
<1>6. \A j \in Made : j # i /\ request'[j] = request[j]
  BY <1>1, <1>2 DEF Made
<1>7. request' \in [Ids -> BridgeRequest]
  <2>1. [what |-> {what}, end |-> IF aborted THEN "aborted" ELSE "none", by |-> {}]
          \in BridgeRequest
    BY DEF BridgeRequest
  <2> QED BY <1>1, <2>1 DEF BridgeTypeOK
<1>8. pendingRequests' = {j \in Made' : request'[j].end = "none"}
  <2>1. pendingRequests = {j \in Made : request[j].end = "none"}
    BY DEF BridgeTypeOK
  <2> QED BY <1>1, <1>2, <1>3, <1>6, <2>1
<1> QED BY <1>1, <1>2, <1>3, <1>4, <1>5, <1>6, <1>7, <1>8

\* What a request that ends changes: its end, and the answer it ended by.
LEMMA Settled ==
  ASSUME BridgeTypeOK, NEW i \in pendingRequests, NEW end, NEW by, NEW tools, Settle(i, end, by, tools)
  PROVE  /\ Made' = Made /\ \A j \in Ids : request'[j].what = request[j].what
         /\ \A j \in Ids : j # i => request'[j] = request[j]
         /\ request'[i].by = by /\ request'[i].end = end
         /\ pendingRequests' = pendingRequests \ {i}
<1>1. i \in Ids /\ request' = [request EXCEPT ![i].end = end, ![i].by = by]
  BY DEF Settle, BridgeTypeOK, Made
<1>2. /\ \A j \in Ids : j # i => request'[j] = request[j]
      /\ request'[i].by = by /\ request'[i].end = end /\ request'[i].what = request[i].what
  BY <1>1 DEF BridgeTypeOK, BridgeRequest
<1>3. \A j \in Ids : request'[j].what = request[j].what
  BY <1>2
<1>4. Made' = Made
  BY <1>3 DEF Made
<1> QED BY <1>2, <1>3, <1>4 DEF Settle

\* A request that ends leaves the types as they are.
LEMMA SettledTypes ==
  ASSUME BridgeTypeOK, NEW i \in pendingRequests, answers' \subseteq answers,
         NEW end \in {"answered", "cancelled", "timeout", "aborted"},
         NEW by \in SUBSET ToolAnswers, NEW tools \in SUBSET DeviceTools, Settle(i, end, by, tools)
  PROVE  BridgeTypeOK'
<1>1. /\ Made' = Made /\ (\A j \in Ids : j # i => request'[j] = request[j]) /\ request'[i].end = end
      /\ pendingRequests' = pendingRequests \ {i}
  BY Settled
<1>2. i \in Ids /\ request' = [request EXCEPT ![i].end = end, ![i].by = by]
  BY DEF Settle, BridgeTypeOK, Made
<1>3. request' \in [Ids -> BridgeRequest]
  BY ZenonT(40), <1>2 DEF BridgeTypeOK, BridgeRequest
<1>4. pendingRequests' = {j \in Made' : request'[j].end = "none"}
  <2>1. pendingRequests = {j \in Made : request[j].end = "none"} /\ Made \subseteq Ids
    BY DEF BridgeTypeOK, Made
  <2> QED BY <1>1, <2>1
<1>5. turn' \in {"idle", "asking", "running"} /\ registeredToolNames' \subseteq DeviceTools
      /\ currentToolNames' \subseteq DeviceTools
  BY DEF Settle, RegisterTools, BridgeTypeOK
<1> QED BY <1>3, <1>4, <1>5 DEF BridgeTypeOK

\* The state of the bridge is well typed, and what waits has not ended.
THEOREM BridgeTypeCorrect == BridgeSpec => [](BridgeTypeOK /\ MadeInOrder)
<1>1. BridgeInit => BridgeTypeOK /\ MadeInOrder
  <2> SUFFICES ASSUME BridgeInit PROVE BridgeTypeOK /\ MadeInOrder
    OBVIOUS
  <2>1. Made = {}
    BY DEF BridgeInit, Made, Unmade
  <2>2. Unmade \in BridgeRequest
    BY DEF Unmade, BridgeRequest
  <2> QED BY <2>1, <2>2 DEF BridgeInit, BridgeTypeOK, MadeInOrder
<1>2. BridgeTypeOK /\ MadeInOrder /\ [BridgeNext]_bridgeVars => BridgeTypeOK' /\ MadeInOrder'
  <2> SUFFICES ASSUME BridgeTypeOK, MadeInOrder, [BridgeNext]_bridgeVars
               PROVE  BridgeTypeOK' /\ MadeInOrder'
    OBVIOUS
  <2>1. CASE BeforeAgentStart
    <3>1. /\ MadeInOrder' /\ pendingRequests' = {j \in Made' : request'[j].end = "none"}
          /\ request' \in [Ids -> BridgeRequest]
      BY <2>1, Sent DEF BeforeAgentStart
    <3> QED BY <2>1, <3>1 DEF BeforeAgentStart, BridgeTypeOK
  <2>2. ASSUME NEW t \in DeviceTools, NEW aborted \in BOOLEAN, Execute(t, aborted)
        PROVE  BridgeTypeOK' /\ MadeInOrder'
    <3>1. /\ MadeInOrder' /\ pendingRequests' = {j \in Made' : request'[j].end = "none"}
          /\ request' \in [Ids -> BridgeRequest]
      BY <2>2, Sent DEF Execute
    <3> QED BY <2>2, <3>1 DEF Execute, BridgeTypeOK
  <2>3. ASSUME NEW i \in pendingRequests, NEW end \in {"answered", "cancelled", "timeout", "aborted"},
               NEW by \in SUBSET ToolAnswers, NEW tools \in SUBSET DeviceTools,
               Settle(i, end, by, tools), answers' \subseteq answers
        PROVE  BridgeTypeOK' /\ MadeInOrder'
    <3>1. BridgeTypeOK'
      BY <2>3, SettledTypes
    <3>2. Made' = Made
      BY <2>3, Settled
    <3> QED BY <3>1, <3>2 DEF MadeInOrder
  <2>4. ASSUME NEW i \in Ids, RequestTimesOut(i) PROVE BridgeTypeOK' /\ MadeInOrder'
    BY <2>3, <2>4 DEF RequestTimesOut
  <2>5. ASSUME NEW i \in Ids, RequestAborted(i) PROVE BridgeTypeOK' /\ MadeInOrder'
    BY <2>3, <2>5 DEF RequestAborted
  <2>6. ASSUME NEW i \in Ids, DeviceAnswers(i) PROVE BridgeTypeOK' /\ MadeInOrder'
    BY <2>6 DEF DeviceAnswers, BridgeTypeOK, MadeInOrder, Made
  <2>7. ASSUME NEW a \in answers, NEW again \in BOOLEAN, AnswerComes(a, again)
        PROVE  BridgeTypeOK' /\ MadeInOrder'
    <3>1. CASE MeantBy(a) = {}
      BY <2>7, <3>1 DEF AnswerComes, BridgeTypeOK, MadeInOrder, Made
    <3>2. CASE MeantBy(a) # {}
      <4>1. a \in ToolAnswers /\ {a} \in SUBSET ToolAnswers /\ a.tools \in SUBSET DeviceTools
        BY DEF BridgeTypeOK, ToolAnswers
      <4>2. PICK i \in MeantBy(a) :
              IF a.cancelled THEN Settle(i, "cancelled", {a}, {}) ELSE Settle(i, "answered", {a}, a.tools)
        BY <2>7, <3>2 DEF AnswerComes
      <4>3. i \in pendingRequests /\ answers' \subseteq answers
        BY <2>7 DEF AnswerComes, MeantBy
      <4>4. CASE a.cancelled
        BY <2>3, <4>1, <4>2, <4>3, <4>4
      <4>5. CASE ~a.cancelled
        BY <2>3, <4>1, <4>2, <4>3, <4>5
      <4> QED BY <4>4, <4>5
    <3> QED BY <3>1, <3>2
  <2>8. CASE TurnEnds
    BY <2>8 DEF TurnEnds, BridgeTypeOK, MadeInOrder, Made
  <2>9. CASE PiRestarts
    <3>1. request' = [i \in Ids |-> IF i \in pendingRequests THEN [request[i] EXCEPT !.end = "lost"]
                                    ELSE request[i]]
      BY <2>9 DEF PiRestarts
    <3>2. \A i \in Ids : request'[i].what = request[i].what
      BY <3>1 DEF BridgeTypeOK, BridgeRequest
    <3>3. Made' = Made
      BY <3>2 DEF Made
    <3>4. request' \in [Ids -> BridgeRequest]
      BY <3>1 DEF BridgeTypeOK, BridgeRequest
    <3>5. \A i \in Made : request'[i].end # "none"
      BY <3>1 DEF BridgeTypeOK, BridgeRequest, Made
    <3> QED BY <2>9, <3>3, <3>4, <3>5 DEF PiRestarts, BridgeTypeOK, MadeInOrder
  <2>10. CASE UNCHANGED bridgeVars
    BY <2>10 DEF bridgeVars, BridgeTypeOK, MadeInOrder, Made
  <2> QED BY <2>1, <2>2, <2>4, <2>5, <2>6, <2>7, <2>8, <2>9, <2>10 DEF BridgeNext
<1> QED BY <1>1, <1>2, PTL DEF BridgeSpec

\* A request that ends while its turn waits for it is the latest of its
\* kind, and what it ended by is what the turn is offered.
LEMMA SettledIsTruthful ==
  ASSUME BridgeTypeOK, BridgeInv, NEW i \in pendingRequests, NEW end, NEW tools,
         NEW by \in SUBSET answers, \A a \in by : a.to = i, tools = UNION {a.tools : a \in by},
         answers' \subseteq answers, Settle(i, end, by, tools)
  PROVE  BridgeInv'
<1>1. /\ Made' = Made /\ \A j \in Ids : request'[j].what = request[j].what
      /\ \A j \in Ids : j # i => request'[j] = request[j]
      /\ request'[i].by = by
      /\ pendingRequests' = pendingRequests \ {i}
  BY Settled
<1>2. Made \subseteq Ids /\ pendingRequests \subseteq Made /\ Ids \subseteq Nat
  BY BridgeAssumption DEF Made, BridgeTypeOK, Ids
<1>3. AsksForTools' = AsksForTools
  BY <1>1, <1>2 DEF AsksForTools
<1>4. MadeInOrder' /\ CancelledNamesNone'
  BY <1>1 DEF BridgeInv, MadeInOrder, CancelledNamesNone
<1>5. \A j \in Made' : \A a \in request'[j].by : a.to = j
  BY <1>1, <1>2 DEF BridgeInv, BridgeIsTruthful
<1>6. CASE request[i].what = {"tools"}
  <2>1. Latest(i) /\ turn' = "running" /\ currentToolNames' = tools
    BY <1>6 DEF BridgeInv, AskedForThisTurn, Settle, RegisterTools
  <2>2. BridgeIsTruthful'
    <3>1. i \in AsksForTools' /\ \A j \in AsksForTools' : j <= i
      BY <1>3, <2>1 DEF Latest
    <3>2. currentToolNames' = UNION {a.tools : a \in request'[i].by}
      BY <1>1, <2>1
    <3> QED BY <1>5, <3>1, <3>2 DEF BridgeIsTruthful
  <2>3. \A j \in pendingRequests' : request'[j].what # {"tools"}
    <3> SUFFICES ASSUME NEW j \in pendingRequests', request'[j].what = {"tools"}
                 PROVE  FALSE
      OBVIOUS
    <3>1. j \in pendingRequests /\ j # i /\ request[j].what = {"tools"}
      BY <1>1, <1>2
    <3>2. Latest(j)
      BY <3>1 DEF BridgeInv, AskedForThisTurn
    <3>3. i <= j /\ j <= i
      BY <2>1, <3>2 DEF Latest
    <3>4. i \in Nat /\ j \in Nat
      BY <1>2, <3>1
    <3> QED BY <3>1, <3>3, <3>4
  <2> QED BY <1>4, <2>1, <2>2, <2>3 DEF BridgeInv, AskedForThisTurn
<1>7. CASE request[i].what # {"tools"}
  <2>1. UNCHANGED <<turn, currentToolNames>> /\ i \notin AsksForTools
    BY <1>7 DEF Settle, AsksForTools
  <2>2. BridgeIsTruthful'
    <3>1. \A j \in AsksForTools : request'[j].by = request[j].by
      BY <1>1, <1>2, <2>1 DEF AsksForTools
    <3> QED BY <1>3, <1>5, <2>1, <3>1 DEF BridgeInv, BridgeIsTruthful
  <2>3. \A j \in Made : Latest(j)' <=> Latest(j)
    BY <1>3 DEF Latest
  <2>4. AskedForThisTurn'
    BY <1>1, <1>2, <2>1, <2>3 DEF BridgeInv, AskedForThisTurn, Latest
  <2> QED BY <1>4, <2>2, <2>4 DEF BridgeInv
<1> QED BY <1>6, <1>7

\* The tools offered in a turn of the agent are those the device named when
\* it was asked for that turn, however late, often and out of order its
\* answers come (extension.ts: before_agent_start, the reader of answers).
THEOREM BridgeTruth == BridgeSpec => []BridgeIsTruthful
<1>1. BridgeInit => BridgeInv
  <2> SUFFICES ASSUME BridgeInit PROVE BridgeInv
    OBVIOUS
  <2>1. Made = {}
    BY DEF BridgeInit, Made, Unmade
  <2> QED BY <2>1 DEF BridgeInit, BridgeInv, MadeInOrder, AskedForThisTurn, CancelledNamesNone,
                      BridgeIsTruthful
<1>2. BridgeTypeOK /\ BridgeInv /\ [BridgeNext]_bridgeVars => BridgeInv'
  <2> SUFFICES ASSUME BridgeTypeOK, BridgeInv, [BridgeNext]_bridgeVars
               PROVE  BridgeInv'
    OBVIOUS
  <2>a. MadeInOrder /\ Made \subseteq Ids /\ pendingRequests \subseteq Made /\ Ids \subseteq Nat
    BY BridgeAssumption DEF BridgeInv, Made, BridgeTypeOK, Ids
  <2>1. CASE BeforeAgentStart
    <3>1. PICK i \in Ids :
            /\ i \notin Made /\ (\A j \in Made : j < i) /\ Made' = Made \union {i} /\ MadeInOrder'
            /\ request'[i] = [what |-> {"tools"}, end |-> "none", by |-> {}]
            /\ \A j \in Made : request'[j] = request[j]
            /\ pendingRequests' = pendingRequests \union {i}
      BY <2>1, <2>a, Sent DEF BeforeAgentStart
    <3>2. Latest(i)'
      BY <2>a, <3>1 DEF Latest, AsksForTools
    <3>3. \A j \in pendingRequests : request[j].what # {"tools"}
      BY <2>1 DEF BeforeAgentStart, BridgeInv, AskedForThisTurn
    <3>4. AskedForThisTurn'
      BY <2>1, <2>a, <3>1, <3>2, <3>3 DEF BeforeAgentStart, AskedForThisTurn
    <3>5. BridgeIsTruthful' /\ CancelledNamesNone'
      BY <2>1, <3>1 DEF BeforeAgentStart, BridgeInv, BridgeIsTruthful, CancelledNamesNone
    <3> QED BY <3>1, <3>4, <3>5 DEF BridgeInv
  <2>2. ASSUME NEW t \in DeviceTools, NEW aborted \in BOOLEAN, Execute(t, aborted)
        PROVE  BridgeInv'
    <3>1. PICK i \in Ids :
            /\ i \notin Made /\ (\A j \in Made : j < i) /\ Made' = Made \union {i} /\ MadeInOrder'
            /\ request'[i] = [what |-> {t}, end |-> IF aborted THEN "aborted" ELSE "none", by |-> {}]
            /\ \A j \in Made : request'[j] = request[j]
            /\ pendingRequests' = IF aborted THEN pendingRequests ELSE pendingRequests \union {i}
      BY <2>2, <2>a, Sent DEF Execute
    <3>2. {t} # {"tools"}
      BY BridgeAssumption
    <3>3. AsksForTools' = AsksForTools
      BY <3>1, <3>2 DEF AsksForTools
    <3>4. /\ UNCHANGED <<turn, currentToolNames, answers>> /\ turn = "running"
          /\ \A j \in AsksForTools : request'[j] = request[j]
      BY <2>2, <3>1 DEF Execute, AsksForTools
    <3>5. BridgeIsTruthful' /\ CancelledNamesNone'
      BY <3>1, <3>3, <3>4 DEF BridgeInv, BridgeIsTruthful, CancelledNamesNone
    <3>6. AskedForThisTurn'
      BY <2>a, <3>1, <3>2, <3>4 DEF BridgeInv, AskedForThisTurn
    <3> QED BY <3>1, <3>5, <3>6 DEF BridgeInv
  <2>3. ASSUME NEW i \in Ids, RequestTimesOut(i) PROVE BridgeInv'
    <3>1. {} = UNION {a.tools : a \in {}}
      OBVIOUS
    <3> QED BY <2>3, <3>1, SettledIsTruthful DEF RequestTimesOut
  <2>4. ASSUME NEW i \in Ids, RequestAborted(i) PROVE BridgeInv'
    <3>1. {} = UNION {a.tools : a \in {}}
      OBVIOUS
    <3> QED BY <2>4, <3>1, SettledIsTruthful DEF RequestAborted
  <2>5. ASSUME NEW i \in Ids, DeviceAnswers(i) PROVE BridgeInv'
    <3>1. UNCHANGED <<turn, request, pendingRequests, registeredToolNames, currentToolNames>>
      BY <2>5 DEF DeviceAnswers
    <3>2. CancelledNamesNone'
      BY <2>5 DEF DeviceAnswers, BridgeInv, CancelledNamesNone
    <3> QED BY <3>1, <3>2 DEF BridgeInv, MadeInOrder, AskedForThisTurn, BridgeIsTruthful, Latest,
                              AsksForTools, Made
  <2>6. ASSUME NEW a \in answers, NEW again \in BOOLEAN, AnswerComes(a, again)
        PROVE  BridgeInv'
    <3>1. answers' \subseteq answers
      BY <2>6 DEF AnswerComes
    <3>2. CASE MeantBy(a) = {}
      <4>1. UNCHANGED <<turn, request, pendingRequests, registeredToolNames, currentToolNames>>
        BY <2>6, <3>2 DEF AnswerComes
      <4> QED BY <3>1, <4>1 DEF BridgeInv, MadeInOrder, AskedForThisTurn, BridgeIsTruthful, Latest,
                                AsksForTools, Made, CancelledNamesNone
    <3>3. CASE MeantBy(a) # {}
      <4>1. PICK i \in MeantBy(a) :
              IF a.cancelled THEN Settle(i, "cancelled", {a}, {}) ELSE Settle(i, "answered", {a}, a.tools)
        BY <2>6, <3>3 DEF AnswerComes
      <4>2. i \in pendingRequests /\ a.to = i /\ {a} \in SUBSET answers
        BY DEF MeantBy
      <4>3. a.tools = UNION {b.tools : b \in {a}}
        OBVIOUS
      <4>4. CASE a.cancelled
        <5>1. {} = UNION {b.tools : b \in {a}}
          BY <4>3, <4>4 DEF BridgeInv, CancelledNamesNone
        <5> QED BY <3>1, <4>1, <4>2, <4>4, <5>1, SettledIsTruthful
      <4>5. CASE ~a.cancelled
        BY <3>1, <4>1, <4>2, <4>3, <4>5, SettledIsTruthful
      <4> QED BY <4>4, <4>5
    <3> QED BY <3>2, <3>3
  <2>7. CASE TurnEnds
    BY <2>7 DEF TurnEnds, BridgeInv, MadeInOrder, AskedForThisTurn, BridgeIsTruthful, Latest,
                AsksForTools, Made, CancelledNamesNone
  <2>8. CASE PiRestarts
    <3>1. request' = [i \in Ids |-> IF i \in pendingRequests THEN [request[i] EXCEPT !.end = "lost"]
                                    ELSE request[i]]
      BY <2>8 DEF PiRestarts
    <3>2. \A i \in Ids : request'[i].what = request[i].what /\ request'[i].by = request[i].by
      BY <3>1 DEF BridgeTypeOK, BridgeRequest
    <3>3. Made' = Made
      BY <3>2 DEF Made
    <3> QED BY <2>8, <2>a, <3>2, <3>3 DEF PiRestarts, BridgeInv, MadeInOrder, AskedForThisTurn,
                                          BridgeIsTruthful, CancelledNamesNone
  <2>9. CASE UNCHANGED bridgeVars
    BY <2>9 DEF bridgeVars, BridgeInv, MadeInOrder, AskedForThisTurn, BridgeIsTruthful, Latest,
                AsksForTools, Made, CancelledNamesNone
  <2> QED BY <2>1, <2>2, <2>3, <2>4, <2>5, <2>6, <2>7, <2>8, <2>9 DEF BridgeNext
<1>3. BridgeInv => BridgeIsTruthful
  BY DEF BridgeInv
<1> QED BY <1>1, <1>2, <1>3, BridgeTypeCorrect, PTL DEF BridgeSpec

-----------------------------------------------------------------------------
(***************************************************************************)
(* The page that follows a session, for any number of dials and events:    *)
(* its types, that the initial prompt goes once, what a page that is left  *)
(* leaves behind (LeftAlone), and that it misses nothing (Following).      *)
(***************************************************************************)

DialStates == {"none", "activating", "capping", "failed", "fetching", "dialing",
               "open", "welcomed", "closing", "closed"}
Message ==
  [type : {"connected"}, seq : Nat] \union [type : {"event"}, content : Nat]
    \union [type : {"state"}, probe : Dials] \union [type : {"close"}, code : {1000, 1006}]

PageTypes ==
  /\ mounted \in BOOLEAN /\ modeKnown \in BOOLEAN /\ wsReady \in BOOLEAN /\ timer \in BOOLEAN
  /\ wsRef \in Dials \union {NoDial} /\ probing \in Dials \union {NoDial}
  /\ lastSeq \in Nat /\ firsts \in {0, 1}
DialTypes ==
  /\ dial \in [Dials -> DialStates] /\ from \in [Dials -> Nat] /\ inbox \in [Dials -> Seq(Message)]
RelayTypes ==
  /\ journal \in Seq(Nat) /\ registered \in Dials \union {NoDial} /\ capable \in BOOLEAN
  /\ asked \subseteq Dials /\ made \in Nat /\ told \subseteq Nat
ClientTypes == PageTypes /\ DialTypes /\ RelayTypes /\ loose \in BOOLEAN /\ strayed \in BOOLEAN

\* A set of numbers that is not empty has a least one.
LEMMA LeastNumber ==
  ASSUME NEW S \in SUBSET Nat, S # {}
  PROVE  Min(S) \in S /\ \A y \in S : Min(S) <= y
<1> DEFINE R == OpToRel(<, Nat)
<1>1. \E x \in S : \A y \in S : ~(<<y, x>> \in R)
  <2>1. IsWellFoundedOn(R, Nat)
    BY NatLessThanWellFounded
  <2> HIDE DEF R
  <2> QED BY <2>1, WFMin
<1>2. PICK x \in S : \A y \in S : ~(<<y, x>> \in R)
  BY <1>1
<1>3. \A y \in S : x <= y
  <2> SUFFICES ASSUME NEW y \in S, ~(x <= y) PROVE FALSE
    OBVIOUS
  <2>1. y < x /\ <<y, x>> \in Nat \X Nat
    OBVIOUS
  <2>2. <<y, x>> \in R
    BY <2>1 DEF OpToRel
  <2> QED BY <1>2, <2>2
<1> QED BY <1>3 DEF Min

\* Dials are numbered from 1.
LEMMA DialsAreNumbers == Dials \subseteq Nat /\ NoDial \notin Dials /\ 1 \in Dials
BY ClientBounds DEF Dials, NoDial

(* A dial begins, if there is one left: it had not been begun before. *)
Begun(old) ==
  \/ dial' = old
  \/ \E d \in Dials : dial[d] = "none" /\ dial' = [old EXCEPT ![d] = "activating"]

\* connectWebSocket takes a dial that was never used.
LEMMA OneMoreDial ==
  ASSUME NEW old, Begin(old)
  PROVE  Begun(old)
<1> DEFINE unused == {d \in Dials : dial[d] = "none"}
<1>1. CASE unused = {}
  BY <1>1 DEF Begin, Begun
<1>2. CASE unused # {}
  <2>1. unused \in SUBSET Nat
    BY DialsAreNumbers
  <2>2. Min(unused) \in unused
    <3> HIDE DEF unused
    <3> QED BY <1>2, <2>1, LeastNumber
  <2>3. dial' = [old EXCEPT ![Min(unused)] = "activating"]
    BY <1>2 DEF Begin
  <2> QED BY <2>2, <2>3 DEF Begun
<1> QED BY <1>1, <1>2

\* What hanging up does to dials and to what the browser reports of them.
LEMMA HungUp ==
  ASSUME DialTypes
  PROVE  /\ HangUp \in [Dials -> DialStates]
         /\ [d \in Dials |-> CutOff(d)] \in [Dials -> Seq(Message)]
         /\ \A d \in Dials :
              \/ HangUp[d] = dial[d] /\ CutOff(d) = inbox[d]
              \/ d = wsRef /\ dial[d] = "dialing" /\ HangUp[d] = "closed" /\ CutOff(d) = <<Closing(1006)>>
              \/ d = wsRef /\ dial[d] \in Opened /\ HangUp[d] = "closing" /\ CutOff(d) = <<>>
<1>1. \A d \in Dials : HangUp[d] \in DialStates
  BY DEF HangUp, DialTypes, DialStates, Opened
<1>2. Closing(1006) \in Message
  BY DEF Closing, Message
<1>3. \A d \in Dials : CutOff(d) \in Seq(Message)
  BY <1>2 DEF CutOff, DialTypes
<1>4. HangUp \in [Dials -> DialStates]
  BY <1>1 DEF HangUp
<1>5. [d \in Dials |-> CutOff(d)] \in [Dials -> Seq(Message)]
  BY <1>3
<1>6. ASSUME NEW d \in Dials
      PROVE  \/ HangUp[d] = dial[d] /\ CutOff(d) = inbox[d]
             \/ d = wsRef /\ dial[d] = "dialing" /\ HangUp[d] = "closed" /\ CutOff(d) = <<Closing(1006)>>
             \/ d = wsRef /\ dial[d] \in Opened /\ HangUp[d] = "closing" /\ CutOff(d) = <<>>
  <2>1. CASE d # wsRef
    BY <2>1 DEF HangUp, CutOff
  <2>2. CASE d = wsRef /\ dial[d] = "dialing"
    BY <2>2 DEF HangUp, CutOff
  <2>3. CASE d = wsRef /\ dial[d] \in Opened
    BY <2>3 DEF HangUp, CutOff, Opened
  <2>4. CASE d = wsRef /\ dial[d] \notin {"dialing"} \union Opened
    BY <2>4 DEF HangUp, CutOff
  <2> QED BY <2>1, <2>2, <2>3, <2>4
<1> QED BY <1>4, <1>5, <1>6

\* What is posted keeps its type, and reaches the registered socket alone.
LEMMA Posted ==
  ASSUME DialTypes, NEW messages \in Seq(Message)
  PROVE  /\ Post(messages) \in [Dials -> Seq(Message)]
         /\ \A d \in Dials :
              \/ Post(messages)[d] = inbox[d] /\ (d # registered \/ dial[d] \notin Opened)
              \/ d = registered /\ dial[d] \in Opened /\ Post(messages)[d] = inbox[d] \o messages
<1>1. \A d \in Dials : inbox[d] \o messages \in Seq(Message)
  BY DEF DialTypes
<1>2. CASE registered \in Dials
  BY <1>1, <1>2, DialsAreNumbers DEF Post, DialTypes
<1>3. CASE registered \notin Dials
  BY <1>3 DEF Post, DialTypes
<1> QED BY <1>2, <1>3

\* A reading of the head leaves the rest of a socket's mail.
LEMMA HeardTypes ==
  ASSUME DialTypes, NEW d \in Dials, inbox[d] # <<>>, Heard(d)
  PROVE  /\ inbox' \in [Dials -> Seq(Message)]
         /\ Head(inbox[d]) \in Message
BY DEF DialTypes, Heard

\* What the page sends reaches the journal, and is asked of a dial.
LEMMA SentTypes ==
  ASSUME ClientTypes, NEW what \in Nat, Send(what), wsRef # NoDial
  PROVE  asked' \subseteq Dials /\ journal' \in Seq(Nat)
BY DEF ClientTypes, PageTypes, RelayTypes, Send

\* A dial that begins is one of the dials.
LEMMA BegunTypes ==
  ASSUME NEW old \in [Dials -> DialStates], Begun(old)
  PROVE  dial' \in [Dials -> DialStates]
BY DEF Begun, DialStates

\* What the flush of the queue sends keeps the types.
LEMMA FlushTypes ==
  ASSUME ClientTypes, FlushPendingInitialPrompt
  PROVE  /\ probing' = NoDial /\ asked' \subseteq Dials /\ journal' \in Seq(Nat)
         /\ lastSeq' \in Nat /\ firsts' \in {0, 1}
<1>1. InitialPrompt \in Nat
  BY ClientBounds DEF InitialPrompt
<1>2. CASE PromptPending /\ CanSend
  <2>1. Send(InitialPrompt) /\ wsRef # NoDial /\ lastSeq' = lastSeq + 1 /\ firsts' = firsts + 1
    BY <1>2 DEF FlushPendingInitialPrompt, SendPrompt, CanSend
  <2>2. firsts = 0
    BY <1>2 DEF PromptPending
  <2> QED BY <1>1, <2>1, <2>2, SentTypes DEF ClientTypes, PageTypes, FlushPendingInitialPrompt
<1>3. CASE ~(PromptPending /\ CanSend)
  BY <1>3 DEF FlushPendingInitialPrompt, ClientTypes, PageTypes, RelayTypes
<1> QED BY <1>2, <1>3

(* The steps that write neither dials nor mail, and those that hear, apart. *)
LEMMA TypesInit == ClientInit => ClientTypes
<1> SUFFICES ASSUME ClientInit PROVE ClientTypes
  OBVIOUS
<1>1. PageTypes
  BY DEF ClientInit, PageTypes
<1>2. DialTypes
  <2>1. <<>> \in Seq(Message)
    OBVIOUS
  <2> HIDE DEF Message
  <2>2. inbox \in [Dials -> Seq(Message)]
    BY <2>1 DEF ClientInit
  <2> QED BY <2>2 DEF ClientInit, DialTypes, DialStates
<1>3. RelayTypes
  <2>1. <<>> \in Seq(Nat)
    OBVIOUS
  <2> QED BY <2>1 DEF ClientInit, RelayTypes
<1> QED BY <1>1, <1>2, <1>3 DEF ClientInit, ClientTypes

\* Every step of the page, of the browser and of the relay keeps the types.
LEMMA TypesStep == ClientTypes /\ [ClientNext]_clientVars => ClientTypes'
<1> SUFFICES ASSUME ClientTypes, [ClientNext]_clientVars PROVE ClientTypes'
  OBVIOUS
<1> USE DEF ClientTypes
<1>a. DialTypes
  OBVIOUS
<1>1. CASE SessionLoads
  <2>1. Begun(HangUp) /\ HangUp \in [Dials -> DialStates] /\ inbox' \in [Dials -> Seq(Message)]
    BY <1>1, <1>a, OneMoreDial, HungUp DEF SessionLoads
  <2>2. dial' \in [Dials -> DialStates]
    BY <2>1, BegunTypes
  <2> QED BY <1>1, <2>1, <2>2 DEF SessionLoads, PageTypes, DialTypes, RelayTypes, relay_, seen_
<1>2. CASE LeavePage
  <2>1. dial' \in [Dials -> DialStates] /\ inbox' \in [Dials -> Seq(Message)]
    BY <1>2, <1>a, HungUp DEF LeavePage
  <2> QED BY <1>2, <2>1 DEF LeavePage, PageTypes, DialTypes, RelayTypes, relay_
<1>3. CASE Reconnect
  <2>1. dial' \in [Dials -> DialStates]
    BY <1>3, OneMoreDial, BegunTypes DEF Reconnect, DialTypes
  <2> QED BY <1>3, <2>1 DEF Reconnect, PageTypes, DialTypes, RelayTypes, relay_, seen_
<1>4. CASE Type
  <2>1. made' \in Nat /\ Send(made') /\ wsRef # NoDial /\ lastSeq' = lastSeq + 1
    BY <1>4 DEF Type, SendPrompt, CanSend, RelayTypes
  <2>2. asked' \subseteq Dials /\ journal' \in Seq(Nat)
    BY <2>1, SentTypes
  <2> QED BY <1>4, <2>1, <2>2 DEF Type, PageTypes, DialTypes, RelayTypes, seen_
<1>5. CASE SandboxSays
  <2>1. made' \in Nat /\ <<Event(made')>> \in Seq(Message)
    BY <1>5 DEF SandboxSays, RelayTypes, Event, Message
  <2>2. inbox' \in [Dials -> Seq(Message)]
    BY <1>5, <1>a, <2>1, Posted DEF SandboxSays
  <2>3. PageTypes' /\ DialTypes'
    BY <1>5, <2>2 DEF SandboxSays, PageTypes, DialTypes, page_
  <2>4. RelayTypes'
    BY <1>5, <2>1 DEF SandboxSays, RelayTypes
  <2> QED BY <1>5, <2>3, <2>4 DEF SandboxSays, seen_
<1>6. CASE SandboxAnswers
  <2>1. PICK probe \in asked :
          /\ asked' = asked \ {probe} /\ journal' = Append(journal, Probe)
          /\ inbox' = Post(<<[type |-> "state", probe |-> probe]>>)
          /\ UNCHANGED <<page_, dial, from, registered, capable, made, told, seen_>>
    BY <1>6 DEF SandboxAnswers
  <2>2. <<[type |-> "state", probe |-> probe]>> \in Seq(Message)
    BY DEF RelayTypes, Message
  <2>3. inbox' \in [Dials -> Seq(Message)]
    BY <1>a, <2>1, <2>2, Posted
  <2>4. PageTypes' /\ DialTypes'
    BY <2>1, <2>3 DEF PageTypes, DialTypes, page_
  <2>5. RelayTypes'
    BY <2>1 DEF RelayTypes, Probe
  <2> QED BY <2>1, <2>4, <2>5 DEF seen_
<1>7. CASE OthersPrompt
  BY SMTT(20), <1>7 DEF OthersPrompt, PageTypes, DialTypes, RelayTypes, page_, dials_, seen_
<1>8. ASSUME NEW d \in Dials, ActivateAnswers(d) PROVE ClientTypes'
  <2>1. from' \in [Dials -> Nat] /\ dial' \in [Dials -> DialStates]
    <3>1. Len(journal) \in Nat
      BY DEF RelayTypes
    <3> QED BY <1>8, <3>1 DEF ActivateAnswers, Step, DialTypes, DialStates
  <2> QED BY <1>8, <2>1 DEF ActivateAnswers, PageTypes, DialTypes, RelayTypes, page_, relay_, seen_
<1>9. ASSUME NEW d \in Dials, CapabilitiesAnswer(d) PROVE ClientTypes'
  BY <1>9 DEF CapabilitiesAnswer, Step, Larger, PageTypes, DialTypes, RelayTypes, DialStates, page_, seen_
<1>10. ASSUME NEW d \in Dials, EventsAnswer(d) PROVE ClientTypes'
  BY <1>10 DEF EventsAnswer, Step, PageTypes, DialTypes, RelayTypes, DialStates, relay_
<1>11. ASSUME NEW d \in Dials, SocketOpens(d) PROVE ClientTypes'
  BY <1>11 DEF SocketOpens, Step, PageTypes, DialTypes, RelayTypes, DialStates, page_, seen_
<1>12. ASSUME NEW d \in Dials, Welcome(d) PROVE ClientTypes'
  <2> DEFINE greeting == <<[type |-> "connected", seq |-> Len(journal)]>>
                         \o [i \in DOMAIN Replay(d) |-> Event(Replay(d)[i])]
  <2>1. Replay(d) \in Seq(Nat)
    BY DEF Replay, RelayTypes, DialTypes
  <2>2. [i \in DOMAIN Replay(d) |-> Event(Replay(d)[i])] \in Seq(Message)
    <3> HIDE DEF ClientTypes
    <3>1. PICK n \in Nat : DOMAIN Replay(d) = 1 .. n
      BY <2>1
    <3>2. \A i \in 1 .. n : Event(Replay(d)[i]) \in Message
      BY <2>1, <3>1 DEF Event, Message
    <3>3. [i \in 1 .. n |-> Event(Replay(d)[i])] \in [1 .. n -> Message]
      BY <3>2
    <3> QED BY <3>1, <3>3
  <2>3. [type |-> "connected", seq |-> Len(journal)] \in Message
    BY DEF RelayTypes, Message
  <2>4. greeting \in Seq(Message)
    <3> HIDE DEF ClientTypes
    <3> QED BY <2>2, <2>3
  <2>5. inbox' \in [Dials -> Seq(Message)]
    <3>1. inbox' = Post(greeting)
      BY <1>12 DEF Welcome
    <3> HIDE DEF greeting
    <3> QED BY <1>a, <2>4, <3>1, Posted
  <2> QED BY ZenonT(40), <1>12, <2>5 DEF Welcome, Step, PageTypes, DialTypes, RelayTypes, DialStates, page_, relay_
<1>13. ASSUME NEW d \in Dials, SocketEnds(d) PROVE ClientTypes'
  <2>1. Closing(IF dial[d] = "closing" THEN 1000 ELSE 1006) \in Message
    BY DEF Closing, Message
  <2>2. inbox' \in [Dials -> Seq(Message)]
    BY <1>13, <2>1 DEF SocketEnds, DialTypes
  <2> QED BY <1>13, <2>2 DEF SocketEnds, Step, PageTypes, DialTypes, RelayTypes, DialStates, page_, seen_
<1>14. ASSUME NEW d \in Dials, HearConnected(d) PROVE ClientTypes'
  <2>1. inbox' \in [Dials -> Seq(Message)] /\ Head(inbox[d]) \in Message /\ Head(inbox[d]).type = "connected"
    BY <1>14, <1>a, HeardTypes DEF HearConnected, Hear
  <2>2. lastSeq' \in Nat
    BY <1>14, <2>1 DEF HearConnected, Message
  <2>3. probing' \in Dials \union {NoDial} /\ asked' \subseteq Dials /\ journal' \in Seq(Nat)
    <3>1. CASE PromptPending /\ wsRef # NoDial /\ dial[wsRef] # "dialing"
      BY <1>14, <3>1, SentTypes DEF HearConnected, PageTypes, Probe
    <3>2. CASE ~(PromptPending /\ wsRef # NoDial /\ dial[wsRef] # "dialing")
      BY <1>14, <3>2 DEF HearConnected, PageTypes, RelayTypes
    <3> QED BY <3>1, <3>2
  <2> QED BY <1>14, <2>1, <2>2, <2>3 DEF HearConnected, PageTypes, DialTypes, RelayTypes, seen_
<1>15. ASSUME NEW d \in Dials, HearState(d) PROVE ClientTypes'
  <2>1. inbox' \in [Dials -> Seq(Message)]
    BY <1>15, <1>a, HeardTypes DEF HearState, Hear
  <2>2. probing' \in Dials \union {NoDial} /\ asked' \subseteq Dials /\ journal' \in Seq(Nat)
        /\ lastSeq' \in Nat /\ firsts' \in {0, 1}
    <3>1. CASE probing = Head(inbox[d]).probe
      BY <1>15, <3>1, FlushTypes DEF HearState
    <3>2. CASE probing # Head(inbox[d]).probe
      BY <1>15, <3>2 DEF HearState, PageTypes, RelayTypes
    <3> QED BY <3>1, <3>2
  <2> QED BY <1>15, <2>1, <2>2 DEF HearState, PageTypes, DialTypes, RelayTypes, seen_
<1>16. ASSUME NEW d \in Dials, HearEvent(d) PROVE ClientTypes'
  <2>1. inbox' \in [Dials -> Seq(Message)]
    BY <1>16, <1>a, HeardTypes DEF HearEvent, Hear
  <2>2. lastSeq' \in Nat
    BY <1>16 DEF HearEvent, Larger, NextSeq, PageTypes
  <2> QED BY SMTT(60), <1>16, <2>1, <2>2 DEF HearEvent, PageTypes, DialTypes, RelayTypes, relay_, seen_
<1>17. ASSUME NEW d \in Dials, HearClose(d) PROVE ClientTypes'
  <2>1. inbox' \in [Dials -> Seq(Message)]
    BY <1>17, <1>a, HeardTypes DEF HearClose, Hear
  <2> QED BY ZenonT(40), <1>17, <2>1 DEF HearClose, PageTypes, DialTypes, RelayTypes, relay_, seen_
<1>18. CASE UNCHANGED clientVars
  BY <1>18 DEF PageTypes, DialTypes, RelayTypes, clientVars, page_, dials_, relay_, seen_
<1> QED BY <1>1, <1>2, <1>3, <1>4, <1>5, <1>6, <1>7, <1>8, <1>9, <1>10, <1>11, <1>12, <1>13, <1>14,
           <1>15, <1>16, <1>17, <1>18 DEF ClientNext

\* The page, its sockets and what the relay holds of them are well typed: at any
\* time one socket is wsRef, one is probed, and one is registered, if any.
THEOREM ClientTypeCorrect == ClientSpec => []ClientTypes
BY TypesInit, TypesStep, PTL DEF ClientSpec

\* The initial prompt is sent once: whatever the dials, the probes and the  
\* answers to them do, the first that finds it pending sends it
\* (use-session-events.ts:366).
THEOREM InitialPromptGoesOnce == ClientSpec => []InitialPromptOnce
<1>1. ClientTypes => InitialPromptOnce
  BY DEF ClientTypes, PageTypes, InitialPromptOnce
<1> QED BY <1>1, ClientTypeCorrect, PTL

-----------------------------------------------------------------------------
(* Mail is of sockets that opened; the hub's socket has not closed; wsRef   *)
(* leads to a dial that got as far as a socket.                             *)
SocketsInOrder ==
  /\ \A d \in Dials : inbox[d] # <<>> => dial[d] \in {"open", "welcomed", "closed"}
  /\ registered # NoDial => dial[registered] \in {"open", "welcomed", "closing"}
  /\ wsRef # NoDial => dial[wsRef] \in {"dialing", "open", "welcomed", "closing", "closed"}

(* Nothing goes on for a page that has been left, and left nothing behind. *)
LeftAlone ==
  ~mounted /\ ~loose =>
    /\ UnderWay = {} /\ ~timer
    /\ \A d \in Dials : inbox[d] = <<>> \/ inbox[d] = <<Closing(1000)>>

\* No step mails a socket that never opened, or registers one that has closed.
LEMMA SocketsInOrderStep ==
  ASSUME ClientTypes, SocketsInOrder, [ClientNext]_clientVars
  PROVE  SocketsInOrder'
<1> USE DEF SocketsInOrder
<1>a. DialTypes /\ wsRef \in Dials \union {NoDial} /\ registered \in Dials \union {NoDial} /\ NoDial \notin Dials
  BY DialsAreNumbers DEF ClientTypes, PageTypes, RelayTypes
<1>b. \A d \in Dials : inbox[d] \in Seq(Message) /\ dial[d] \in DialStates
  BY <1>a DEF DialTypes
<1>c. ASSUME NEW messages \in Seq(Message), inbox' = Post(messages), UNCHANGED <<dial, registered, wsRef>>
      PROVE  SocketsInOrder'
  <2>1. \A d \in Dials : inbox'[d] = inbox[d] \/ dial[d] \in Opened
    BY <1>a, <1>c, Posted
  <2> QED BY <1>c, <2>1 DEF Opened
<1>d. ASSUME NEW d \in Dials, inbox[d] # <<>>, Heard(d), UNCHANGED <<dial, registered>>,
             wsRef' = wsRef \/ wsRef' = NoDial
      PROVE  SocketsInOrder'
  <2>1. \A e \in Dials : e # d => inbox'[e] = inbox[e]
    BY <1>d, <1>a DEF Heard, DialTypes
  <2>2. dial[d] \in {"open", "welcomed", "closed"}
    BY <1>d
  <2> QED BY <1>d, <2>1, <2>2
<1>1. CASE SessionLoads
  <2>1. Begun(HangUp)
    BY <1>1, OneMoreDial DEF SessionLoads
  <2>2. \A d \in Dials : inbox'[d] = CutOff(d)
    BY <1>1 DEF SessionLoads
  <2>3. HangUp \in [Dials -> DialStates]
    BY <1>a, HungUp
  <2>4. \A d \in Dials : dial'[d] = HangUp[d] \/ dial[d] = "none"
    BY <2>1, <2>3 DEF Begun
  <2>5. \A d \in Dials : dial[d] = "none" => inbox[d] = <<>> /\ d # wsRef /\ d # registered
    BY <1>a
  <2>6. wsRef' = NoDial /\ registered' = registered
    BY <1>1 DEF SessionLoads, relay_
  <2> QED BY <1>a, <2>2, <2>4, <2>5, <2>6, HungUp DEF Opened
<1>2. CASE LeavePage
  <2>1. \A d \in Dials : inbox'[d] = CutOff(d) /\ dial' = HangUp
    BY <1>2 DEF LeavePage
  <2>2. wsRef' = NoDial /\ registered' = registered
    BY <1>2 DEF LeavePage, relay_
  <2> QED BY <1>a, <2>1, <2>2, HungUp DEF Opened
<1>3. CASE Reconnect
  <2>1. Begun(dial)
    BY <1>3, OneMoreDial DEF Reconnect
  <2>2. \A d \in Dials : dial'[d] = dial[d] \/ dial[d] = "none"
    BY <1>a, <2>1 DEF Begun, DialTypes
  <2> QED BY <1>3, <1>a, <2>2 DEF Reconnect, relay_
<1>4. CASE Type
  BY <1>4 DEF Type
<1>5. CASE SandboxSays
  <2>1. <<Event(made')>> \in Seq(Message)
    BY <1>5 DEF SandboxSays, ClientTypes, RelayTypes, Event, Message
  <2> QED BY <1>5, <2>1, <1>c DEF SandboxSays, page_
<1>6. CASE SandboxAnswers
  <2>1. PICK probe \in asked :
          /\ inbox' = Post(<<[type |-> "state", probe |-> probe]>>)
          /\ UNCHANGED <<page_, dial, from, registered, capable, made, told, seen_>>
    BY <1>6 DEF SandboxAnswers
  <2>2. <<[type |-> "state", probe |-> probe]>> \in Seq(Message)
    BY DEF ClientTypes, RelayTypes, Message
  <2> QED BY <2>1, <2>2, <1>c DEF page_
<1>7. CASE OthersPrompt
  BY <1>7 DEF OthersPrompt, page_, dials_
<1>8. ASSUME NEW d \in Dials, ActivateAnswers(d) PROVE SocketsInOrder'
  BY <1>8, <1>a DEF ActivateAnswers, Step, DialTypes, page_, relay_
<1>9. ASSUME NEW d \in Dials, CapabilitiesAnswer(d) PROVE SocketsInOrder'
  BY <1>9, <1>a DEF CapabilitiesAnswer, Step, DialTypes, page_
<1>10. ASSUME NEW d \in Dials, EventsAnswer(d) PROVE SocketsInOrder'
  BY <1>10, <1>a DEF EventsAnswer, Step, DialTypes, relay_
<1>11. ASSUME NEW d \in Dials, SocketOpens(d) PROVE SocketsInOrder'
  BY <1>11, <1>a DEF SocketOpens, Step, DialTypes, page_
<1>12. ASSUME NEW d \in Dials, Welcome(d) PROVE SocketsInOrder'
  <2>1. PICK messages : inbox' = Post(messages)
    BY <1>12, Zenon DEF Welcome
  <2>2. \A e \in Dials : inbox'[e] = inbox[e] \/ dial[e] \in Opened
    BY <1>a, <2>1 DEF Post, DialTypes
  <2> QED BY <1>12, <1>a, <2>2 DEF Welcome, Step, DialTypes, page_, relay_, Opened
<1>13. ASSUME NEW d \in Dials, SocketEnds(d) PROVE SocketsInOrder'
  <2>1. dial' = [dial EXCEPT ![d] = "closed"]
        /\ registered' = (IF dial[d] = "dialing" THEN registered ELSE NoDial) /\ wsRef' = wsRef
        /\ \A e \in Dials \ {d} : inbox'[e] = inbox[e]
    BY <1>13, <1>a DEF SocketEnds, Step, DialTypes, page_
  <2> QED BY <1>a, <2>1 DEF DialTypes
<1>14. ASSUME NEW d \in Dials, HearConnected(d) PROVE SocketsInOrder'
  BY <1>14, <1>d DEF HearConnected, Hear
<1>15. ASSUME NEW d \in Dials, HearState(d) PROVE SocketsInOrder'
  BY <1>15, <1>d DEF HearState, Hear
<1>16. ASSUME NEW d \in Dials, HearEvent(d) PROVE SocketsInOrder'
  BY <1>16, <1>d DEF HearEvent, Hear, relay_
<1>17. ASSUME NEW d \in Dials, HearClose(d) PROVE SocketsInOrder'
  BY <1>17, <1>d DEF HearClose, Hear, relay_
<1>18. CASE UNCHANGED clientVars
  BY <1>18 DEF clientVars, page_, dials_, relay_
<1> QED BY <1>1, <1>2, <1>3, <1>4, <1>5, <1>6, <1>7, <1>8, <1>9, <1>10, <1>11, <1>12, <1>13, <1>14,
           <1>15, <1>16, <1>17, <1>18 DEF ClientNext

\* Nothing starts again on a page that has been left, but behind a loose socket.
LEMMA LeftAloneStep ==
  ASSUME ClientTypes, SocketsInOrder, LeftAlone, [ClientNext]_clientVars
  PROVE  LeftAlone'
<1>a. DialTypes /\ wsRef \in Dials \union {NoDial} /\ registered \in Dials \union {NoDial} /\ NoDial \notin Dials
  BY DialsAreNumbers DEF ClientTypes, PageTypes, RelayTypes
<1>s. SUFFICES ASSUME ~mounted', ~loose'
      PROVE  /\ UnderWay' = {} /\ ~timer'
             /\ \A e \in Dials : inbox'[e] = <<>> \/ inbox'[e] = <<Closing(1000)>>
  BY DEF LeftAlone
<1>1. CASE LeavePage
  <2>1. \A d \in Dials : inbox'[d] = CutOff(d) /\ dial' = HangUp /\ ~timer'
    BY <1>1 DEF LeavePage
  <2>2. /\ \A d \in UnderWay : d = wsRef /\ dial[d] # "dialing"
        /\ \A d \in Dials : dial[d] = "closed" => inbox[d] = <<>>
    <3> DEFINE Left(d) == (d \in UnderWay /\ (d # wsRef \/ dial[d] = "dialing"))
                          \/ (inbox[d] # <<>> /\ dial[d] = "closed")
    <3>1. loose' = \E d \in Dials : Left(d)
      BY <1>1, Zenon DEF LeavePage
    <3>2. ~ \E d \in Dials : Left(d)
      <4> HIDE DEF Left
      <4> QED BY <1>s, <3>1
    <3>3. UnderWay \subseteq Dials
      BY DEF UnderWay
    <3> QED BY <3>2, <3>3
  <2>3. \A d \in UnderWay : d \in Dials /\ dial[d] \in Opened
    BY <1>a, <2>2 DEF SocketsInOrder, UnderWay, Opened
  <2>4. ASSUME NEW d \in Dials PROVE inbox'[d] = <<>> /\ d \notin UnderWay'
    <3>1. CASE d \in UnderWay
      <4>1. d = wsRef /\ dial[d] \in Opened /\ dial[d] # "dialing"
        BY <2>2, <2>3, <3>1
      <4>2. CutOff(d) = <<>> /\ HangUp[d] = "closing"
        BY <4>1 DEF CutOff, HangUp, Opened
      <4> QED BY <2>1, <4>2 DEF UnderWay, Opened
    <3>2. CASE d \notin UnderWay
      <4>1. HangUp[d] = dial[d] /\ CutOff(d) = inbox[d]
        BY <1>a, <3>2, HungUp DEF UnderWay, Opened
      <4>2. inbox[d] = <<>>
        BY <2>2, <3>2 DEF SocketsInOrder, UnderWay, Opened
      <4> QED BY <2>1, <3>2, <4>1, <4>2 DEF UnderWay, Opened
    <3> QED BY <3>1, <3>2
  <2>5. UnderWay' \subseteq Dials /\ ~timer'
    BY <1>1 DEF UnderWay, LeavePage
  <2> QED BY <2>4, <2>5
<1>2. CASE ~LeavePage
  <2>1. ~mounted /\ ~loose
    <3>1. CASE SessionLoads \/ Reconnect \/ Type \/ OthersPrompt \/ UNCHANGED clientVars
      BY <1>s, <3>1 DEF SessionLoads, Reconnect, Type, OthersPrompt, clientVars, page_, seen_
    <3>2. CASE SandboxSays \/ SandboxAnswers
      <4>1. UNCHANGED <<page_, seen_>>
        BY <3>2, Zenon DEF SandboxSays, SandboxAnswers
      <4> QED BY <1>s, <4>1 DEF page_, seen_
    <3>3. ASSUME NEW d \in Dials, \/ ActivateAnswers(d) \/ CapabilitiesAnswer(d) \/ EventsAnswer(d)
                                 \/ SocketOpens(d) \/ Welcome(d) \/ SocketEnds(d)
          PROVE  ~mounted /\ ~loose
      <4>1. mounted' = mounted
        BY <3>3 DEF ActivateAnswers, CapabilitiesAnswer, EventsAnswer, SocketOpens, Welcome, SocketEnds, page_
      <4>2. loose' = loose
        BY <3>3 DEF ActivateAnswers, CapabilitiesAnswer, EventsAnswer, SocketOpens, Welcome, SocketEnds, seen_
      <4> QED BY <1>s, <4>1, <4>2
    <3>4. ASSUME NEW d \in Dials, HearConnected(d) \/ HearState(d) \/ HearEvent(d) \/ HearClose(d)
          PROVE  ~mounted /\ ~loose
      BY <1>s, <3>4 DEF HearConnected, HearState, HearEvent, HearClose, seen_
    <3> QED BY <1>2, <3>1, <3>2, <3>3, <3>4 DEF ClientNext
  <2>2. UnderWay = {} /\ ~timer /\ \A d \in Dials : inbox[d] = <<>> \/ inbox[d] = <<Closing(1000)>>
    BY <2>1 DEF LeftAlone
  <2>3. \A d \in Dials : dial[d] \notin {"activating", "capping", "fetching", "dialing", "open", "welcomed"}
    BY <2>2 DEF UnderWay, Opened
  <2>4. \A messages : Post(messages) = inbox
    BY <1>a, <2>3 DEF Post, Opened
  <2>q. ASSUME dial' = dial, inbox' = inbox, timer' = timer PROVE LeftAlone'
    BY <2>2, <2>q DEF LeftAlone, UnderWay
  <2>5. ASSUME SandboxSays \/ SandboxAnswers PROVE LeftAlone'
    <3>1. dial' = dial /\ timer' = timer
      BY <2>5 DEF SandboxSays, SandboxAnswers, page_
    <3>2. \E messages : inbox' = Post(messages)
      BY <2>5, Zenon DEF SandboxSays, SandboxAnswers
    <3>3. inbox' = inbox
      BY <2>4, <3>2, Zenon
    <3> QED BY <2>q, <3>1, <3>3
  <2>6. ASSUME OthersPrompt \/ UNCHANGED clientVars PROVE LeftAlone'
    <3>1. dial' = dial /\ inbox' = inbox /\ timer' = timer
      BY <2>6 DEF OthersPrompt, clientVars, page_, dials_
    <3> QED BY <2>q, <3>1
  <2>7. ASSUME NEW d \in Dials, SocketEnds(d) PROVE LeftAlone'
    <3>1. dial[d] = "closing"
      BY <2>3, <2>7 DEF SocketEnds, Opened
    <3>2. inbox[d] = <<>>
      BY <3>1 DEF SocketsInOrder
    <3>3. dial' = [dial EXCEPT ![d] = "closed"] /\ inbox' = [inbox EXCEPT ![d] = Append(@, Closing(1000))]
          /\ timer' = timer
      BY <2>7, <3>1 DEF SocketEnds, Step, page_
    <3>4. inbox'[d] = <<Closing(1000)>> /\ \A e \in Dials \ {d} : inbox'[e] = inbox[e]
      BY <1>a, <3>2, <3>3 DEF DialTypes
    <3> QED BY <1>a, <2>2, <3>3, <3>4 DEF LeftAlone, UnderWay, DialTypes, Opened
  <2>8. ASSUME NEW d \in Dials, HearClose(d) PROVE LeftAlone'
    <3>1. inbox[d] = <<Closing(1000)>>
      BY <2>2, <2>8 DEF HearClose, Hear
    <3>2. Head(inbox[d]).code = 1000 /\ Tail(inbox[d]) = <<>>
      BY <3>1 DEF Closing
    <3>3. timer' = timer /\ inbox' = [inbox EXCEPT ![d] = <<>>] /\ dial' = dial
      <4>1. timer' = (timer \/ Head(inbox[d]).code # 1000) /\ Heard(d) /\ dial' = dial
        BY <2>8 DEF HearClose
      <4>2. timer \in BOOLEAN
        BY DEF ClientTypes, PageTypes
      <4> QED BY ZenonT(40), <3>2, <4>1, <4>2 DEF Heard
    <3> QED BY <1>a, <2>2, <3>3 DEF LeftAlone, UnderWay, DialTypes
  <2>9. ASSUME NEW d \in Dials PROVE ~HearConnected(d) /\ ~HearState(d) /\ ~HearEvent(d)
    BY <2>2 DEF HearConnected, HearState, HearEvent, Hear, Closing
  <2>10. ASSUME NEW d \in Dials
         PROVE  /\ ~ActivateAnswers(d) /\ ~CapabilitiesAnswer(d) /\ ~EventsAnswer(d)
                /\ ~SocketOpens(d) /\ ~Welcome(d)
    BY <2>3 DEF ActivateAnswers, CapabilitiesAnswer, EventsAnswer, SocketOpens, Welcome
  <2>11. ~SessionLoads /\ ~Reconnect /\ ~Type
    BY <2>1, <2>2 DEF SessionLoads, Reconnect, Type
  <2>12. LeftAlone'
    BY <1>2, <2>5, <2>6, <2>7, <2>8, <2>9, <2>10, <2>11, Zenon DEF ClientNext
  <2> QED BY <1>s, <2>12 DEF LeftAlone
<1> QED BY <1>1, <1>2

\* A page that has been left leaves no client with the relay but one whose dial
\* or whose socket its clean-up could not reach (use-session-events.ts:533).
THEOREM LooseSocketsAlone == ClientSpec => []OnlyLooseSocketsStay
<1>1. ClientInit => SocketsInOrder /\ LeftAlone
  BY DialsAreNumbers DEF ClientInit, SocketsInOrder, LeftAlone
<1>2. ClientTypes /\ SocketsInOrder /\ LeftAlone /\ [ClientNext]_clientVars
        => SocketsInOrder' /\ LeftAlone'
  BY SocketsInOrderStep, LeftAloneStep
<1>3. ClientTypes /\ SocketsInOrder /\ LeftAlone => OnlyLooseSocketsStay
  BY DEF ClientTypes, RelayTypes, SocketsInOrder, LeftAlone, OnlyLooseSocketsStay, UnderWay, Opened
<1> QED BY <1>1, <1>2, <1>3, ClientTypeCorrect, PTL DEF ClientSpec

-----------------------------------------------------------------------------
(***************************************************************************)
(* What a page that has not strayed knows.  One dial at most is on its way *)
(* to a socket or has one.  From when it asked for the journal on, the     *)
(* page shows the journal up to from, and everything that the sandbox said *)
(* after it is on its way: while the greeting is unread, behind it; once   *)
(* it is read, shown under a number that is not given away again, or in    *)
(* the mail.  The mail of other sockets can only tell that they closed.    *)
(***************************************************************************)
Sockets == {d \in Dials : dial[d] \in {"dialing", "open", "welcomed"}}
Knows(d) ==
  /\ from[d] <= Len(journal) /\ from[d] <= lastSeq
  /\ \A q \in 1 .. from[d] : q \in DOMAIN page /\ page[q] = journal[q]
NoGreeting(d) == \A i \in 1 .. Len(inbox[d]) : inbox[d][i].type # "connected"
OnlyCloses(d) == \A e \in Dials : e # d => \A i \in 1 .. Len(inbox[e]) : inbox[e][i].type = "close"
MailInOrder(d) ==
  /\ OnlyCloses(d)
  /\ dial[d] = "dialing" => inbox[d] = <<>>
  /\ dial[d] = "open" => NoGreeting(d)
  /\ \A i \in 1 .. Len(inbox[d]) : inbox[d][i].type = "connected" => from[d] <= inbox[d][i].seq
Shown(c) == \E q \in 1 .. lastSeq : q \in DOMAIN page /\ page[q] = c
InMail(d, c, k) == \E i \in 1 .. Len(inbox[d]) : i > k /\ inbox[d][i] = Event(c)
Greets(d, k) ==
  \A i \in 1 .. Len(inbox[d]) : (inbox[d][i].type = "connected") <=> (i = k)
Waits(d, k) ==
  /\ Greets(d, k)
  /\ \A c \in told : (\E q \in 1 .. from[d] : journal[q] = c) \/ InMail(d, c, k)
Reads(d) == NoGreeting(d) /\ \A c \in told : Shown(c) \/ InMail(d, c, 0)
IsTold(d) == (\E k \in 1 .. Len(inbox[d]) : Waits(d, k)) \/ Reads(d)
Follows(d) ==
  Knows(d) /\ MailInOrder(d) /\ (dial[d] = "welcomed" /\ registered = d => IsTold(d))
Following ==
  ~strayed => /\ \A d, e \in Sockets : d = e
              /\ \A d \in Sockets : Follows(d)
ToldIsJournaled == \A c \in told : \E q \in 1 .. Len(journal) : journal[q] = c

JournalGrows == journal' = journal \/ \E c \in Nat : journal' = Append(journal, c)
PageGrows ==
  \/ page' = page /\ lastSeq' = lastSeq
  \/ lastSeq' = lastSeq + 1 /\ \E c \in Nat : Shows(lastSeq', c)

\* The page shows one event more under seq, and what it showed under others.
LEMMA MergedWith ==
  ASSUME NEW seq \in Nat, NEW c, Shows(seq, c)
  PROVE /\ seq \in DOMAIN page' /\ page'[seq] = c
        /\ \A p \in DOMAIN page : p \in DOMAIN page' /\ (p # seq => page'[p] = page[p])
BY DEF Merged, Shows

\* What was in the journal stays where it was.
LEMMA JournalKept ==
  ASSUME journal \in Seq(Nat), JournalGrows
  PROVE  /\ Len(journal) <= Len(journal') /\ Len(journal') \in Nat
         /\ \A q \in 1 .. Len(journal) : journal'[q] = journal[q]
BY DEF JournalGrows

\* What was journaled when the page asked for the journal stays in it.
LEMMA JournalUpToFrom ==
  ASSUME ClientTypes, NEW d \in Dials, Knows(d), JournalGrows
  PROVE  \A q \in 1 .. from[d] : journal'[q] = journal[q]
<1>1. journal \in Seq(Nat) /\ from[d] \in Nat
  BY DEF ClientTypes, DialTypes, RelayTypes
<1>2. Len(journal) \in Nat /\ \A q \in 1 .. Len(journal) : journal'[q] = journal[q]
  BY <1>1, JournalKept
<1>3. from[d] <= Len(journal)
  BY DEF Knows
<1> QED BY <1>1, <1>2, <1>3

\* The page forgets nothing when it shows one event more, or none.
LEMMA PageKept ==
  ASSUME lastSeq \in Nat, PageGrows
  PROVE  /\ lastSeq' \in Nat /\ lastSeq <= lastSeq'
         /\ \A q \in DOMAIN page : q <= lastSeq => q \in DOMAIN page' /\ page'[q] = page[q]
<1>1. CASE page' = page /\ lastSeq' = lastSeq
  BY <1>1
<1>2. CASE lastSeq' = lastSeq + 1 /\ \E c \in Nat : Shows(lastSeq', c)
  <2>1. PICK c \in Nat : Shows(lastSeq + 1, c)
    BY <1>2
  <2>2. \A p \in DOMAIN page : p \in DOMAIN page' /\ (p # lastSeq + 1 => page'[p] = page[p])
    BY <2>1, MergedWith
  <2> QED BY <1>2, <2>2
<1> QED BY <1>1, <1>2 DEF PageGrows

\* What is shown stays shown.
LEMMA ShownKept ==
  ASSUME lastSeq \in Nat, PageGrows
  PROVE  \A c : Shown(c) => Shown(c)'
BY PageKept DEF Shown

\* What the page knows up to from stays: later numbers alone are given.
LEMMA KnowsKept ==
  ASSUME ClientTypes, NEW d \in Dials, Knows(d), from'[d] = from[d], JournalGrows,
         PageGrows \/ (page' = page /\ lastSeq' \in Nat /\ from[d] <= lastSeq')
  PROVE  Knows(d)'
<1>1. /\ journal \in Seq(Nat) /\ from[d] \in Nat /\ lastSeq \in Nat
  BY DEF ClientTypes, PageTypes, DialTypes, RelayTypes
<1>2. /\ from[d] <= lastSeq' /\ \A q \in 1 .. from[d] : q \in DOMAIN page' /\ page'[q] = page[q]
  BY <1>1, PageKept DEF Knows
<1>3. /\ Len(journal) <= Len(journal') /\ Len(journal') \in Nat /\ Len(journal) \in Nat
      /\ \A q \in 1 .. Len(journal) : journal'[q] = journal[q]
  BY <1>1, JournalKept
<1>4. from[d] <= Len(journal) /\ \A q \in 1 .. from[d] : page[q] = journal[q]
  BY DEF Knows
<1>5. /\ from[d] <= Len(journal') /\ \A q \in 1 .. from[d] : journal'[q] = journal[q]
  BY <1>1, <1>3, <1>4
<1> QED BY <1>2, <1>4, <1>5 DEF Knows

\* What the sandbox said, and the page was told or will be, stays so while the
\* journal and the page grow and the mail stays.
LEMMA ToldKept ==
  ASSUME ClientTypes, NEW d \in Dials, Knows(d), IsTold(d), JournalGrows, PageGrows,
         told' = told, inbox'[d] = inbox[d], from'[d] = from[d]
  PROVE  IsTold(d)'
<1>1. \A q \in 1 .. from[d] : journal'[q] = journal[q]
  BY JournalUpToFrom
<1>2. \A c : Shown(c) => Shown(c)'
  BY ShownKept DEF ClientTypes, PageTypes
<1>3. \A c, k : InMail(d, c, k) => InMail(d, c, k)'
  BY DEF InMail
<1>4. NoGreeting(d) => NoGreeting(d)'
  BY DEF NoGreeting
<1>5. \A k : Waits(d, k) => Waits(d, k)'
  BY <1>1, <1>3 DEF Waits, Greets
<1>6. Reads(d) => Reads(d)'
  BY <1>2, <1>3, <1>4 DEF Reads
<1> QED BY <1>5, <1>6 DEF IsTold

\* What the sandbox says is behind whatever the page has yet to read.
LEMMA ToldMore ==
  ASSUME ClientTypes, NEW d \in Dials, Knows(d), IsTold(d), JournalGrows, from'[d] = from[d],
         page' = page, lastSeq' = lastSeq, NEW m \in Message, m.type # "connected",
         inbox'[d] = Append(inbox[d], m),
         told' = told \/ \E c \in Nat : told' = told \union {c} /\ m = Event(c)
  PROVE  IsTold(d)'
<1>0. inbox[d] \in Seq(Message)
  BY DEF ClientTypes, DialTypes
<1>1. \A q \in 1 .. from[d] : journal'[q] = journal[q]
  BY JournalUpToFrom
<1> DEFINE n == Len(inbox[d])
<1>2. /\ n \in Nat /\ Len(inbox'[d]) = n + 1 /\ inbox'[d][n + 1] = m
      /\ \A i \in 1 .. n : inbox'[d][i] = inbox[d][i]
  BY <1>0
<1>3. \A c \in told' : c \in told \/ m = Event(c)
  OBVIOUS
<1>4. \A c, k : InMail(d, c, k) => InMail(d, c, k)'
  BY <1>2 DEF InMail
<1>5. \A c \in told' : \A k \in 0 .. n : m = Event(c) => InMail(d, c, k)'
  BY <1>2 DEF InMail
<1>6. NoGreeting(d) => NoGreeting(d)'
  BY <1>2 DEF NoGreeting
<1>7. \A k \in 1 .. n : Greets(d, k) => Greets(d, k)'
  BY <1>2 DEF Greets
<1>8. \A k \in 1 .. n : Waits(d, k) => Waits(d, k)'
  BY <1>1, <1>3, <1>4, <1>5, <1>7 DEF Waits
<1>9. Reads(d) => Reads(d)'
  BY <1>2, <1>3, <1>4, <1>5, <1>6 DEF Reads, Shown
<1>10. \A k \in 1 .. n : k \in 1 .. Len(inbox'[d])
  BY <1>2
<1> QED BY <1>8, <1>9, <1>10 DEF IsTold

\* Reading what is not the greeting shows what it tells.
LEMMA ToldRead ==
  ASSUME ClientTypes, NEW d \in Dials, Knows(d), IsTold(d), JournalGrows, PageGrows, from'[d] = from[d],
         told' = told, inbox[d] # <<>>, inbox'[d] = Tail(inbox[d]), Head(inbox[d]).type # "connected",
         Head(inbox[d]).type = "event"
           => lastSeq' = lastSeq + 1 /\ Shows(lastSeq', Head(inbox[d]).content)
  PROVE  IsTold(d)'
<1>0. inbox[d] \in Seq(Message)
  BY DEF ClientTypes, DialTypes
<1>1. \A q \in 1 .. from[d] : journal'[q] = journal[q]
  BY JournalUpToFrom
<1> DEFINE n == Len(inbox[d])
<1>2. /\ n \in Nat \ {0} /\ Len(inbox'[d]) = n - 1
      /\ \A i \in 1 .. n - 1 : inbox'[d][i] = inbox[d][i + 1]
      /\ Head(inbox[d]) = inbox[d][1]
  BY <1>0
<1>3. \A i \in 2 .. n : i - 1 \in 1 .. Len(inbox'[d]) /\ inbox'[d][i - 1] = inbox[d][i]
  BY <1>2
<1>4. \A c : \A k \in 1 .. n : InMail(d, c, k) => InMail(d, c, k - 1)'
  BY <1>3 DEF InMail
<1>5. ASSUME NEW c \in told, InMail(d, c, 0) PROVE Shown(c)' \/ InMail(d, c, 0)'
  <2>1. PICK i \in 1 .. n : inbox[d][i] = Event(c)
    BY <1>5 DEF InMail
  <2>2. CASE i = 1
    <3>1. Head(inbox[d]).type = "event" /\ Head(inbox[d]).content = c
      BY <1>2, <2>1, <2>2 DEF Event
    <3>2. lastSeq \in Nat /\ lastSeq' = lastSeq + 1 /\ Shows(lastSeq', c)
      BY <3>1 DEF ClientTypes, PageTypes
    <3>3. lastSeq' \in DOMAIN page' /\ page'[lastSeq'] = c
      BY <3>2, MergedWith
    <3> QED BY <3>2, <3>3 DEF Shown
  <2>3. CASE i # 1
    <3>1. i - 1 \in 1 .. Len(inbox'[d]) /\ inbox'[d][i - 1] = Event(c)
      BY <1>3, <2>1, <2>3
    <3> QED BY <3>1 DEF InMail
  <2> QED BY <2>2, <2>3
<1>6. \A c : Shown(c) => Shown(c)'
  BY ShownKept DEF ClientTypes, PageTypes
<1>7. NoGreeting(d) => NoGreeting(d)'
  BY <1>2 DEF NoGreeting
<1>8. Reads(d) => Reads(d)'
  BY <1>5, <1>6, <1>7 DEF Reads
<1>9. ASSUME NEW k \in 1 .. n, Waits(d, k) PROVE k - 1 \in 1 .. Len(inbox'[d]) /\ Waits(d, k - 1)'
  <2>1. k # 1
    BY <1>2, <1>9 DEF Waits, Greets
  <2>2. Greets(d, k - 1)'
    BY <1>2, <1>9 DEF Waits, Greets
  <2>3. \A c \in told : (\E q \in 1 .. from[d] : journal[q] = c) \/ InMail(d, c, k - 1)'
    BY <1>4, <1>9 DEF Waits
  <2> QED BY <1>1, <1>2, <2>1, <2>2, <2>3 DEF Waits
<1> QED BY <1>8, <1>9 DEF IsTold

\* The greeting is read: the page has what came before, the mail the rest.
LEMMA GreetingRead ==
  ASSUME ClientTypes, NEW d \in Dials, Knows(d), IsTold(d), from'[d] = from[d], page' = page,
         told' = told, inbox[d] # <<>>, inbox'[d] = Tail(inbox[d]), Head(inbox[d]).type = "connected",
         lastSeq' \in Nat, from[d] <= lastSeq'
  PROVE  IsTold(d)'
<1>0. inbox[d] \in Seq(Message)
  BY DEF ClientTypes, DialTypes
<1> DEFINE n == Len(inbox[d])
<1>2. /\ n \in Nat \ {0} /\ Len(inbox'[d]) = n - 1
      /\ \A i \in 1 .. n - 1 : inbox'[d][i] = inbox[d][i + 1]
      /\ Head(inbox[d]) = inbox[d][1] /\ 1 \in 1 .. n
  BY <1>0
<1>3. ~NoGreeting(d)
  BY <1>2 DEF NoGreeting
<1>4. PICK k \in 1 .. n : Waits(d, k)
  BY <1>3 DEF IsTold, Reads
<1>5. k = 1
  BY <1>2, <1>4 DEF Waits, Greets
<1>6. NoGreeting(d)'
  BY <1>2, <1>4, <1>5 DEF Waits, Greets, NoGreeting
<1>7. ASSUME NEW c \in told PROVE Shown(c)' \/ InMail(d, c, 0)'
  <2>1. CASE \E q \in 1 .. from[d] : journal[q] = c
    BY <2>1 DEF Knows, Shown, ClientTypes, DialTypes
  <2>2. CASE InMail(d, c, 1)
    <3>1. PICK i \in 1 .. n : i > 1 /\ inbox[d][i] = Event(c)
      BY <2>2 DEF InMail
    <3>2. i - 1 > 0 /\ i - 1 \in 1 .. Len(inbox'[d]) /\ inbox'[d][i - 1] = Event(c)
      BY <1>2, <3>1
    <3> QED BY <3>2 DEF InMail
  <2> QED BY <1>4, <1>5, <2>1, <2>2 DEF Waits
<1> QED BY <1>6, <1>7 DEF IsTold, Reads

(* u is s, then g, then t *)
IsJoined(u, s, g, t) ==
  /\ Len(u) = Len(s) + 1 + Len(t)
  /\ \A i \in 1 .. Len(s) : u[i] = s[i]
  /\ u[Len(s) + 1] = g
  /\ \A j \in 1 .. Len(t) : u[Len(s) + 1 + j] = t[j]

\* A sequence, one element more, and another sequence.
LEMMA Joined ==
  ASSUME NEW M, NEW s \in Seq(M), NEW g \in M, NEW t \in Seq(M)
  PROVE  IsJoined(s \o (<<g>> \o t), s, g, t)
<1>1. <<g>> \in Seq(M) /\ Len(<<g>>) = 1 /\ <<g>>[1] = g /\ Len(s) \in Nat /\ Len(t) \in Nat
  OBVIOUS
<1> DEFINE v == <<g>> \o t
<1>2. /\ v \in Seq(M) /\ Len(v) = 1 + Len(t)
      /\ \A i \in 1 .. 1 + Len(t) : v[i] = IF i <= 1 THEN <<g>>[i] ELSE t[i - 1]
  BY <1>1, ConcatProperties
<1> HIDE DEF v
<1>3. /\ Len(s \o v) = Len(s) + (1 + Len(t))
      /\ \A i \in 1 .. Len(s) + (1 + Len(t)) : (s \o v)[i] = IF i <= Len(s) THEN s[i] ELSE v[i - Len(s)]
  <2>1. /\ Len(s \o v) = Len(s) + Len(v)
        /\ \A i \in 1 .. Len(s) + Len(v) : (s \o v)[i] = IF i <= Len(s) THEN s[i] ELSE v[i - Len(s)]
    BY <1>2, ConcatProperties
  <2> QED BY <1>2, <2>1
<1>4. \A i \in 1 .. Len(s) : (s \o v)[i] = s[i]
  BY <1>1, <1>3
<1>5. (s \o v)[Len(s) + 1] = g
  <2>1. (s \o v)[Len(s) + 1] = v[Len(s) + 1 - Len(s)]
    BY <1>1, <1>3
  <2> QED BY <1>1, <1>2, <2>1
<1>6. ASSUME NEW j \in 1 .. Len(t) PROVE (s \o v)[Len(s) + 1 + j] = t[j]
  <2>1. (s \o v)[Len(s) + 1 + j] = v[Len(s) + 1 + j - Len(s)]
    BY <1>1, <1>3
  <2>2. Len(s) + 1 + j - Len(s) = j + 1 /\ j + 1 - 1 = j
    BY <1>1
  <2>3. v[j + 1] = t[j + 1 - 1]
    BY <1>1, <1>2
  <2> QED BY <2>1, <2>2, <2>3
<1> QED BY <1>1, <1>3, <1>4, <1>5, <1>6 DEF v, IsJoined

\* What the replay holds: whatever the journal has behind from.
LEMMA Replayed ==
  ASSUME ClientTypes, NEW d \in Dials, from[d] <= Len(journal), from[d] > 0 \/ journal = <<>>
  PROVE  /\ Replay(d) \in Seq(Nat) /\ Len(Replay(d)) = Len(journal) - from[d]
         /\ \A j \in 1 .. Len(journal) - from[d] : Replay(d)[j] = journal[from[d] + j]
<1>1. journal \in Seq(Nat) /\ from[d] \in Nat
  BY DEF ClientTypes, RelayTypes, DialTypes
<1>2. CASE from[d] < Len(journal)
  <2>1. from[d] > 0
    BY <1>1, <1>2
  <2>2. Replay(d) = SubSeq(journal, from[d] + 1, Len(journal))
    BY <1>2, <2>1 DEF Replay
  <2>3. \A i \in from[d] + 1 .. Len(journal) : journal[i] \in Nat
    BY <1>1
  <2>4. /\ Replay(d) \in Seq(Nat)
        /\ Len(Replay(d)) = IF from[d] + 1 <= Len(journal) THEN Len(journal) - (from[d] + 1) + 1 ELSE 0
        /\ \A i \in 1 .. Len(journal) - (from[d] + 1) + 1 : Replay(d)[i] = journal[from[d] + 1 + i - 1]
    <3>1. from[d] + 1 \in Int /\ Len(journal) \in Int
      BY <1>1
    <3> QED BY SMTT(20), <2>2, <2>3, <3>1, SubSeqProperties
  <2>5. \A i \in 1 .. Len(journal) - from[d] : /\ i \in 1 .. Len(journal) - (from[d] + 1) + 1
                                             /\ from[d] + 1 + i - 1 = from[d] + i
    BY <1>1
  <2>6. Len(Replay(d)) = Len(journal) - from[d]
    BY <1>1, <1>2, <2>4
  <2>7. \A i \in 1 .. Len(journal) - from[d] : Replay(d)[i] = journal[from[d] + i]
    BY <2>4, <2>5
  <2> QED BY <2>4, <2>6, <2>7
<1>3. CASE from[d] = Len(journal)
  <2>1. Replay(d) = <<>>
    BY <1>1, <1>3 DEF Replay
  <2> QED BY <1>1, <1>3, <2>1
<1> QED BY <1>1, <1>2, <1>3

\* The greeting comes with what the page could not have fetched.
LEMMA Greeted ==
  ASSUME ClientTypes, NEW d \in Dials, Knows(d), MailInOrder(d), ToldIsJournaled, dial[d] = "open",
         from[d] > 0 \/ journal = <<>>, Welcome(d), registered = d
  PROVE  MailInOrder(d)' /\ IsTold(d)'
<1>0. /\ inbox[d] \in Seq(Message) /\ journal \in Seq(Nat) /\ from[d] \in Nat
      /\ inbox \in [Dials -> Seq(Message)] /\ dial \in [Dials -> DialStates]
  BY DEF ClientTypes, DialTypes, RelayTypes
<1> DEFINE greeting == [type |-> "connected", seq |-> Len(journal)]
           replay == [i \in DOMAIN Replay(d) |-> Event(Replay(d)[i])]
<1>a. PICK n \in Nat, m \in Nat, l \in Nat : n = Len(inbox[d]) /\ l = Len(journal) /\ m = l - from[d]
  BY <1>0 DEF Knows
<1>1. /\ Replay(d) \in Seq(Nat) /\ DOMAIN Replay(d) = 1 .. m
      /\ \A j \in 1 .. m : Replay(d)[j] = journal[from[d] + j]
  BY <1>a, Replayed DEF Knows
<1>2. inbox'[d] = inbox[d] \o (<<greeting>> \o replay) /\ \A e \in Dials : e # d => inbox'[e] = inbox[e]
  <2>1. inbox' = Post(<<greeting>> \o replay)
    BY DEF Welcome
  <2> HIDE DEF greeting, replay
  <2> QED BY <2>1, <1>0, DialsAreNumbers DEF Post, Opened
<1>3. /\ replay \in Seq(Message) /\ Len(replay) = m
      /\ \A j \in 1 .. m : replay[j] = Event(journal[from[d] + j])
  <2>1. \A j \in 1 .. m : Event(Replay(d)[j]) \in Message
    BY <1>1 DEF Event, Message
  <2>2. replay = [j \in 1 .. m |-> Event(Replay(d)[j])]
    BY <1>1
  <2>3. replay \in [1 .. m -> Message]
    BY <2>1, <2>2
  <2>4. \A j \in 1 .. m : replay[j] = Event(journal[from[d] + j])
    BY <1>1, <2>2
  <2> HIDE DEF replay
  <2> QED BY <2>3, <2>4
<1>4. greeting \in Message /\ greeting.type = "connected" /\ greeting.seq = l
  BY <1>a DEF Message
<1>5. /\ Len(inbox'[d]) = n + 1 + m
      /\ \A i \in 1 .. n : inbox'[d][i] = inbox[d][i]
      /\ inbox'[d][n + 1] = greeting
      /\ \A j \in 1 .. m : inbox'[d][n + 1 + j] = Event(journal[from[d] + j])
  <2> HIDE DEF greeting, replay
  <2> DEFINE u == inbox[d] \o (<<greeting>> \o replay)
  <2>1. IsJoined(u, inbox[d], greeting, replay)
    <3> HIDE DEF greeting, replay
    <3>1. inbox[d] \in Seq(Message) /\ greeting \in Message /\ replay \in Seq(Message)
      BY <1>0, <1>3, <1>4
    <3> QED BY <3>1, Joined
  <2>2. u = inbox'[d]
    BY <1>2
  <2> HIDE DEF u, greeting, replay
  <2> QED BY <1>a, <1>3, <2>1, <2>2 DEF IsJoined
<1> HIDE DEF greeting, replay
<1>6. \A i \in 1 .. Len(inbox'[d]) : i \in 1 .. n \/ i = n + 1 \/ (i - (n + 1) \in 1 .. m /\ i = n + 1 + (i - (n + 1)))
  <2> SUFFICES ASSUME NEW i \in 1 .. n + 1 + m
               PROVE  i \in 1 .. n \/ i = n + 1 \/ (i - (n + 1) \in 1 .. m /\ i = n + 1 + (i - (n + 1)))
    BY <1>5
  <2>1. CASE i <= n
    BY <2>1
  <2>2. CASE i = n + 1
    BY <2>2
  <2>3. CASE i > n + 1
    <3>1. i - (n + 1) \in Int /\ i - (n + 1) >= 1 /\ i - (n + 1) <= m
      BY <2>3
    <3>2. i = n + 1 + (i - (n + 1))
      OBVIOUS
    <3> QED BY <3>1, <3>2
  <2> QED BY <2>1, <2>2, <2>3
<1>7. from' = from /\ told' = told /\ journal' = journal /\ dial'[d] = "welcomed"
  BY <1>0 DEF Welcome, Step, relay_
<1>8. \A i \in 1 .. n : inbox'[d][i].type # "connected"
  BY <1>5, <1>a DEF MailInOrder, NoGreeting
<1>9. \A j \in 1 .. m : inbox'[d][n + 1 + j].type # "connected"
  <2>1. \A c : Event(c).type # "connected"
    BY DEF Event
  <2> QED BY <1>5, <2>1
<1>10. Greets(d, n + 1)'
  <2>1. inbox'[d][n + 1].type = "connected"
    BY <1>4, <1>5
  <2>2. ASSUME NEW i \in 1 .. Len(inbox'[d]), inbox'[d][i].type = "connected" PROVE i = n + 1
    BY <1>6, <1>8, <1>9, <2>2
  <2> QED BY <2>1, <2>2 DEF Greets
<1>11. MailInOrder(d)'
  <2>1. OnlyCloses(d)'
    BY <1>2 DEF MailInOrder, OnlyCloses
  <2>2. from'[d] <= inbox'[d][n + 1].seq
    BY <1>a, <1>4, <1>5, <1>7 DEF Knows
  <2>3. \A i \in 1 .. Len(inbox'[d]) : inbox'[d][i].type = "connected" => from'[d] <= inbox'[d][i].seq
    BY <1>10, <2>2 DEF Greets
  <2> QED BY <1>7, <2>1, <2>3 DEF MailInOrder
<1>12. ASSUME NEW c \in told PROVE (\E q \in 1 .. from[d] : journal[q] = c) \/ InMail(d, c, n + 1)'
  <2>1. PICK q \in 1 .. l : journal[q] = c
    BY <1>a DEF ToldIsJournaled
  <2>2. CASE q <= from[d]
    BY <1>0, <2>1, <2>2
  <2>3. CASE q > from[d]
    <3>1. PICK j \in 1 .. m : q = from[d] + j
      <4>1. q - from[d] \in 1 .. m /\ q = from[d] + (q - from[d])
        BY <1>0, <1>a, <2>3
      <4> QED BY <4>1
    <3>2. inbox'[d][n + 1 + j] = Event(c)
      BY <1>5, <2>1, <3>1
    <3>3. n + 1 + j \in 1 .. Len(inbox'[d]) /\ n + 1 + j > n + 1
      <4>1. j \in Nat /\ j >= 1 /\ j <= m
        BY <3>1, <1>a
      <4>2. Len(inbox'[d]) = n + 1 + m
        BY <1>5
      <4>3. n + 1 + j \in 1 .. n + 1 + m /\ n + 1 + j > n + 1
        BY <4>1
      <4> QED BY <4>2, <4>3
    <3> QED BY <3>2, <3>3 DEF InMail
  <2> QED BY <1>0, <2>1, <2>2, <2>3
<1>13. Waits(d, n + 1)'
  BY <1>7, <1>10, <1>12 DEF Waits
<1>14. n + 1 \in 1 .. Len(inbox'[d])
  BY <1>5, <1>a
<1> QED BY <1>11, <1>13, <1>14 DEF IsTold

\* A dial that the step leaves alone follows as before.
LEMMA FollowsKept ==
  ASSUME ClientTypes, NEW d \in Dials, Follows(d), JournalGrows, PageGrows, OnlyCloses(d)',
         dial'[d] = dial[d], inbox'[d] = inbox[d], from'[d] = from[d],
         registered' = d => registered = d,
         (dial[d] = "welcomed" /\ registered = d) => told' = told
  PROVE  Follows(d)'
<1>1. Knows(d)'
  BY KnowsKept DEF Follows
<1>2. MailInOrder(d)'
  BY DEF Follows, MailInOrder, NoGreeting
<1>3. ASSUME dial'[d] = "welcomed", registered' = d PROVE IsTold(d)'
  BY <1>3, ToldKept DEF Follows
<1> QED BY <1>1, <1>2, <1>3 DEF Follows

\* Reading from a socket leaves its mail in order.
LEMMA MailRead ==
  ASSUME ClientTypes, NEW d \in Dials, MailInOrder(d), inbox[d] # <<>>, Heard(d), from' = from, dial' = dial
  PROVE  MailInOrder(d)' /\ inbox'[d] = Tail(inbox[d]) /\ dial[d] # "dialing"
<1>0. inbox[d] \in Seq(Message) /\ inbox \in [Dials -> Seq(Message)]
  BY DEF ClientTypes, DialTypes
<1>1. inbox'[d] = Tail(inbox[d]) /\ \A e \in Dials : e # d => inbox'[e] = inbox[e]
  BY <1>0 DEF Heard
<1>2. /\ Len(inbox'[d]) = Len(inbox[d]) - 1
      /\ \A i \in 1 .. Len(inbox'[d]) : inbox'[d][i] = inbox[d][i + 1] /\ i + 1 \in 1 .. Len(inbox[d])
  BY <1>0, <1>1
<1>3. OnlyCloses(d)'
  BY <1>1 DEF MailInOrder, OnlyCloses
<1>4. NoGreeting(d) => NoGreeting(d)'
  BY <1>2 DEF NoGreeting
<1> QED BY <1>1, <1>2, <1>3, <1>4 DEF MailInOrder

\* The sandbox's word goes to the socket the page follows, if to any.
LEMMA PostFollows ==
  ASSUME ClientTypes, NEW d \in Dials, dial[d] \in {"dialing", "open", "welcomed"}, Follows(d),
         \A e \in Sockets : e = d, NEW m \in Message, m.type # "connected",
         inbox' = Post(<<m>>), JournalGrows,
         UNCHANGED <<page, lastSeq, dial, from, registered>>,
         told' = told \/ \E c \in Nat : told' = told \union {c} /\ m = Event(c)
  PROVE  Follows(d)'
<1>0. DialTypes /\ <<m>> \in Seq(Message) /\ inbox[d] \in Seq(Message)
  BY DEF ClientTypes, DialTypes
<1>1. \A e \in Dials : \/ inbox'[e] = inbox[e] /\ (e # registered \/ dial[e] \notin Opened)
                       \/ e = registered /\ dial[e] \in Opened /\ inbox'[e] = inbox[e] \o <<m>>
  BY <1>0, Posted
<1>2. \A e \in Dials : e # d => inbox'[e] = inbox[e]
  BY <1>1 DEF Sockets, Opened
<1>3. PageGrows
  BY DEF PageGrows
<1>4. OnlyCloses(d)'
  BY <1>2 DEF Follows, MailInOrder, OnlyCloses
<1>5. CASE inbox'[d] = inbox[d] /\ (d # registered \/ dial[d] \notin Opened)
  BY <1>3, <1>4, <1>5, FollowsKept DEF Opened
<1>6. CASE d = registered /\ dial[d] \in Opened /\ inbox'[d] = inbox[d] \o <<m>>
  <2>1. inbox'[d] = Append(inbox[d], m)
    BY <1>0, <1>6
  <2>2. Knows(d)'
    BY <1>3, KnowsKept DEF Follows
  <2>3. MailInOrder(d)'
    <3>1. \A i \in 1 .. Len(inbox'[d]) : inbox'[d][i].type = "connected"
                                           => i \in 1 .. Len(inbox[d]) /\ inbox'[d][i] = inbox[d][i]
      BY <1>0, <2>1
    <3>2. NoGreeting(d) => NoGreeting(d)'
      BY <3>1 DEF NoGreeting
    <3> QED BY SMTT(60), <1>4, <1>6, <3>1, <3>2 DEF Follows, MailInOrder, Opened
  <2>4. ASSUME dial[d] = "welcomed" PROVE IsTold(d)'
    BY <1>6, <2>1, <2>4, ToldMore DEF Follows
  <2> QED BY <2>2, <2>3, <2>4 DEF Follows
<1> QED BY <1>1, <1>5, <1>6

\* The relay journals what it tells, and only appends to the journal.
LEMMA ToldIsJournaledStep ==
  ASSUME ClientTypes, ToldIsJournaled, [ClientNext]_clientVars
  PROVE  ToldIsJournaled' /\ JournalGrows
<1>0. journal \in Seq(Nat) /\ made \in Nat /\ InitialPrompt \in Nat /\ Probe \in Nat
  BY ClientBounds DEF ClientTypes, RelayTypes, InitialPrompt, Probe
<1>s. ASSUME NEW what \in Nat, Send(what) PROVE JournalGrows
  BY <1>s DEF Send, JournalGrows
<1>j. ASSUME JournalGrows, told' = told PROVE ToldIsJournaled' /\ JournalGrows
  <2>1. \A q \in 1 .. Len(journal) : q \in 1 .. Len(journal') /\ journal'[q] = journal[q]
    BY <1>0, <1>j, JournalKept
  <2> QED BY <1>j, <2>1 DEF ToldIsJournaled
<1>1. CASE SandboxSays
  <2>1. journal' = Append(journal, made') /\ told' = told \union {made'} /\ made' \in Nat
    BY <1>0, <1>1 DEF SandboxSays
  <2>2. Len(journal') = Len(journal) + 1 /\ journal'[Len(journal) + 1] = made'
        /\ \A q \in 1 .. Len(journal) : journal'[q] = journal[q]
    BY <1>0, <2>1
  <2>3. JournalGrows
    BY <2>1 DEF JournalGrows
  <2>4. \A q \in 1 .. Len(journal) + 1 : q \in 1 .. Len(journal')
    BY <2>2
  <2>5. Len(journal) + 1 \in 1 .. Len(journal) + 1 /\ \A q \in 1 .. Len(journal) : q \in 1 .. Len(journal) + 1
    BY <1>0
  <2> QED BY <2>1, <2>2, <2>3, <2>4, <2>5 DEF ToldIsJournaled
<1>2. CASE SandboxAnswers
  BY <1>0, <1>2, <1>j DEF SandboxAnswers, JournalGrows
<1>3. CASE OthersPrompt
  BY <1>0, <1>3, <1>j DEF OthersPrompt, JournalGrows
<1>4. CASE Type
  <2>1. Send(made') /\ made' \in Nat /\ told' = told
    BY <1>0, <1>4 DEF Type, SendPrompt
  <2> QED BY <1>s, <1>j, <2>1
<1>5. ASSUME NEW d \in Dials, HearConnected(d) PROVE ToldIsJournaled' /\ JournalGrows
  <2>1. told' = told /\ (Send(Probe) \/ journal' = journal)
    BY <1>5 DEF HearConnected
  <2> QED BY <1>0, <1>s, <1>j, <2>1 DEF JournalGrows
<1>6. ASSUME NEW d \in Dials, HearState(d) PROVE ToldIsJournaled' /\ JournalGrows
  <2>1. told' = told /\ (Send(InitialPrompt) \/ journal' = journal)
    BY <1>6 DEF HearState, FlushPendingInitialPrompt, SendPrompt
  <2> QED BY <1>0, <1>s, <1>j, <2>1 DEF JournalGrows
<1>7. CASE SessionLoads \/ LeavePage \/ Reconnect \/ UNCHANGED clientVars
  <2>1. told' = told /\ journal' = journal
    BY <1>7 DEF SessionLoads, LeavePage, Reconnect, clientVars, relay_
  <2> QED BY <1>j, <2>1 DEF JournalGrows
<1>8. ASSUME NEW d \in Dials, \/ ActivateAnswers(d) \/ CapabilitiesAnswer(d) \/ EventsAnswer(d) \/ SocketOpens(d)
                              \/ Welcome(d) \/ SocketEnds(d) \/ HearEvent(d) \/ HearClose(d)
      PROVE  ToldIsJournaled' /\ JournalGrows
  <2>1. told' = told /\ journal' = journal
    BY <1>8 DEF ActivateAnswers, CapabilitiesAnswer, EventsAnswer, SocketOpens, Welcome, SocketEnds,
                HearEvent, HearClose, relay_
  <2> QED BY <1>j, <2>1 DEF JournalGrows
<1> QED BY <1>1, <1>2, <1>3, <1>4, <1>5, <1>6, <1>7, <1>8 DEF ClientNext

\* When the journal is fetched alone, the page follows from there.
LEMMA FetchFollows ==
  ASSUME ClientTypes, SocketsInOrder, NEW d \in Dials, EventsAnswer(d), ~strayed'
  PROVE  Sockets' = {d} /\ Follows(d)'
<1>0. /\ journal \in Seq(Nat) /\ from \in [Dials -> Nat] /\ dial \in [Dials -> DialStates]
      /\ inbox \in [Dials -> Seq(Message)]
  BY DEF ClientTypes, DialTypes, RelayTypes
<1>1. /\ from[d] <= Len(journal) /\ \A e \in Dials : e # d => e \notin UnderWay /\ inbox[e] = <<>>
  BY <1>0 DEF EventsAnswer
<1>2. /\ page' = Merged(FetchedUntil(from[d]), page) /\ lastSeq' = from[d] /\ dial' = [dial EXCEPT ![d] = "dialing"]
      /\ from' = from /\ inbox' = inbox /\ journal' = journal /\ dial[d] = "fetching"
  BY DEF EventsAnswer, Step, relay_
<1>3. Sockets' = {d}
  BY <1>0, <1>1, <1>2 DEF Sockets, UnderWay, Opened
<1>4. FetchedUntil(from[d]) = SubSeq(journal, 1, from[d])
  <2>1. Min({from[d], Len(journal)}) = from[d]
    <3> DEFINE both == {from[d], Len(journal)}
    <3>1. both \in SUBSET Nat /\ both # {}
      BY <1>0
    <3>2. Min(both) \in both /\ \A y \in both : Min(both) <= y
      <4> HIDE DEF both
      <4> QED BY <3>1, LeastNumber
    <3> QED BY <1>0, <1>1, <3>2
  <2> QED BY <2>1 DEF FetchedUntil
<1>5. \A q \in 1 .. from[d] : q \in DOMAIN FetchedUntil(from[d]) /\ FetchedUntil(from[d])[q] = journal[q]
  BY <1>0, <1>1, <1>4
<1>6. \A q \in 1 .. from[d] : q \in DOMAIN page' /\ page'[q] = journal[q]
  <2> DEFINE fetched == FetchedUntil(from[d])
  <2>1. page' = Merged(fetched, page)
    BY <1>2
  <2>2. \A q \in 1 .. from[d] : q \in DOMAIN fetched /\ fetched[q] = journal[q]
    BY <1>5
  <2> HIDE DEF fetched
  <2> QED BY <2>1, <2>2 DEF Merged
<1>7. Knows(d)'
  BY <1>0, <1>1, <1>2, <1>6 DEF Knows
<1>8. inbox[d] = <<>>
  BY <1>2 DEF SocketsInOrder
<1>9. MailInOrder(d)'
  BY <1>0, <1>1, <1>2, <1>8 DEF MailInOrder, OnlyCloses
<1> QED BY <1>0, <1>2, <1>3, <1>7, <1>9 DEF Follows

\* A page that does not stray goes on following: no step takes from it what it
\* has been told, or what it is going to be.
LEMMA FollowingStep ==
  ASSUME ClientTypes, SocketsInOrder, ToldIsJournaled, Following, [ClientNext]_clientVars
  PROVE  Following'
<1>0. /\ DialTypes /\ journal \in Seq(Nat) /\ lastSeq \in Nat /\ Probe \in Nat /\ InitialPrompt \in Nat
      /\ NoDial \notin Dials /\ made \in Nat
  BY ClientBounds, DialsAreNumbers DEF ClientTypes, PageTypes, RelayTypes, Probe, InitialPrompt
<1>j. JournalGrows
  BY ToldIsJournaledStep
<1>d. inbox \in [Dials -> Seq(Message)] /\ dial \in [Dials -> DialStates] /\ from \in [Dials -> Nat]
  BY <1>0 DEF DialTypes
<1>a. ASSUME strayed' = strayed, Sockets' \subseteq Sockets,
             \A d \in Sockets' : (d \in Dials /\ Follows(d) /\ \A e \in Sockets : e = d) => Follows(d)'
      PROVE  Following'
  BY <1>a DEF Following, Sockets
<1>k. ASSUME strayed' = strayed, PageGrows, told' = told, \A d \in Sockets' : d \in Sockets /\ dial'[d] = dial[d]
                /\ inbox'[d] = inbox[d] /\ from'[d] = from[d] /\ (registered' = d => registered = d),
             \A e \in Dials : inbox'[e] = inbox[e]
                              \/ \A i \in 1 .. Len(inbox'[e]) : \/ inbox'[e][i].type = "close"
                                                                \/ i \in 1 .. Len(inbox[e]) /\ inbox'[e][i] = inbox[e][i]
      PROVE  Following'
  <2>1. ASSUME NEW d \in Sockets', d \in Dials, Follows(d) PROVE Follows(d)'
    <3>1. OnlyCloses(d)'
      BY <1>k, <2>1 DEF Follows, MailInOrder, OnlyCloses
    <3> QED BY <1>j, <1>k, <2>1, <3>1, FollowsKept
  <2> QED BY <1>a, <1>k, <2>1
<1>1. CASE SessionLoads
  <2>1. Begun(HangUp) /\ HangUp \in [Dials -> DialStates]
    BY <1>0, <1>1, OneMoreDial, HungUp DEF SessionLoads
  <2>2. \A d \in Dials : inbox'[d] = CutOff(d)
    BY <1>1 DEF SessionLoads
  <2>3. \A d \in Dials : dial'[d] = HangUp[d] \/ dial'[d] = "activating"
    BY <2>1 DEF Begun
  <2>4. UNCHANGED <<page, lastSeq, from, registered, told, strayed>> /\ PageGrows
    BY <1>1 DEF SessionLoads, relay_, seen_, PageGrows
  <2>5. \A d \in Sockets' : d \in Sockets /\ dial'[d] = dial[d] /\ inbox'[d] = inbox[d]
    BY <1>0, <2>2, <2>3, HungUp DEF Sockets
  <2>6. \A e \in Dials : inbox'[e] = inbox[e] \/ \A i \in 1 .. Len(inbox'[e]) : inbox'[e][i].type = "close"
    BY <1>0, <2>2, HungUp DEF Closing
  <2> QED BY <1>k, <2>4, <2>5, <2>6
<1>2. CASE LeavePage
  <2>1. \A d \in Dials : inbox'[d] = CutOff(d) /\ dial' = HangUp
    BY <1>2 DEF LeavePage
  <2>2. UNCHANGED <<page, lastSeq, from, registered, told, strayed>> /\ PageGrows
    BY <1>2 DEF LeavePage, relay_, PageGrows
  <2>3. \A d \in Sockets' : d \in Sockets /\ dial'[d] = dial[d] /\ inbox'[d] = inbox[d]
    BY <1>0, <2>1, HungUp DEF Sockets
  <2>4. \A e \in Dials : inbox'[e] = inbox[e] \/ \A i \in 1 .. Len(inbox'[e]) : inbox'[e][i].type = "close"
    BY <1>0, <2>1, HungUp DEF Closing
  <2> QED BY <1>k, <2>2, <2>3, <2>4
<1>3. CASE Reconnect
  <2>1. Begun(dial)
    BY <1>3, OneMoreDial DEF Reconnect
  <2>2. \A d \in Dials : dial'[d] = dial[d] \/ dial'[d] = "activating"
    BY <1>d, <2>1 DEF Begun
  <2>3. UNCHANGED <<page, lastSeq, from, inbox, registered, told, strayed>> /\ PageGrows
    BY <1>3 DEF Reconnect, relay_, seen_, PageGrows
  <2>4. \A d \in Sockets' : d \in Sockets /\ dial'[d] = dial[d]
    BY <2>2 DEF Sockets
  <2> QED BY <1>k, <2>3, <2>4
<1>4. CASE Type
  <2>1. UNCHANGED <<dial, from, inbox, registered, told, strayed>>
    BY <1>4 DEF Type, seen_
  <2>2. PageGrows
    BY <1>0, <1>4 DEF Type, SendPrompt, PageGrows
  <2> QED BY <1>k, <2>1, <2>2 DEF Sockets
<1>5. CASE SandboxSays
  <2>1. /\ inbox' = Post(<<Event(made')>>) /\ told' = told \union {made'} /\ made' \in Nat /\ strayed' = strayed
        /\ UNCHANGED <<page, lastSeq, dial, from, registered>>
    BY <1>0, <1>5 DEF SandboxSays, page_, seen_
  <2>2. Event(made') \in Message /\ Event(made').type # "connected"
    BY <2>1 DEF Event, Message
  <2>3. ASSUME NEW d \in Sockets', d \in Dials, Follows(d), \A e \in Sockets : e = d PROVE Follows(d)'
    <3>1. dial[d] \in {"dialing", "open", "welcomed"}
      BY <2>1 DEF Sockets
    <3> QED BY <1>j, <2>1, <2>2, <2>3, <3>1, PostFollows
  <2>4. Sockets' \subseteq Sockets
    BY <2>1 DEF Sockets
  <2> QED BY <1>a, <2>1, <2>3, <2>4
<1>6. CASE SandboxAnswers
  <2>1. PICK probe \in asked :
          /\ inbox' = Post(<<[type |-> "state", probe |-> probe]>>)
          /\ UNCHANGED <<page_, dial, from, registered, told, seen_>>
    BY <1>6 DEF SandboxAnswers
  <2>2. /\ [type |-> "state", probe |-> probe] \in Message
        /\ [type |-> "state", probe |-> probe].type # "connected"
    BY DEF ClientTypes, RelayTypes, Message
  <2>3. UNCHANGED <<page, lastSeq, dial, from, registered, told, strayed>>
    BY <2>1 DEF page_, seen_
  <2>4. ASSUME NEW d \in Sockets', d \in Dials, Follows(d), \A e \in Sockets : e = d PROVE Follows(d)'
    <3>1. dial[d] \in {"dialing", "open", "welcomed"}
      BY <2>3 DEF Sockets
    <3> QED BY <1>j, <2>1, <2>2, <2>3, <2>4, <3>1, PostFollows
  <2>5. Sockets' \subseteq Sockets
    BY <2>3 DEF Sockets
  <2> QED BY <1>a, <2>3, <2>4, <2>5
<1>7. CASE OthersPrompt
  <2>1. UNCHANGED <<page, lastSeq, dial, from, inbox, registered, told, strayed>> /\ PageGrows
    BY <1>7 DEF OthersPrompt, page_, dials_, seen_, PageGrows
  <2> QED BY <1>k, <2>1 DEF Sockets
<1>8. ASSUME NEW d \in Dials, ActivateAnswers(d) \/ CapabilitiesAnswer(d) PROVE Following'
  <2>1. UNCHANGED <<page, lastSeq, inbox, registered, told, strayed>> /\ PageGrows
    BY <1>8 DEF ActivateAnswers, CapabilitiesAnswer, page_, relay_, seen_, PageGrows
  <2>2. /\ dial[d] \in {"activating", "capping"} /\ dial'[d] \in {"capping", "failed", "fetching"}
        /\ \A e \in Dials : e # d => dial'[e] = dial[e] /\ from'[e] = from[e]
    BY <1>8, <1>d DEF ActivateAnswers, CapabilitiesAnswer, Step
  <2>3. \A e \in Sockets' : e \in Sockets /\ dial'[e] = dial[e] /\ from'[e] = from[e]
    BY <2>2 DEF Sockets
  <2> QED BY <1>k, <2>1, <2>3
<1>9. ASSUME NEW d \in Dials, EventsAnswer(d) PROVE Following'
  BY <1>9, FetchFollows DEF Following
<1>10. ASSUME NEW d \in Dials, SocketOpens(d) PROVE Following'
  <2>1. UNCHANGED <<page, lastSeq, inbox, from, told, strayed>> /\ registered' = d /\ dial[d] = "dialing"
        /\ dial' = [dial EXCEPT ![d] = "open"] /\ PageGrows
    BY <1>10 DEF SocketOpens, Step, page_, seen_, PageGrows
  <2>2. Sockets' \subseteq Sockets /\ d \in Sockets
    BY <1>d, <2>1 DEF Sockets
  <2>3. ASSUME Follows(d) PROVE Follows(d)'
    <3>1. Knows(d)'
      BY <1>j, <2>1, <2>3, KnowsKept DEF Follows
    <3>2. inbox[d] = <<>> /\ inbox'[d] = <<>>
      BY <2>1, <2>3 DEF Follows, MailInOrder
    <3>3. MailInOrder(d)'
      BY <1>d, <2>1, <2>3, <3>2 DEF Follows, MailInOrder, OnlyCloses, NoGreeting
    <3> QED BY <1>d, <2>1, <3>1, <3>3 DEF Follows
  <2> QED BY <1>a, <2>1, <2>2, <2>3
<1>11. ASSUME NEW d \in Dials, Welcome(d) PROVE Following'
  <2>1. /\ UNCHANGED <<page, lastSeq, from, registered, told, journal>> /\ dial[d] = "open"
        /\ dial' = [dial EXCEPT ![d] = "welcomed"] /\ PageGrows
        /\ strayed' = (strayed \/ (from[d] = 0 /\ journal # <<>>))
    BY <1>11 DEF Welcome, Step, page_, relay_, PageGrows
  <2>2. Sockets' = Sockets /\ d \in Sockets
    BY <1>d, <2>1 DEF Sockets
  <2>s. SUFFICES ASSUME ~strayed' PROVE /\ \A e, f \in Sockets' : e = f
                                        /\ \A e \in Sockets' : Follows(e)'
    BY DEF Following
  <2>3. ~strayed /\ (from[d] > 0 \/ journal = <<>>)
    <3>1. ~(strayed \/ (from[d] = 0 /\ journal # <<>>))
      <4>1. strayed' = (strayed \/ (from[d] = 0 /\ journal # <<>>))
        BY <2>1
      <4> QED BY <2>s, <4>1
    <3>2. from[d] \in Nat
      BY <1>d
    <3> QED BY <3>1, <3>2
  <2>4. Follows(d) /\ \A e \in Sockets : e = d
    BY <2>2, <2>3 DEF Following
  <2>5. Knows(d)'
    BY <1>j, <2>1, <2>4, KnowsKept DEF Follows
  <2>6. CASE registered = d
    BY <1>11, <2>1, <2>3, <2>4, <2>5, <2>6, <2>2, Greeted DEF Follows
  <2>7. CASE registered # d
    <3>1. \A e \in Dials : inbox'[e] = inbox[e]
      <4>1. PICK messages : inbox' = Post(messages)
        BY <1>11, Zenon DEF Welcome
      <4>2. registered \notin Dials \/ dial[registered] \notin Opened
        BY <2>4, <2>7 DEF Sockets, Opened
      <4> QED BY <1>d, <4>1, <4>2 DEF Post
    <3>2. MailInOrder(d)'
      BY <1>d, <2>1, <2>4, <3>1 DEF Follows, MailInOrder, OnlyCloses
    <3>3. Follows(d)'
      BY <2>1, <2>5, <2>7, <3>2 DEF Follows
    <3> QED BY <2>2, <2>4, <3>3
  <2> QED BY <2>6, <2>7
<1>12. ASSUME NEW d \in Dials, SocketEnds(d) PROVE Following'
  <2>1. /\ UNCHANGED <<page, lastSeq, from, told, strayed>> /\ PageGrows
        /\ dial' = [dial EXCEPT ![d] = "closed"]
        /\ registered' \in {registered, NoDial}
        /\ inbox' = [inbox EXCEPT ![d] = Append(@, Closing(IF dial[d] = "closing" THEN 1000 ELSE 1006))]
    BY <1>12 DEF SocketEnds, Step, page_, seen_, PageGrows
  <2>2. \A e \in Sockets' : e \in Sockets /\ e # d /\ dial'[e] = dial[e] /\ inbox'[e] = inbox[e]
    BY <1>d, <2>1 DEF Sockets
  <2>3. \A i \in 1 .. Len(inbox'[d]) : inbox'[d][i].type = "close" \/ (i \in 1 .. Len(inbox[d]) /\ inbox'[d][i] = inbox[d][i])
    BY <1>d, <2>1 DEF Closing
  <2>4. \A e \in Dials : e # d => inbox'[e] = inbox[e]
    BY <1>d, <2>1
  <2>5. \A e \in Sockets' : registered' = e => registered = e
    BY <1>0, <2>1 DEF Sockets
  <2> QED BY <1>k, <2>1, <2>2, <2>3, <2>4, <2>5
<1>h. ASSUME NEW d \in Dials, inbox[d] # <<>>, Heard(d), UNCHANGED <<dial, from, registered, told, strayed>>,
             (Head(inbox[d]).type # "close" \/ d \in Sockets) /\ Follows(d) => Follows(d)',
             Head(inbox[d]).type = "close" => PageGrows
      PROVE  Following'
  <2>1. Sockets' = Sockets
    BY <1>h DEF Sockets
  <2>2. ASSUME NEW e \in Sockets, Follows(e) PROVE Follows(e)'
    <3>0. e \in Dials
      BY DEF Sockets
    <3>1. CASE e = d
      BY <1>h, <2>2, <3>1
    <3>2. CASE e # d
      <4>1. Head(inbox[d]) = inbox[d][1] /\ 1 \in 1 .. Len(inbox[d])
        BY <1>d, <1>h
      <4>2. Head(inbox[d]).type = "close"
        BY <2>2, <3>2, <4>1 DEF Follows, MailInOrder, OnlyCloses
      <4>3. inbox'[d] = Tail(inbox[d]) /\ \A f \in Dials : f # d => inbox'[f] = inbox[f]
        BY <1>d, <1>h DEF Heard
      <4>4. \A i \in 1 .. Len(inbox'[d]) : inbox'[d][i] = inbox[d][i + 1] /\ i + 1 \in 1 .. Len(inbox[d])
        BY <1>d, <1>h, <4>3
      <4>5. OnlyCloses(e)'
        <5>1. \A i \in 1 .. Len(inbox'[d]) : inbox'[d][i].type = "close"
          BY <2>2, <3>2, <4>4 DEF Follows, MailInOrder, OnlyCloses
        <5> QED BY <2>2, <4>3, <5>1 DEF Follows, MailInOrder, OnlyCloses
      <4> QED BY <1>h, <1>j, <2>2, <3>0, <3>2, <4>2, <4>3, <4>5, FollowsKept
    <3> QED BY <3>1, <3>2
  <2> QED BY <1>a, <1>h, <2>1, <2>2
<1>13. ASSUME NEW d \in Dials, HearConnected(d) PROVE Following'
  <2>1. /\ inbox[d] # <<>> /\ Head(inbox[d]).type = "connected" /\ Heard(d) /\ lastSeq' = Head(inbox[d]).seq
        /\ UNCHANGED <<dial, from, registered, told, strayed, page>>
    BY <1>13 DEF HearConnected, Hear, seen_
  <2>2. ASSUME Follows(d) PROVE Follows(d)'
    <3>1. MailInOrder(d)' /\ inbox'[d] = Tail(inbox[d])
      BY <2>1, <2>2, MailRead DEF Follows
    <3>2. Head(inbox[d]) = inbox[d][1] /\ 1 \in 1 .. Len(inbox[d]) /\ Head(inbox[d]) \in Message
      BY <1>d, <2>1
    <3>3. from[d] <= lastSeq' /\ lastSeq' \in Nat
      BY <2>1, <2>2, <3>2 DEF Follows, MailInOrder, Message
    <3>4. Knows(d)'
      BY <1>j, <2>1, <2>2, <3>3, KnowsKept DEF Follows
    <3>5. ASSUME dial[d] = "welcomed", registered = d PROVE IsTold(d)'
      BY <2>1, <2>2, <3>1, <3>3, <3>5, GreetingRead DEF Follows
    <3> QED BY <2>1, <3>1, <3>4, <3>5 DEF Follows
  <2> QED BY <1>h, <2>1, <2>2
<1>r. ASSUME NEW d \in Dials, inbox[d] # <<>>, Heard(d), UNCHANGED <<dial, from, registered, told, strayed>>,
             Head(inbox[d]).type # "connected", PageGrows,
             Head(inbox[d]).type = "event"
               => lastSeq' = lastSeq + 1 /\ Shows(lastSeq', Head(inbox[d]).content)
      PROVE  Following'
  <2>1. ASSUME Follows(d) PROVE Follows(d)'
    <3>1. MailInOrder(d)' /\ inbox'[d] = Tail(inbox[d])
      BY <1>r, <2>1, MailRead DEF Follows
    <3>2. Knows(d)'
      BY <1>j, <1>r, <2>1, KnowsKept DEF Follows
    <3>3. ASSUME dial[d] = "welcomed", registered = d PROVE IsTold(d)'
      BY <1>j, <1>r, <2>1, <3>1, <3>3, ToldRead DEF Follows
    <3> QED BY <1>r, <3>1, <3>2, <3>3 DEF Follows
  <2> QED BY <1>h, <1>r, <2>1
<1>14. ASSUME NEW d \in Dials, HearState(d) PROVE Following'
  <2>1. /\ inbox[d] # <<>> /\ Head(inbox[d]).type = "state" /\ Heard(d)
        /\ UNCHANGED <<dial, from, registered, told, strayed>>
    BY <1>14 DEF HearState, Hear, seen_
  <2>2. PageGrows
    BY <1>0, <1>14 DEF HearState, FlushPendingInitialPrompt, SendPrompt, PageGrows
  <2> QED BY <1>r, <2>1, <2>2
<1>15. ASSUME NEW d \in Dials, HearEvent(d) PROVE Following'
  <2>1. /\ inbox[d] # <<>> /\ Head(inbox[d]).type = "event" /\ Heard(d)
        /\ UNCHANGED <<dial, from, registered, told, strayed>>
        /\ lastSeq' = lastSeq + 1 /\ Shows(lastSeq', Head(inbox[d]).content)
    BY <1>0, <1>15 DEF HearEvent, Hear, NextSeq, Larger, relay_, seen_
  <2>2. Head(inbox[d]) \in Message
    BY <1>d, <2>1
  <2>3. PageGrows
    BY <2>1, <2>2 DEF PageGrows, Message
  <2> QED BY <1>r, <2>1, <2>3
<1>16. ASSUME NEW d \in Dials, HearClose(d) PROVE Following'
  <2>1. /\ inbox[d] # <<>> /\ Head(inbox[d]).type = "close" /\ Heard(d)
        /\ UNCHANGED <<dial, from, registered, told, strayed>> /\ PageGrows
    BY <1>16 DEF HearClose, Hear, relay_, seen_, PageGrows
  <2> QED BY <1>r, <2>1
<1>17. CASE UNCHANGED clientVars
  <2>1. UNCHANGED <<page, lastSeq, dial, from, inbox, registered, told, strayed>> /\ PageGrows
    BY <1>17 DEF clientVars, page_, dials_, relay_, seen_, PageGrows
  <2> QED BY <1>k, <2>1 DEF Sockets
<1> QED BY <1>1, <1>2, <1>3, <1>4, <1>5, <1>6, <1>7, <1>8, <1>9, <1>10, <1>11, <1>12, <1>13, <1>14,
           <1>15, <1>16, <1>17 DEF ClientNext

\* A page shows whatever the sandbox says, from a dial that had no other
\* beside it until the next, however often it was disconnected before: what
\* it had missed it fetches, or is replayed (use-session-events.ts:418,
\* session-hub.ts:114).
THEOREM PageMissesNothing == ClientSpec => []NothingIsMissed
<1>1. ClientInit => SocketsInOrder /\ LeftAlone /\ Following /\ ToldIsJournaled
  BY DialsAreNumbers DEF ClientInit, SocketsInOrder, LeftAlone, Following, Sockets, ToldIsJournaled
<1>2. ClientTypes /\ SocketsInOrder /\ ToldIsJournaled /\ Following /\ [ClientNext]_clientVars
        => SocketsInOrder' /\ ToldIsJournaled' /\ Following'
  BY SocketsInOrderStep, ToldIsJournaledStep, FollowingStep
<1>3. ClientTypes /\ Following => NothingIsMissed
  <2> SUFFICES ASSUME ClientTypes, Following, registered # NoDial, dial[registered] = "welcomed",
                      \A d \in Dials : inbox[d] = <<>>, ~strayed, NEW c \in told
               PROVE  \E q \in DOMAIN page : page[q] = c
    BY DEF NothingIsMissed
  <2>1. registered \in Sockets
    BY DEF ClientTypes, RelayTypes, Sockets
  <2>2. IsTold(registered) /\ Len(inbox[registered]) = 0
    BY <2>1 DEF Following, Follows, Sockets
  <2>3. Shown(c)
    BY <2>2 DEF IsTold, Reads, InMail
  <2> QED BY <2>3 DEF Shown
<1> QED BY <1>1, <1>2, <1>3, ClientTypeCorrect, PTL DEF ClientSpec

-----------------------------------------------------------------------------
(***************************************************************************)
(* The terminals of a session, for any number of them: a shell that has    *)
(* lost its socket was still on its way when the socket went.              *)
(***************************************************************************)

(* Who runs has listeners, a socket that has not been accepted has no shell, and *)
(* a socket that went while its shell was on its way is known as such.           *)
ShellsAreHeld ==
  \A t \in Terminals :
    /\ tab[t] = "loading" => wire[t] = "none"
    /\ pty[t] = "running" => held[t]
    /\ wire[t] \in {"none", "dialing"} => ~opening[t] /\ pty[t] = "none"
    /\ wire[t] = "closed" /\ (opening[t] \/ pty[t] = "running") => late[t]

\* What the browser reports keeps its type.
LEMMA ToldIsMail ==
  ASSUME TerminalTypeOK, NEW t \in Terminals,
         NEW events \in Seq({"open", "exit", "error", "close"}), Tell(t, events)
  PROVE  mail' \in [Terminals -> Seq({"open", "exit", "error", "close"})]
<1>1. mail[t] \o events \in Seq({"open", "exit", "error", "close"})
  BY DEF TerminalTypeOK
<1> QED BY <1>1 DEF TerminalTypeOK, Tell

\* The terminals of a session and their shells keep their types.
THEOREM TerminalTypeCorrect == TerminalSpec => []TerminalTypeOK
<1>1. TerminalInit => TerminalTypeOK
  BY DEF TerminalInit, TerminalTypeOK
<1>2. TerminalTypeOK /\ [TerminalNext]_terminalVars => TerminalTypeOK'
  <2> SUFFICES ASSUME TerminalTypeOK, [TerminalNext]_terminalVars PROVE TerminalTypeOK'
    OBVIOUS
  <2> USE DEF TerminalTypeOK
  <2>1. CASE UNCHANGED terminalVars
    BY <2>1 DEF terminalVars
  <2>2. CASE TerminalNext
    <3>0. PICK t \in Terminals :
            \/ Dial(t) \/ Unmount(t) \/ HearTerminal(t)
            \/ DialFails(t) \/ OpenRefused(t) \/ OpenAccepted(t)
            \/ PtyOpens(t) \/ PtyFails(t) \/ PtyExits(t)
            \/ OnTerminalClose(t) \/ OnTerminalError(t)
      BY <2>2 DEF TerminalNext
    <3>e. /\ <<"open">> \in Seq({"open", "exit", "error", "close"})
          /\ <<"close">> \in Seq({"open", "exit", "error", "close"})
          /\ <<"error", "close">> \in Seq({"open", "exit", "error", "close"})
          /\ <<"exit", "close">> \in Seq({"open", "exit", "error", "close"})
          /\ <<"open", "error", "close">> \in Seq({"open", "exit", "error", "close"})
      OBVIOUS
    <3>1. CASE Dial(t) BY <3>1 DEF Dial
    <3>2. CASE Unmount(t) BY <3>2 DEF Unmount
    <3>3. CASE HearTerminal(t)
      <4>1. Head(mail[t]) \in {"open", "exit", "error", "close"}
            /\ Tail(mail[t]) \in Seq({"open", "exit", "error", "close"})
        BY <3>3 DEF HearTerminal
      <4>2. StatusAfter(shown[t], Head(mail[t])) \in {"connecting", "connected", "error", "exited"}
        BY DEF StatusAfter
      <4> QED BY <3>3, <4>1, <4>2 DEF HearTerminal
    <3>4. CASE DialFails(t) BY <3>4, <3>e, ToldIsMail DEF DialFails
    <3>5. CASE OpenRefused(t) BY <3>5, <3>e, ToldIsMail DEF OpenRefused
    <3>6. CASE OpenAccepted(t) BY <3>6, <3>e, ToldIsMail DEF OpenAccepted
    <3>7. CASE PtyOpens(t) BY <3>7 DEF PtyOpens
    <3>8. CASE PtyFails(t) BY <3>8, <3>e, ToldIsMail DEF PtyFails
    <3>9. CASE PtyExits(t)
      <4>1. mail' \in [Terminals -> Seq({"open", "exit", "error", "close"})]
        BY <3>9, <3>e, ToldIsMail DEF PtyExits
      <4> QED BY <3>9, <4>1 DEF PtyExits
    <3>10. CASE OnTerminalClose(t) BY <3>10, <3>e, ToldIsMail DEF OnTerminalClose, ReleasePty
    <3>11. CASE OnTerminalError(t) BY <3>11, <3>e, ToldIsMail DEF OnTerminalError, ReleasePty
    <3> QED BY <3>0, <3>1, <3>2, <3>3, <3>4, <3>5, <3>6, <3>7, <3>8, <3>9, <3>10, <3>11
  <2> QED BY <2>1, <2>2
<1> QED BY <1>1, <1>2, PTL DEF TerminalSpec

\* However sockets close and shells arrive, exit and fail, each shell that runs
\* stays with its socket or is known to have come late.
LEMMA ShellsStayHeld ==
  ASSUME TerminalTypeOK, ShellsAreHeld, [TerminalNext]_terminalVars
  PROVE  ShellsAreHeld'
<1> USE DEF TerminalTypeOK, ShellsAreHeld
<1>1. CASE UNCHANGED terminalVars
  BY <1>1 DEF terminalVars
<1>2. CASE TerminalNext
  <2>0. PICK t \in Terminals :
          \/ Dial(t) \/ Unmount(t) \/ HearTerminal(t)
          \/ DialFails(t) \/ OpenRefused(t) \/ OpenAccepted(t)
          \/ PtyOpens(t) \/ PtyFails(t) \/ PtyExits(t)
          \/ OnTerminalClose(t) \/ OnTerminalError(t)
    BY <1>2 DEF TerminalNext
  <2>1. CASE Dial(t) BY <2>1 DEF Dial
  <2>2. CASE Unmount(t) BY <2>2 DEF Unmount
  <2>3. CASE HearTerminal(t) BY <2>3 DEF HearTerminal
  <2>4. CASE DialFails(t) BY <2>4 DEF DialFails
  <2>5. CASE OpenRefused(t) BY <2>5 DEF OpenRefused
  <2>6. CASE OpenAccepted(t) BY <2>6 DEF OpenAccepted
  <2>7. CASE PtyOpens(t) BY <2>7 DEF PtyOpens
  <2>8. CASE PtyFails(t) BY <2>8 DEF PtyFails
  <2>9. CASE PtyExits(t) BY <2>9 DEF PtyExits
  <2>10. CASE OnTerminalClose(t) BY <2>10 DEF OnTerminalClose, ReleasePty
  <2>11. CASE OnTerminalError(t) BY <2>11 DEF OnTerminalError, ReleasePty
  <2> QED BY <2>0, <2>1, <2>2, <2>3, <2>4, <2>5, <2>6, <2>7, <2>8, <2>9, <2>10, <2>11
<1> QED BY <1>1, <1>2

\* A shell that runs on without a socket was still being opened when its socket
\* went (ws/terminal.ts: onOpen, onClose, onError).
THEOREM ShellsEndWithTheirSockets == TerminalSpec => []OnlyLateShellsLeak
<1>1. TerminalInit => ShellsAreHeld
  BY DEF TerminalInit, ShellsAreHeld
<1>2. ShellsAreHeld => OnlyLateShellsLeak
  BY DEF ShellsAreHeld, OnlyLateShellsLeak
<1> QED BY <1>1, <1>2, TerminalTypeCorrect, ShellsStayHeld, PTL DEF TerminalSpec

-----------------------------------------------------------------------------
(***************************************************************************)
(* The model picker, for any models and any number of choices under way.   *)
(* Why it ends up right unless in doubt: commands and answers keep their   *)
(* order, so a switch that found no other under way is answered before all *)
(* that began after it; if it is refused and nothing else is under way, pi *)
(* still uses the model it found.                                          *)
(***************************************************************************)

(* an id is on its way at most once *)
OnceOnTheWay ==
  /\ \A i, j \in 1..Len(toPi) : toPi[i].id = toPi[j].id => i = j
  /\ \A i, j \in 1..Len(fromPi) : fromPi[i].id = fromPi[j].id => i = j
  /\ \A i \in 1..Len(toPi), j \in 1..Len(fromPi) : toPi[i].id # fromPi[j].id

(* picker and page show one model, and a switch has found them so *)
ShowAlike ==
  /\ selectedModel = sessionModel
  /\ \A s \in Switches : switch[s].selected = switch[s].previous

(* the last answers tell the model pi uses *)
LastTellsPi ==
  \A i \in 1..Len(fromPi) :
    (\A j \in 1..Len(fromPi) : j > i => fromPi[j].command # "set_model") => fromPi[i].model = piModel

(* every choice on its way is one that is waited for *)
AllAwaited ==
  /\ \A i \in 1..Len(toPi) : toPi[i].command = "set_model" => switch[toPi[i].id].at = "set_model"
  /\ \A i \in 1..Len(fromPi) : fromPi[i].command = "set_model" => switch[fromPi[i].id].at = "set_model"

(* a switch that began alone found the model pi uses until it hears of the switch *)
FirstFoundPi ==
  /\ \A i \in 1..Len(toPi) : toPi[i].command = "set_model" /\ ~switch[toPi[i].id].amid =>
       /\ piModel = switch[toPi[i].id].previous
       /\ \A j \in 1..Len(toPi) : j < i => toPi[j].command # "set_model"
  /\ \A i \in 1..Len(fromPi) :
       fromPi[i].command = "set_model" /\ ~fromPi[i].success /\ ~switch[fromPi[i].id].amid =>
         fromPi[i].model = switch[fromPi[i].id].previous

SettledOnPi == Switching = {} => sessionModel = piModel

Undoubted == ~doubtful => AllAwaited /\ FirstFoundPi /\ SettledOnPi

ComposerInv == OnceOnTheWay /\ ShowAlike /\ LastTellsPi /\ Undoubted

ToPi == [id : Switches, command : SwitchCommands, model : Listed \cup {"none"}]
FromPi == [id : Switches, command : SwitchCommands, model : PiModels, success : BOOLEAN]

\* A queue without its head.
LEMMA TailOfQueue ==
  ASSUME NEW S, NEW q \in Seq(S), q # <<>>
  PROVE  /\ Head(q) = q[1] /\ Head(q) \in S /\ Len(q) \in Nat /\ 1 \in 1..Len(q)
         /\ Tail(q) \in Seq(S) /\ Len(Tail(q)) = Len(q) - 1
         /\ \A i \in 1..Len(Tail(q)) : i + 1 \in 1..Len(q) /\ Tail(q)[i] = q[i + 1]
OBVIOUS

\* A queue with one more.
LEMMA AppendToQueue ==
  ASSUME NEW S, NEW q \in Seq(S), NEW e \in S
  PROVE  /\ Append(q, e) \in Seq(S) /\ Len(q) \in Nat /\ Len(Append(q, e)) = Len(q) + 1
         /\ Append(q, e)[Len(q) + 1] = e
         /\ \A i \in 1..Len(q) : Append(q, e)[i] = q[i]
         /\ \A i \in 1..Len(Append(q, e)) : i \in 1..Len(q) \/ i = Len(q) + 1
OBVIOUS

\* What the parts of the state are.
LEMMA TypesOfComposer ==
  ASSUME ComposerTypeOK
  PROVE  /\ toPi \in Seq(ToPi) /\ fromPi \in Seq(FromPi) /\ Len(toPi) \in Nat /\ Len(fromPi) \in Nat
         /\ \A i \in 1..Len(toPi) : toPi[i].id \in Switches /\ toPi[i].command \in SwitchCommands
         /\ \A i \in 1..Len(fromPi) : /\ fromPi[i].id \in Switches /\ fromPi[i].command \in SwitchCommands
                                      /\ fromPi[i].model \in PiModels /\ fromPi[i].success \in BOOLEAN
         /\ DOMAIN switch = Switches
         /\ \A s \in Switches : /\ switch[s].at \in SwitchCommands \union {"none"} /\ switch[s].amid \in BOOLEAN
                                /\ switch[s].at # "none" => switch[s] \in Switch
<1>1. toPi \in Seq(ToPi) /\ fromPi \in Seq(FromPi)
  BY DEF ComposerTypeOK, ToPi, FromPi
<1>2. \A i \in 1..Len(toPi) : toPi[i] \in ToPi
  BY <1>1
<1>3. \A i \in 1..Len(fromPi) : fromPi[i] \in FromPi
  BY <1>1
<1>4. \A s \in Switches : switch[s] \in Switch \/ switch[s] = NoSwitch
  BY DEF ComposerTypeOK
<1>5. DOMAIN switch = Switches
  BY DEF ComposerTypeOK
<1>6. \A s \in Switches : /\ switch[s].at \in SwitchCommands \union {"none"} /\ switch[s].amid \in BOOLEAN
                          /\ switch[s].at # "none" => switch[s] \in Switch
  <2> SUFFICES ASSUME NEW s \in Switches
               PROVE  /\ switch[s].at \in SwitchCommands \union {"none"} /\ switch[s].amid \in BOOLEAN
                      /\ switch[s].at # "none" => switch[s] \in Switch
    OBVIOUS
  <2>1. CASE switch[s] \in Switch
    BY <2>1 DEF Switch
  <2>2. CASE switch[s] = NoSwitch
    BY <2>2 DEF NoSwitch
  <2> QED BY <1>4, <2>1, <2>2
<1>7. Len(toPi) \in Nat /\ Len(fromPi) \in Nat
  BY <1>1
<1> QED BY <1>1, <1>2, <1>3, <1>5, <1>6, <1>7 DEF ToPi, FromPi

-----------------------------------------------------------------------------
\* A switch that begins.
LEMMA SwitchBegins ==
  ASSUME ComposerTypeOK, ComposerInv, NEW s \in Switches, NEW model \in Listed, ChooseModel(s, model)
  PROVE  ComposerTypeOK' /\ ComposerInv'
<1> DEFINE e == [id |-> s, command |-> "set_model", model |-> model]
           w == [at |-> "set_model", previous |-> sessionModel, selected |-> selectedModel, amid |-> Switching # {}]
<1>1. e \in ToPi /\ e.id = s /\ e.command = "set_model"
  BY DEF ToPi, SwitchCommands
<1>2. w \in Switch /\ w.at = "set_model" /\ w.previous = sessionModel /\ w.selected = selectedModel
      /\ (w.amid <=> Switching # {})
  BY DEF Switch, SwitchCommands, ComposerTypeOK
<1>3. /\ toPi' = Append(toPi, e) /\ switch' = [switch EXCEPT ![s] = w]
      /\ UNCHANGED <<piModel, fromPi, doubtful>> /\ choices' = choices + 1 /\ choices < MaxChoices
      /\ \A i \in 1..Len(toPi) : toPi[i].id # s
      /\ \A i \in 1..Len(fromPi) : fromPi[i].id # s
      /\ sessionModel' = model /\ selectedModel' = model
  BY DEF ChooseModel, ShowSession
<1> HIDE DEF e, w
<1>4. /\ toPi' \in Seq(ToPi) /\ Len(toPi) \in Nat /\ Len(toPi') = Len(toPi) + 1 /\ toPi'[Len(toPi) + 1] = e
      /\ \A i \in 1..Len(toPi) : toPi'[i] = toPi[i]
      /\ \A i \in 1..Len(toPi') : i \in 1..Len(toPi) \/ i = Len(toPi) + 1
  BY <1>1, <1>3, AppendToQueue, TypesOfComposer
<1>5. switch'[s] = w /\ \A r \in Switches \ {s} : switch'[r] = switch[r]
  BY <1>3, TypesOfComposer
<1>6. /\ \A i \in 1..Len(toPi) : switch'[toPi[i].id] = switch[toPi[i].id]
      /\ \A i \in 1..Len(fromPi) : switch'[fromPi[i].id] = switch[fromPi[i].id]
  BY <1>3, <1>5, TypesOfComposer
<1>t. ComposerTypeOK'
  BY <1>2, <1>3, <1>4, ComposerAssumption DEF ComposerTypeOK, ToPi
<1>7. OnceOnTheWay'
  BY <1>1, <1>3, <1>4 DEF ComposerInv, OnceOnTheWay
<1>8. ShowAlike'
  BY <1>2, <1>3, <1>5 DEF ComposerInv, ShowAlike
<1>9. LastTellsPi'
  BY <1>3 DEF ComposerInv, LastTellsPi
<1>10. ASSUME ~doubtful PROVE AllAwaited' /\ FirstFoundPi' /\ SettledOnPi'
  <2>0. AllAwaited /\ FirstFoundPi /\ SettledOnPi
    BY <1>10 DEF ComposerInv, Undoubted
  <2>1. AllAwaited'
    BY <1>1, <1>2, <1>3, <1>4, <1>5, <1>6, <2>0 DEF AllAwaited
  <2>2. \A i \in 1..Len(toPi') : toPi'[i].command = "set_model" /\ ~switch'[toPi'[i].id].amid =>
          /\ piModel' = switch'[toPi'[i].id].previous
          /\ \A j \in 1..Len(toPi') : j < i => toPi'[j].command # "set_model"
    <3>1. ASSUME NEW i \in 1..Len(toPi), toPi'[i].command = "set_model", ~switch'[toPi'[i].id].amid
          PROVE  /\ piModel' = switch'[toPi'[i].id].previous
                 /\ \A j \in 1..Len(toPi') : j < i => toPi'[j].command # "set_model"
      BY <1>3, <1>4, <1>6, <2>0, <3>1 DEF FirstFoundPi
    <3>2. ASSUME ~w.amid
          PROVE  /\ piModel' = w.previous
                 /\ \A j \in 1..Len(toPi) : toPi'[j].command # "set_model"
      <4>1. Switching = {}
        BY <1>2, <3>2
      <4>2. \A j \in 1..Len(toPi) : switch[toPi[j].id].at = "none"
        BY <4>1, TypesOfComposer DEF Switching
      <4>3. \A j \in 1..Len(toPi) : toPi[j].command # "set_model"
        BY <2>0, <4>2 DEF AllAwaited
      <4> QED BY <1>2, <1>3, <1>4, <2>0, <4>1, <4>3 DEF SettledOnPi
    <3> QED BY <1>1, <1>4, <1>5, <3>1, <3>2
  <2>3. FirstFoundPi'
    BY <1>3, <1>6, <2>0, <2>2 DEF FirstFoundPi
  <2>4. SettledOnPi'
    <3>1. s \in Switching'
      BY <1>2, <1>5 DEF Switching
    <3> QED BY <3>1 DEF SettledOnPi
  <2> QED BY <2>1, <2>3, <2>4
<1> QED BY <1>3, <1>t, <1>7, <1>8, <1>9, <1>10 DEF ComposerInv, Undoubted

\* pi answers: what it says last is the model it uses.
LEMMA PiHasAnswered ==
  ASSUME ComposerTypeOK, ComposerInv, PiAnswers
  PROVE  ComposerTypeOK' /\ ComposerInv'
<1> DEFINE question == toPi[1]
           taken == question.command = "set_model" /\ question.model \in PiModels
           e == [id |-> question.id, command |-> question.command, model |-> piModel',
                 success |-> taken \/ question.command = "get_state"]
           n == Len(fromPi) + 1
<1>0. toPi \in Seq(ToPi) /\ fromPi \in Seq(FromPi) /\ toPi # <<>>
  BY TypesOfComposer DEF PiAnswers
<1>1. /\ question = Head(toPi) /\ question \in ToPi /\ Len(toPi) \in Nat /\ 1 \in 1..Len(toPi)
      /\ Tail(toPi) \in Seq(ToPi) /\ Len(Tail(toPi)) = Len(toPi) - 1
      /\ \A i \in 1..Len(Tail(toPi)) : i + 1 \in 1..Len(toPi) /\ Tail(toPi)[i] = toPi[i + 1]
  BY <1>0, TailOfQueue
<1>2. /\ piModel' = IF taken THEN question.model ELSE piModel
      /\ fromPi' = Append(fromPi, e) /\ toPi' = Tail(toPi)
      /\ UNCHANGED <<sessionModel, selectedModel, switch, choices, doubtful>>
  BY <1>1 DEF PiAnswers
<1>3. piModel' \in PiModels /\ question.id \in Switches /\ question.command \in SwitchCommands
  BY <1>1, <1>2 DEF ComposerTypeOK, ToPi
<1>4. e \in FromPi /\ e.id = question.id /\ e.command = question.command /\ e.model = piModel'
      /\ (e.success <=> taken \/ question.command = "get_state")
  BY <1>3 DEF FromPi
<1>5. ~taken => piModel' = piModel
  BY <1>2
<1>6. question.command # "set_model" => ~taken
  OBVIOUS
<1>7. question.command = "set_model" /\ ~e.success => ~taken
  BY <1>4
<1> HIDE DEF e, taken, question
<1>8. /\ fromPi' \in Seq(FromPi) /\ Len(fromPi) \in Nat /\ Len(fromPi') = n /\ fromPi'[n] = e
      /\ \A i \in 1..Len(fromPi) : fromPi'[i] = fromPi[i]
      /\ \A i \in 1..Len(fromPi') : i \in 1..Len(fromPi) \/ i = n
  BY <1>0, <1>2, <1>4, AppendToQueue
<1>9. \A i \in 1..Len(toPi') : i + 1 \in 1..Len(toPi) /\ toPi'[i] = toPi[i + 1] /\ i + 1 # 1
  BY <1>1, <1>2
<1>t. ComposerTypeOK'
  BY <1>1, <1>2, <1>3, <1>8 DEF ComposerTypeOK, ToPi, FromPi
<1>10. OnceOnTheWay'
  <2>0. OnceOnTheWay
    BY DEF ComposerInv
  <2>1. \A i, j \in 1..Len(toPi') : toPi'[i].id = toPi'[j].id => i = j
    <3> SUFFICES ASSUME NEW i \in 1..Len(toPi'), NEW j \in 1..Len(toPi'), toPi'[i].id = toPi'[j].id
                 PROVE  i = j
      OBVIOUS
    <3>1. i + 1 \in 1..Len(toPi) /\ j + 1 \in 1..Len(toPi) /\ toPi[i + 1].id = toPi[j + 1].id
      BY <1>9
    <3>2. i + 1 = j + 1
      BY <2>0, <3>1 DEF OnceOnTheWay
    <3> QED BY <3>2
  <2>2. \A i \in 1..Len(fromPi) : fromPi[i].id # e.id
    BY <1>1, <1>4, <2>0 DEF OnceOnTheWay, question
  <2>3. \A i, j \in 1..Len(fromPi') : fromPi'[i].id = fromPi'[j].id => i = j
    BY <1>8, <2>0, <2>2 DEF OnceOnTheWay
  <2>4. \A i \in 1..Len(toPi') : toPi'[i].id # e.id
    BY <1>1, <1>4, <1>9, <2>0 DEF OnceOnTheWay, question
  <2>5. \A i \in 1..Len(toPi'), j \in 1..Len(fromPi') : toPi'[i].id # fromPi'[j].id
    BY SMTT(20), <1>8, <1>9, <2>0, <2>4 DEF OnceOnTheWay
  <2> QED BY <2>1, <2>3, <2>5 DEF OnceOnTheWay
<1>11. ShowAlike'
  BY <1>2 DEF ComposerInv, ShowAlike
<1>12. LastTellsPi'
  <2> SUFFICES ASSUME NEW i \in 1..Len(fromPi'),
                      \A j \in 1..Len(fromPi') : j > i => fromPi'[j].command # "set_model"
               PROVE  fromPi'[i].model = piModel'
    BY DEF LastTellsPi
  <2>1. CASE i = n
    BY <1>4, <1>8, <2>1
  <2>2. CASE i \in 1..Len(fromPi)
    <3>1. n \in 1..Len(fromPi') /\ n > i
      BY <1>8, <2>2
    <3>2. piModel' = piModel
      BY <1>4, <1>5, <1>6, <1>8, <3>1
    <3>3. \A j \in 1..Len(fromPi) : j > i => fromPi[j].command # "set_model"
      BY <1>8
    <3> QED BY <1>8, <2>2, <3>2, <3>3 DEF ComposerInv, LastTellsPi
  <2> QED BY <1>8, <2>1, <2>2
<1>13. ASSUME ~doubtful PROVE AllAwaited' /\ FirstFoundPi' /\ SettledOnPi'
  <2>0. AllAwaited /\ FirstFoundPi /\ SettledOnPi
    BY <1>13 DEF ComposerInv, Undoubted
  <2>1. AllAwaited'
    BY <1>1, <1>2, <1>4, <1>8, <1>9, <2>0 DEF AllAwaited, question
  <2>2. \A i \in 1..Len(toPi') : toPi'[i].command = "set_model" /\ ~switch'[toPi'[i].id].amid =>
          /\ piModel' = switch'[toPi'[i].id].previous
          /\ \A j \in 1..Len(toPi') : j < i => toPi'[j].command # "set_model"
    <3> SUFFICES ASSUME NEW i \in 1..Len(toPi'), toPi'[i].command = "set_model", ~switch'[toPi'[i].id].amid
                 PROVE  /\ piModel' = switch'[toPi'[i].id].previous
                        /\ \A j \in 1..Len(toPi') : j < i => toPi'[j].command # "set_model"
      OBVIOUS
    <3>1. /\ piModel = switch[toPi[i + 1].id].previous
          /\ \A j \in 1..Len(toPi) : j < i + 1 => toPi[j].command # "set_model"
      BY <1>2, <1>9, <2>0 DEF FirstFoundPi
    <3>2. question.command # "set_model"
      BY <1>1, <3>1 DEF question
    <3>3. \A j \in 1..Len(toPi') : j < i => j + 1 < i + 1
      BY <1>1, <1>2
    <3> QED BY <1>2, <1>5, <1>6, <1>9, <3>1, <3>2, <3>3
  <2>3. \A i \in 1..Len(fromPi') :
          fromPi'[i].command = "set_model" /\ ~fromPi'[i].success /\ ~switch'[fromPi'[i].id].amid =>
            fromPi'[i].model = switch'[fromPi'[i].id].previous
    <3>1. ASSUME NEW i \in 1..Len(fromPi),
                 fromPi'[i].command = "set_model", ~fromPi'[i].success, ~switch'[fromPi'[i].id].amid
          PROVE  fromPi'[i].model = switch'[fromPi'[i].id].previous
      BY <1>2, <1>8, <2>0, <3>1 DEF FirstFoundPi
    <3>2. e.command = "set_model" /\ ~e.success /\ ~switch[e.id].amid => e.model = switch[e.id].previous
      BY <1>1, <1>4, <1>5, <1>7, <2>0 DEF FirstFoundPi, question
    <3> QED BY <1>2, <1>8, <3>1, <3>2
  <2>4. FirstFoundPi'
    BY <2>2, <2>3 DEF FirstFoundPi
  <2>5. SettledOnPi'
    <3> SUFFICES ASSUME Switching' = {} PROVE sessionModel' = piModel'
      BY DEF SettledOnPi
    <3>1. Switching = {}
      BY <1>2 DEF Switching
    <3>2. switch[question.id].at = "none"
      BY <1>3, <3>1 DEF Switching
    <3>3. question.command # "set_model"
      BY <1>1, <2>0, <3>2 DEF AllAwaited, question
    <3> QED BY <1>2, <1>5, <1>6, <2>0, <3>1, <3>3 DEF SettledOnPi
  <2> QED BY <2>1, <2>4, <2>5
<1> QED BY <1>2, <1>t, <1>10, <1>11, <1>12, <1>13 DEF ComposerInv, Undoubted

\* What the page holds when an answer to a switch has been heard, and what is then
\* on its way: the answer is gone, the switch has ended or waits for pi's state.
LEMMA AnswerIsGone ==
  ASSUME ComposerTypeOK, ComposerInv, HearAnswer
  PROVE  LET s == fromPi[1].id IN
         /\ fromPi' \in Seq(FromPi) /\ Len(fromPi) \in Nat /\ 1 \in 1..Len(fromPi)
         /\ fromPi[1] \in FromPi /\ s \in Switches
         /\ \A i \in 1..Len(fromPi') : i + 1 \in 1..Len(fromPi) /\ fromPi'[i] = fromPi[i + 1] /\ fromPi'[i].id # s
         /\ \A i \in 1..Len(toPi) : toPi[i].id # s
         /\ \A i \in 1..Len(fromPi) : i = 1 \/ (i - 1 \in 1..Len(fromPi') /\ fromPi[i] = fromPi'[i - 1])
         /\ \A i, j \in 1..Len(fromPi') : fromPi'[i].id = fromPi'[j].id => i = j
         /\ \A i \in 1..Len(toPi), j \in 1..Len(fromPi') : toPi[i].id # fromPi'[j].id
         /\ UNCHANGED <<piModel, choices>>
<1> DEFINE s == fromPi[1].id
<1>0. fromPi \in Seq(FromPi) /\ fromPi # <<>> /\ fromPi' = Tail(fromPi) /\ UNCHANGED <<piModel, choices>>
  BY TypesOfComposer DEF HearAnswer
<1>1. /\ fromPi[1] \in FromPi /\ Len(fromPi) \in Nat /\ 1 \in 1..Len(fromPi)
      /\ fromPi' \in Seq(FromPi) /\ Len(fromPi') = Len(fromPi) - 1
      /\ \A i \in 1..Len(fromPi') : i + 1 \in 1..Len(fromPi) /\ fromPi'[i] = fromPi[i + 1]
  BY <1>0, TailOfQueue
<1>2. s \in Switches
  BY <1>1 DEF FromPi
<1>3. OnceOnTheWay
  BY DEF ComposerInv
<1>4. \A i \in 1..Len(fromPi') : i + 1 # 1 /\ fromPi'[i].id # s
  BY <1>1, <1>3 DEF OnceOnTheWay
<1>5. \A i \in 1..Len(toPi) : toPi[i].id # s
  BY <1>1, <1>3 DEF OnceOnTheWay
<1>6. \A i \in 1..Len(fromPi) : i = 1 \/ (i - 1 \in 1..Len(fromPi') /\ fromPi[i] = fromPi'[i - 1])
  BY <1>1
<1>7. \A i, j \in 1..Len(fromPi') : fromPi'[i].id = fromPi'[j].id => i = j
  <2> SUFFICES ASSUME NEW i \in 1..Len(fromPi'), NEW j \in 1..Len(fromPi'), fromPi'[i].id = fromPi'[j].id
               PROVE  i = j
    OBVIOUS
  <2>1. i + 1 \in 1..Len(fromPi) /\ j + 1 \in 1..Len(fromPi) /\ fromPi[i + 1].id = fromPi[j + 1].id
    BY <1>1
  <2>2. i + 1 = j + 1
    BY <1>3, <2>1 DEF OnceOnTheWay
  <2> QED BY <2>2
<1>8. \A i \in 1..Len(toPi), j \in 1..Len(fromPi') : toPi[i].id # fromPi'[j].id
  BY <1>1, <1>3 DEF OnceOnTheWay
<1> QED BY <1>0, <1>1, <1>2, <1>4, <1>5, <1>6, <1>7, <1>8

\* The answers left tell the model pi uses, and so does the one just heard when no
\* choice follows it.
LEMMA LastStillTells ==
  ASSUME ComposerTypeOK, ComposerInv, HearAnswer
  PROVE  /\ LastTellsPi'
         /\ (\A i \in 1..Len(fromPi') : fromPi'[i].command # "set_model") => fromPi[1].model = piModel
<1>0. LastTellsPi
  BY DEF ComposerInv
<1>1. LastTellsPi'
  <2> SUFFICES ASSUME NEW i \in 1..Len(fromPi'),
                      \A j \in 1..Len(fromPi') : j > i => fromPi'[j].command # "set_model"
               PROVE  fromPi'[i].model = piModel'
    BY DEF LastTellsPi
  <2>1. i + 1 \in 1..Len(fromPi) /\ fromPi'[i] = fromPi[i + 1] /\ piModel' = piModel
    BY AnswerIsGone
  <2>2. \A j \in 1..Len(fromPi) : j > i + 1 => j - 1 \in 1..Len(fromPi') /\ j - 1 > i /\ fromPi[j] = fromPi'[j - 1]
    BY AnswerIsGone
  <2>3. \A j \in 1..Len(fromPi) : j > i + 1 => fromPi[j].command # "set_model"
    BY <2>2
  <2> QED BY <1>0, <2>1, <2>3 DEF LastTellsPi
<1>2. ASSUME \A i \in 1..Len(fromPi') : fromPi'[i].command # "set_model"
      PROVE  fromPi[1].model = piModel
  <2>1. \A j \in 1..Len(fromPi) : j > 1 => fromPi[j].command # "set_model"
    BY <1>2, AnswerIsGone
  <2> QED BY <1>0, <2>1, AnswerIsGone DEF LastTellsPi
<1> QED BY <1>1, <1>2

\* What is awaited and found stays so when an answer has been heard, whatever becomes
\* of its switch.
LEMMA OthersStillAwaited ==
  ASSUME ComposerTypeOK, ComposerInv, HearAnswer, AllAwaited, FirstFoundPi,
         \A r \in Switches : r # fromPi[1].id => switch'[r] = switch[r], UNCHANGED toPi
  PROVE  AllAwaited' /\ FirstFoundPi'
<1>1. /\ \A i \in 1..Len(toPi) : toPi[i].id \in Switches /\ switch'[toPi[i].id] = switch[toPi[i].id]
      /\ \A i \in 1..Len(fromPi') : /\ i + 1 \in 1..Len(fromPi) /\ fromPi'[i] = fromPi[i + 1]
                                    /\ switch'[fromPi'[i].id] = switch[fromPi'[i].id]
      /\ piModel' = piModel
  BY AnswerIsGone, TypesOfComposer
<1>2. AllAwaited'
  <2>1. \A i \in 1..Len(toPi') : toPi'[i].command = "set_model" => switch'[toPi'[i].id].at = "set_model"
    BY <1>1 DEF AllAwaited
  <2>2. ASSUME NEW i \in 1..Len(fromPi'), fromPi'[i].command = "set_model"
        PROVE  switch'[fromPi'[i].id].at = "set_model"
    <3>1. switch[fromPi[i + 1].id].at = "set_model"
      BY <1>1, <2>2 DEF AllAwaited
    <3> QED BY <1>1, <3>1
  <2> QED BY <2>1, <2>2 DEF AllAwaited
<1>3. \A i \in 1..Len(toPi') : toPi'[i].command = "set_model" /\ ~switch'[toPi'[i].id].amid =>
        /\ piModel' = switch'[toPi'[i].id].previous
        /\ \A j \in 1..Len(toPi') : j < i => toPi'[j].command # "set_model"
  BY <1>1 DEF FirstFoundPi
<1>4. \A i \in 1..Len(fromPi') :
        fromPi'[i].command = "set_model" /\ ~fromPi'[i].success /\ ~switch'[fromPi'[i].id].amid =>
          fromPi'[i].model = switch'[fromPi'[i].id].previous
  <2> SUFFICES ASSUME NEW i \in 1..Len(fromPi'), fromPi'[i].command = "set_model", ~fromPi'[i].success,
                      ~switch'[fromPi'[i].id].amid
               PROVE  fromPi'[i].model = switch'[fromPi'[i].id].previous
    OBVIOUS
  <2> DEFINE a == fromPi[i + 1]
  <2>1. fromPi'[i] = a /\ switch'[a.id] = switch[a.id] /\ i + 1 \in 1..Len(fromPi)
    BY <1>1
  <2>2. a.command = "set_model" /\ ~a.success /\ ~switch[a.id].amid => a.model = switch[a.id].previous
    BY <2>1 DEF FirstFoundPi
  <2> HIDE DEF a
  <2> QED BY <2>1, <2>2
<1> QED BY <1>2, <1>3, <1>4 DEF FirstFoundPi

\* A model the session gets is the one picker and page show, if they showed alike.
LEMMA ShownAlike ==
  ASSUME ComposerTypeOK, ShowAlike, NEW model \in Listed, NEW otherwise \in {model, selectedModel},
         ShowSession(model, otherwise)
  PROVE  sessionModel' = model /\ selectedModel' = model
BY DEF ShowSession, ShowAlike

\* An answer that is heard.
LEMMA AnswerIsHeard ==
  ASSUME ComposerTypeOK, ComposerInv, HearAnswer
  PROVE  ComposerTypeOK' /\ ComposerInv'
<1> DEFINE heard == fromPi[1]
           s == heard.id
<1>0. /\ heard \in FromPi /\ s \in Switches /\ heard = Head(fromPi) /\ 1 \in 1..Len(fromPi)
      /\ fromPi' \in Seq(FromPi) /\ UNCHANGED <<piModel, choices>>
  BY AnswerIsGone, TypesOfComposer, TailOfQueue DEF HearAnswer
<1>1. heard.command \in SwitchCommands /\ heard.model \in PiModels /\ heard.success \in BOOLEAN
  BY <1>0 DEF FromPi
<1>2. \/ switch[s].at # heard.command /\ UNCHANGED <<sessionModel, selectedModel, switch, doubtful, toPi>>
      \/ switch[s].at = heard.command /\ heard.command = "get_state" /\ StateTold(s, heard.model)
      \/ switch[s].at = heard.command /\ heard.command # "get_state" /\ heard.success /\ ModelTaken(s)
      \/ switch[s].at = heard.command /\ heard.command # "get_state" /\ ~heard.success /\ Refused(s)
  BY <1>0 DEF HearAnswer
<1>3. LastTellsPi' /\ ((\A i \in 1..Len(fromPi') : fromPi'[i].command # "set_model") => heard.model = piModel)
  BY LastStillTells
<1>4. /\ \A i, j \in 1..Len(fromPi') : fromPi'[i].id = fromPi'[j].id => i = j
      /\ \A i \in 1..Len(toPi), j \in 1..Len(fromPi') : toPi[i].id # fromPi'[j].id
      /\ \A i \in 1..Len(fromPi') : fromPi'[i].id # s /\ fromPi'[i].id \in Switches
      /\ \A i \in 1..Len(toPi) : toPi[i].id # s
  BY ZenonT(40), <1>0, AnswerIsGone, TypesOfComposer DEF FromPi
<1>5. ASSUME toPi' = toPi PROVE OnceOnTheWay'
  BY <1>4, <1>5 DEF ComposerInv, OnceOnTheWay
<1>6. ShowAlike /\ (~doubtful => AllAwaited /\ FirstFoundPi /\ SettledOnPi)
  BY DEF ComposerInv, Undoubted
<1>7. heard.command = "set_model" \/ heard.command = "get_state"
  BY <1>1 DEF SwitchCommands
<1>n. ASSUME switch[s].at = heard.command PROVE switch[s] \in Switch
  BY <1>0, <1>1, <1>n, TypesOfComposer DEF SwitchCommands
<1>e. ASSUME switch' = [switch EXCEPT ![s] = NoSwitch]
      PROVE  /\ switch' \in [Switches -> Switch \cup {NoSwitch}]
             /\ switch'[s] = NoSwitch /\ \A r \in Switches : r # s => switch'[r] = switch[r]
             /\ Switching' = Switching \ {s}
  BY <1>0, <1>e DEF ComposerTypeOK, Switching, NoSwitch
<1> HIDE DEF heard, s
<1>8. ASSUME UNCHANGED <<sessionModel, selectedModel, switch, doubtful, toPi>> PROVE ComposerTypeOK' /\ ComposerInv'
  <2>1. ComposerTypeOK'
    BY <1>0, <1>8 DEF ComposerTypeOK, FromPi
  <2>2. ShowAlike' /\ (SettledOnPi => SettledOnPi')
    BY <1>0, <1>6, <1>8 DEF ShowAlike, SettledOnPi, Switching
  <2>3. ~doubtful => AllAwaited' /\ FirstFoundPi'
    BY <1>6, <1>8, OthersStillAwaited
  <2> QED BY <1>3, <1>5, <1>6, <1>8, <2>1, <2>2, <2>3 DEF ComposerInv, Undoubted
<1>9. ASSUME switch[s].at = "get_state", StateTold(s, heard.model) PROVE ComposerTypeOK' /\ ComposerInv'
  <2>0. /\ switch' = [switch EXCEPT ![s] = NoSwitch] /\ toPi' = toPi
        /\ doubtful' = (doubtful /\ (Switching # {s} \/ SwitchesAreOnTheirWay))
        /\ ShowSession(heard.model, selectedModel) /\ heard.model \in Listed
    BY <1>1, <1>9 DEF StateTold, Listed
  <2>1. sessionModel' = heard.model /\ selectedModel' = heard.model
    BY <1>6, <2>0, ShownAlike
  <2>2. ComposerTypeOK'
    BY <1>0, <1>e, <2>0, <2>1 DEF ComposerTypeOK, FromPi
  <2>3. ShowAlike'
    BY <1>6, <1>e, <2>0, <2>1 DEF ShowAlike, NoSwitch
  <2>4. ASSUME \A i \in 1..Len(toPi) : toPi[i].command # "set_model",
               \A i \in 1..Len(fromPi') : fromPi'[i].command # "set_model"
        PROVE  AllAwaited' /\ FirstFoundPi' /\ SettledOnPi'
    BY <1>0, <1>3, <2>0, <2>1, <2>4 DEF AllAwaited, FirstFoundPi, SettledOnPi
  <2>5. ASSUME ~doubtful PROVE AllAwaited' /\ FirstFoundPi' /\ SettledOnPi'
    <3>1. AllAwaited' /\ FirstFoundPi'
      BY <1>6, <1>e, <2>0, <2>5, OthersStillAwaited DEF s, heard
    <3>2. ASSUME Switching' = {} PROVE AllAwaited' /\ FirstFoundPi' /\ SettledOnPi'
      <4>1. \A r \in Switches : switch'[r].at = "none"
        BY <3>2 DEF Switching
      <4>2. /\ \A i \in 1..Len(toPi) : toPi[i].command # "set_model"
            /\ \A i \in 1..Len(fromPi') : fromPi'[i].command # "set_model"
        BY <1>4, <2>0, <3>1, <4>1, TypesOfComposer DEF AllAwaited
      <4> QED BY <2>4, <4>2
    <3> QED BY <3>1, <3>2 DEF SettledOnPi
  <2>6. ASSUME doubtful, ~doubtful' PROVE AllAwaited' /\ FirstFoundPi' /\ SettledOnPi'
    <3>1. ~SwitchesAreOnTheirWay
      BY <2>0, <2>6
    <3>2. /\ toPi \in Seq(ToPi) /\ fromPi \in Seq(FromPi)
          /\ \A i \in 1..Len(toPi) : toPi[i] \in ToSet(toPi \o fromPi)
          /\ \A i \in 1..Len(fromPi) : fromPi[i] \in ToSet(toPi \o fromPi)
      <4>1. toPi \in Seq(ToPi) /\ fromPi \in Seq(FromPi)
        BY TypesOfComposer
      <4>2. /\ Len(toPi) \in Nat /\ Len(fromPi) \in Nat /\ DOMAIN (toPi \o fromPi) = 1..Len(toPi) + Len(fromPi)
            /\ \A i \in 1..Len(toPi) : (toPi \o fromPi)[i] = toPi[i] /\ i \in 1..Len(toPi) + Len(fromPi)
            /\ \A i \in 1..Len(fromPi) : /\ (toPi \o fromPi)[Len(toPi) + i] = fromPi[i]
                                         /\ Len(toPi) + i \in 1..Len(toPi) + Len(fromPi)
        BY <4>1
      <4> QED BY <4>1, <4>2 DEF ToSet
    <3>3. /\ \A i \in 1..Len(toPi) : toPi[i].command # "set_model"
          /\ \A i \in 1..Len(fromPi) : fromPi[i].command # "set_model"
      BY <3>1, <3>2 DEF SwitchesAreOnTheirWay
    <3>4. \A i \in 1..Len(fromPi') : fromPi'[i].command # "set_model"
      BY <3>3, AnswerIsGone
    <3> QED BY <2>4, <3>3, <3>4
  <2>7. Undoubted'
    BY <2>5, <2>6 DEF Undoubted
  <2>8. OnceOnTheWay'
    BY <1>5, <2>0
  <2> QED BY <1>3, <2>2, <2>3, <2>7, <2>8 DEF ComposerInv
<1>10. ASSUME switch[s].at = "set_model", heard.command = "set_model", ModelTaken(s)
       PROVE  ComposerTypeOK' /\ ComposerInv'
  <2> DEFINE e == [id |-> s, command |-> "get_state", model |-> "none"]
             w == [switch[s] EXCEPT !.at = "get_state"]
  <2>1. e \in ToPi /\ e.id = s /\ e.command = "get_state"
    BY <1>0 DEF ToPi, SwitchCommands
  <2>2. w \in Switch /\ w.at = "get_state" /\ w.previous = switch[s].previous /\ w.selected = switch[s].selected
    BY <1>10, <1>n DEF Switch, SwitchCommands
  <2>3. /\ toPi' = Append(toPi, e) /\ switch' = [switch EXCEPT ![s] = w]
        /\ UNCHANGED <<sessionModel, selectedModel, doubtful>>
    BY <1>0, <1>10 DEF ModelTaken, ComposerTypeOK
  <2> HIDE DEF e, w
  <2>4. /\ toPi' \in Seq(ToPi) /\ Len(toPi) \in Nat /\ Len(toPi') = Len(toPi) + 1 /\ toPi'[Len(toPi) + 1] = e
        /\ \A i \in 1..Len(toPi) : toPi'[i] = toPi[i]
        /\ \A i \in 1..Len(toPi') : i \in 1..Len(toPi) \/ i = Len(toPi) + 1
    BY <2>1, <2>3, AppendToQueue, TypesOfComposer
  <2>5. /\ switch' \in [Switches -> Switch \cup {NoSwitch}] /\ switch'[s] = w
        /\ \A r \in Switches : r # s => switch'[r] = switch[r]
    BY <1>0, <2>2, <2>3 DEF ComposerTypeOK
  <2>6. ComposerTypeOK'
    BY <1>0, <2>3, <2>4, <2>5 DEF ComposerTypeOK, ToPi, FromPi
  <2>7. OnceOnTheWay'
    <3>1. \A i, j \in 1..Len(toPi') : toPi'[i].id = toPi'[j].id => i = j
      BY <1>4, <2>1, <2>4 DEF ComposerInv, OnceOnTheWay
    <3>2. \A i \in 1..Len(toPi'), j \in 1..Len(fromPi') : toPi'[i].id # fromPi'[j].id
      BY <1>4, <2>1, <2>4
    <3> QED BY <1>4, <3>1, <3>2 DEF OnceOnTheWay
  <2>8. ShowAlike'
    BY <1>6, <2>2, <2>3, <2>5 DEF ShowAlike
  <2>9. ASSUME ~doubtful PROVE AllAwaited' /\ FirstFoundPi' /\ SettledOnPi'
    <3>1. /\ \A i \in 1..Len(toPi) : /\ toPi[i].id \in Switches /\ toPi'[i] = toPi[i]
                                    /\ switch'[toPi[i].id] = switch[toPi[i].id]
          /\ \A i \in 1..Len(fromPi') : /\ i + 1 \in 1..Len(fromPi) /\ fromPi'[i] = fromPi[i + 1]
                                        /\ switch'[fromPi'[i].id] = switch[fromPi'[i].id]
      BY <1>4, <2>4, <2>5, AnswerIsGone, TypesOfComposer
    <3>2. AllAwaited'
      <4>1. \A i \in 1..Len(toPi') : toPi'[i].command = "set_model" => switch'[toPi'[i].id].at = "set_model"
        BY <1>6, <2>1, <2>4, <2>9, <3>1 DEF AllAwaited
      <4>2. ASSUME NEW i \in 1..Len(fromPi'), fromPi'[i].command = "set_model"
            PROVE  switch'[fromPi'[i].id].at = "set_model"
        <5>1. switch[fromPi[i + 1].id].at = "set_model"
          BY <1>6, <2>9, <3>1, <4>2 DEF AllAwaited
        <5> QED BY <3>1, <5>1
      <4> QED BY <4>1, <4>2 DEF AllAwaited
    <3>3. \A i \in 1..Len(toPi') : toPi'[i].command = "set_model" /\ ~switch'[toPi'[i].id].amid =>
            /\ piModel' = switch'[toPi'[i].id].previous
            /\ \A j \in 1..Len(toPi') : j < i => toPi'[j].command # "set_model"
      BY <1>0, <1>6, <2>1, <2>4, <2>9, <3>1 DEF FirstFoundPi
    <3>4. \A i \in 1..Len(fromPi') :
            fromPi'[i].command = "set_model" /\ ~fromPi'[i].success /\ ~switch'[fromPi'[i].id].amid =>
              fromPi'[i].model = switch'[fromPi'[i].id].previous
      <4> SUFFICES ASSUME NEW i \in 1..Len(fromPi'), fromPi'[i].command = "set_model", ~fromPi'[i].success,
                          ~switch'[fromPi'[i].id].amid
                   PROVE  fromPi'[i].model = switch'[fromPi'[i].id].previous
        OBVIOUS
      <4> DEFINE a == fromPi[i + 1]
      <4>1. fromPi'[i] = a /\ switch'[a.id] = switch[a.id] /\ i + 1 \in 1..Len(fromPi)
        BY <3>1
      <4>2. a.command = "set_model" /\ ~a.success /\ ~switch[a.id].amid => a.model = switch[a.id].previous
        BY <1>6, <2>9, <4>1 DEF FirstFoundPi
      <4> HIDE DEF a
      <4> QED BY <4>1, <4>2
    <3>5. s \in Switching'
      BY <1>0, <2>2, <2>5 DEF Switching
    <3> QED BY <3>2, <3>3, <3>4, <3>5 DEF FirstFoundPi, SettledOnPi
  <2>10. Undoubted'
    BY <2>3, <2>9 DEF Undoubted
  <2> QED BY <1>3, <2>6, <2>7, <2>8, <2>10 DEF ComposerInv
<1>11. ASSUME switch[s].at = "set_model", heard.command = "set_model", ~heard.success, Refused(s)
       PROVE  ComposerTypeOK' /\ ComposerInv'
  <2>1. /\ switch[s] \in Switch /\ switch[s].previous \in Listed /\ switch[s].selected = switch[s].previous
        /\ switch[s].amid \in BOOLEAN
    BY <1>0, <1>6, <1>11, <1>n DEF Switch, ShowAlike
  <2>2. /\ switch' = [switch EXCEPT ![s] = NoSwitch] /\ toPi' = toPi
        /\ doubtful' = (doubtful \/ switch[s].amid)
        /\ ShowSession(switch[s].previous, switch[s].selected)
    BY <1>11 DEF Refused, PutBack
  <2>3. sessionModel' = switch[s].previous /\ selectedModel' = switch[s].previous
    BY <1>6, <2>1, <2>2, ShownAlike
  <2>4. ComposerTypeOK'
    BY <1>0, <1>e, <2>1, <2>2, <2>3 DEF ComposerTypeOK, FromPi
  <2>5. ShowAlike'
    BY <1>6, <1>e, <2>2, <2>3 DEF ShowAlike, NoSwitch
  <2>6. ASSUME ~doubtful, ~switch[s].amid PROVE AllAwaited' /\ FirstFoundPi' /\ SettledOnPi'
    <3>1. AllAwaited' /\ FirstFoundPi'
      BY <1>6, <1>e, <2>2, <2>6, OthersStillAwaited DEF s, heard
    <3>2. ASSUME Switching' = {} PROVE sessionModel' = piModel'
      <4>1. \A r \in Switches : switch'[r].at = "none"
        BY <3>2 DEF Switching
      <4>2. \A i \in 1..Len(fromPi') : fromPi'[i].command # "set_model"
        BY <1>4, <3>1, <4>1 DEF AllAwaited
      <4>3. heard.model = piModel
        BY <1>3, <4>2
      <4>4. heard.model = switch[s].previous
        BY <1>0, <1>6, <1>11, <2>6 DEF FirstFoundPi, heard, s
      <4> QED BY <1>0, <2>3, <4>3, <4>4
    <3> QED BY <3>1, <3>2 DEF SettledOnPi
  <2>7. Undoubted'
    BY <2>2, <2>6 DEF Undoubted
  <2>8. OnceOnTheWay'
    BY <1>5, <2>2
  <2> QED BY <1>3, <2>4, <2>5, <2>7, <2>8 DEF ComposerInv
<1> QED BY <1>2, <1>7, <1>8, <1>9, <1>10, <1>11

\* A switch whose answer does not come in time.
LEMMA SwitchGivenUp ==
  ASSUME ComposerTypeOK, ComposerInv, NEW s \in Switches, SwitchTimesOut(s)
  PROVE  ComposerTypeOK' /\ ComposerInv'
<1>1. /\ switch[s].at # "none" /\ switch' = [switch EXCEPT ![s] = NoSwitch] /\ doubtful' = TRUE
      /\ UNCHANGED <<piModel, toPi, fromPi, choices>> /\ ShowSession(switch[s].previous, switch[s].selected)
  BY DEF SwitchTimesOut, Switching, PutBack
<1>2. switch[s].previous \in Listed /\ switch[s].selected = switch[s].previous /\ ShowAlike
  BY <1>1, TypesOfComposer DEF ComposerInv, ShowAlike, Switch
<1>3. sessionModel' = switch[s].previous /\ selectedModel' = switch[s].previous
  BY <1>1, <1>2, ShownAlike
<1>4. ComposerTypeOK'
  BY <1>1, <1>2, <1>3 DEF ComposerTypeOK
<1>5. ShowAlike'
  BY <1>1, <1>2, <1>3, TypesOfComposer DEF ShowAlike, NoSwitch
<1>6. OnceOnTheWay' /\ LastTellsPi' /\ Undoubted'
  BY <1>1 DEF ComposerInv, OnceOnTheWay, LastTellsPi, Undoubted
<1> QED BY <1>4, <1>5, <1>6 DEF ComposerInv

\* The model picker before the first choice.
LEMMA PickerBegins ==
  ASSUME ComposerInit
  PROVE  ComposerTypeOK /\ ComposerInv
<1>1. ComposerTypeOK
  <2>1. switch \in [Switches -> Switch \cup {NoSwitch}]
    BY DEF ComposerInit
  <2>2. 0 \in 0..MaxChoices
    BY ComposerAssumption
  <2>3. toPi \in Seq(ToPi) /\ fromPi \in Seq(FromPi)
    BY DEF ComposerInit
  <2> QED BY <2>1, <2>2, <2>3 DEF ComposerInit, ComposerTypeOK, Listed, ToPi, FromPi
<1>2. OnceOnTheWay /\ LastTellsPi /\ AllAwaited /\ FirstFoundPi
  BY DEF ComposerInit, OnceOnTheWay, LastTellsPi, AllAwaited, FirstFoundPi
<1>3. ShowAlike /\ SettledOnPi
  BY DEF ComposerInit, ShowAlike, SettledOnPi, NoSwitch
<1> QED BY <1>1, <1>2, <1>3 DEF ComposerInv, Undoubted

\* Every step of the model picker keeps its types and its invariant.
LEMMA PickerStep ==
  ASSUME ComposerTypeOK, ComposerInv, [ComposerNext]_composerVars
  PROVE  ComposerTypeOK' /\ ComposerInv'
<1>1. ASSUME UNCHANGED composerVars PROVE ComposerTypeOK' /\ ComposerInv'
  BY <1>1 DEF composerVars, ComposerTypeOK, ComposerInv, OnceOnTheWay, ShowAlike, LastTellsPi, Undoubted,
              AllAwaited, FirstFoundPi, SettledOnPi, Switching
<1> QED BY <1>1, PiHasAnswered, AnswerIsHeard, SwitchGivenUp, SwitchBegins DEF ComposerNext

\* Models, switches, commands and answers keep their types.
THEOREM ComposerTypeCorrect == ComposerSpec => []ComposerTypeOK
<1>1. ComposerInit => ComposerTypeOK /\ ComposerInv
  BY PickerBegins
<1>2. ComposerTypeOK /\ ComposerInv /\ [ComposerNext]_composerVars => ComposerTypeOK' /\ ComposerInv'
  BY PickerStep
<1> QED BY <1>1, <1>2, PTL DEF ComposerSpec

\* Once no switch is under way, picker and page show the model pi uses, unless a
\* switch was refused that began during another, or one timed out
\* (use-session-events.ts:286).
THEOREM DoubtfulSwitchesMislead == ComposerSpec => []OnlyDoubtfulSwitchesMislead
<1>1. ComposerInit => ComposerTypeOK /\ ComposerInv
  BY PickerBegins
<1>2. ComposerTypeOK /\ ComposerInv /\ [ComposerNext]_composerVars => ComposerTypeOK' /\ ComposerInv'
  BY PickerStep
<1>3. ComposerInv => OnlyDoubtfulSwitchesMislead
  BY DEF ComposerInv, ShowAlike, Undoubted, SettledOnPi, OnlyDoubtfulSwitchesMislead
<1> QED BY <1>1, <1>2, <1>3, PTL DEF ComposerSpec

-----------------------------------------------------------------------------
(***************************************************************************)
(* The conversation of a session, for a journal of any length.  Cleaning   *)
(* only ever leaves out events that change nothing in where the            *)
(* conversation is; so leaving them out before cleaning changes nothing    *)
(* either, and what is cleaned a little at a time is clean.                *)
(***************************************************************************)

\* Induction, for a set of numbers.
LEMMA InductionOnNat ==
  ASSUME NEW P, 0 \in P, \A n \in Nat : n \in P => n + 1 \in P
  PROVE  \A n \in Nat : n \in P
<1> DEFINE Bad == Nat \ P
<1>1. SUFFICES ASSUME Bad # {} PROVE FALSE
  OBVIOUS
<1>2. PICK m \in Bad : \A k \in Bad : ~(<<k, m>> \in OpToRel(<, Nat))
  BY <1>1, WFMin, NatLessThanWellFounded
<1>3. \A k \in Bad : ~(k < m)
  BY <1>2 DEF OpToRel
<1>4. m # 0 /\ m - 1 \in Nat /\ m - 1 < m
  OBVIOUS
<1>5. m - 1 \in P
  BY <1>3, <1>4
<1> QED BY <1>4, <1>5

Recursion(f, S, start, N, step) ==
  f \in [0..N -> S] /\ f[0] = start /\ \A n \in 1..N : f[n] = step[n][f[n - 1]]

\* A function whose value at a number follows from that at the one before.
LEMMA RecursionOnNat ==
  ASSUME NEW S, NEW start \in S, NEW N \in Nat, NEW step \in [1..N -> [S -> S]]
  PROVE  \E f : Recursion(f, S, start, N, step)
<1> DEFINE Is(f, n) == f[0] = start /\ \A i \in 1..n : f[i] = step[i][f[i - 1]]
           P == {n \in Nat : n <= N => \E f \in [0..n -> S] : Is(f, n)}
<1>1. 0 \in P
  <2>1. [i \in 0..0 |-> start] \in [0..0 -> S] /\ Is([i \in 0..0 |-> start], 0)
    OBVIOUS
  <2> QED BY <2>1
<1>2. ASSUME NEW n \in Nat, n \in P PROVE n + 1 \in P
  <2> SUFFICES ASSUME n + 1 <= N PROVE \E f \in [0..n + 1 -> S] : Is(f, n + 1)
    OBVIOUS
  <2>1. PICK f \in [0..n -> S] : Is(f, n)
    BY <1>2
  <2> DEFINE g == [i \in 0..n + 1 |-> IF i = n + 1 THEN step[n + 1][f[n]] ELSE f[i]]
  <2>2. step[n + 1] \in [S -> S] /\ f[n] \in S
    OBVIOUS
  <2>3. g \in [0..n + 1 -> S] /\ g[n + 1] = step[n + 1][f[n]] /\ \A i \in 0..n : g[i] = f[i]
    BY <2>2
  <2> HIDE DEF g
  <2>4. \A i \in 1..n + 1 : g[i] = step[i][g[i - 1]]
    <3> SUFFICES ASSUME NEW i \in 1..n + 1 PROVE g[i] = step[i][g[i - 1]]
      OBVIOUS
    <3>1. CASE i = n + 1
      BY <2>3, <3>1
    <3>2. CASE i \in 1..n
      BY <2>1, <2>3, <3>2
    <3> QED BY <3>1, <3>2
  <2>5. g[0] = start
    BY <2>1, <2>3
  <2> QED BY <2>3, <2>4, <2>5
<1> HIDE DEF P
<1>3. \A n \in Nat : n \in P
  BY <1>1, <1>2, InductionOnNat
<1>4. \E f \in [0..N -> S] : Is(f, N)
  BY <1>3 DEF P
<1> QED BY <1>4 DEF Recursion

-----------------------------------------------------------------------------
(* where a walk over the journal may be *)
Seen(events) == [agent : BOOLEAN, message : BOOLEAN, kept : Seq(1..Len(events))]

\* An event leaves the walk where it may be.
LEMMA KeepType ==
  ASSUME NEW events, Len(events) \in Nat, NEW seen \in Seen(events), NEW n \in 1..Len(events)
  PROVE  Keep(events, seen, n) \in Seen(events)
<1> DEFINE next == Follow(events[n].type, seen)
<1>1. next \in Seen(events) /\ next.kept = seen.kept
  BY DEF Follow, Seen
<1>2. Append(seen.kept, n) \in Seq(1..Len(events))
  BY DEF Seen
<1>3. [next EXCEPT !.kept = Append(@, n)] \in Seen(events)
  BY <1>1, <1>2 DEF Seen
<1> HIDE DEF next
<1> QED BY <1>1, <1>3 DEF Keep, next

\* The walk: it begins fresh and goes on event by event.
LEMMA CleanedWalks ==
  ASSUME NEW events, Len(events) \in Nat, NEW seqs
  PROVE  LET c == Cleaned(events, seqs) IN
         /\ c \in [0..Len(events) -> Seen(events)] /\ c[0] = Fresh
         /\ \A n \in 1..Len(events) : c[n] = IF n \in seqs THEN Keep(events, c[n - 1], n) ELSE c[n - 1]
<1> DEFINE N == Len(events)
           step == [n \in 1..N |-> [seen \in Seen(events) |-> IF n \in seqs THEN Keep(events, seen, n) ELSE seen]]
           Walk(c) == [n \in 0..N |-> IF n = 0 THEN Fresh ELSE IF n \in seqs THEN Keep(events, c[n - 1], n) ELSE c[n - 1]]
<1>1. Fresh \in Seen(events)
  BY DEF Fresh, Seen
<1>2. step \in [1..N -> [Seen(events) -> Seen(events)]]
  BY KeepType
<1>3. \A n \in 1..N : \A seen \in Seen(events) : step[n][seen] = IF n \in seqs THEN Keep(events, seen, n) ELSE seen
  OBVIOUS
<1> HIDE DEF step
<1>4. PICK f : Recursion(f, Seen(events), Fresh, N, step)
  BY <1>1, <1>2, RecursionOnNat
<1>n. f \in [0..N -> Seen(events)] /\ f[0] = Fresh /\ \A n \in 1..N : f[n] = step[n][f[n - 1]]
  BY <1>4 DEF Recursion
<1>5. f = Walk(f)
  BY <1>3, <1>n
<1>6. \E c : c = Walk(c)
  BY <1>5
<1>7. Cleaned(events, seqs) = CHOOSE c : c = Walk(c)
  BY DEF Cleaned
<1>8. Cleaned(events, seqs) = Walk(Cleaned(events, seqs))
  BY <1>6, <1>7
<1> DEFINE c == Cleaned(events, seqs)
           P == {n \in Nat : n <= N => c[n] \in Seen(events)}
<1> HIDE DEF c
<1>9. /\ DOMAIN c = 0..N /\ c[0] = Fresh
      /\ \A n \in 1..N : c[n] = IF n \in seqs THEN Keep(events, c[n - 1], n) ELSE c[n - 1]
  <2>1. c = Walk(c)
    BY <1>8 DEF c
  <2>2. DOMAIN Walk(c) = 0..N /\ Walk(c)[0] = Fresh
    OBVIOUS
  <2>3. \A n \in 1..N : Walk(c)[n] = IF n \in seqs THEN Keep(events, c[n - 1], n) ELSE c[n - 1]
    OBVIOUS
  <2> HIDE DEF Walk
  <2> QED BY <2>1, <2>2, <2>3
<1>10. 0 \in P
  BY <1>1, <1>9
<1>11. ASSUME NEW n \in Nat, n \in P PROVE n + 1 \in P
  <2> SUFFICES ASSUME n + 1 <= N PROVE c[n + 1] \in Seen(events)
    OBVIOUS
  <2>1. c[n] \in Seen(events) /\ n + 1 \in 1..N /\ (n + 1) - 1 = n
    BY <1>11
  <2>2. Keep(events, c[n], n + 1) \in Seen(events)
    BY <2>1, KeepType
  <2> QED BY <1>9, <2>1, <2>2
<1> HIDE DEF P
<1>12. \A n \in Nat : n \in P
  BY <1>10, <1>11, InductionOnNat
<1>13. c \in [0..N -> Seen(events)]
  <2>1. \A n \in 0..N : c[n] \in Seen(events)
    BY <1>12 DEF P
  <2>2. c = [n \in 0..N |-> c[n]]
    <3>1. c = Walk(c)
      BY <1>8 DEF c
    <3> QED BY <3>1
  <2> QED BY <2>1, <2>2
<1> QED BY <1>9, <1>13 DEF c

(* to see the last kept event again changes nothing *)
Settles(events, seen) ==
  seen.kept # <<>> => Follow(events[Last(seen.kept)].type, seen) = seen

\* To follow an event twice is to follow it once, and does not look at what was kept.
LEMMA FollowTwice ==
  ASSUME NEW events, NEW seen \in Seen(events), NEW type
  PROVE  /\ Follow(type, seen) \in Seen(events) /\ Follow(type, seen).kept = seen.kept
         /\ Follow(type, Follow(type, seen)) = Follow(type, seen)
         /\ \A kept \in Seq(1..Len(events)) :
              LET next == [Follow(type, seen) EXCEPT !.kept = kept] IN Follow(type, next) = next
<1>1. /\ Follow(type, seen) \in Seen(events) /\ Follow(type, seen).kept = seen.kept
      /\ Follow(type, seen).agent = ((seen.agent \/ type = "agent_start") /\ type # "agent_end")
      /\ Follow(type, seen).message =
           ((seen.message \/ type \in {"message_start", "text", "thinking"}) /\ type # "message_end")
  BY DEF Follow, Seen
<1>2. ASSUME NEW a \in Seen(events),
             (a.agent \/ type = "agent_start") /\ type # "agent_end" <=> a.agent,
             (a.message \/ type \in {"message_start", "text", "thinking"}) /\ type # "message_end" <=> a.message
      PROVE  Follow(type, a) = a
  BY <1>2 DEF Follow, Seen
<1>3. \A kept \in Seq(1..Len(events)) :
        LET next == [Follow(type, seen) EXCEPT !.kept = kept]
        IN  next \in Seen(events) /\ next.agent = Follow(type, seen).agent /\ next.message = Follow(type, seen).message
  BY <1>1 DEF Seen
<1>4. Follow(type, Follow(type, seen)) = Follow(type, seen)
  BY <1>1, <1>2
<1>5. ASSUME NEW kept \in Seq(1..Len(events))
      PROVE  LET next == [Follow(type, seen) EXCEPT !.kept = kept] IN Follow(type, next) = next
  BY <1>1, <1>2, <1>3
<1> QED BY <1>1, <1>4, <1>5

\* An event is kept, or changes nothing.
LEMMA KeptOrNothing ==
  ASSUME NEW events, Len(events) \in Nat, NEW seen \in Seen(events), Settles(events, seen), NEW n \in 1..Len(events)
  PROVE  /\ Settles(events, Keep(events, seen, n))
         /\ Keep(events, seen, n) = seen \/ Keep(events, seen, n).kept = Append(seen.kept, n)
<1> DEFINE type == events[n].type
           next == Follow(type, seen)
           more == [next EXCEPT !.kept = Append(seen.kept, n)]
<1>1. next \in Seen(events) /\ next.kept = seen.kept /\ seen.kept \in Seq(1..Len(events))
  BY FollowTwice DEF Seen
<1>2. Append(seen.kept, n) \in Seq(1..Len(events)) /\ Append(seen.kept, n) # <<>> /\ Last(Append(seen.kept, n)) = n
  <2> DEFINE kept == seen.kept
  <2>1. kept \in Seq(1..Len(events))
    BY <1>1
  <2> HIDE DEF kept
  <2>2. /\ Append(kept, n) \in Seq(1..Len(events)) /\ Len(kept) \in Nat
        /\ Len(Append(kept, n)) = Len(kept) + 1 /\ Append(kept, n)[Len(kept) + 1] = n
    BY <2>1
  <2>3. Append(kept, n) # <<>>
    BY <2>2
  <2> QED BY <2>2, <2>3 DEF Last, kept
<1>3. more.kept = Append(seen.kept, n) /\ Follow(type, more) = more
  <2>1. \A kept \in Seq(1..Len(events)) :
          LET m == [Follow(type, seen) EXCEPT !.kept = kept] IN Follow(type, m) = m
    BY FollowTwice
  <2>2. Follow(type, more) = more
    BY <1>2, <2>1
  <2>3. more.kept = Append(seen.kept, n)
    BY <1>1 DEF Seen
  <2> QED BY <2>2, <2>3
<1>4. seen.kept # <<>> /\ events[Last(seen.kept)] = events[n] => next = seen
  BY DEF Settles
<1>5. Keep(events, seen, n) \in {seen, more} \/ (seen.kept # <<>> /\ events[Last(seen.kept)] = events[n] /\ Keep(events, seen, n) = next)
  BY <1>1 DEF Keep
<1>6. Keep(events, seen, n) \in {seen, more}
  BY <1>4, <1>5
<1>7. Settles(events, more)
  BY <1>2, <1>3 DEF Settles
<1> HIDE DEF more, next
<1> QED BY <1>3, <1>6, <1>7

\* At every event the walk goes on to keep it, or stays where it is.
LEMMA WalkKeepsOrStays ==
  ASSUME NEW events, Len(events) \in Nat, NEW seqs
  PROVE  LET c == Cleaned(events, seqs) IN
         \A n \in 1..Len(events) : c[n] = c[n - 1] \/ (n \in seqs /\ c[n].kept = Append(c[n - 1].kept, n))
<1> DEFINE N == Len(events)
           c == Cleaned(events, seqs)
           P == {n \in Nat : n <= N => Settles(events, c[n])}
<1>1. /\ c \in [0..N -> Seen(events)] /\ c[0] = Fresh
      /\ \A n \in 1..N : c[n] = IF n \in seqs THEN Keep(events, c[n - 1], n) ELSE c[n - 1]
  BY CleanedWalks
<1> HIDE DEF c
<1>2. 0 \in P
  BY <1>1 DEF Settles, Fresh
<1>3. ASSUME NEW n \in Nat, n \in P PROVE n + 1 \in P
  <2> SUFFICES ASSUME n + 1 <= N PROVE Settles(events, c[n + 1])
    OBVIOUS
  <2>1. n + 1 \in 1..N /\ (n + 1) - 1 = n /\ c[n] \in Seen(events) /\ Settles(events, c[n])
    BY <1>1, <1>3
  <2>2. Settles(events, Keep(events, c[n], n + 1))
    BY <2>1, KeptOrNothing
  <2>3. c[n + 1] \in {c[n], Keep(events, c[n], n + 1)}
    BY <1>1, <2>1
  <2> QED BY <2>1, <2>2, <2>3
<1> HIDE DEF P
<1>4. \A n \in Nat : n \in P
  BY <1>2, <1>3, InductionOnNat
<1>5. ASSUME NEW n \in 1..N
      PROVE  c[n] = c[n - 1] \/ (n \in seqs /\ c[n].kept = Append(c[n - 1].kept, n))
  <2>1. n - 1 \in Nat /\ n - 1 <= N /\ c[n - 1] \in Seen(events)
    BY <1>1
  <2>2. Settles(events, c[n - 1])
    BY <1>4, <2>1 DEF P
  <2>3. Keep(events, c[n - 1], n) = c[n - 1] \/ Keep(events, c[n - 1], n).kept = Append(c[n - 1].kept, n)
    BY <2>1, <2>2, KeptOrNothing
  <2> QED BY <1>1, <2>3
<1> QED BY <1>5 DEF c

\* The elements of a sequence with one more.
LEMMA RangeOfAppend ==
  ASSUME NEW S, NEW q \in Seq(S), NEW e \in S
  PROVE  Range(Append(q, e)) = Range(q) \union {e}
<1>1. /\ Len(q) \in Nat /\ DOMAIN q = 1..Len(q) /\ DOMAIN Append(q, e) = 1..Len(q) + 1
      /\ Append(q, e)[Len(q) + 1] = e /\ \A i \in 1..Len(q) : Append(q, e)[i] = q[i]
  OBVIOUS
<1>2. \A i \in 1..Len(q) + 1 : i \in 1..Len(q) \/ i = Len(q) + 1
  BY <1>1
<1>3. \A i \in 1..Len(q) : i \in 1..Len(q) + 1
  BY <1>1
<1>4. Len(q) + 1 \in 1..Len(q) + 1
  BY <1>1
<1> QED BY <1>1, <1>2, <1>3, <1>4 DEF Range

\* What is kept is of the events walked over, and is kept when they are met.
LEMMA KeptWhenMet ==
  ASSUME NEW events, Len(events) \in Nat, NEW seqs
  PROVE  LET c == Cleaned(events, seqs) IN
         /\ \A k \in 0..Len(events) : Range(c[k].kept) \subseteq seqs \intersect 1..k
         /\ \A k \in 0..Len(events) : \A n \in 1..k : n \in Range(c[k].kept) <=> n \in Range(c[n].kept)
         /\ \A n \in 1..Len(events) : n \notin Range(c[n].kept) => c[n] = c[n - 1]
<1> DEFINE N == Len(events)
           c == Cleaned(events, seqs)
           K(n) == Range(c[n].kept)
           Good(k) == K(k) \subseteq seqs \intersect 1..k /\ \A n \in 1..k : n \in K(k) <=> n \in K(n)
           P == {k \in Nat : k <= N => Good(k)}
<1>1. c \in [0..N -> Seen(events)] /\ c[0] = Fresh
  BY CleanedWalks
<1>2. \A n \in 1..N : c[n] = c[n - 1] \/ (n \in seqs /\ c[n].kept = Append(c[n - 1].kept, n))
  BY WalkKeepsOrStays
<1> HIDE DEF c
<1>3. \A n \in 0..N : c[n].kept \in Seq(1..N)
  BY <1>1 DEF Seen
<1>4. ASSUME NEW n \in 1..N PROVE (c[n] = c[n - 1] /\ K(n) = K(n - 1)) \/ (n \in seqs /\ K(n) = K(n - 1) \union {n})
  <2> DEFINE q == c[n - 1].kept
  <2>1. q \in Seq(1..N)
    BY <1>3
  <2>2. CASE c[n] = c[n - 1]
    BY <2>2
  <2>3. CASE n \in seqs /\ c[n].kept = Append(q, n)
    <3> HIDE DEF q
    <3>1. Range(Append(q, n)) = Range(q) \union {n}
      BY <2>1, RangeOfAppend
    <3>2. K(n) = Range(Append(q, n)) /\ K(n - 1) = Range(q)
      BY <2>3 DEF q
    <3> QED BY <2>3, <3>1, <3>2
  <2> QED BY <1>2, <2>2, <2>3
<1>5. K(0) = {}
  BY <1>1 DEF Fresh, Range
<1> HIDE DEF K
<1>6. 0 \in P
  BY <1>5
<1>7. ASSUME NEW k \in Nat, k \in P PROVE k + 1 \in P
  <2> SUFFICES ASSUME k + 1 <= N PROVE Good(k + 1)
    OBVIOUS
  <2>1. Good(k) /\ k + 1 \in 1..N /\ (k + 1) - 1 = k
    BY <1>7
  <2>2. K(k + 1) = K(k) \/ (k + 1 \in seqs /\ K(k + 1) = K(k) \union {k + 1})
    BY <1>4, <2>1
  <2>3. K(k + 1) \subseteq seqs \intersect 1..k + 1
    BY <2>1, <2>2
  <2>4. \A n \in 1..k + 1 : n = k + 1 \/ (n \in 1..k /\ n # k + 1)
    OBVIOUS
  <2>5. \A n \in 1..k + 1 : n \in K(k + 1) <=> n \in K(n)
    BY <2>1, <2>2, <2>4
  <2> QED BY <2>3, <2>5
<1> HIDE DEF P
<1>8. \A k \in Nat : k \in P
  BY <1>6, <1>7, InductionOnNat
<1>9. \A k \in 0..N : Good(k)
  BY <1>8 DEF P
<1>10. \A n \in 1..N : n \notin K(n) => c[n] = c[n - 1]
  BY <1>4
<1> QED BY <1>9, <1>10 DEF K, c

SameWalk(events, A, other, X, m) ==
  \A n \in 0..m : Cleaned(other, X)[n] = Cleaned(events, A)[n]

\* Two walks that meet the same events, but for some that the first does not keep,
\* are at the same place.
LEMMA WalksAgree ==
  ASSUME NEW events, NEW other, Len(events) \in Nat, Len(other) \in Nat, NEW m \in 0..Len(events), m <= Len(other),
         \A n \in 1..m : other[n] = events[n], NEW A, NEW X, X \intersect 1..m \subseteq A,
         \A n \in (A \ X) \intersect 1..m : n \notin Range(Cleaned(events, A)[n].kept)
  PROVE  SameWalk(events, A, other, X, m)
<1> DEFINE a == Cleaned(events, A)
           x == Cleaned(other, X)
           P == {n \in Nat : n <= m => x[n] = a[n] /\ Range(a[n].kept) \subseteq 1..n}
<1>1. /\ a \in [0..Len(events) -> Seen(events)] /\ a[0] = Fresh
      /\ \A n \in 1..Len(events) : a[n] = IF n \in A THEN Keep(events, a[n - 1], n) ELSE a[n - 1]
  BY CleanedWalks
<1>2. /\ x[0] = Fresh
      /\ \A n \in 1..Len(other) : x[n] = IF n \in X THEN Keep(other, x[n - 1], n) ELSE x[n - 1]
  BY CleanedWalks
<1>3. /\ \A n \in 0..Len(events) : Range(a[n].kept) \subseteq 1..n
      /\ \A n \in 1..Len(events) : n \notin Range(a[n].kept) => a[n] = a[n - 1]
  BY KeptWhenMet
<1>4. \A n \in (A \ X) \intersect 1..m : n \notin Range(a[n].kept)
  OBVIOUS
<1> HIDE DEF a, x
<1>5. 0 \in P
  BY <1>1, <1>2, <1>3
<1>6. ASSUME NEW n \in Nat, n \in P PROVE n + 1 \in P
  <2> SUFFICES ASSUME n + 1 <= m PROVE x[n + 1] = a[n + 1]
    BY <1>3
  <2>1. /\ x[n] = a[n] /\ Range(a[n].kept) \subseteq 1..n /\ n + 1 \in 1..m /\ (n + 1) - 1 = n
        /\ n + 1 \in 1..Len(events) /\ n + 1 \in 1..Len(other) /\ n \in 0..Len(events) /\ a[n] \in Seen(events)
    BY <1>1, <1>6
  <2>2. /\ a[n + 1] = IF n + 1 \in A THEN Keep(events, a[n], n + 1) ELSE a[n]
        /\ x[n + 1] = IF n + 1 \in X THEN Keep(other, a[n], n + 1) ELSE a[n]
    BY <1>1, <1>2, <2>1
  <2>3. Keep(other, a[n], n + 1) = Keep(events, a[n], n + 1)
    <3>1. other[n + 1] = events[n + 1]
      BY <2>1
    <3>2. a[n].kept # <<>> => other[Last(a[n].kept)] = events[Last(a[n].kept)]
      <4> SUFFICES ASSUME a[n].kept # <<>> PROVE Last(a[n].kept) \in 1..m
        OBVIOUS
      <4> DEFINE q == a[n].kept
      <4>1. q \in Seq(1..Len(events)) /\ q # <<>> /\ Range(q) \subseteq 1..n
        BY <2>1 DEF Seen
      <4> HIDE DEF q
      <4>2. Last(q) \in Range(q)
        BY <4>1 DEF Last, Range
      <4> QED BY <2>1, <4>1, <4>2 DEF q
    <3> QED BY <3>1, <3>2 DEF Keep
  <2>4. CASE n + 1 \in A \ X
    BY <1>3, <1>4, <2>1, <2>2, <2>4
  <2>5. CASE n + 1 \notin A \ X
    <3>1. n + 1 \in A <=> n + 1 \in X
      BY <2>1, <2>5
    <3> QED BY <2>2, <2>3, <3>1
  <2> QED BY <2>4, <2>5
<1> HIDE DEF P
<1>7. \A n \in Nat : n \in P
  BY <1>5, <1>6, InductionOnNat
<1>8. \A n \in 0..m : x[n] = a[n]
  BY <1>7 DEF P
<1> QED BY <1>8 DEF SameWalk, a, x

-----------------------------------------------------------------------------
\* To clean what was kept of the first events with those that follow, any of the
\* first among them, is to clean them all.
LEMMA KeptIsEnough ==
  ASSUME NEW events, Len(events) \in Nat, NEW h \in 0..Len(events), NEW k \in h..Len(events),
         NEW more, more \subseteq 1..k, h + 1..k \subseteq more
  PROVE  Canonical(events, Range(Canonical(events, 1..h)) \union more) = Canonical(events, 1..k)
<1> DEFINE N == Len(events)
           all == Cleaned(events, 1..k)
           first == Cleaned(events, 1..h)
           R == Range(first[N].kept)
           X == R \union more
<1>1. \A n \in 0..h : all[n] = first[n]
  <2>1. (1..h) \intersect 1..h \subseteq 1..k /\ \A n \in 1..h : n \in 1..h
    OBVIOUS
  <2>2. \A n \in ((1..k) \ (1..h)) \intersect 1..h : FALSE
    OBVIOUS
  <2>3. h \in 0..Len(events) /\ h <= Len(events) /\ \A n \in 1..h : events[n] = events[n]
    OBVIOUS
  <2>4. SameWalk(events, 1..k, events, 1..h, h)
    BY <2>1, <2>2, <2>3, WalksAgree
  <2> QED BY <2>4 DEF SameWalk
<1>2. R \subseteq 1..h /\ \A n \in 1..h : n \in R <=> n \in Range(first[n].kept)
  <2>1. /\ \A n \in 0..N : Range(first[n].kept) \subseteq (1..h) \intersect 1..n
        /\ \A m \in 0..N : \A n \in 1..m : n \in Range(first[m].kept) <=> n \in Range(first[n].kept)
    BY KeptWhenMet
  <2> HIDE DEF first
  <2>2. N \in 0..N /\ \A n \in 1..h : n \in 1..N
    OBVIOUS
  <2> QED BY <2>1, <2>2
<1>3. X \intersect 1..N \subseteq 1..k
  <2> HIDE DEF R
  <2> QED BY <1>2
<1>4. ASSUME NEW n \in ((1..k) \ X) \intersect 1..N PROVE n \notin Range(all[n].kept)
  <2> HIDE DEF R
  <2>1. n \in 1..h /\ n \notin R
    OBVIOUS
  <2>2. n \notin Range(first[n].kept)
    BY <1>2, <2>1
  <2> HIDE DEF all, first
  <2> QED BY <1>1, <2>1, <2>2
<1> HIDE DEF X
<1>5. \A n \in 0..N : Cleaned(events, X)[n] = all[n]
  <2> DEFINE B == 1..k
  <2>1. Len(events) \in 0..Len(events) /\ Len(events) <= Len(events) /\ \A n \in 1..Len(events) : events[n] = events[n]
    OBVIOUS
  <2>2. X \intersect 1..Len(events) \subseteq B
    BY <1>3
  <2>3. \A n \in (B \ X) \intersect 1..Len(events) : n \notin Range(Cleaned(events, B)[n].kept)
    BY <1>4
  <2> HIDE DEF B
  <2>4. SameWalk(events, B, events, X, Len(events))
    BY <2>1, <2>2, <2>3, WalksAgree
  <2> QED BY <2>4 DEF B, SameWalk
<1>6. Canonical(events, X) = Canonical(events, 1..k)
  BY <1>5 DEF Canonical
<1> QED BY <1>6 DEF X, Canonical

\* An event that is journaled after them changes nothing in how the first are cleaned.
LEMMA StillClean ==
  ASSUME NEW events, NEW other, Len(events) \in Nat, Len(other) = Len(events) + 1,
         \A n \in 1..Len(events) : other[n] = events[n], NEW h \in 0..Len(events)
  PROVE  Canonical(other, 1..h) = Canonical(events, 1..h)
<1> DEFINE N == Len(events)
           A == 1..h
<1>1. N \in 0..N /\ N <= Len(other) /\ Len(other) \in Nat /\ N + 1 \in 1..Len(other) /\ N + 1 \notin A /\ (N + 1) - 1 = N
  OBVIOUS
<1> HIDE DEF A
<1>2. /\ A \intersect 1..Len(events) \subseteq A
      /\ \A n \in (A \ A) \intersect 1..Len(events) : n \notin Range(Cleaned(events, A)[n].kept)
  OBVIOUS
<1>3. \A n \in 0..Len(events) : Cleaned(other, A)[n] = Cleaned(events, A)[n]
  <2>1. Len(events) \in 0..Len(events) /\ Len(events) <= Len(other) /\ Len(other) \in Nat
    BY <1>1
  <2>2. SameWalk(events, A, other, A, Len(events))
    BY <1>2, <2>1, WalksAgree
  <2> QED BY <2>2 DEF SameWalk
<1>4. \A n \in 1..Len(other) :
        Cleaned(other, A)[n] = IF n \in A THEN Keep(other, Cleaned(other, A)[n - 1], n) ELSE Cleaned(other, A)[n - 1]
  BY <1>1, CleanedWalks
<1>5. Cleaned(other, A)[N + 1] = Cleaned(other, A)[N]
  BY <1>1, <1>4
<1>6. Cleaned(other, A)[Len(other)] = Cleaned(events, A)[Len(events)]
  BY <1>1, <1>3, <1>5
<1> QED BY <1>6 DEF Canonical, A

\* What is kept are seqs of the journal.
LEMMA CanonicalType ==
  ASSUME NEW events, Len(events) \in Nat, NEW seqs
  PROVE  Canonical(events, seqs) \in Seq(1..Len(events))
<1>1. Cleaned(events, seqs)[Len(events)] \in Seen(events)
  BY CleanedWalks
<1> QED BY <1>1 DEF Canonical, Seen

-----------------------------------------------------------------------------
Bounded ==
  /\ Len(record) \in 0..MaxEvents /\ heeded \in 0..Len(record) /\ fetching \subseteq 0..Len(record)

(* what the screen holds, and what it has heard of, is of the journal *)
ConversationInv == ConversationTypeOK /\ Bounded /\ MergesLikeTheWhole

Entry == [type : EventTypes, payload : SUBSET (Texts \union 1..MaxEvents)]

\* A conversation begins with nothing to clean.
LEMMA InitConversation == ConversationInit => ConversationInv
<1> SUFFICES ASSUME ConversationInit PROVE ConversationInv
  OBVIOUS
<1>1. record = <<>> /\ screen = <<>> /\ heeded = 0 /\ fetching = {} /\ torn = FALSE /\ mood = Resting
  BY DEF ConversationInit
<1>2. Bounded
  BY <1>1, ConversationAssumption DEF Bounded
<1>3. ConversationTypeOK
  <2>1. mood \in [agent : BOOLEAN, message : BOOLEAN, block : {"none", "text", "thinking"}, tool : 0..MaxEvents]
    BY <1>1, ConversationAssumption DEF Resting
  <2>2. <<>> \in Seq(1..MaxEvents) /\ <<>> \in Seq([type : EventTypes, payload : SUBSET (Texts \union 1..MaxEvents)])
    OBVIOUS
  <2>3. MaxEvents \in Nat /\ 0 \in 0..MaxEvents
    BY ConversationAssumption
  <2> QED BY <1>1, <2>1, <2>2, <2>3 DEF ConversationTypeOK
<1>4. Canonical(record, 1..heeded) = <<>>
  <2>1. Len(record) = 0 /\ Len(record) \in Nat
    BY <1>1
  <2>2. Cleaned(record, 1..heeded)[0] = Fresh
    BY <2>1, CleanedWalks
  <2> QED BY <2>1, <2>2 DEF Canonical, Fresh
<1> QED BY <1>1, <1>2, <1>3, <1>4 DEF ConversationInv, MergesLikeTheWhole

\* Whatever is journaled, the screen holds what it did, and that is still clean.
LEMMA JournaledKeepsInv ==
  ASSUME ConversationInv, NEW type \in EventTypes, NEW payload \in SUBSET (Texts \union 1..MaxEvents),
         Journaled(type, payload),
         mood' \in [agent : BOOLEAN, message : BOOLEAN, block : {"none", "text", "thinking"}, tool : 0..MaxEvents],
         torn' \in BOOLEAN
  PROVE  ConversationInv'
<1> DEFINE e == [type |-> type, payload |-> payload]
<1>1. record \in Seq(Entry) /\ Len(record) \in 0..MaxEvents /\ heeded \in 0..Len(record) /\ fetching \subseteq 0..Len(record)
  BY DEF ConversationInv, ConversationTypeOK, Bounded, Entry
<1>2. e \in Entry
  BY DEF Entry
<1>3. record' = Append(record, e) /\ screen' = screen /\ heeded' = heeded /\ fetching' = fetching
  BY DEF Journaled
<1>4. Len(record) < MaxEvents
  BY <1>1, ConversationAssumption DEF Journaled
<1> HIDE DEF e
<1>5. /\ record' \in Seq(Entry) /\ Len(record') = Len(record) + 1
      /\ \A n \in 1..Len(record) : record'[n] = record[n]
  BY <1>1, <1>2, <1>3
<1>6. Bounded'
  <2>1. Len(record') \in 0..MaxEvents
    BY <1>1, <1>4, <1>5, ConversationAssumption
  <2>2. heeded' \in 0..Len(record') /\ fetching' \subseteq 0..Len(record')
    BY <1>1, <1>3, <1>5
  <2> QED BY <2>1, <2>2 DEF Bounded
<1>7. ConversationTypeOK'
  <2>1. heeded' \in 0..MaxEvents /\ fetching' \in SUBSET (0..MaxEvents)
    BY <1>1, <1>3, ConversationAssumption
  <2>2. screen' \in Seq(1..MaxEvents)
    BY <1>3 DEF ConversationInv, ConversationTypeOK
  <2> QED BY <1>5, <2>1, <2>2 DEF ConversationTypeOK, Entry
<1>8. MergesLikeTheWhole'
  <2>1. Canonical(record', 1..heeded) = Canonical(record, 1..heeded)
    BY <1>1, <1>5, StillClean
  <2> QED BY <1>3, <2>1 DEF ConversationInv, MergesLikeTheWhole
<1> QED BY <1>6, <1>7, <1>8 DEF ConversationInv

\* What pi says, and what is prompted, is journaled.
LEMMA PiKeepsInv ==
  ASSUME ConversationInv,
         \/ SomeonePrompts \/ AgentStarts \/ AgentEnds \/ MessageStarts \/ MessageEnds
         \/ \E kind \in {"text", "thinking"} : Delta(kind) \/ BlockEnds(kind)
         \/ ToolStarts \/ ToolEnds
  PROVE  ConversationInv'
<1> DEFINE Payload == SUBSET (Texts \union 1..MaxEvents)
           Mood == [agent : BOOLEAN, message : BOOLEAN, block : {"none", "text", "thinking"}, tool : 0..MaxEvents]
<1>1. mood \in Mood /\ torn \in BOOLEAN /\ Len(record) \in 0..MaxEvents
  BY DEF ConversationInv, ConversationTypeOK, Bounded
<1>2. \A type, payload : Journaled(type, payload) => Len(record) + 1 \in 1..MaxEvents
  BY <1>1, ConversationAssumption DEF Journaled
<1>3. \A kind \in {"text", "thinking"} : BlockOf(kind) \in Payload
  <2>1. Len(record) \in Nat /\ 1..Len(record) \subseteq 1..MaxEvents
    BY <1>1, ConversationAssumption
  <2>2. \A kind \in {"text", "thinking"} : BlockOf(kind) \subseteq 1..Len(record)
    BY DEF BlockOf
  <2> QED BY <2>1, <2>2
<1>4. \E type \in EventTypes, payload \in Payload : Journaled(type, payload) /\ mood' \in Mood /\ torn' \in BOOLEAN
  <2>1. CASE SomeonePrompts
    <3>1. PICK text \in Texts : Journaled("prompt", {text})
      BY <2>1 DEF SomeonePrompts
    <3>2. mood' \in Mood /\ torn' \in BOOLEAN
      BY <1>1, <2>1 DEF SomeonePrompts
    <3>3. "prompt" \in EventTypes /\ {text} \in Payload
      BY DEF EventTypes
    <3> QED BY <3>1, <3>2, <3>3
  <2>2. CASE AgentStarts
    <3>1. Journaled("agent_start", {}) /\ mood' \in Mood /\ torn' \in BOOLEAN
      BY <1>1, <2>2 DEF AgentStarts, Become
    <3> QED BY <3>1 DEF EventTypes
  <2>3. CASE AgentEnds
    <3>1. Journaled("agent_end", {}) /\ mood' \in Mood /\ torn' \in BOOLEAN
      BY <1>1, <2>3 DEF AgentEnds, Become
    <3> QED BY <3>1 DEF EventTypes
  <2>4. CASE MessageStarts
    <3>1. Journaled("message_start", {}) /\ mood' \in Mood /\ torn' \in BOOLEAN
      BY <1>1, <2>4 DEF MessageStarts, Become
    <3> QED BY <3>1 DEF EventTypes
  <2>5. CASE MessageEnds
    <3>1. Journaled("message_end", {}) /\ mood' \in Mood /\ torn' \in BOOLEAN
      BY <1>1, <2>5 DEF MessageEnds, Become
    <3> QED BY <3>1 DEF EventTypes
  <2>6. ASSUME NEW kind \in {"text", "thinking"}, Delta(kind)
        PROVE  \E type \in EventTypes, payload \in Payload : Journaled(type, payload) /\ mood' \in Mood /\ torn' \in BOOLEAN
    <3>1. Journaled(kind, {Len(record) + 1}) /\ mood' \in Mood /\ torn' \in BOOLEAN
      BY <1>1, <2>6 DEF Delta, Become
    <3>2. kind \in EventTypes /\ {Len(record) + 1} \in Payload
      BY <1>2, <3>1 DEF EventTypes
    <3> QED BY <3>1, <3>2
  <2>7. ASSUME NEW kind \in {"text", "thinking"}, BlockEnds(kind)
        PROVE  \E type \in EventTypes, payload \in Payload : Journaled(type, payload) /\ mood' \in Mood /\ torn' \in BOOLEAN
    <3> DEFINE end == IF kind = "text" THEN "text_end" ELSE "thinking_end"
    <3>1. Journaled(end, BlockOf(kind)) /\ mood' \in Mood /\ torn' \in BOOLEAN
      BY <1>1, <2>7 DEF BlockEnds, Become
    <3>2. end \in EventTypes /\ BlockOf(kind) \in Payload
      BY <1>3 DEF EventTypes
    <3> QED BY <3>1, <3>2
  <2>8. CASE ToolStarts
    <3>1. Journaled("tool_start", {Len(record) + 1}) /\ torn' \in BOOLEAN
      BY <1>1, <2>8 DEF ToolStarts
    <3>2. "tool_start" \in EventTypes /\ {Len(record) + 1} \in Payload /\ Len(record) + 1 \in 0..MaxEvents
      BY <1>2, <3>1 DEF EventTypes
    <3>3. mood' \in Mood
      BY <1>1, <2>8, <3>2 DEF ToolStarts, Become
    <3> QED BY <3>1, <3>2, <3>3
  <2>9. CASE ToolEnds
    <3>1. Journaled("tool_end", {mood.tool}) /\ mood' \in Mood /\ torn' \in BOOLEAN /\ mood.tool # 0
      BY <1>1, <2>9, ConversationAssumption DEF ToolEnds, Become
    <3>2. "tool_end" \in EventTypes /\ {mood.tool} \in Payload
      BY <1>1, <3>1 DEF EventTypes
    <3> QED BY <3>1, <3>2
  <2> QED BY <2>1, <2>2, <2>3, <2>4, <2>5, <2>6, <2>7, <2>8, <2>9
<1> QED BY <1>4, JournaledKeepsInv

\* Whatever the screen merges with what it has, it holds what cleaning them all makes.
LEMMA ScreenKeepsInv ==
  ASSUME ConversationInv, Fetched \/ HearsLive
  PROVE  ConversationInv'
<1> DEFINE N == Len(record)
<1>1. /\ N \in Nat /\ N <= MaxEvents /\ heeded \in 0..N /\ fetching \subseteq 0..N
      /\ screen = Canonical(record, 1..heeded) /\ record' = record /\ mood' = mood /\ torn' = torn
  BY DEF ConversationInv, Bounded, MergesLikeTheWhole, Fetched, HearsLive
<1>2. heeded' \in 0..N /\ fetching' \subseteq 0..N /\ screen' = Canonical(record, 1..heeded')
  <2>1. ASSUME NEW last \in 0..N, screen' = MergeCanonicalEvents(screen, 1..last),
               heeded' = IF last > heeded THEN last ELSE heeded
        PROVE  heeded' \in 0..N /\ screen' = Canonical(record, 1..heeded')
    <3> DEFINE h == heeded'
               more == 1..last
    <3>1. h \in heeded..N /\ more \subseteq 1..h /\ heeded + 1..h \subseteq more
      BY <1>1, <2>1
    <3> HIDE DEF more, h
    <3>2. Canonical(record, Range(Canonical(record, 1..heeded)) \union more) = Canonical(record, 1..h)
      BY ZenonT(40), <1>1, <3>1, KeptIsEnough
    <3> USE DEF more, h
    <3> QED BY <1>1, <2>1, <3>1, <3>2 DEF MergeCanonicalEvents
  <2>2. CASE Fetched
    <3>1. PICK last \in fetching : screen' = MergeCanonicalEvents(screen, 1..last) /\ heeded' = IF last > heeded THEN last ELSE heeded
      BY <2>2 DEF Fetched
    <3>2. last \in 0..N /\ fetching' = {}
      BY <1>1, <2>2 DEF Fetched
    <3> QED BY <2>1, <3>1, <3>2
  <2>3. CASE HearsLive
    <3>1. heeded' = heeded + 1 /\ heeded < N /\ screen' = MergeCanonicalEvents(screen, {heeded'}) /\ fetching' = fetching
      BY <2>3 DEF HearsLive
    <3> DEFINE h == heeded'
               more == {heeded'}
    <3>2. h \in heeded..N /\ more \subseteq 1..h /\ heeded + 1..h \subseteq more /\ h \in 0..N
      BY <1>1, <3>1
    <3> HIDE DEF more, h
    <3>3. Canonical(record, Range(Canonical(record, 1..heeded)) \union more) = Canonical(record, 1..h)
      BY ZenonT(40), <1>1, <3>2, KeptIsEnough
    <3> USE DEF more, h
    <3> QED BY <1>1, <3>1, <3>2, <3>3 DEF MergeCanonicalEvents
  <2> QED BY <2>2, <2>3
<1>3. screen' \in Seq(1..MaxEvents)
  <2>1. screen' \in Seq(1..N) /\ 1..N \subseteq 1..MaxEvents
    BY <1>1, <1>2, ConversationAssumption, CanonicalType
  <2>2. \A S, T : S \subseteq T => Seq(S) \subseteq Seq(T)
    OBVIOUS
  <2> QED BY <2>1, <2>2
<1>4. ConversationTypeOK'
  <2>1. heeded' \in 0..MaxEvents /\ fetching' \in SUBSET (0..MaxEvents)
    BY <1>1, <1>2, ConversationAssumption
  <2> QED BY <1>1, <1>3, <2>1 DEF ConversationInv, ConversationTypeOK
<1>5. Bounded' /\ MergesLikeTheWhole'
  BY <1>1, <1>2, ConversationAssumption DEF Bounded, MergesLikeTheWhole
<1> QED BY <1>4, <1>5 DEF ConversationInv

\* No step of the conversation disturbs the invariant.
LEMMA StepConversation == ConversationInv /\ [ConversationNext]_conversationVars => ConversationInv'
<1> SUFFICES ASSUME ConversationInv, [ConversationNext]_conversationVars PROVE ConversationInv'
  OBVIOUS
<1>1. CASE Fetched \/ HearsLive
  BY <1>1, ScreenKeepsInv
<1>2. CASE \/ SomeonePrompts \/ AgentStarts \/ AgentEnds \/ MessageStarts \/ MessageEnds
           \/ \E kind \in {"text", "thinking"} : Delta(kind) \/ BlockEnds(kind)
           \/ ToolStarts \/ ToolEnds
  BY <1>2, PiKeepsInv
<1>3. CASE Fetch
  <2>1. fetching' = {Len(record)} /\ UNCHANGED <<record, mood, screen, heeded, torn>>
    BY <1>3 DEF Fetch
  <2> QED BY <2>1, ConversationAssumption DEF ConversationInv, ConversationTypeOK, Bounded, MergesLikeTheWhole
<1>4. CASE PiIsReplaced
  <2>1. mood' = Resting /\ torn' \in BOOLEAN /\ UNCHANGED <<record, screen, heeded, fetching>>
    BY <1>4 DEF PiIsReplaced, ConversationInv, ConversationTypeOK
  <2> QED BY <2>1, ConversationAssumption DEF ConversationInv, ConversationTypeOK, Bounded, MergesLikeTheWhole, Resting
<1>5. CASE UNCHANGED conversationVars
  BY <1>5 DEF conversationVars, ConversationInv, ConversationTypeOK, Bounded, MergesLikeTheWhole
<1> QED BY <1>1, <1>2, <1>3, <1>4, <1>5 DEF ConversationNext

\* The screen and the journal are what they should be, and the screen holds what
\* it would make of the whole journal so far, however it came by it (events.ts:145).
LEMMA ConversationHolds == ConversationSpec => []ConversationInv
<1> QED BY InitConversation, StepConversation, PTL DEF ConversationSpec

\* The journal, the screen and what is on its way have the types they should.
THEOREM ConversationTypeCorrect == ConversationSpec => []ConversationTypeOK
<1>1. ConversationInv => ConversationTypeOK
  BY DEF ConversationInv
<1> QED BY <1>1, ConversationHolds, PTL

\* For a journal of any length, and whatever was fetched, fetched again and sent
\* live, the screen holds what mergeCanonicalEvents makes of the whole journal so far.
THEOREM MergedLikeTheWhole == ConversationSpec => []MergesLikeTheWhole
<1>1. ConversationInv => MergesLikeTheWhole
  BY DEF ConversationInv
<1> QED BY <1>1, ConversationHolds, PTL

-----------------------------------------------------------------------------
(***************************************************************************)
(* What parseEventsToConversation makes of the events.                     *)
(***************************************************************************)
Words == Texts \union 1..MaxEvents
Kinds == {"user", "assistant", "chunk", "thinking", "tool"}
Keys == Kinds \X (Nat \union SUBSET Words)
OnScreen == [kind : Kinds, id : Keys, said : SUBSET Words, going : BOOLEAN]

(* where a walk over the events may be *)
Reading == [items : Seq(OnScreen), text : SUBSET Words, thinking : SUBSET Words,
            id : Keys \union {<<>>}, chunks : Nat, thoughts : Nat]

\* A key is a name with a number, or with what was said.
LEMMA KeyType ==
  ASSUME NEW name \in Kinds
  PROVE  /\ \A number \in Nat : <<name, number>> \in Keys
         /\ \A words \in SUBSET Words : <<name, words>> \in Keys
BY DEF Keys

\* An item has a place in the chat.
LEMMA ItemType ==
  ASSUME NEW kind \in Kinds, NEW id \in Keys, NEW said \in SUBSET Words, NEW going \in BOOLEAN
  PROVE  Item(kind, id, said, going) \in OnScreen
BY DEF Item, OnScreen

\* To show an item leaves the walk where it may be.
LEMMA ShowType ==
  ASSUME NEW p \in Reading, NEW item \in OnScreen
  PROVE  [p EXCEPT !.items = Append(@, item)] \in Reading
<1>1. Append(p.items, item) \in Seq(OnScreen)
  BY DEF Reading
<1> QED BY <1>1 DEF Reading

\* So does flushing,
LEMMA FlushThinkingType ==
  ASSUME NEW p \in Reading
  PROVE  FlushThinking(p) \in Reading
<1> DEFINE item == Item("thinking", <<"thinking", p.thoughts>>, p.thinking, FALSE)
<1>1. p.thoughts \in Nat /\ p.thinking \in SUBSET Words /\ p.items \in Seq(OnScreen)
  BY DEF Reading
<1>2. <<"thinking", p.thoughts>> \in Keys
  BY <1>1, KeyType DEF Kinds
<1>3. item \in OnScreen
  BY <1>1, <1>2, ItemType DEF Kinds
<1> HIDE DEF item
<1>4. Append(p.items, item) \in Seq(OnScreen) /\ p.thoughts + 1 \in Nat
  BY <1>1, <1>3
<1>5. [p EXCEPT !.items = Append(@, item), !.thoughts = @ + 1, !.thinking = {}] \in Reading
  BY <1>4 DEF Reading
<1> QED BY <1>5 DEF FlushThinking, item

\* of the text too,
LEMMA FlushTextType ==
  ASSUME NEW p \in Reading, NEW going \in BOOLEAN
  PROVE  FlushText(p, going) \in Reading
<1> DEFINE id == IF p.id = <<>> THEN <<"chunk", p.chunks>> ELSE p.id
           chunks == IF p.id = <<>> THEN p.chunks + 1 ELSE p.chunks
           item == Item("assistant", id, p.text, going)
<1>1. p.chunks \in Nat /\ p.id \in Keys \union {<<>>} /\ p.text \in SUBSET Words /\ p.items \in Seq(OnScreen)
  BY DEF Reading
<1>2. id \in Keys /\ chunks \in Nat
  BY <1>1, KeyType DEF Kinds
<1> HIDE DEF id, chunks
<1>3. item \in OnScreen
  BY <1>1, <1>2, ItemType DEF Kinds
<1>4. <<"chunk", chunks>> \in Keys
  BY <1>2, KeyType DEF Kinds
<1> HIDE DEF item
<1>5. Append(p.items, item) \in Seq(OnScreen)
  BY <1>1, <1>3
<1>n. chunks + 1 \in Nat
  BY <1>2
<1>6. [p EXCEPT !.items = Append(@, item), !.id = <<"chunk", chunks>>, !.chunks = chunks + 1, !.text = {}] \in Reading
  BY <1>n, <1>4, <1>5 DEF Reading
<1> QED BY <1>6 DEF FlushText, id, chunks, item

\* and of both.
LEMMA FlushAllType ==
  ASSUME NEW p \in Reading, NEW going \in BOOLEAN
  PROVE  FlushAll(p, going) \in Reading
BY FlushThinkingType, FlushTextType DEF FlushAll

\* An event that is read leaves the walk where it may be.
LEMMA ParseType ==
  ASSUME NEW events, NEW seq \in Nat, events[seq] \in Entry, NEW p \in Reading
  PROVE  Parse(events, p, seq) \in Reading
<1> DEFINE type == events[seq].type
           payload == events[seq].payload
<1>1. type \in EventTypes /\ payload \in SUBSET Words
  BY DEF Entry, Words
<1>2. FlushAll(p, FALSE) \in Reading /\ FlushAll(p, TRUE) \in Reading
  BY FlushAllType
<1>3. Named(p, seq) \in Reading
  <2>1. <<"assistant", seq>> \in Keys
    BY KeyType DEF Kinds
  <2> QED BY <2>1 DEF Named, Reading
<1>4. Item("user", <<"user", seq>>, {}, FALSE) \in OnScreen /\ Item("tool", <<"tool", payload>>, {}, TRUE) \in OnScreen
  <2>1. <<"user", seq>> \in Keys /\ <<"tool", payload>> \in Keys
    BY <1>1, KeyType DEF Kinds
  <2> QED BY <2>1, ItemType DEF Kinds
<1>5. CASE type = "prompt"
  BY <1>2, <1>4, <1>5, ShowType DEF Parse
<1>6. CASE type = "message_start"
  <2>1. <<"assistant", seq>> \in Keys
    BY KeyType DEF Kinds
  <2>2. [FlushAll(p, FALSE) EXCEPT !.id = <<"assistant", seq>>] \in Reading
    BY <1>2, <2>1 DEF Reading
  <2> QED BY <1>6, <2>2 DEF Parse
<1>7. CASE type \in {"thinking", "text"}
  <2> DEFINE q == Named(p, seq)
  <2> HIDE DEF q
  <2>1. q \in Reading
    BY <1>3 DEF q
  <2>2. [q EXCEPT !.thinking = @ \union payload] \in Reading /\ [q EXCEPT !.text = @ \union payload] \in Reading
    BY <1>1, <2>1 DEF Reading
  <2> QED BY <1>7, <2>2 DEF Parse, q
<1>8. CASE type \in {"thinking_end", "text_end"}
  <2> DEFINE q == Named(p, seq)
  <2> HIDE DEF q
  <2>1. q \in Reading
    BY <1>3 DEF q
  <2>2. EndReplaces(q, "thinking", payload) \in Reading /\ EndReplaces(q, "text", payload) \in Reading
    BY <1>1, <2>1 DEF EndReplaces, Reading
  <2> QED BY <1>8, <2>2, FlushThinkingType, FlushTextType DEF Parse, q
<1>9. CASE type \in {"message_end", "agent_end"}
  BY <1>2, <1>9 DEF Parse
<1>10. CASE type = "tool_start"
  BY <1>2, <1>4, <1>10, ShowType DEF Parse
<1>11. CASE type = "tool_end"
  <2> DEFINE items == [i \in DOMAIN p.items |->
                         IF p.items[i].id = <<"tool", payload>> THEN [p.items[i] EXCEPT !.going = FALSE] ELSE p.items[i]]
  <2>1. p.items \in Seq(OnScreen)
    BY DEF Reading
  <2>2. \A i \in DOMAIN p.items : items[i] \in OnScreen
    <3> SUFFICES ASSUME NEW i \in DOMAIN p.items PROVE [p.items[i] EXCEPT !.going = FALSE] \in OnScreen /\ p.items[i] \in OnScreen
      OBVIOUS
    <3>1. p.items[i] \in OnScreen
      BY <2>1
    <3> QED BY <3>1 DEF OnScreen
  <2>n. Len(p.items) \in Nat /\ DOMAIN p.items = 1..Len(p.items)
    BY <2>1
  <2>3. items \in Seq(OnScreen)
    <3>1. items = [i \in 1..Len(p.items) |-> items[i]]
      BY <2>n
    <3> HIDE DEF items
    <3> QED BY <2>2, <2>n, <3>1
  <2> HIDE DEF items
  <2>4. [p EXCEPT !.items = items] \in Reading
    BY <2>3 DEF Reading
  <2> QED BY <1>11, <2>4 DEF Parse, items
<1>12. CASE type = "agent_start"
  BY <1>12 DEF Parse
<1> QED BY <1>1, <1>5, <1>6, <1>7, <1>8, <1>9, <1>10, <1>11, <1>12 DEF EventTypes

\* The walk over what was kept: it begins with nothing, and goes on event by event.
LEMMA ParsedWalks ==
  ASSUME NEW events \in Seq(Entry), NEW seqs \in Seq(1..Len(events))
  PROVE  LET c == Parsed(events, seqs) IN
         /\ c[0] = Unparsed /\ \A n \in 0..Len(seqs) : c[n] \in Reading
         /\ \A n \in 1..Len(seqs) : c[n] = Parse(events, c[n - 1], seqs[n])
<1> DEFINE N == Len(seqs)
           step == [n \in 1..N |-> [p \in Reading |-> Parse(events, p, seqs[n])]]
           Walk(c) == [n \in 0..N |-> IF n = 0 THEN Unparsed ELSE Parse(events, c[n - 1], seqs[n])]
<1>1. Unparsed \in Reading
  BY DEF Unparsed, Reading
<1>2. N \in Nat /\ \A n \in 1..N : seqs[n] \in Nat /\ events[seqs[n]] \in Entry
  OBVIOUS
<1>3. \A n \in 1..N : \A p \in Reading : Parse(events, p, seqs[n]) \in Reading
  BY <1>2, ParseType
<1>4. step \in [1..N -> [Reading -> Reading]]
  BY <1>3
<1>5. \A n \in 1..N : \A p \in Reading : step[n][p] = Parse(events, p, seqs[n])
  OBVIOUS
<1> HIDE DEF step
<1>a. PICK f : Recursion(f, Reading, Unparsed, N, step)
  BY <1>1, <1>2, <1>4, RecursionOnNat
<1>6. f \in [0..N -> Reading] /\ f[0] = Unparsed /\ \A n \in 1..N : f[n] = step[n][f[n - 1]]
  BY <1>a DEF Recursion
<1>7. f = Walk(f)
  <2>1. f = [n \in 0..N |-> f[n]]
    BY <1>6
  <2>2. \A n \in 0..N : f[n] = IF n = 0 THEN Unparsed ELSE Parse(events, f[n - 1], seqs[n])
    <3> SUFFICES ASSUME NEW n \in 0..N, n # 0 PROVE f[n] = Parse(events, f[n - 1], seqs[n])
      BY <1>6
    <3>1. n \in 1..N /\ n - 1 \in 0..N
      BY <1>2
    <3>2. f[n - 1] \in Reading
      BY <1>6, <3>1
    <3> QED BY <1>5, <1>6, <3>1, <3>2
  <2> QED BY <2>1, <2>2
<1>8. Parsed(events, seqs) = CHOOSE c : c = Walk(c)
  BY DEF Parsed
<1>9. Parsed(events, seqs) = Walk(Parsed(events, seqs))
  BY <1>7, <1>8
<1> DEFINE c == Parsed(events, seqs)
           P == {n \in Nat : n <= N => c[n] \in Reading}
<1> HIDE DEF c
<1>10. c[0] = Unparsed /\ \A n \in 1..N : c[n] = Parse(events, c[n - 1], seqs[n])
  <2>1. c = Walk(c)
    BY <1>9 DEF c
  <2>2. Walk(c)[0] = Unparsed /\ \A n \in 1..N : Walk(c)[n] = Parse(events, c[n - 1], seqs[n])
    BY <1>2
  <2> HIDE DEF Walk
  <2> QED BY <2>1, <2>2
<1>11. 0 \in P
  BY <1>1, <1>10
<1>12. ASSUME NEW n \in Nat, n \in P PROVE n + 1 \in P
  <2> SUFFICES ASSUME n + 1 <= N PROVE c[n + 1] \in Reading
    OBVIOUS
  <2>1. c[n] \in Reading /\ n + 1 \in 1..N /\ (n + 1) - 1 = n
    BY <1>12
  <2> QED BY <1>3, <1>10, <2>1
<1> HIDE DEF P
<1>13. \A n \in Nat : n \in P
  BY <1>11, <1>12, InductionOnNat
<1>14. \A n \in 0..N : c[n] \in Reading
  BY <1>13 DEF P
<1> QED BY <1>10, <1>14 DEF c

\* What was read of the first events is read of them again.
LEMMA ReadAgain ==
  ASSUME NEW events \in Seq(Entry), NEW other \in Seq(Entry), Len(events) <= Len(other),
         \A s \in 1..Len(events) : other[s] = events[s],
         NEW seqs \in Seq(1..Len(events)), NEW more \in Seq(1..Len(other)), Len(seqs) <= Len(more),
         \A n \in 1..Len(seqs) : more[n] = seqs[n]
  PROVE  \A n \in 0..Len(seqs) : Parsed(other, more)[n] = Parsed(events, seqs)[n]
<1> DEFINE a == Parsed(events, seqs)
           b == Parsed(other, more)
           P == {n \in Nat : n <= Len(seqs) => b[n] = a[n]}
<1>1. a[0] = Unparsed /\ \A n \in 1..Len(seqs) : a[n] = Parse(events, a[n - 1], seqs[n])
  BY ParsedWalks
<1>2. b[0] = Unparsed /\ \A n \in 1..Len(more) : b[n] = Parse(other, b[n - 1], more[n])
  BY ParsedWalks
<1> HIDE DEF a, b
<1>3. 0 \in P
  BY <1>1, <1>2
<1>4. ASSUME NEW n \in Nat, n \in P PROVE n + 1 \in P
  <2> SUFFICES ASSUME n + 1 <= Len(seqs) PROVE b[n + 1] = a[n + 1]
    OBVIOUS
  <2>1. n + 1 \in 1..Len(seqs) /\ n + 1 \in 1..Len(more) /\ (n + 1) - 1 = n /\ b[n] = a[n] /\ more[n + 1] = seqs[n + 1]
    BY <1>4
  <2>2. seqs[n + 1] \in 1..Len(events)
    <3>1. seqs \in [1..Len(seqs) -> 1..Len(events)]
      BY SMT
    <3> QED BY <2>1, <3>1
  <2>3. Parse(other, a[n], seqs[n + 1]) = Parse(events, a[n], seqs[n + 1])
    <3>1. other[seqs[n + 1]] = events[seqs[n + 1]]
      BY <2>2
    <3> QED BY <3>1 DEF Parse
  <2> QED BY <1>1, <1>2, <2>1, <2>3
<1> HIDE DEF P
<1>5. \A n \in Nat : n \in P
  BY <1>3, <1>4, InductionOnNat
<1> QED BY <1>5 DEF P, a, b

(* where the walks over the whole journal are *)
Now(events) == Cleaned(events, 1..Len(events))[Len(events)]
Read(events) == Parsed(events, Now(events).kept)[Len(Now(events).kept)]

\* One event later, the walk over the same events before it has come to the same place.
LEMMA SameBefore ==
  ASSUME NEW events, NEW other, Len(events) \in Nat, Len(other) = Len(events) + 1,
         \A n \in 1..Len(events) : other[n] = events[n],
         NEW A, NEW X, X \intersect 1..Len(events) \subseteq A, A \subseteq X
  PROVE  Cleaned(other, X)[Len(events)] = Cleaned(events, A)[Len(events)]
<1>1. \A n \in (A \ X) \intersect 1..Len(events) : n \notin Range(Cleaned(events, A)[n].kept)
  OBVIOUS
<1>2. Len(events) \in 0..Len(events) /\ Len(events) <= Len(other) /\ Len(other) \in Nat
  OBVIOUS
<1>3. SameWalk(events, A, other, X, Len(events))
  BY <1>1, <1>2, WalksAgree
<1> QED BY <1>2, <1>3 DEF SameWalk

\* Where cleaning the whole journal has come to follows from where it was an event ago.
LEMMA NowGrows ==
  ASSUME NEW events \in Seq(Entry), NEW e \in Entry
  PROVE  LET other == Append(events, e) IN
         /\ Now(events) \in Seen(events) /\ Range(Now(events).kept) \subseteq 1..Len(events)
         /\ Now(other) = Keep(other, Now(events), Len(events) + 1)
         /\ \/ Now(other) = Now(events)
            \/ Now(other).kept = Append(Now(events).kept, Len(events) + 1)
<1> DEFINE N == Len(events)
           other == Append(events, e)
           A == 1..N
           X == 1..N + 1
<1>1. /\ N \in Nat /\ Len(other) = N + 1 /\ \A n \in 1..N : other[n] = events[n]
  OBVIOUS
<1>2. Now(events) \in Seen(events) /\ Range(Now(events).kept) \subseteq 1..N
  <2>1. Cleaned(events, A)[N] \in Seen(events)
    BY <1>1, CleanedWalks
  <2>2. Range(Cleaned(events, A)[N].kept) \subseteq A \intersect 1..N
    <3> DEFINE Kept(k) == Range(Cleaned(events, A)[k].kept)
    <3> HIDE DEF A
    <3>1. \A k \in 0..Len(events) : Kept(k) \subseteq A \intersect 1..k
      BY <1>1, KeptWhenMet
    <3> HIDE DEF Kept
    <3>2. Kept(N) \subseteq A \intersect 1..N
      BY <1>1, <3>1
    <3> QED BY <3>2 DEF Kept
  <2> QED BY <1>1, <2>1, <2>2 DEF Now
<1>3. Cleaned(other, X)[N] = Cleaned(events, A)[N]
  <2>1. X \intersect 1..Len(events) \subseteq A /\ A \subseteq X
    BY <1>1
  <2> HIDE DEF A, X, other
  <2>2. \A n \in 1..Len(events) : other[n] = events[n]
    BY <1>1
  <2> QED BY <1>1, <2>1, <2>2, SameBefore
<1>4. Now(other) = Cleaned(other, X)[N + 1] /\ Now(events) = Cleaned(events, A)[N]
  BY <1>1 DEF Now
<1> HIDE DEF A, other
<1>5. \A n \in 1..N + 1 : Cleaned(other, X)[n] = IF n \in X THEN Keep(other, Cleaned(other, X)[n - 1], n)
                                               ELSE Cleaned(other, X)[n - 1]
  BY <1>1, CleanedWalks
<1>6. \A n \in 1..N + 1 : \/ Cleaned(other, X)[n] = Cleaned(other, X)[n - 1]
                          \/ Cleaned(other, X)[n].kept = Append(Cleaned(other, X)[n - 1].kept, n)
  <2>1. Len(other) \in Nat /\ Len(other) = N + 1
    BY <1>1
  <2> HIDE DEF X, N
  <2>2. \A n \in 1..Len(other) : \/ Cleaned(other, X)[n] = Cleaned(other, X)[n - 1]
                                 \/ n \in X /\ Cleaned(other, X)[n].kept = Append(Cleaned(other, X)[n - 1].kept, n)
    BY <2>1, WalkKeepsOrStays
  <2> QED BY <2>1, <2>2
<1>7. N + 1 \in 1..N + 1 /\ (N + 1) - 1 = N /\ N + 1 \in X
  BY <1>1
<1> HIDE DEF X, N
<1>8. Now(other) = Keep(other, Now(events), N + 1)
  BY <1>3, <1>4, <1>5, <1>7
<1>9. Now(other) = Now(events) \/ Now(other).kept = Append(Now(events).kept, N + 1)
  BY <1>3, <1>4, <1>6, <1>7
<1> QED BY <1>2, <1>8, <1>9 DEF other, N

\* And so does what is read of it.
LEMMA ReadGrows ==
  ASSUME NEW events \in Seq(Entry), NEW e \in Entry
  PROVE  LET other == Append(events, e) IN
         /\ Read(events) \in Reading
         /\ \/ Now(other) = Now(events) /\ Read(other) = Read(events)
            \/ /\ Now(other).kept = Append(Now(events).kept, Len(events) + 1)
               /\ Read(other) = Parse(other, Read(events), Len(events) + 1)
<1> DEFINE N == Len(events)
           other == Append(events, e)
           kept == Now(events).kept
           more == Now(other).kept
<1>1. /\ N \in Nat /\ Len(other) = N + 1 /\ other \in Seq(Entry) /\ \A n \in 1..N : other[n] = events[n]
  OBVIOUS
<1>2. Now(events) \in Seen(events) /\ (Now(other) = Now(events) \/ more = Append(kept, N + 1))
  BY NowGrows
<1>3. kept \in Seq(1..N)
  BY <1>2 DEF Seen
<1>4. Read(events) = Parsed(events, kept)[Len(kept)] /\ Read(other) = Parsed(other, more)[Len(more)]
  BY DEF Read
<1>n. Now(other) = Now(events) => more = kept
  OBVIOUS
<1> HIDE DEF kept, more, other
<1>5. Read(events) \in Reading
  <2>1. \A n \in 0..Len(kept) : Parsed(events, kept)[n] \in Reading
    BY <1>3, ParsedWalks
  <2>2. Len(kept) \in 0..Len(kept)
    BY <1>3
  <2> QED BY <1>4, <2>1, <2>2
<1>6. ASSUME more \in Seq(1..Len(other)), Len(kept) <= Len(more), \A n \in 1..Len(kept) : more[n] = kept[n]
      PROVE  Parsed(other, more)[Len(kept)] = Read(events)
  <2>1. Len(events) <= Len(other) /\ Len(kept) \in 0..Len(kept)
    BY <1>1, <1>3
  <2>2. \A n \in 0..Len(kept) : Parsed(other, more)[n] = Parsed(events, kept)[n]
    BY <1>1, <1>3, <1>6, <2>1, ReadAgain
  <2> QED BY <1>4, <2>1, <2>2
<1>7. CASE Now(other) = Now(events)
  <2>1. more = kept /\ more \in Seq(1..Len(other)) /\ Len(kept) <= Len(more)
    BY <1>1, <1>3, <1>n, <1>7
  <2> QED BY <1>4, <1>5, <1>6, <1>7, <2>1 DEF other
<1>8. CASE more = Append(kept, N + 1)
  <2>1. /\ more \in Seq(1..Len(other)) /\ Len(more) = Len(kept) + 1 /\ Len(kept) \in Nat /\ more[Len(more)] = N + 1
        /\ \A n \in 1..Len(kept) : more[n] = kept[n]
    BY <1>1, <1>3, <1>8
  <2>2. Parsed(other, more)[Len(kept)] = Read(events)
    BY <1>6, <2>1
  <2>3. \A n \in 1..Len(more) : Parsed(other, more)[n] = Parse(other, Parsed(other, more)[n - 1], more[n])
    BY <1>1, <2>1, ParsedWalks
  <2>4. Len(more) \in 1..Len(more) /\ Len(more) - 1 = Len(kept)
    BY <2>1
  <2>5. Read(other) = Parse(other, Read(events), N + 1)
    BY <1>4, <2>1, <2>2, <2>3, <2>4
  <2> QED BY <1>5, <1>8, <2>5 DEF more, kept, other
<1> QED BY <1>2, <1>7, <1>8

-----------------------------------------------------------------------------
(* a key of the events so far, or of a counter that has moved on since *)
Old(key, n, chunks, thoughts) ==
  /\ key[1] \in {"user", "assistant"} => key[2] \in 1..n
  /\ key[1] = "tool" => \E m \in 1..n : key[2] = {m}
  /\ key[1] = "chunk" => key[2] \in 0..chunks - 1
  /\ key[1] = "thinking" => key[2] \in 0..thoughts - 1

(* no two items have the same key, and the key of the next text is none of theirs *)
Distinct(p, n) ==
  /\ \A i \in DOMAIN p.items : Old(p.items[i].id, n, p.chunks, p.thoughts) /\ p.items[i].id # p.id
  /\ p.id # <<>> => Old(p.id, n, p.chunks, p.thoughts)
  /\ \A i, j \in DOMAIN p.items : p.items[i].id = p.items[j].id => i = j

(* what is to be said is in one item, or waits to become one *)
Pending(p) == p.text \union p.thinking
Told(p, S) ==
  /\ p.text \intersect p.thinking = {} /\ Pending(p) \subseteq S
  /\ \A i \in DOMAIN p.items : p.items[i].said \subseteq S \ Pending(p)
  /\ \A i, j \in DOMAIN p.items : i # j => p.items[i].said \intersect p.items[j].said = {}
  /\ \A s \in S \ Pending(p) : \E i \in DOMAIN p.items : s \in p.items[i].said

\* An old key stays old.
LEMMA OldStays ==
  ASSUME NEW key, NEW n \in Nat, NEW chunks \in Nat, NEW thoughts \in Nat, Old(key, n, chunks, thoughts),
         NEW m \in Nat, NEW chunks2 \in Nat, NEW thoughts2 \in Nat, n <= m, chunks <= chunks2, thoughts <= thoughts2
  PROVE  Old(key, m, chunks2, thoughts2)
BY DEF Old

\* A key that a counter, or the next event, gives is not old,
LEMMA NewIsNotOld ==
  ASSUME NEW key, NEW n \in Nat, NEW chunks \in Nat, NEW thoughts \in Nat, Old(key, n, chunks, thoughts)
  PROVE  /\ key # <<"user", n + 1>> /\ key # <<"assistant", n + 1>> /\ key # <<"tool", {n + 1}>>
         /\ key # <<"chunk", chunks>> /\ key # <<"chunk", chunks + 1>> /\ key # <<"thinking", thoughts>>
<1>1. \A m \in 1..n : {m} # {n + 1}
  OBVIOUS
<1>2. \A name, number : key = <<name, number>> => key[1] = name /\ key[2] = number
  OBVIOUS
<1>3. key # <<"user", n + 1>> /\ key # <<"assistant", n + 1>>
  BY <1>2 DEF Old
<1>4. key # <<"tool", {n + 1}>>
  BY <1>1, <1>2 DEF Old
<1>5. key # <<"chunk", chunks>> /\ key # <<"chunk", chunks + 1>>
  BY <1>2 DEF Old
<1>6. key # <<"thinking", thoughts>>
  BY <1>2 DEF Old
<1> QED BY <1>3, <1>4, <1>5, <1>6

\* and is so at once.
LEMMA GivenIsOld ==
  ASSUME NEW n \in Nat, NEW chunks \in Nat, NEW thoughts \in Nat
  PROVE  /\ \A m \in 1..n : /\ Old(<<"user", m>>, n, chunks, thoughts)
                            /\ Old(<<"assistant", m>>, n, chunks, thoughts)
                            /\ Old(<<"tool", {m}>>, n, chunks, thoughts)
         /\ \A k \in 0..chunks - 1 : Old(<<"chunk", k>>, n, chunks, thoughts)
         /\ \A k \in 0..thoughts - 1 : Old(<<"thinking", k>>, n, chunks, thoughts)
<1>1. \A name, number : <<name, number>>[1] = name /\ <<name, number>>[2] = number
  OBVIOUS
<1>2. \A m \in 1..n : Old(<<"user", m>>, n, chunks, thoughts) /\ Old(<<"assistant", m>>, n, chunks, thoughts)
  BY <1>1 DEF Old
<1>3. \A m \in 1..n : Old(<<"tool", {m}>>, n, chunks, thoughts)
  BY <1>1 DEF Old
<1>4. /\ \A k \in 0..chunks - 1 : Old(<<"chunk", k>>, n, chunks, thoughts)
      /\ \A k \in 0..thoughts - 1 : Old(<<"thinking", k>>, n, chunks, thoughts)
  BY <1>1 DEF Old
<1> QED BY <1>2, <1>3, <1>4

\* The items with one more.
LEMMA OneMoreItem ==
  ASSUME NEW items \in Seq(OnScreen), NEW item \in OnScreen
  PROVE  LET more == Append(items, item) IN
         /\ \A i \in DOMAIN more : (i \in DOMAIN items /\ more[i] = items[i]) \/ (i = Len(items) + 1 /\ more[i] = item)
         /\ \A i \in DOMAIN items : i \in DOMAIN more /\ more[i] = items[i] /\ i # Len(items) + 1
         /\ Len(items) + 1 \in DOMAIN more /\ more[Len(items) + 1] = item
<1>1. /\ Len(items) \in Nat /\ DOMAIN items = 1..Len(items) /\ DOMAIN Append(items, item) = 1..Len(items) + 1
      /\ Append(items, item)[Len(items) + 1] = item /\ \A i \in 1..Len(items) : Append(items, item)[i] = items[i]
  OBVIOUS
<1>2. \A i \in 1..Len(items) + 1 : i \in 1..Len(items) \/ i = Len(items) + 1
  BY <1>1
<1>3. \A i \in 1..Len(items) : i \in 1..Len(items) + 1 /\ i # Len(items) + 1
  BY <1>1
<1>4. Len(items) + 1 \in 1..Len(items) + 1
  BY <1>1
<1> QED BY <1>1, <1>2, <1>3, <1>4

\* An item under a new key leaves the keys distinct.
LEMMA ShowDistinct ==
  ASSUME NEW p \in Reading, NEW q \in Reading, NEW item \in OnScreen, q.items = Append(p.items, item),
         NEW n \in Nat, NEW m \in Nat, n <= m, p.chunks <= q.chunks, p.thoughts <= q.thoughts, Distinct(p, n),
         Old(item.id, m, q.chunks, q.thoughts), q.id # <<>> => Old(q.id, m, q.chunks, q.thoughts), item.id # q.id,
         \A i \in DOMAIN p.items : p.items[i].id # item.id /\ p.items[i].id # q.id
  PROVE  Distinct(q, m)
<1>1. p.items \in Seq(OnScreen) /\ p.chunks \in Nat /\ q.chunks \in Nat /\ p.thoughts \in Nat /\ q.thoughts \in Nat
  BY DEF Reading
<1>2. \A i \in DOMAIN p.items : Old(p.items[i].id, m, q.chunks, q.thoughts)
  BY <1>1, OldStays DEF Distinct
<1>3. /\ \A i \in DOMAIN q.items : \/ i \in DOMAIN p.items /\ q.items[i] = p.items[i]
                                   \/ i = Len(p.items) + 1 /\ q.items[i] = item
  BY <1>1, OneMoreItem
<1>4. \A i, j \in DOMAIN p.items : p.items[i].id = p.items[j].id => i = j
  BY DEF Distinct
<1>5. \A i \in DOMAIN q.items : Old(q.items[i].id, m, q.chunks, q.thoughts) /\ q.items[i].id # q.id
  BY <1>2, <1>3
<1>6. \A i, j \in DOMAIN q.items : q.items[i].id = q.items[j].id => i = j
  BY <1>3, <1>4
<1> QED BY <1>5, <1>6 DEF Distinct

\* What waits and is shown is told as before.
LEMMA ShowTold ==
  ASSUME NEW p \in Reading, NEW q \in Reading, NEW item \in OnScreen, q.items = Append(p.items, item),
         item.said \subseteq Pending(p), q.text \subseteq p.text, q.thinking \subseteq p.thinking,
         Pending(q) = Pending(p) \ item.said, NEW S, Told(p, S)
  PROVE  Told(q, S)
<1>1. p.items \in Seq(OnScreen)
  BY DEF Reading
<1>2. /\ \A i \in DOMAIN q.items : \/ i \in DOMAIN p.items /\ q.items[i] = p.items[i]
                                   \/ i = Len(p.items) + 1 /\ q.items[i] = item
      /\ \A i \in DOMAIN p.items : i \in DOMAIN q.items /\ q.items[i] = p.items[i] /\ i # Len(p.items) + 1
      /\ Len(p.items) + 1 \in DOMAIN q.items /\ q.items[Len(p.items) + 1] = item
  BY <1>1, OneMoreItem
<1>3. q.text \intersect q.thinking = {} /\ Pending(q) \subseteq S
  BY DEF Told
<1>4. /\ \A i \in DOMAIN p.items : p.items[i].said \subseteq S \ Pending(p)
      /\ \A i, j \in DOMAIN p.items : i # j => p.items[i].said \intersect p.items[j].said = {}
      /\ \A s \in S \ Pending(p) : \E i \in DOMAIN p.items : s \in p.items[i].said
      /\ Pending(p) \subseteq S
  BY DEF Told
<1>5. \A i \in DOMAIN q.items : q.items[i].said \subseteq S \ Pending(q)
  BY <1>2, <1>4
<1>6. \A i, j \in DOMAIN q.items : i # j => q.items[i].said \intersect q.items[j].said = {}
  BY <1>2, <1>4
<1>7. \A s \in S \ Pending(q) : \E i \in DOMAIN q.items : s \in q.items[i].said
  BY <1>2, <1>4
<1> QED BY <1>3, <1>5, <1>6, <1>7 DEF Told

Sound(p, n) == p \in Reading /\ Distinct(p, n)

(* what a step does that shows something of what waits, or nothing *)
Tells(p, q) == \A S : Told(p, S) => Told(q, S)

\* No key is nothing.
LEMMA KeysAreSomething == \A name, number : <<name, number>> # <<>>
OBVIOUS

\* Flushing the thinking: it is shown, and nothing waits of it.
LEMMA FlushThinkingSound ==
  ASSUME NEW n \in Nat, NEW p, Sound(p, n)
  PROVE  LET q == FlushThinking(p) IN
         /\ Sound(q, n) /\ Tells(p, q) /\ q.thinking = {} /\ q.text = p.text /\ q.id = p.id
<1> DEFINE item == Item("thinking", <<"thinking", p.thoughts>>, p.thinking, FALSE)
           q == [p EXCEPT !.items = Append(@, item), !.thoughts = @ + 1, !.thinking = {}]
<1>1. p \in Reading /\ Distinct(p, n) /\ FlushThinking(p) \in Reading
  BY FlushThinkingType DEF Sound
<1>2. CASE p.thinking = {}
  BY <1>1, <1>2 DEF FlushThinking, Sound, Tells
<1>3. CASE p.thinking # {}
  <2>1. FlushThinking(p) = q
    BY <1>3 DEF FlushThinking
  <2>2. p.thoughts \in Nat /\ p.chunks \in Nat /\ p.thinking \in SUBSET Words /\ p.items \in Seq(OnScreen)
    BY <1>1 DEF Reading
  <2>3. item \in OnScreen /\ item.id = <<"thinking", p.thoughts>> /\ item.said = p.thinking
    <3>1. <<"thinking", p.thoughts>> \in Keys
      BY <2>2, KeyType DEF Kinds
    <3>2. item \in OnScreen
      BY <2>2, <3>1, ItemType DEF Kinds
    <3> QED BY <3>2 DEF Item
  <2> HIDE DEF item
  <2>4. /\ q.items = Append(p.items, item) /\ q.thoughts = p.thoughts + 1 /\ q.thinking = {} /\ q.text = p.text
        /\ q.id = p.id /\ q.chunks = p.chunks
    BY <1>1 DEF Reading
  <2>5. q \in Reading
    BY <1>1, <2>1
  <2> HIDE DEF q
  <2>6. Distinct(q, n)
    <3>1. Old(item.id, n, q.chunks, q.thoughts)
      <4>1. q.thoughts \in Nat /\ q.chunks \in Nat /\ p.thoughts \in 0..q.thoughts - 1
        BY <2>2, <2>4
      <4> QED BY <2>3, <4>1, GivenIsOld
    <3>2. \A i \in DOMAIN p.items : p.items[i].id # item.id /\ p.items[i].id # q.id
      <4>1. \A i \in DOMAIN p.items : Old(p.items[i].id, n, p.chunks, p.thoughts) /\ p.items[i].id # p.id
        BY <1>1 DEF Distinct
      <4> QED BY ZenonT(40), <2>2, <2>3, <2>4, <4>1, NewIsNotOld
    <3>3. item.id # q.id
      <4>1. CASE p.id = <<>>
        BY <2>3, <2>4, <4>1, KeysAreSomething
      <4>2. CASE p.id # <<>>
        <5>1. Old(p.id, n, p.chunks, p.thoughts)
          BY <1>1, <4>2 DEF Distinct
        <5>2. p.id # <<"thinking", p.thoughts>>
          BY <2>2, <5>1, NewIsNotOld
        <5> QED BY <2>3, <2>4, <5>2
      <4> QED BY <4>1, <4>2
    <3>4. q.id # <<>> => Old(q.id, n, q.chunks, q.thoughts)
      <4>1. p.id # <<>> => Old(p.id, n, p.chunks, p.thoughts)
        BY <1>1 DEF Distinct
      <4>2. p.thoughts <= q.thoughts /\ q.thoughts \in Nat
        BY <2>2, <2>4
      <4> QED BY <2>2, <2>4, <4>1, <4>2, OldStays
    <3>5. n <= n /\ p.chunks <= q.chunks /\ p.thoughts <= q.thoughts
      BY <2>2, <2>4
    <3> QED BY <1>1, <2>3, <2>4, <2>5, <3>1, <3>2, <3>3, <3>4, <3>5, ShowDistinct
  <2>7. ASSUME NEW S, Told(p, S) PROVE Told(q, S)
    <3>1. p.text \intersect p.thinking = {}
      BY <2>7 DEF Told
    <3>2. item.said \subseteq Pending(p) /\ q.text \subseteq p.text /\ q.thinking \subseteq p.thinking
          /\ Pending(q) = Pending(p) \ item.said
      BY <2>3, <2>4, <3>1 DEF Pending
    <3> QED BY <1>1, <2>3, <2>4, <2>5, <2>7, <3>2, ShowTold
  <2> QED BY <2>1, <2>4, <2>5, <2>6, <2>7 DEF Sound, Tells
<1> QED BY <1>2, <1>3

\* The same items stay distinct under another key for the next text that is none of theirs.
LEMMA RekeyedDistinct ==
  ASSUME NEW p \in Reading, NEW q \in Reading, q.items = p.items,
         NEW n \in Nat, NEW m \in Nat, n <= m, p.chunks <= q.chunks, p.thoughts <= q.thoughts, Distinct(p, n),
         q.id # <<>> => Old(q.id, m, q.chunks, q.thoughts), \A i \in DOMAIN p.items : p.items[i].id # q.id
  PROVE  Distinct(q, m)
<1>1. p.chunks \in Nat /\ q.chunks \in Nat /\ p.thoughts \in Nat /\ q.thoughts \in Nat
  BY DEF Reading
<1>2. \A i \in DOMAIN p.items : Old(p.items[i].id, m, q.chunks, q.thoughts)
  BY <1>1, OldStays DEF Distinct
<1>3. \A i, j \in DOMAIN p.items : p.items[i].id = p.items[j].id => i = j
  BY DEF Distinct
<1> QED BY <1>2, <1>3 DEF Distinct

\* What is sound so far stays so as the journal grows.
LEMMA SoundStays ==
  ASSUME NEW n \in Nat, NEW m \in Nat, n <= m, NEW p, Sound(p, n)
  PROVE  Sound(p, m)
<1>1. p \in Reading /\ Distinct(p, n) /\ p.chunks \in Nat /\ p.thoughts \in Nat
  BY DEF Sound, Reading
<1>2. p.id # <<>> => Old(p.id, m, p.chunks, p.thoughts)
  <2>1. p.id # <<>> => Old(p.id, n, p.chunks, p.thoughts)
    BY <1>1 DEF Distinct
  <2> QED BY <1>1, <2>1, OldStays
<1>3. \A i \in DOMAIN p.items : p.items[i].id # p.id
  BY <1>1 DEF Distinct
<1>4. p.chunks <= p.chunks /\ p.thoughts <= p.thoughts
  BY <1>1
<1> QED BY <1>1, <1>2, <1>3, <1>4, RekeyedDistinct DEF Sound

\* Flushing the text: it is shown under the key it was given, and the next has another.
LEMMA FlushTextSound ==
  ASSUME NEW n \in Nat, NEW p, Sound(p, n), NEW going \in BOOLEAN
  PROVE  LET q == FlushText(p, going) IN
         Sound(q, n) /\ Tells(p, q) /\ q.text = {} /\ q.thinking = p.thinking
<1> DEFINE id == IF p.id = <<>> THEN <<"chunk", p.chunks>> ELSE p.id
           chunks == IF p.id = <<>> THEN p.chunks + 1 ELSE p.chunks
           item == Item("assistant", id, p.text, going)
           q == [p EXCEPT !.items = Append(@, item), !.id = <<"chunk", chunks>>, !.chunks = chunks + 1, !.text = {}]
<1>1. p \in Reading /\ Distinct(p, n) /\ FlushText(p, going) \in Reading
  BY FlushTextType DEF Sound
<1>2. CASE p.text = {}
  BY <1>1, <1>2 DEF FlushText, Sound, Tells
<1>3. CASE p.text # {}
  <2>1. FlushText(p, going) = q
    BY <1>3 DEF FlushText
  <2>2. /\ p.thoughts \in Nat /\ p.chunks \in Nat /\ p.text \in SUBSET Words /\ p.items \in Seq(OnScreen)
        /\ p.id \in Keys \union {<<>>}
    BY <1>1 DEF Reading
  <2>3. id \in Keys /\ chunks \in Nat /\ p.chunks <= chunks
    BY <2>2, KeyType DEF Kinds
  <2>4. item \in OnScreen /\ item.id = id /\ item.said = p.text
    <3> HIDE DEF id
    <3>1. item \in OnScreen
      BY <2>2, <2>3, ItemType DEF Kinds
    <3> QED BY <3>1 DEF Item
  <2>5. \A i \in DOMAIN p.items : Old(p.items[i].id, n, p.chunks, p.thoughts) /\ p.items[i].id # p.id
    BY <1>1 DEF Distinct
  <2>6. p.id # <<>> => Old(p.id, n, p.chunks, p.thoughts)
    BY <1>1 DEF Distinct
  <2>7. Old(id, n, chunks + 1, p.thoughts)
    <3>1. CASE p.id = <<>>
      <4>1. p.chunks \in 0..(chunks + 1) - 1 /\ chunks + 1 \in Nat
        BY <2>2, <3>1
      <4> QED BY <2>2, <3>1, <4>1, GivenIsOld
    <3>2. CASE p.id # <<>>
      <4>1. p.chunks <= chunks + 1 /\ chunks + 1 \in Nat /\ n <= n /\ p.thoughts <= p.thoughts
        BY <2>2, <2>3
      <4> QED BY <2>2, <2>6, <3>2, <4>1, OldStays
    <3> QED BY <3>1, <3>2
  <2>8. \A i \in DOMAIN p.items : p.items[i].id # id
    <3>1. CASE p.id = <<>>
      BY <2>2, <2>5, <3>1, NewIsNotOld
    <3>2. CASE p.id # <<>>
      BY <2>5, <3>2
    <3> QED BY <3>1, <3>2
  <2>9. \A i \in DOMAIN p.items : p.items[i].id # <<"chunk", chunks>>
    <3>1. \A i \in DOMAIN p.items : /\ p.items[i].id # <<"chunk", p.chunks>>
                                    /\ p.items[i].id # <<"chunk", p.chunks + 1>>
      BY <2>2, <2>5, NewIsNotOld
    <3> QED BY <3>1
  <2>10. id # <<"chunk", chunks>>
    <3>1. CASE p.id = <<>>
      BY <2>2, <3>1
    <3>2. CASE p.id # <<>>
      BY <2>2, <2>6, <3>2, NewIsNotOld
    <3> QED BY <3>1, <3>2
  <2>11. Old(<<"chunk", chunks>>, n, chunks + 1, p.thoughts)
    <3>1. chunks \in 0..(chunks + 1) - 1 /\ chunks + 1 \in Nat
      BY <2>3
    <3> QED BY <2>2, <3>1, GivenIsOld
  <2>n. chunks + 1 \in Nat /\ p.chunks <= chunks + 1
    BY <2>2, <2>3
  <2> HIDE DEF id, chunks, item
  <2>12. /\ q.items = Append(p.items, item) /\ q.id = <<"chunk", chunks>> /\ q.chunks = chunks + 1 /\ q.text = {}
         /\ q.thinking = p.thinking /\ q.thoughts = p.thoughts
    BY <1>1 DEF Reading
  <2>13. q \in Reading
    BY <1>1, <2>1
  <2> HIDE DEF q
  <2>14. Distinct(q, n)
    <3>1. n <= n /\ p.chunks <= q.chunks /\ p.thoughts <= q.thoughts
      BY <2>2, <2>n, <2>12
    <3>2. Old(item.id, n, q.chunks, q.thoughts) /\ Old(q.id, n, q.chunks, q.thoughts) /\ item.id # q.id
      BY <2>4, <2>7, <2>10, <2>11, <2>12
    <3>3. \A i \in DOMAIN p.items : p.items[i].id # item.id /\ p.items[i].id # q.id
      BY <2>4, <2>8, <2>9, <2>12
    <3> QED BY <1>1, <2>4, <2>12, <2>13, <3>1, <3>2, <3>3, ShowDistinct
  <2>15. ASSUME NEW S, Told(p, S) PROVE Told(q, S)
    <3>1. p.text \intersect p.thinking = {}
      BY <2>15 DEF Told
    <3>2. item.said \subseteq Pending(p) /\ q.text \subseteq p.text /\ q.thinking \subseteq p.thinking
          /\ Pending(q) = Pending(p) \ item.said
      BY <2>4, <2>12, <3>1 DEF Pending
    <3> QED BY <1>1, <2>4, <2>12, <2>13, <2>15, <3>2, ShowTold
  <2> QED BY <2>1, <2>12, <2>13, <2>14, <2>15 DEF Sound, Tells
<1> QED BY <1>2, <1>3

\* Flushing both: nothing waits.
LEMMA FlushAllSound ==
  ASSUME NEW n \in Nat, NEW p, Sound(p, n), NEW going \in BOOLEAN
  PROVE  LET q == FlushAll(p, going) IN
         Sound(q, n) /\ Tells(p, q) /\ q.text = {} /\ q.thinking = {}
<1> DEFINE r == FlushThinking(p)
<1>1. Sound(r, n) /\ Tells(p, r) /\ r.thinking = {}
  BY FlushThinkingSound
<1> HIDE DEF r
<1>2. LET q == FlushText(r, going) IN Sound(q, n) /\ Tells(r, q) /\ q.text = {} /\ q.thinking = r.thinking
  BY <1>1, FlushTextSound
<1>3. FlushAll(p, going) = FlushText(r, going)
  BY DEF FlushAll, r
<1> QED BY <1>1, <1>2, <1>3 DEF Tells

\* An item of the next event that says nothing changes nothing of what is told.
LEMMA ShowNextSound ==
  ASSUME NEW n \in Nat, NEW p, Sound(p, n), NEW item \in OnScreen, item.said = {},
         item.id \in {<<"user", n + 1>>, <<"tool", {n + 1}>>}
  PROVE  LET q == [p EXCEPT !.items = Append(@, item)] IN
         Sound(q, n + 1) /\ Tells(p, q) /\ q.text = p.text /\ q.thinking = p.thinking
<1> DEFINE q == [p EXCEPT !.items = Append(@, item)]
<1>1. p \in Reading /\ Distinct(p, n) /\ q \in Reading
  BY ShowType DEF Sound
<1>2. /\ q.items = Append(p.items, item) /\ q.id = p.id /\ q.chunks = p.chunks /\ q.thoughts = p.thoughts
      /\ q.text = p.text /\ q.thinking = p.thinking /\ p.chunks \in Nat /\ p.thoughts \in Nat
  BY <1>1 DEF Reading
<1> HIDE DEF q
<1>3. \A i \in DOMAIN p.items : Old(p.items[i].id, n, p.chunks, p.thoughts) /\ p.items[i].id # p.id
  BY <1>1 DEF Distinct
<1>4. p.id # <<>> => Old(p.id, n, p.chunks, p.thoughts)
  BY <1>1 DEF Distinct
<1>5. n + 1 \in Nat /\ n <= n + 1 /\ p.chunks <= q.chunks /\ p.thoughts <= q.thoughts /\ n + 1 \in 1..n + 1
  BY <1>2
<1>6. Old(item.id, n + 1, q.chunks, q.thoughts)
  <2>1. Old(<<"user", n + 1>>, n + 1, q.chunks, q.thoughts) /\ Old(<<"tool", {n + 1}>>, n + 1, q.chunks, q.thoughts)
    BY <1>2, <1>5, GivenIsOld
  <2> QED BY <2>1
<1>7. \A i \in DOMAIN p.items : p.items[i].id # item.id /\ p.items[i].id # q.id
  BY <1>2, <1>3, NewIsNotOld
<1>8. item.id # q.id
  <2>1. CASE p.id = <<>>
    BY <1>2, <2>1, KeysAreSomething
  <2>2. CASE p.id # <<>>
    <3>1. p.id # <<"user", n + 1>> /\ p.id # <<"tool", {n + 1}>>
      BY <1>2, <1>4, <2>2, NewIsNotOld
    <3> QED BY <1>2, <3>1
  <2> QED BY <2>1, <2>2
<1>9. q.id # <<>> => Old(q.id, n + 1, q.chunks, q.thoughts)
  BY <1>2, <1>4, <1>5, OldStays
<1>10. Distinct(q, n + 1)
  BY <1>1, <1>2, <1>5, <1>6, <1>7, <1>8, <1>9, ShowDistinct
<1>11. ASSUME NEW S, Told(p, S) PROVE Told(q, S)
  <2>1. item.said \subseteq Pending(p) /\ q.text \subseteq p.text /\ q.thinking \subseteq p.thinking
        /\ Pending(q) = Pending(p) \ item.said
    BY <1>2 DEF Pending
  <2> QED BY <1>1, <1>2, <1>11, <2>1, ShowTold
<1> QED BY <1>1, <1>2, <1>10, <1>11 DEF Sound, Tells, q

\* What is told does not look at the keys.
LEMMA SameTold ==
  ASSUME NEW p, NEW q, q.items = p.items, q.text = p.text, q.thinking = p.thinking
  PROVE  Tells(p, q)
<1>1. Pending(q) = Pending(p)
  BY DEF Pending
<1> QED BY <1>1 DEF Tells, Told

\* A message that starts, or is first heard of, gives its key to the next text.
LEMMA RekeyedSound ==
  ASSUME NEW n \in Nat, NEW p, Sound(p, n)
  PROVE  LET q == [p EXCEPT !.id = <<"assistant", n + 1>>] IN
         Sound(q, n + 1) /\ Tells(p, q) /\ q.text = p.text /\ q.thinking = p.thinking /\ q.items = p.items
<1> DEFINE q == [p EXCEPT !.id = <<"assistant", n + 1>>]
<1>1. p \in Reading /\ Distinct(p, n) /\ n + 1 \in Nat /\ n <= n + 1 /\ n + 1 \in 1..n + 1
  BY DEF Sound
<1>2. <<"assistant", n + 1>> \in Keys
  BY <1>1, KeyType DEF Kinds
<1>3. /\ q \in Reading /\ q.id = <<"assistant", n + 1>> /\ q.items = p.items /\ q.chunks = p.chunks
      /\ q.thoughts = p.thoughts /\ q.text = p.text /\ q.thinking = p.thinking /\ p.chunks \in Nat /\ p.thoughts \in Nat
  BY <1>1, <1>2 DEF Reading
<1> HIDE DEF q
<1>4. Old(q.id, n + 1, q.chunks, q.thoughts)
  BY <1>1, <1>3, GivenIsOld
<1>5. \A i \in DOMAIN p.items : p.items[i].id # q.id
  <2>1. \A i \in DOMAIN p.items : Old(p.items[i].id, n, p.chunks, p.thoughts)
    BY <1>1 DEF Distinct
  <2> QED BY <1>3, <2>1, NewIsNotOld
<1>6. Distinct(q, n + 1)
  BY <1>1, <1>3, <1>4, <1>5, RekeyedDistinct
<1>7. Tells(p, q)
  BY <1>3, SameTold
<1> QED BY <1>3, <1>6, <1>7 DEF Sound, q

\* What waits may change without the items or their keys.
LEMMA WaitsSound ==
  ASSUME NEW n \in Nat, NEW p, Sound(p, n), NEW q \in Reading,
         q.items = p.items, q.id = p.id, q.chunks = p.chunks, q.thoughts = p.thoughts
  PROVE  Sound(q, n)
<1>1. p \in Reading /\ Distinct(p, n) /\ n <= n /\ p.chunks \in Nat /\ p.thoughts \in Nat
  BY DEF Sound, Reading
<1>2. q.id # <<>> => Old(q.id, n, q.chunks, q.thoughts)
  BY <1>1 DEF Distinct
<1>3. \A i \in DOMAIN p.items : p.items[i].id # q.id
  BY <1>1 DEF Distinct
<1>4. p.chunks <= q.chunks /\ p.thoughts <= q.thoughts
  BY <1>1
<1> QED BY <1>1, <1>2, <1>3, <1>4, RekeyedDistinct DEF Sound

\* A message that is first heard of has a key.
LEMMA NamedSound ==
  ASSUME NEW n \in Nat, NEW p, Sound(p, n)
  PROVE  LET q == Named(p, n + 1) IN
         Sound(q, n + 1) /\ Tells(p, q) /\ q.text = p.text /\ q.thinking = p.thinking
<1>1. CASE p.id = <<>>
  BY <1>1, RekeyedSound DEF Named
<1>2. CASE p.id # <<>>
  <2>1. Sound(p, n + 1)
    BY SoundStays
  <2> QED BY <1>2, <2>1, SameTold DEF Named
<1> QED BY <1>1, <1>2

(* what is read of the next event, which is of one of the kinds *)
Next1(events, n, kinds) == n + 1 \in Nat /\ events[n + 1] \in Entry /\ events[n + 1].type \in kinds

\* What ends something, or comes between, leaves nothing waiting.
LEMMA ParseBetween ==
  ASSUME NEW n \in Nat, NEW p, Sound(p, n), NEW events,
         Next1(events, n, {"prompt", "message_start", "message_end", "agent_end", "tool_start"}),
         events[n + 1].type = "tool_start" => events[n + 1].payload = {n + 1}
  PROVE  LET q == Parse(events, p, n + 1) IN
         Sound(q, n + 1) /\ Tells(p, q) /\ q.text = {} /\ q.thinking = {}
<1> DEFINE seq == n + 1
           q == Parse(events, p, seq)
           type == events[seq].type
           payload == events[seq].payload
           r(going) == FlushAll(p, going)
<1>1. /\ seq \in Nat /\ type \in {"prompt", "message_start", "message_end", "agent_end", "tool_start"}
      /\ payload \in SUBSET Words /\ (type = "tool_start" => payload = {n + 1})
  BY DEF Next1, Entry, Words
<1>2. \A going \in BOOLEAN : Sound(r(going), n) /\ Tells(p, r(going)) /\ r(going).text = {} /\ r(going).thinking = {}
  BY FlushAllSound
<1>3. \A going \in BOOLEAN : Sound(r(going), seq)
  BY <1>1, <1>2, SoundStays
<1>4. CASE type \in {"message_end", "agent_end"}
  <2>1. q = r(FALSE)
    BY <1>4 DEF Parse
  <2> QED BY <1>2, <1>3, <2>1
<1>5. CASE type = "message_start"
  <2> DEFINE p1 == r(FALSE)
  <2>1. q = [p1 EXCEPT !.id = <<"assistant", n + 1>>]
    BY <1>5 DEF Parse
  <2>2. Sound(p1, n) /\ Tells(p, p1) /\ p1.text = {} /\ p1.thinking = {}
    BY <1>2
  <2> HIDE DEF p1, q
  <2>3. Sound(q, n + 1) /\ Tells(p1, q) /\ q.text = p1.text /\ q.thinking = p1.thinking
    BY <2>1, <2>2, RekeyedSound
  <2> QED BY <2>2, <2>3 DEF Tells, q
<1>6. CASE type = "prompt"
  <2> DEFINE p1 == r(FALSE)
             item == Item("user", <<"user", seq>>, {}, FALSE)
  <2>1. q = [p1 EXCEPT !.items = Append(@, item)]
    BY <1>6 DEF Parse
  <2>2. Sound(p1, n) /\ Tells(p, p1) /\ p1.text = {} /\ p1.thinking = {}
    BY <1>2
  <2>3. item \in OnScreen /\ item.said = {} /\ item.id = <<"user", n + 1>>
    <3>1. <<"user", seq>> \in Keys
      BY <1>1, KeyType DEF Kinds
    <3>2. item \in OnScreen
      BY <3>1, ItemType DEF Kinds
    <3> QED BY <3>2 DEF Item
  <2> HIDE DEF p1, q, item
  <2>4. Sound(q, n + 1) /\ Tells(p1, q) /\ q.text = p1.text /\ q.thinking = p1.thinking
    BY <2>1, <2>2, <2>3, ShowNextSound
  <2> QED BY <2>2, <2>4 DEF Tells, q
<1>7. CASE type = "tool_start"
  <2> DEFINE p1 == r(TRUE)
             item == Item("tool", <<"tool", payload>>, {}, TRUE)
  <2>1. q = [p1 EXCEPT !.items = Append(@, item)]
    BY <1>7 DEF Parse
  <2>2. Sound(p1, n) /\ Tells(p, p1) /\ p1.text = {} /\ p1.thinking = {}
    BY <1>2
  <2>3. item \in OnScreen /\ item.said = {} /\ item.id = <<"tool", {n + 1}>>
    <3>1. <<"tool", payload>> \in Keys
      BY <1>1, KeyType DEF Kinds
    <3> HIDE DEF payload
    <3>2. item \in OnScreen
      BY <3>1, ItemType DEF Kinds
    <3> QED BY <1>1, <1>7, <3>2 DEF Item
  <2> HIDE DEF p1, q, item
  <2>4. Sound(q, n + 1) /\ Tells(p1, q) /\ q.text = p1.text /\ q.thinking = p1.thinking
    BY <2>1, <2>2, <2>3, ShowNextSound
  <2> QED BY <2>2, <2>4 DEF Tells, q
<1> QED BY <1>1, <1>4, <1>5, <1>6, <1>7

(* a walk that only adds to what waits of a kind, or takes it all *)
Adds(p, q, kind, seq) ==
  /\ \A S : seq \notin S /\ Told(p, S) => Told(q, S \union {seq})
  /\ q[kind] = p[kind] \union {seq} /\ \A other \in {"text", "thinking"} \ {kind} : q[other] = p[other]
Takes(p, q, kind) ==
  Tells(p, q) /\ q[kind] = {} /\ \A other \in {"text", "thinking"} \ {kind} : q[other] = p[other]

\* A delta waits with what waits of its kind.
LEMMA ParseDelta ==
  ASSUME NEW n \in Nat, NEW p, Sound(p, n), NEW events, NEW kind \in {"text", "thinking"},
         Next1(events, n, {kind}), events[n + 1].payload = {n + 1}
  PROVE  Sound(Parse(events, p, n + 1), n + 1) /\ Adds(p, Parse(events, p, n + 1), kind, n + 1)
<1> DEFINE r == Named(p, n + 1)
           q == Parse(events, p, n + 1)
<1>1. Sound(r, n + 1) /\ Tells(p, r) /\ r.text = p.text /\ r.thinking = p.thinking
  BY NamedSound
<1>2. q = [r EXCEPT ![kind] = @ \union {n + 1}]
  BY DEF Parse, Next1
<1>3. q \in Reading
  <2>1. n + 1 \in Nat /\ events[n + 1] \in Entry /\ p \in Reading
    BY DEF Next1, Sound
  <2> QED BY <2>1, ParseType
<1> HIDE DEF r, q
<1>4. r \in Reading
  BY <1>1 DEF Sound
<1>5. /\ q.items = r.items /\ q.id = r.id /\ q.chunks = r.chunks /\ q.thoughts = r.thoughts
      /\ q[kind] = p[kind] \union {n + 1}
      /\ \A other \in {"text", "thinking"} \ {kind} : q[other] = p[other]
  BY <1>1, <1>2, <1>4 DEF Reading
<1>6. Sound(q, n + 1)
  BY <1>1, <1>3, <1>5, WaitsSound
<1>7. ASSUME NEW S, n + 1 \notin S, Told(p, S) PROVE Told(q, S \union {n + 1})
  <2>1. Told(r, S)
    BY <1>1, <1>7 DEF Tells
  <2>2. (q.text = r.text \union {n + 1} /\ q.thinking = r.thinking) \/ (q.text = r.text /\ q.thinking = r.thinking \union {n + 1})
    BY <1>1, <1>5
  <2>3. Pending(q) = Pending(r) \union {n + 1}
    BY <2>2 DEF Pending
  <2>4. /\ r.text \intersect r.thinking = {} /\ Pending(r) \subseteq S
        /\ \A i \in DOMAIN r.items : r.items[i].said \subseteq S \ Pending(r)
        /\ \A i, j \in DOMAIN r.items : i # j => r.items[i].said \intersect r.items[j].said = {}
        /\ \A s \in S \ Pending(r) : \E i \in DOMAIN r.items : s \in r.items[i].said
    BY <2>1 DEF Told
  <2>5. n + 1 \notin r.text /\ n + 1 \notin r.thinking
    BY <1>7, <2>4 DEF Pending
  <2>6. q.text \intersect q.thinking = {} /\ Pending(q) \subseteq S \union {n + 1}
    BY <2>2, <2>3, <2>4, <2>5
  <2>7. (S \union {n + 1}) \ Pending(q) = S \ Pending(r)
    BY <1>7, <2>3
  <2> QED BY <1>5, <2>4, <2>6, <2>7 DEF Told
<1> QED BY <1>5, <1>6, <1>7 DEF q, Adds

\* The end of a block shows it, and what waited of it was it.
LEMMA ParseEnd ==
  ASSUME NEW n \in Nat, NEW p, Sound(p, n), NEW events, NEW kind \in {"text", "thinking"},
         Next1(events, n, {IF kind = "text" THEN "text_end" ELSE "thinking_end"})
  PROVE  /\ Sound(Parse(events, p, n + 1), n + 1)
         /\ events[n + 1].payload = p[kind] => Takes(p, Parse(events, p, n + 1), kind)
<1> DEFINE r == Named(p, n + 1)
           payload == events[n + 1].payload
           w == EndReplaces(r, kind, payload)
           q == Parse(events, p, n + 1)
<1>1. Sound(r, n + 1) /\ Tells(p, r) /\ r.text = p.text /\ r.thinking = p.thinking
  BY NamedSound
<1>2. q = IF kind = "text" THEN FlushText(w, FALSE) ELSE FlushThinking(w)
  BY DEF Parse, Next1
<1>3. payload \in SUBSET Words /\ n + 1 \in Nat
  BY DEF Next1, Entry, Words
<1> HIDE DEF r, q, payload
<1>4. r \in Reading
  BY <1>1 DEF Sound
<1>5. /\ w \in Reading /\ w.items = r.items /\ w.id = r.id /\ w.chunks = r.chunks /\ w.thoughts = r.thoughts
      /\ w[kind] = payload /\ \A other \in {"text", "thinking"} \ {kind} : w[other] = r[other]
  BY <1>3, <1>4 DEF EndReplaces, Reading
<1> HIDE DEF w
<1>6. Sound(w, n + 1)
  BY <1>1, <1>5, WaitsSound
<1>7. Sound(q, n + 1) /\ Tells(w, q) /\ q[kind] = {} /\ \A other \in {"text", "thinking"} \ {kind} : q[other] = w[other]
  <2>1. CASE kind = "text"
    <3>1. q = FlushText(w, FALSE)
      BY <1>2, <2>1
    <3>2. Sound(q, n + 1) /\ Tells(w, q) /\ q.text = {} /\ q.thinking = w.thinking
      BY <1>3, <1>6, <3>1, FlushTextSound
    <3> QED BY <2>1, <3>2
  <2>2. CASE kind = "thinking"
    <3>1. q = FlushThinking(w)
      BY <1>2, <2>2
    <3>2. Sound(q, n + 1) /\ Tells(w, q) /\ q.thinking = {} /\ q.text = w.text
      BY <1>3, <1>6, <3>1, FlushThinkingSound
    <3> QED BY <2>2, <3>2
  <2> QED BY <2>1, <2>2
<1>8. ASSUME payload = p[kind]
      PROVE  Tells(p, q) /\ \A other \in {"text", "thinking"} \ {kind} : q[other] = p[other]
  <2>1. w.text = r.text /\ w.thinking = r.thinking
    BY <1>1, <1>5, <1>8
  <2>2. Tells(r, w)
    BY <1>5, <2>1, SameTold
  <2> QED BY <1>1, <1>5, <1>7, <2>2 DEF Tells
<1> QED BY <1>7, <1>8 DEF q, payload, Takes

\* The end of a tool, and the start of the agent, change nothing of what is told.
LEMMA ParseQuiet ==
  ASSUME NEW n \in Nat, NEW p, Sound(p, n), NEW events, Next1(events, n, {"tool_end", "agent_start"})
  PROVE  LET q == Parse(events, p, n + 1) IN
         Sound(q, n + 1) /\ Tells(p, q) /\ q.text = p.text /\ q.thinking = p.thinking
<1> DEFINE q == Parse(events, p, n + 1)
           payload == events[n + 1].payload
           items == [i \in DOMAIN p.items |->
                       IF p.items[i].id = <<"tool", payload>> THEN [p.items[i] EXCEPT !.going = FALSE] ELSE p.items[i]]
<1>1. Sound(p, n + 1) /\ p \in Reading /\ Distinct(p, n + 1)
  <2>1. Sound(p, n + 1)
    BY SoundStays
  <2> QED BY <2>1 DEF Sound
<1>2. CASE events[n + 1].type = "agent_start"
  <2>1. q = p
    BY <1>2 DEF Parse
  <2> QED BY <1>1, <2>1 DEF Tells
<1>3. CASE events[n + 1].type = "tool_end"
  <2>1. q = [p EXCEPT !.items = items]
    BY <1>3 DEF Parse
  <2>2. q \in Reading
    <3>1. n + 1 \in Nat /\ events[n + 1] \in Entry
      BY DEF Next1
    <3> QED BY <1>1, <3>1, ParseType
  <2>3. DOMAIN items = DOMAIN p.items /\ \A i \in DOMAIN p.items : items[i].id = p.items[i].id /\ items[i].said = p.items[i].said
    <3> SUFFICES ASSUME NEW i \in DOMAIN p.items PROVE items[i].id = p.items[i].id /\ items[i].said = p.items[i].said
      OBVIOUS
    <3>1. p.items[i] \in OnScreen
      BY <1>1 DEF Reading
    <3> QED BY <3>1 DEF OnScreen
  <2> HIDE DEF items, q
  <2>4. /\ q.items = items /\ q.id = p.id /\ q.chunks = p.chunks /\ q.thoughts = p.thoughts /\ q.text = p.text
        /\ q.thinking = p.thinking
    BY <1>1, <2>1 DEF Reading
  <2>5. Distinct(q, n + 1)
    BY <1>1, <2>3, <2>4 DEF Distinct
  <2>6. Pending(q) = Pending(p)
    BY <2>4 DEF Pending
  <2>7. Tells(p, q)
    BY <2>3, <2>4, <2>6 DEF Tells, Told
  <2> QED BY <2>2, <2>4, <2>5, <2>7 DEF Sound, q
<1> QED BY <1>2, <1>3 DEF Next1

-----------------------------------------------------------------------------
(***************************************************************************)
(* The journal and what is read of it, event by event.                     *)
(***************************************************************************)
(* an event that a block or a tool begins with, or goes on with, carries its own number *)
Numbered(events) ==
  \A s \in 1..Len(events) : events[s].type \in {"text", "thinking", "tool_start"} => events[s].payload = {s}

Deltas(events) == {s \in 1..Len(events) : events[s].type \in {"text", "thinking"}}

BlockIn(events, kind) ==
  LET begun == {i \in 1..Len(events) : events[i].type \notin {kind, "prompt"}} IN
  {i \in 1..Len(events) : events[i].type = kind /\ \A j \in begun : j < i}

(* what waits is the block pi is amid, and there is none between blocks *)
Unbroken(events, m) ==
  /\ Now(events).message <=> m.message
  /\ Told(Read(events), Deltas(events))
  /\ m.message => m.agent /\ m.tool = 0
  /\ m.block \in {"none", "text", "thinking"} /\ (m.block # "none" => m.message)
  /\ m.block = "none" => Read(events).text = {} /\ Read(events).thinking = {}
  /\ m.message /\ m.block = "none" =>
       Len(events) > 0 /\ events[Len(events)].type \in {"message_start", "text_end", "thinking_end"}
  /\ \A kind \in {"text", "thinking"} : m.block = kind =>
       /\ Read(events)[kind] = BlockIn(events, kind)
       /\ \A other \in {"text", "thinking"} \ {kind} : Read(events)[other] = {}
       /\ Len(events) > 0 /\ events[Len(events)].type = kind
       /\ Now(events).kept # <<>> /\ Last(Now(events).kept) = Len(events)

\* Numbers stay right as the journal grows.
LEMMA NumberedGrows ==
  ASSUME NEW events \in Seq(Entry), NEW e \in Entry, Numbered(events),
         e.type \in {"text", "thinking", "tool_start"} => e.payload = {Len(events) + 1}
  PROVE  Numbered(Append(events, e))
<1>1. /\ Len(events) \in Nat /\ Len(Append(events, e)) = Len(events) + 1 /\ Append(events, e)[Len(events) + 1] = e
      /\ \A n \in 1..Len(events) : Append(events, e)[n] = events[n]
  OBVIOUS
<1>2. \A s \in 1..Len(events) + 1 : s \in 1..Len(events) \/ s = Len(events) + 1
  BY <1>1
<1> QED BY <1>1, <1>2 DEF Numbered

\* Whatever is journaled, what is read of the journal is sound.
LEMMA ReadSound ==
  ASSUME NEW events \in Seq(Entry), NEW e \in Entry,
         e.type \in {"text", "thinking", "tool_start"} => e.payload = {Len(events) + 1},
         Sound(Read(events), Len(events))
  PROVE  Sound(Read(Append(events, e)), Len(events) + 1)
<1> DEFINE n == Len(events)
           other == Append(events, e)
           p == Read(events)
<1>1. n \in Nat /\ n + 1 \in Nat /\ n <= n + 1 /\ other[n + 1] = e
  OBVIOUS
<1>2. Read(other) = p \/ Read(other) = Parse(other, p, n + 1)
  BY ReadGrows
<1> HIDE DEF other, p, n
<1>s. Sound(p, n)
  BY DEF p, n
<1>3. Sound(p, n + 1)
  BY <1>1, <1>s, SoundStays
<1>4. Sound(Parse(other, p, n + 1), n + 1)
  <2>1. CASE e.type \in {"prompt", "message_start", "message_end", "agent_end", "tool_start"}
    <3>1. Next1(other, n, {"prompt", "message_start", "message_end", "agent_end", "tool_start"})
      BY <1>1, <2>1 DEF Next1
    <3>2. other[n + 1].type = "tool_start" => other[n + 1].payload = {n + 1}
      BY <1>1 DEF n
    <3> QED BY <1>1, <1>s, <3>1, <3>2, ParseBetween
  <2>2. ASSUME NEW kind \in {"text", "thinking"}, e.type = kind PROVE Sound(Parse(other, p, n + 1), n + 1)
    <3>1. Next1(other, n, {kind}) /\ other[n + 1].payload = {n + 1}
      BY <1>1, <2>2 DEF Next1, n
    <3> QED BY <1>1, <1>s, <3>1, ParseDelta
  <2>3. ASSUME NEW kind \in {"text", "thinking"}, e.type = IF kind = "text" THEN "text_end" ELSE "thinking_end"
        PROVE  Sound(Parse(other, p, n + 1), n + 1)
    <3>1. Next1(other, n, {IF kind = "text" THEN "text_end" ELSE "thinking_end"})
      BY <1>1, <2>3 DEF Next1
    <3> QED BY <1>1, <1>s, <3>1, ParseEnd
  <2>4. CASE e.type \in {"tool_end", "agent_start"}
    <3>1. Next1(other, n, {"tool_end", "agent_start"})
      BY <1>1, <2>4 DEF Next1
    <3> QED BY <1>1, <1>s, <3>1, ParseQuiet
  <2>5. e.type \in EventTypes
    BY DEF Entry
  <2>6. CASE e.type = "text"
    BY <2>2, <2>6
  <2>7. CASE e.type = "thinking"
    BY <2>2, <2>7
  <2>8. CASE e.type = "text_end"
    BY <2>3, <2>8
  <2>9. CASE e.type = "thinking_end"
    BY <2>3, <2>9
  <2> QED BY <2>1, <2>4, <2>5, <2>6, <2>7, <2>8, <2>9 DEF EventTypes
<1>5. Sound(Read(other), n + 1)
  BY <1>2, <1>3, <1>4
<1> QED BY <1>5 DEF other, n

\* Cleaning knows whether a message is under way: its events say so, the others do not matter.
LEMMA KeepMessage ==
  ASSUME NEW events, NEW other, NEW seen \in Seen(events), NEW seq
  PROVE  LET type == other[seq].type IN
         /\ type \in {"message_start", "text", "thinking"} => Keep(other, seen, seq).message
         /\ type = "message_end" => ~Keep(other, seen, seq).message
         /\ type \notin {"message_start", "text", "thinking", "message_end"} => Keep(other, seen, seq).message = seen.message
<1> DEFINE type == other[seq].type
           next == Follow(type, seen)
<1>1. next.message = ((seen.message \/ type \in {"message_start", "text", "thinking"}) /\ type # "message_end")
      /\ seen.message \in BOOLEAN /\ next \in Seen(events)
  BY FollowTwice DEF Follow, Seen
<1>2. [next EXCEPT !.kept = Append(@, seq)].message = next.message
  BY <1>1 DEF Seen
<1>3. Keep(other, seen, seq).message = IF Fits(type, seen) THEN next.message ELSE seen.message
  <2> HIDE DEF next
  <2> QED BY <1>2 DEF Keep, next
<1>4. /\ type = "message_start" => (Fits(type, seen) <=> ~seen.message)
      /\ type = "message_end" => (Fits(type, seen) <=> seen.message)
      /\ type \in {"text", "thinking"} => Fits(type, seen)
  BY DEF Fits
<1> HIDE DEF next
<1> QED BY <1>1, <1>3, <1>4

\* A block grows by its delta, and begins where something else ended.
LEMMA BlockGrows ==
  ASSUME NEW events \in Seq(Entry), NEW e \in Entry, NEW kind, e.type = kind
  PROVE  /\ BlockIn(Append(events, e), kind) = BlockIn(events, kind) \union {Len(events) + 1}
         /\ Len(events) > 0 /\ events[Len(events)].type \notin {kind, "prompt"} => BlockIn(events, kind) = {}
<1> DEFINE N == Len(events)
           other == Append(events, e)
           begun(es) == {i \in 1..Len(es) : es[i].type \notin {kind, "prompt"}}
<1>1. N \in Nat /\ Len(other) = N + 1 /\ other[N + 1] = e /\ \A n \in 1..N : other[n] = events[n]
  OBVIOUS
<1>2. \A i \in 1..N + 1 : i \in 1..N \/ i = N + 1
  BY <1>1
<1>3. \A i \in 1..N : i \in 1..N + 1 /\ i < N + 1
  BY <1>1
<1>n. N + 1 \in 1..N + 1
  BY <1>1
<1> HIDE DEF other
<1>4. begun(other) = begun(events)
  BY <1>1, <1>2, <1>3
<1>5. BlockIn(other, kind) = {i \in 1..N + 1 : other[i].type = kind /\ \A j \in begun(events) : j < i}
  BY <1>1, <1>4 DEF BlockIn
<1>6. BlockIn(events, kind) = {i \in 1..N : events[i].type = kind /\ \A j \in begun(events) : j < i}
  BY DEF BlockIn
<1>7. \A j \in begun(events) : j < N + 1
  BY <1>3
<1>8. N > 0 /\ events[N].type \notin {kind, "prompt"} => N \in begun(events)
  BY <1>1
<1> HIDE DEF begun
<1>9. BlockIn(other, kind) = BlockIn(events, kind) \union {N + 1}
  BY <1>1, <1>2, <1>3, <1>n, <1>5, <1>6, <1>7
<1>10. N > 0 /\ events[N].type \notin {kind, "prompt"} => BlockIn(events, kind) = {}
  <2> SUFFICES ASSUME N \in begun(events), NEW i \in BlockIn(events, kind) PROVE FALSE
    BY <1>8
  <2>1. i \in 1..N /\ N < i
    BY <1>6
  <2> QED BY <1>1, <2>1
<1> QED BY <1>9, <1>10 DEF other

\* What the new event is, and what was before it.
LEMMA Journal ==
  ASSUME NEW events \in Seq(Entry), NEW e \in Entry
  PROVE  LET other == Append(events, e) IN
         /\ Len(events) \in Nat /\ other \in Seq(Entry) /\ Len(other) = Len(events) + 1 /\ other[Len(events) + 1] = e
         /\ Len(events) + 1 \in 1..Len(events) + 1 /\ Len(events) + 1 \notin 1..Len(events)
         /\ \A n \in 1..Len(events) : other[n] = events[n]
         /\ Deltas(other) = Deltas(events) \union (IF e.type \in {"text", "thinking"} THEN {Len(events) + 1} ELSE {})
<1>1. /\ Len(events) \in Nat /\ Append(events, e) \in Seq(Entry) /\ Len(Append(events, e)) = Len(events) + 1
      /\ Append(events, e)[Len(events) + 1] = e /\ \A n \in 1..Len(events) : Append(events, e)[n] = events[n]
  OBVIOUS
<1>2. \A i \in 1..Len(events) + 1 : i \in 1..Len(events) \/ i = Len(events) + 1
  BY <1>1
<1>3. \A i \in 1..Len(events) : i \in 1..Len(events) + 1
  BY <1>1
<1>4. Len(events) + 1 \in 1..Len(events) + 1 /\ Len(events) + 1 \notin 1..Len(events)
  BY <1>1
<1> QED BY <1>1, <1>2, <1>3, <1>4 DEF Deltas

\* Between blocks nothing waits, whatever is journaled and whether it is kept.
LEMMA UnbrokenBetween ==
  ASSUME NEW events \in Seq(Entry), NEW e \in Entry, Sound(Read(events), Len(events)),
         e.type \in {"prompt", "agent_start", "agent_end", "message_start", "message_end", "tool_start", "tool_end"},
         e.type = "tool_start" => e.payload = {Len(events) + 1},
         NEW m, NEW m2, m.message \in BOOLEAN, m2.message \in BOOLEAN, Unbroken(events, m), m.block = "none", m2.block = "none",
         e.type = "message_start" => m2.message /\ m2.agent /\ m2.tool = 0, e.type # "message_start" => ~m2.message,
         e.type \notin {"message_start", "message_end"} => ~m.message
  PROVE  Unbroken(Append(events, e), m2)
<1> DEFINE n == Len(events)
           other == Append(events, e)
           p == Read(events)
           seen == Now(events)
<1>1. /\ n \in Nat /\ Len(other) = n + 1 /\ other[n + 1] = e /\ n + 1 \in Nat
  BY Journal
<1>d. Deltas(other) = Deltas(events)
  <2>1. Deltas(other) = Deltas(events) \union (IF e.type \in {"text", "thinking"} THEN {n + 1} ELSE {})
    BY Journal
  <2>2. e.type \notin {"text", "thinking"}
    OBVIOUS
  <2> QED BY <2>1, <2>2
<1>2. Read(other) = p \/ Read(other) = Parse(other, p, n + 1)
  BY ReadGrows
<1>3. seen \in Seen(events) /\ Now(other) = Keep(other, seen, n + 1)
  BY NowGrows
<1>s. Sound(p, n)
  OBVIOUS
<1>4. Told(p, Deltas(events)) /\ p.text = {} /\ p.thinking = {} /\ (seen.message <=> m.message)
  BY DEF Unbroken
<1> HIDE DEF other, p, n, seen
<1>5. LET q == Parse(other, p, n + 1) IN Told(q, Deltas(events)) /\ q.text = {} /\ q.thinking = {}
  <2>1. CASE e.type \in {"prompt", "message_start", "message_end", "agent_end", "tool_start"}
    <3>1. Next1(other, n, {"prompt", "message_start", "message_end", "agent_end", "tool_start"})
      BY <1>1, <2>1 DEF Next1
    <3>2. other[n + 1].type = "tool_start" => other[n + 1].payload = {n + 1}
      BY <1>1 DEF n
    <3> QED BY <1>1, <1>4, <1>s, <3>1, <3>2, ParseBetween DEF Tells
  <2>2. CASE e.type \in {"tool_end", "agent_start"}
    <3>1. Next1(other, n, {"tool_end", "agent_start"})
      BY <1>1, <2>2 DEF Next1
    <3> QED BY <1>1, <1>4, <1>s, <3>1, ParseQuiet DEF Tells
  <2> QED BY <2>1, <2>2
<1>6. Told(Read(other), Deltas(other)) /\ Read(other).text = {} /\ Read(other).thinking = {}
  BY <1>d, <1>2, <1>4, <1>5
<1>7. Now(other).message <=> m2.message
  <2>1. /\ e.type = "message_start" => Keep(other, seen, n + 1).message
        /\ e.type = "message_end" => ~Keep(other, seen, n + 1).message
        /\ e.type \notin {"message_start", "text", "thinking", "message_end"} =>
             Keep(other, seen, n + 1).message = seen.message
    BY <1>1, <1>3, KeepMessage
  <2> QED BY <1>3, <1>4, <2>1
<1>8. m2.message => Len(other) > 0 /\ other[Len(other)].type \in {"message_start", "text_end", "thinking_end"}
  BY <1>1
<1> QED BY <1>6, <1>7, <1>8 DEF Unbroken, other

\* A delta is kept, and waits with its block.
LEMMA UnbrokenDelta ==
  ASSUME NEW events \in Seq(Entry), NEW e \in Entry, Sound(Read(events), Len(events)), Numbered(events),
         NEW kind \in {"text", "thinking"}, e.type = kind, e.payload = {Len(events) + 1},
         NEW m, NEW m2, m.message = TRUE, Unbroken(events, m), m.block \in {"none", kind},
         m2.message = TRUE, m2.agent = m.agent, m2.tool = m.tool, m2.block = kind
  PROVE  Unbroken(Append(events, e), m2)
<1> DEFINE n == Len(events)
           other == Append(events, e)
           p == Read(events)
           seen == Now(events)
           q == Parse(other, p, n + 1)
<1>1. /\ n \in Nat /\ Len(other) = n + 1 /\ other[n + 1] = e /\ n + 1 \in Nat
      /\ \A i \in 1..n : other[i] = events[i]
  BY Journal
<1>d. Deltas(other) = Deltas(events) \union {n + 1}
  <2>1. Deltas(other) = Deltas(events) \union (IF e.type \in {"text", "thinking"} THEN {n + 1} ELSE {})
    BY Journal
  <2> QED BY <2>1
<1>2. \/ Now(other) = seen
      \/ Now(other).kept = Append(seen.kept, n + 1) /\ Read(other) = q
  BY ReadGrows
<1>3. /\ seen \in Seen(events) /\ Now(other) = Keep(other, seen, n + 1) /\ Range(seen.kept) \subseteq 1..n
  BY NowGrows
<1>s. Sound(p, n)
  OBVIOUS
<1>4. Told(p, Deltas(events)) /\ m.agent /\ m.tool = 0
  BY DEF Unbroken
<1>5. p[kind] = BlockIn(events, kind) /\ \A o \in {"text", "thinking"} \ {kind} : p[o] = {}
  <2>1. CASE m.block = kind
    BY <2>1 DEF Unbroken
  <2>2. CASE m.block = "none"
    <3>1. p.text = {} /\ p.thinking = {} /\ n > 0 /\ events[n].type \in {"message_start", "text_end", "thinking_end"}
      BY <2>2 DEF Unbroken
    <3>2. BlockIn(events, kind) = {}
      BY <3>1, BlockGrows
    <3> QED BY <3>1, <3>2
  <2> QED BY <2>1, <2>2
<1>10. BlockIn(other, kind) = BlockIn(events, kind) \union {n + 1}
  BY BlockGrows
<1> HIDE DEF q, p, seen, n
<1>6. seen.kept \in Seq(1..n)
  BY <1>3 DEF Seen, n
<1>7. Now(other).kept = Append(seen.kept, n + 1) /\ Now(other).message
  <2> DEFINE next == Follow(kind, seen)
  <2>1. Fits(kind, seen)
    BY DEF Fits
  <2>2. next \in Seen(events) /\ next.kept = seen.kept
    BY <1>3, FollowTwice
  <2>3. ASSUME seen.kept # <<>> PROVE other[Last(seen.kept)] # e
    <3> DEFINE k == seen.kept
    <3>1. k \in Seq(1..n) /\ k # <<>>
      BY <1>6, <2>3
    <3> HIDE DEF k
    <3>2. Last(k) \in 1..n
      BY <1>1, <3>1 DEF Last
    <3>3. other[Last(k)] = events[Last(k)] /\ Last(k) # n + 1
      BY <1>1, <3>2
    <3>4. events[Last(k)].type = kind => events[Last(k)].payload = {Last(k)}
      BY <3>2 DEF Numbered, n
    <3>5. {Last(k)} # {n + 1}
      BY <3>3
    <3> QED BY <3>3, <3>4, <3>5 DEF k, n
  <2> HIDE DEF next
  <2>4. Keep(other, seen, n + 1) = [next EXCEPT !.kept = Append(@, n + 1)]
    BY <1>1, <2>1, <2>3 DEF Keep, next
  <2>5. [next EXCEPT !.kept = Append(@, n + 1)].kept = Append(seen.kept, n + 1)
    BY <2>2 DEF Seen
  <2>6. Keep(other, seen, n + 1).message
    BY <1>1, <1>3, KeepMessage
  <2> QED BY <1>3, <2>4, <2>5, <2>6
<1>8. Read(other) = q
  <2>1. Append(seen.kept, n + 1) # seen.kept
    <3> DEFINE k == seen.kept
    <3>1. k \in Seq(1..n)
      BY <1>6
    <3> HIDE DEF k
    <3>2. Len(Append(k, n + 1)) = Len(k) + 1 /\ Len(k) \in Nat
      BY <3>1
    <3>3. Append(k, n + 1) # k
      BY <3>2
    <3> QED BY <3>3 DEF k
  <2> QED BY <1>2, <1>7, <2>1
<1>9. /\ Told(q, Deltas(other)) /\ q[kind] = p[kind] \union {n + 1}
      /\ \A o \in {"text", "thinking"} \ {kind} : q[o] = p[o]
  <2>1. Next1(other, n, {kind}) /\ other[n + 1].payload = {n + 1}
    BY <1>1 DEF Next1, n
  <2> HIDE DEF other
  <2>2. Adds(p, q, kind, n + 1)
    BY <1>1, <1>s, <2>1, ParseDelta DEF q
  <2>3. n + 1 \notin Deltas(events)
    BY <1>1 DEF Deltas, n
  <2> QED BY <1>d, <1>4, <2>2, <2>3 DEF Adds
<1>11. Now(other).kept # <<>> /\ Last(Now(other).kept) = n + 1
  <2> DEFINE k == seen.kept
  <2>1. k \in Seq(1..n)
    BY <1>6
  <2> HIDE DEF k
  <2>2. Len(Append(k, n + 1)) = Len(k) + 1 /\ Len(k) \in Nat /\ Append(k, n + 1)[Len(k) + 1] = n + 1
    BY <2>1, <1>1
  <2>3. Append(k, n + 1) # <<>> /\ Last(Append(k, n + 1)) = n + 1
    BY <2>2 DEF Last
  <2> QED BY <1>7, <2>3 DEF k
<1> HIDE DEF other
<1>12. /\ Read(other)[kind] = BlockIn(other, kind) /\ \A o \in {"text", "thinking"} \ {kind} : Read(other)[o] = {}
  BY <1>5, <1>8, <1>9, <1>10
<1>13. Len(other) > 0 /\ other[Len(other)].type = kind /\ Last(Now(other).kept) = Len(other)
  BY <1>1, <1>11
<1>14. Told(Read(other), Deltas(other))
  BY <1>8, <1>9
<1> QED BY <1>4, <1>7, <1>11, <1>12, <1>13, <1>14 DEF Unbroken, other

\* The end of a block is kept, and shows what waited.
LEMMA UnbrokenEnd ==
  ASSUME NEW events \in Seq(Entry), NEW e \in Entry, Sound(Read(events), Len(events)),
         NEW kind \in {"text", "thinking"}, e.type = IF kind = "text" THEN "text_end" ELSE "thinking_end",
         e.payload = BlockIn(events, kind), NEW m, NEW m2, Unbroken(events, m), m.block = kind,
         m2.message = m.message, m2.agent = m.agent, m2.tool = m.tool, m2.block = "none"
  PROVE  Unbroken(Append(events, e), m2)
<1> DEFINE n == Len(events)
           other == Append(events, e)
           p == Read(events)
           seen == Now(events)
           q == Parse(other, p, n + 1)
<1>1. /\ n \in Nat /\ Len(other) = n + 1 /\ other[n + 1] = e /\ n + 1 \in Nat
      /\ \A i \in 1..n : other[i] = events[i]
  BY Journal
<1>t. e.type \in {"text_end", "thinking_end"} /\ e.type # kind
  OBVIOUS
<1>d. Deltas(other) = Deltas(events)
  <2>1. Deltas(other) = Deltas(events) \union (IF e.type \in {"text", "thinking"} THEN {n + 1} ELSE {})
    BY Journal
  <2>2. e.type \notin {"text", "thinking"}
    BY <1>t
  <2> QED BY <2>1, <2>2
<1>2. \/ Now(other) = seen
      \/ Now(other).kept = Append(seen.kept, n + 1) /\ Read(other) = q
  BY ReadGrows
<1>3. /\ seen \in Seen(events) /\ Now(other) = Keep(other, seen, n + 1)
  BY NowGrows
<1>s. Sound(p, n)
  OBVIOUS
<1>4. /\ Told(p, Deltas(events)) /\ m.message /\ m.agent /\ m.tool = 0 /\ seen.message
      /\ p[kind] = BlockIn(events, kind) /\ \A o \in {"text", "thinking"} \ {kind} : p[o] = {}
      /\ n > 0 /\ events[n].type = kind /\ seen.kept # <<>> /\ Last(seen.kept) = n
  BY DEF Unbroken
<1> HIDE DEF q, p, seen, n
<1>6. seen.kept \in Seq(1..n)
  BY <1>3 DEF Seen, n
<1>7. Now(other).kept = Append(seen.kept, n + 1) /\ Now(other).message
  <2> DEFINE next == Follow(e.type, seen)
  <2>1. Fits(e.type, seen)
    BY <1>4, <1>t DEF Fits
  <2>2. next \in Seen(events) /\ next.kept = seen.kept
    BY <1>3, FollowTwice
  <2>3. other[Last(seen.kept)] # e
    <3>1. other[n].type = kind
      BY <1>1, <1>4
    <3> QED BY <1>4, <1>t, <3>1
  <2> HIDE DEF next
  <2>4. Keep(other, seen, n + 1) = [next EXCEPT !.kept = Append(@, n + 1)]
    BY <1>1, <2>1, <2>3 DEF Keep, next
  <2>5. [next EXCEPT !.kept = Append(@, n + 1)].kept = Append(seen.kept, n + 1)
    BY <2>2 DEF Seen
  <2>6. Keep(other, seen, n + 1).message = seen.message
    <3>1. other[n + 1].type \notin {"message_start", "text", "thinking", "message_end"}
      BY <1>1, <1>t
    <3> QED BY <1>3, <3>1, KeepMessage
  <2> QED BY ZenonT(40), <1>3, <1>4, <2>4, <2>5, <2>6
<1>8. Read(other) = q
  <2>1. Append(seen.kept, n + 1) # seen.kept
    <3> DEFINE k == seen.kept
    <3>1. k \in Seq(1..n)
      BY <1>6
    <3> HIDE DEF k
    <3>2. Len(Append(k, n + 1)) = Len(k) + 1 /\ Len(k) \in Nat
      BY <3>1
    <3>3. Append(k, n + 1) # k
      BY <3>2
    <3> QED BY <3>3 DEF k
  <2> QED BY <1>2, <1>7, <2>1
<1>9. Told(q, Deltas(events)) /\ q.text = {} /\ q.thinking = {}
  <2>1. Next1(other, n, {IF kind = "text" THEN "text_end" ELSE "thinking_end"}) /\ other[n + 1].payload = p[kind]
    BY <1>1, <1>4 DEF Next1
  <2> HIDE DEF other
  <2>2. Takes(p, q, kind)
    BY <1>1, <1>s, <2>1, ParseEnd DEF q
  <2>3. q.text = {} /\ q.thinking = {}
    BY <1>4, <2>2 DEF Takes
  <2> QED BY <1>4, <2>2, <2>3 DEF Takes, Tells
<1> HIDE DEF other
<1>10. Len(other) > 0 /\ other[Len(other)].type \in {"message_start", "text_end", "thinking_end"}
  BY <1>1, <1>t
<1> QED BY <1>d, <1>4, <1>7, <1>8, <1>9, <1>10 DEF Unbroken, other

-----------------------------------------------------------------------------
(* what is read of the journal is sound, and unless it is torn nothing of it is amiss *)
SaidInv ==
  Numbered(record) /\ Sound(Read(record), Len(record)) /\ (~torn => Unbroken(record, mood))

\* A conversation begins with nothing said.
LEMMA InitSaid == ConversationInit => SaidInv
<1> SUFFICES ASSUME ConversationInit PROVE SaidInv
  OBVIOUS
<1>1. record = <<>> /\ mood = Resting /\ Len(record) = 0 /\ record \in Seq(Entry) /\ Len(record) \in Nat
  BY DEF ConversationInit
<1>2. Now(record) = Fresh
  <2>1. Cleaned(record, 1..Len(record))[0] = Fresh
    BY <1>1, CleanedWalks
  <2> QED BY <1>1, <2>1 DEF Now
<1>3. Read(record) = Unparsed
  <2>1. Now(record).kept = <<>>
    BY <1>2 DEF Fresh
  <2>2. Parsed(record, <<>>)[0] = Unparsed
    <3>1. <<>> \in Seq(1..Len(record))
      OBVIOUS
    <3> QED BY <1>1, <3>1, ParsedWalks
  <2> QED BY <2>1, <2>2 DEF Read
<1>4. Sound(Read(record), Len(record))
  BY <1>3 DEF Sound, Distinct, Unparsed, Reading
<1>5. Told(Read(record), Deltas(record))
  BY <1>1, <1>3 DEF Told, Pending, Unparsed, Deltas
<1>6. Unbroken(record, mood)
  BY <1>1, <1>2, <1>3, <1>5 DEF Unbroken, Resting, Fresh, Unparsed
<1>7. Numbered(record)
  BY <1>1 DEF Numbered
<1> QED BY <1>4, <1>6, <1>7 DEF SaidInv

\* What is journaled is an event, and what is read of the journal stays sound.
LEMMA JournaledSaid ==
  ASSUME ConversationInv, ConversationInv', SaidInv, NEW type, NEW payload, Journaled(type, payload),
         type \in {"text", "thinking", "tool_start"} => payload = {Len(record) + 1}
  PROVE  LET e == [type |-> type, payload |-> payload] IN
         /\ record' = Append(record, e) /\ e \in Entry /\ record \in Seq(Entry) /\ e.type = type /\ e.payload = payload
         /\ Numbered(record') /\ Sound(Read(record'), Len(record'))
<1> DEFINE e == [type |-> type, payload |-> payload]
<1>1. record \in Seq(Entry) /\ record' \in Seq(Entry)
  BY DEF ConversationInv, ConversationTypeOK, Entry
<1>2. record' = Append(record, e) /\ e.type = type /\ e.payload = payload
  BY DEF Journaled
<1> HIDE DEF e
<1>3. Len(record') = Len(record) + 1 /\ record'[Len(record) + 1] = e /\ Len(record) + 1 \in 1..Len(record')
  BY <1>1, <1>2
<1>4. e \in Entry
  BY <1>1, <1>3
<1>5. Numbered(record')
  BY <1>1, <1>2, <1>4, NumberedGrows DEF SaidInv
<1>6. Sound(Read(record'), Len(record'))
  BY <1>1, <1>2, <1>3, <1>4, ReadSound DEF SaidInv
<1> QED BY <1>1, <1>2, <1>4, <1>5, <1>6 DEF e

\* Between blocks it stays so whatever pi does.
LEMMA BetweenSaid ==
  ASSUME ConversationInv, ConversationInv', SaidInv, NEW type, NEW payload, Journaled(type, payload),
         type \in {"prompt", "agent_start", "agent_end", "message_start", "message_end", "tool_start", "tool_end"},
         type = "tool_start" => payload = {Len(record) + 1},
         ~torn' => ~torn, ~torn' => mood.block = "none" /\ mood'.block = "none",
         type = "message_start" => mood'.message /\ mood'.agent /\ mood'.tool = 0,
         ~torn' /\ type # "message_start" => ~mood'.message,
         ~torn' /\ type \notin {"message_start", "message_end"} => ~mood.message
  PROVE  SaidInv'
<1> DEFINE e == [type |-> type, payload |-> payload]
<1>1. /\ record' = Append(record, e) /\ e \in Entry /\ record \in Seq(Entry) /\ e.type = type /\ e.payload = payload
      /\ Numbered(record') /\ Sound(Read(record'), Len(record'))
  BY JournaledSaid
<1> HIDE DEF e
<1>2. ASSUME ~torn' PROVE Unbroken(record', mood')
  <2>1. Sound(Read(record), Len(record)) /\ Unbroken(record, mood)
    BY <1>2 DEF SaidInv
  <2>2. mood.message \in BOOLEAN /\ mood'.message \in BOOLEAN
    BY DEF ConversationInv, ConversationTypeOK
  <2> QED BY <1>1, <1>2, <2>1, <2>2, UnbrokenBetween
<1> QED BY <1>1, <1>2 DEF SaidInv

\* Every event of pi, and every prompt, keeps what is read of the journal in order.
LEMMA PiKeepsSaid ==
  ASSUME ConversationInv, ConversationInv', SaidInv,
         \/ SomeonePrompts \/ AgentStarts \/ AgentEnds \/ MessageStarts \/ MessageEnds
         \/ \E kind \in {"text", "thinking"} : Delta(kind) \/ BlockEnds(kind)
         \/ ToolStarts \/ ToolEnds
  PROVE  SaidInv'
<1>1. /\ mood \in [agent : BOOLEAN, message : BOOLEAN, block : {"none", "text", "thinking"}, tool : 0..MaxEvents]
      /\ torn \in BOOLEAN /\ torn' \in BOOLEAN
  BY DEF ConversationInv, ConversationTypeOK
<1>2. ~torn => /\ mood.message => mood.agent /\ mood.tool = 0
               /\ mood.block # "none" => mood.message
  BY DEF SaidInv, Unbroken
<1>3. CASE SomeonePrompts
  <2>1. PICK text \in Texts : Journaled("prompt", {text})
    BY <1>3 DEF SomeonePrompts
  <2>2. mood' = mood /\ (~torn' => ~torn /\ ~mood.message)
    BY <1>1, <1>3 DEF SomeonePrompts
  <2> QED BY <1>1, <1>2, <2>1, <2>2, BetweenSaid
<1>4. CASE AgentStarts
  <2>1. Journaled("agent_start", {}) /\ torn' = torn /\ ~mood.agent /\ mood'.message = mood.message /\ mood'.block = mood.block
    BY <1>1, <1>4 DEF AgentStarts, Become
  <2> QED BY <1>1, <1>2, <2>1, BetweenSaid
<1>5. CASE AgentEnds
  <2>1. Journaled("agent_end", {}) /\ torn' = torn /\ ~mood.message /\ mood'.message = mood.message /\ mood'.block = mood.block
    BY <1>1, <1>5 DEF AgentEnds, Become
  <2> QED BY <1>1, <1>2, <2>1, BetweenSaid
<1>6. CASE MessageStarts
  <2>1. /\ Journaled("message_start", {}) /\ torn' = torn /\ ~mood.message /\ mood'.message /\ mood'.block = mood.block
        /\ mood'.agent /\ mood'.tool = 0
    BY <1>1, <1>6 DEF MessageStarts, Become
  <2> QED BY <1>1, <1>2, <2>1, BetweenSaid
<1>7. CASE MessageEnds
  <2>1. Journaled("message_end", {}) /\ torn' = torn /\ ~mood'.message /\ mood'.block = mood.block /\ mood.block = "none"
    BY <1>1, <1>7 DEF MessageEnds, Become
  <2> QED BY <1>1, <1>2, <2>1, BetweenSaid
<1>8. CASE ToolStarts
  <2>1. /\ Journaled("tool_start", {Len(record) + 1}) /\ torn' = torn /\ ~mood.message
        /\ mood'.message = mood.message /\ mood'.block = mood.block
    BY <1>1, <1>8 DEF ToolStarts, Become
  <2> QED BY <1>1, <1>2, <2>1, BetweenSaid
<1>9. CASE ToolEnds
  <2>1. /\ Journaled("tool_end", {mood.tool}) /\ torn' = torn /\ mood.tool # 0
        /\ mood'.message = mood.message /\ mood'.block = mood.block
    BY <1>1, <1>9 DEF ToolEnds, Become
  <2>2. ~torn => ~mood.message
    BY <1>2, <2>1
  <2> QED BY <1>1, <1>2, <2>1, <2>2, BetweenSaid
<1>10. ASSUME NEW kind \in {"text", "thinking"}, Delta(kind) PROVE SaidInv'
  <2> DEFINE e == [type |-> kind, payload |-> {Len(record) + 1}]
  <2>1. Journaled(kind, {Len(record) + 1}) /\ torn' = torn /\ mood.message /\ mood.block \in {"none", kind}
    BY <1>10 DEF Delta
  <2>2. /\ record' = Append(record, e) /\ e \in Entry /\ record \in Seq(Entry)
        /\ e.type = kind /\ e.payload = {Len(record) + 1} /\ Numbered(record') /\ Sound(Read(record'), Len(record'))
    BY <2>1, JournaledSaid
  <2> HIDE DEF e
  <2>3. mood'.message = TRUE /\ mood'.agent = mood.agent /\ mood'.tool = mood.tool /\ mood'.block = kind /\ mood.message = TRUE
    BY <1>1, <1>10, <2>1 DEF Delta, Become
  <2>4. ASSUME ~torn' PROVE Unbroken(record', mood')
    <3>1. Sound(Read(record), Len(record)) /\ Numbered(record) /\ Unbroken(record, mood)
      BY <2>1, <2>4 DEF SaidInv
    <3> QED BY <2>1, <2>2, <2>3, <3>1, UnbrokenDelta
  <2> QED BY <2>2, <2>4 DEF SaidInv
<1>11. ASSUME NEW kind \in {"text", "thinking"}, BlockEnds(kind) PROVE SaidInv'
  <2> DEFINE end == IF kind = "text" THEN "text_end" ELSE "thinking_end"
             e == [type |-> end, payload |-> BlockOf(kind)]
  <2>1. Journaled(end, BlockOf(kind)) /\ torn' = torn /\ mood.block = kind /\ end \notin {"text", "thinking", "tool_start"}
    BY <1>11 DEF BlockEnds
  <2>2. BlockOf(kind) = BlockIn(record, kind)
    BY DEF BlockOf, BlockIn
  <2> HIDE DEF end
  <2>3. /\ record' = Append(record, e) /\ e \in Entry /\ record \in Seq(Entry)
        /\ e.type = end /\ e.payload = BlockIn(record, kind) /\ Numbered(record') /\ Sound(Read(record'), Len(record'))
    BY <2>1, <2>2, JournaledSaid
  <2> HIDE DEF e
  <2>4. mood'.message = mood.message /\ mood'.agent = mood.agent /\ mood'.tool = mood.tool /\ mood'.block = "none"
    BY <1>1, <1>11, <2>1 DEF BlockEnds, Become
  <2>5. ASSUME ~torn' PROVE Unbroken(record', mood')
    <3>1. Sound(Read(record), Len(record)) /\ Unbroken(record, mood)
      BY <2>1, <2>5 DEF SaidInv
    <3>2. e.type = IF kind = "text" THEN "text_end" ELSE "thinking_end"
      BY <2>3 DEF end
    <3> QED BY <2>1, <2>3, <2>4, <3>1, <3>2, UnbrokenEnd
  <2> QED BY <2>3, <2>5 DEF SaidInv
<1> QED BY <1>3, <1>4, <1>5, <1>6, <1>7, <1>8, <1>9, <1>10, <1>11

\* No step of the conversation disturbs it.
LEMMA StepSaid == ConversationInv /\ ConversationInv' /\ SaidInv /\ [ConversationNext]_conversationVars => SaidInv'
<1> SUFFICES ASSUME ConversationInv, ConversationInv', SaidInv, [ConversationNext]_conversationVars PROVE SaidInv'
  OBVIOUS
<1>1. CASE \/ SomeonePrompts \/ AgentStarts \/ AgentEnds \/ MessageStarts \/ MessageEnds
           \/ \E kind \in {"text", "thinking"} : Delta(kind) \/ BlockEnds(kind)
           \/ ToolStarts \/ ToolEnds
  BY <1>1, PiKeepsSaid
<1>2. CASE Fetch \/ Fetched \/ HearsLive \/ UNCHANGED conversationVars
  <2>1. record' = record /\ mood' = mood /\ torn' = torn
    BY <1>2 DEF Fetch, Fetched, HearsLive, conversationVars
  <2> QED BY <2>1 DEF SaidInv
<1>3. CASE PiIsReplaced
  <2>1. record' = record /\ mood' = Resting /\ torn' = (torn \/ mood.message) /\ torn \in BOOLEAN /\ mood.message \in BOOLEAN
    BY <1>3 DEF PiIsReplaced, ConversationInv, ConversationTypeOK
  <2>2. ASSUME ~torn' PROVE Unbroken(record, mood')
    <3>1. Unbroken(record, mood) /\ ~mood.message
      BY <2>1, <2>2 DEF SaidInv
    <3> QED BY <2>1, <3>1 DEF Unbroken, Resting
  <2> QED BY <2>1, <2>2 DEF SaidInv
<1> QED BY <1>1, <1>2, <1>3 DEF ConversationNext

\* Once all that waits is shown, everything said is in one item, and the keys are distinct.
LEMMA SoundMeansOnce == ConversationInv /\ SaidInv => SaidOnce
<1> SUFFICES ASSUME ConversationInv, SaidInv PROVE SaidOnce
  OBVIOUS
<1> DEFINE N == Len(record)
           p == Read(record)
           q == FlushAll(p, TRUE)
           items == ParseEventsToConversation(record, Canonical(record, 1..Len(record)))
<1>1. Sound(p, N) /\ N \in Nat /\ (~torn => Told(p, Deltas(record)))
  <2>1. N \in Nat
    BY DEF ConversationInv, ConversationTypeOK
  <2> QED BY <2>1 DEF SaidInv, Unbroken
<1>2. items = q.items
  BY DEF ParseEventsToConversation, Canonical, Read, Now
<1> SUFFICES /\ \A i, j \in DOMAIN items : items[i].id = items[j].id => i = j
             /\ ~torn => \A s \in DOMAIN record : record[s].type \in {"text", "thinking"} =>
                  Cardinality({i \in DOMAIN items : s \in items[i].said}) = 1
  BY DEF SaidOnce
<1> HIDE DEF p
<1>3. Sound(q, N) /\ Tells(p, q) /\ q.text = {} /\ q.thinking = {}
  BY <1>1, FlushAllSound
<1> HIDE DEF q, items
<1>4. \A i, j \in DOMAIN items : items[i].id = items[j].id => i = j
  BY <1>2, <1>3 DEF Sound, Distinct
<1>5. ASSUME ~torn, NEW s \in DOMAIN record, record[s].type \in {"text", "thinking"}
      PROVE  Cardinality({i \in DOMAIN items : s \in items[i].said}) = 1
  <2>1. Told(q, Deltas(record)) /\ Pending(q) = {}
    BY <1>1, <1>3, <1>5 DEF Tells, Pending
  <2>2. s \in Deltas(record)
    BY <1>5 DEF Deltas
  <2>3. PICK i \in DOMAIN items : s \in items[i].said
    BY <1>2, <2>1, <2>2 DEF Told
  <2>4. \A j \in DOMAIN items : s \in items[j].said => j = i
    BY <1>2, <2>1, <2>3 DEF Told
  <2>5. {j \in DOMAIN items : s \in items[j].said} = {i}
    BY <2>3, <2>4
  <2> QED BY <2>5, FS_Singleton
<1> QED BY <1>4, <1>5

\* For a journal of any length, and whatever pi and the prompts did: no two items have
\* the same key, and unless something came amid a message, everything said is shown
\* once, in the item of its block (conversation.ts:117).
THEOREM EverythingSaidOnce == ConversationSpec => []SaidOnce
<1>1. ConversationInv /\ SaidInv /\ [ConversationNext]_conversationVars => (ConversationInv /\ SaidInv)'
  BY StepConversation, StepSaid
<1> QED BY <1>1, InitConversation, InitSaid, SoundMeansOnce, PTL DEF ConversationSpec
=============================================================================
