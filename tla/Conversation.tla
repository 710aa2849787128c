------------------------------ MODULE Conversation -----------------------------
(***************************************************************************)
(* What the dashboard makes of a session's journal: mergeCanonicalEvents,  *)
(* which cleans what was fetched and what came live, and                   *)
(* parseEventsToConversation, which turns it into the items of the chat.   *)
(* The journal is what pi may say: messages of thinking and text blocks,   *)
(* tools, with prompts of clients anywhere between, and a pi that          *)
(* is restarted in the middle.  turn_start and turn_end, which follow the  *)
(* rule of agent_start and agent_end, are left out, as is wording: a delta *)
(* is the number of its event.                                             *)
(***************************************************************************)
EXTENDS Naturals, Sequences, FiniteSets, SequencesExt

CONSTANTS
  MaxEvents,    \* length of the journal (a bound)
  MaxWatched,   \* length of the journals a screen watches (a bound)
  Texts         \* what a prompt may say: numbers

ASSUME ConversationAssumption == MaxEvents \in Nat /\ MaxWatched \in 0..MaxEvents

VARIABLES
  record,       \* the journal: the event of each seq
  mood,         \* where pi is: its agent, message, block and tool
  screen,         \* the seqs the screen has kept, in order
  heeded,       \* live events the screen has been sent
  fetching,     \* answer of GET /events that is on its way, {} or a seq
  torn          \* observation: a prompt, or a restart, in the middle of a message

conversationVars == <<record, mood, screen, heeded, fetching, torn>>

Resting == [agent |-> FALSE, message |-> FALSE, block |-> "none", tool |-> 0]

ConversationInit ==
  /\ record = <<>> /\ mood = Resting
  /\ screen = <<>> /\ heeded = 0 /\ fetching = {}
  /\ torn = FALSE

(***************************************************************************)
(* What is journaled: an event has a type, and of some the payload matters *)
(***************************************************************************)
Journaled(type, payload) ==
  /\ Len(record) < IF fetching = {} /\ heeded = 0 THEN MaxEvents ELSE MaxWatched
  /\ record' = Append(record, [type |-> type, payload |-> payload])
  /\ UNCHANGED <<screen, heeded, fetching>>
Become(field, value) == mood' = [mood EXCEPT ![field] = value]

SomeonePrompts ==
  /\ \E text \in Texts : Journaled("prompt", {text})
  /\ torn' = (torn \/ mood.message)
  /\ UNCHANGED mood

AgentStarts ==
  /\ ~mood.agent /\ Journaled("agent_start", {}) /\ Become("agent", TRUE) /\ UNCHANGED torn
AgentEnds ==
  /\ mood.agent /\ ~mood.message /\ mood.tool = 0
  /\ Journaled("agent_end", {}) /\ Become("agent", FALSE) /\ UNCHANGED torn
MessageStarts ==
  /\ mood.agent /\ ~mood.message /\ mood.tool = 0
  /\ Journaled("message_start", {}) /\ Become("message", TRUE) /\ UNCHANGED torn
MessageEnds ==
  /\ mood.message /\ mood.block = "none"
  /\ Journaled("message_end", {}) /\ Become("message", FALSE) /\ UNCHANGED torn

(* the deltas of a block carry their own number, its end all of them *)
Delta(kind) ==
  /\ mood.message /\ mood.block \in {"none", kind}
  /\ Journaled(kind, {Len(record) + 1})
  /\ Become("block", kind) /\ UNCHANGED torn
BlockOf(kind) ==
  LET begun == {i \in 1..Len(record) : record[i].type \notin {kind, "prompt"}} IN
  {i \in 1..Len(record) : record[i].type = kind /\ \A j \in begun : j < i}
BlockEnds(kind) ==
  /\ mood.block = kind
  /\ Journaled(IF kind = "text" THEN "text_end" ELSE "thinking_end", BlockOf(kind))
  /\ Become("block", "none") /\ UNCHANGED torn

ToolStarts ==
  /\ mood.agent /\ ~mood.message /\ mood.tool = 0
  /\ Journaled("tool_start", {Len(record) + 1})
  /\ Become("tool", Len(record) + 1) /\ UNCHANGED torn
ToolEnds ==
  /\ mood.tool # 0
  /\ Journaled("tool_end", {mood.tool}) /\ Become("tool", 0) /\ UNCHANGED torn

(* a new pi starts where the old one had not ended *)
PiIsReplaced ==
  /\ mood # Resting
  /\ mood' = Resting
  /\ torn' = (torn \/ mood.message)
  /\ UNCHANGED <<record, screen, heeded, fetching>>

(***************************************************************************)
(* shouldKeepEvent and mergeCanonicalEvents: a walk over the seqs, in      *)
(* order, that keeps what fits where the conversation is.                  *)
(***************************************************************************)
Fits(type, seen) ==
  CASE type = "agent_start" -> ~seen.agent
    [] type = "agent_end" -> seen.agent
    [] type = "message_start" -> ~seen.message
    [] type = "message_end" -> seen.message
    [] type \in {"text_end", "thinking_end"} -> seen.message
    [] OTHER -> TRUE
Follow(type, seen) ==
  [seen EXCEPT
     !.agent = (@ \/ type = "agent_start") /\ type # "agent_end",
     !.message = (@ \/ type \in {"message_start", "text", "thinking"}) /\ type # "message_end"]

Keep(events, seen, seq) ==
  LET event == events[seq] IN
  IF ~Fits(event.type, seen) THEN seen
  ELSE LET next == Follow(event.type, seen) IN
       IF seen.kept # <<>> /\ events[Last(seen.kept)] = event THEN next
       ELSE [next EXCEPT !.kept = Append(@, seq)]

Fresh == [agent |-> FALSE, message |-> FALSE, kept |-> <<>>]

(* where the conversation is after each of the events *)
Cleaned(events, seqs) ==
  LET clean[n \in 0..Len(events)] ==
        IF n = 0 THEN Fresh ELSE IF n \in seqs THEN Keep(events, clean[n - 1], n) ELSE clean[n - 1]
  IN clean

Canonical(events, seqs) == Cleaned(events, seqs)[Len(events)].kept

(* only what is new is cleaned *)
MergeCleanedNews(current, incoming) ==
  LET news == Range(Canonical(record, incoming)) IN
  SelectSeq([s \in DOMAIN record |-> s], LAMBDA s : s \in Range(current) \union news)

MergeCanonicalEvents(current, incoming) == Canonical(record, Range(current) \union incoming)

(***************************************************************************)
(* The screen.                                                               *)
(***************************************************************************)
Fetch ==
  /\ fetching = {} /\ Len(record) <= MaxWatched
  /\ fetching' = {Len(record)}
  /\ UNCHANGED <<record, mood, screen, heeded, torn>>

(* the events of the answer are merged with what came while it was awaited *)
Fetched ==
  /\ \E last \in fetching :
       /\ screen' = MergeCanonicalEvents(screen, 1..last)
       /\ heeded' = IF last > heeded THEN last ELSE heeded
  /\ fetching' = {}
  /\ UNCHANGED <<record, mood, torn>>

(* A socket sends what follows what the screen has: replay, then live. *)
HearsLive ==
  /\ heeded < Len(record) /\ Len(record) <= MaxWatched
  /\ heeded' = heeded + 1
  /\ screen' = MergeCanonicalEvents(screen, {heeded'})
  /\ UNCHANGED <<record, mood, fetching, torn>>

ConversationNext ==
  \/ SomeonePrompts \/ AgentStarts \/ AgentEnds \/ MessageStarts \/ MessageEnds
  \/ \E kind \in {"text", "thinking"} : Delta(kind) \/ BlockEnds(kind)
  \/ ToolStarts \/ ToolEnds \/ PiIsReplaced
  \/ Fetch \/ Fetched \/ HearsLive

ConversationSpec == ConversationInit /\ [][ConversationNext]_conversationVars

(***************************************************************************)
(* parseEventsToConversation: a walk over the events that carries the text *)
(* and the thinking that have not become items yet.                        *)
(***************************************************************************)
Item(kind, id, said, going) == [kind |-> kind, id |-> id, said |-> said, going |-> going]

FlushThinking(p) ==
  IF p.thinking = {} THEN p
  ELSE [p EXCEPT !.items = Append(@, Item("thinking", <<"thinking", p.thoughts>>, p.thinking, FALSE)),
                 !.thoughts = @ + 1, !.thinking = {}]

(* the id stays what it was *)
FlushUnderOneId(p, going) ==
  IF p.text = {} THEN p
  ELSE [p EXCEPT !.items = Append(@, Item("assistant", p.id, p.text, going)), !.text = {}]

(* the id of the message for its first text, one of a counter for the rest *)
FlushText(p, going) ==
  IF p.text = {} THEN p
  ELSE LET id == IF p.id = <<>> THEN <<"chunk", p.chunks>> ELSE p.id
           chunks == IF p.id = <<>> THEN p.chunks + 1 ELSE p.chunks IN
       [p EXCEPT !.items = Append(@, Item("assistant", id, p.text, going)),
                 !.id = <<"chunk", chunks>>, !.chunks = chunks + 1, !.text = {}]

FlushAll(p, going) == FlushText(FlushThinking(p), going)
Named(p, seq) == IF p.id = <<>> THEN [p EXCEPT !.id = <<"assistant", seq>>] ELSE p

(* the whole block replaces its deltas *)
EndReplaces(p, field, block) == [p EXCEPT ![field] = block]

Parse(events, p, seq) ==
  LET type == events[seq].type
      payload == events[seq].payload IN
  CASE type = "prompt" ->
         [FlushAll(p, FALSE) EXCEPT !.items = Append(@, Item("user", <<"user", seq>>, {}, FALSE))]
    [] type = "message_start" ->
         [FlushAll(p, FALSE) EXCEPT !.id = <<"assistant", seq>>]
    [] type = "thinking" -> [Named(p, seq) EXCEPT !.thinking = @ \union payload]
    [] type = "thinking_end" -> FlushThinking(EndReplaces(Named(p, seq), "thinking", payload))
    [] type = "text" -> [Named(p, seq) EXCEPT !.text = @ \union payload]
    [] type = "text_end" -> FlushText(EndReplaces(Named(p, seq), "text", payload), FALSE)
    [] type \in {"message_end", "agent_end"} -> FlushAll(p, FALSE)
    [] type = "tool_start" ->
         [FlushAll(p, TRUE) EXCEPT !.items = Append(@, Item("tool", <<"tool", payload>>, {}, TRUE))]
    [] type = "tool_end" ->
         [p EXCEPT !.items = [i \in DOMAIN @ |->
            IF @[i].id = <<"tool", payload>> THEN [@[i] EXCEPT !.going = FALSE] ELSE @[i]]]
    [] OTHER -> p

Unparsed == [items |-> <<>>, text |-> {}, thinking |-> {}, id |-> <<>>, chunks |-> 0, thoughts |-> 0]

Parsed(events, seqs) ==
  LET parsed[n \in 0..Len(seqs)] == IF n = 0 THEN Unparsed ELSE Parse(events, parsed[n - 1], seqs[n])
  IN parsed

ParseEventsToConversation(events, seqs) == FlushAll(Parsed(events, seqs)[Len(seqs)], TRUE).items

-----------------------------------------------------------------------------
EventTypes == {"prompt", "agent_start", "agent_end", "message_start", "message_end", "text", "text_end",
               "thinking", "thinking_end", "tool_start", "tool_end"}

ConversationTypeOK ==
  /\ record \in Seq([type : EventTypes, payload : SUBSET (Texts \union 1..MaxEvents)])
  /\ mood \in [agent : BOOLEAN, message : BOOLEAN, block : {"none", "text", "thinking"}, tool : 0..MaxEvents]
  /\ screen \in Seq(1..MaxEvents) /\ heeded \in 0..MaxEvents /\ fetching \in SUBSET (0..MaxEvents)
  /\ torn \in BOOLEAN

(***************************************************************************)
(* Cleaning a little at a time is cleaning at once: whatever was fetched,  *)
(* fetched again and sent live, the screen holds what it would make of the *)
(* whole journal so far (events.ts:145).                                   *)
(***************************************************************************)
MergesLikeTheWhole == screen = Canonical(record, 1..heeded)

(***************************************************************************)
(* Everything said is shown, and shown once, under a key of its own        *)
(* (conversation.ts:117): a delta is in the item of its block and in no    *)
(* other, unless a prompt, or another pi, came in the middle of a message. *)
(***************************************************************************)
SaidOnce ==
  LET items == ParseEventsToConversation(record, Canonical(record, 1..Len(record))) IN
  /\ \A i, j \in DOMAIN items : items[i].id = items[j].id => i = j
  /\ ~torn => \A s \in DOMAIN record :
       record[s].type \in {"text", "thinking"} =>
         Cardinality({i \in DOMAIN items : s \in items[i].said}) = 1
=============================================================================
