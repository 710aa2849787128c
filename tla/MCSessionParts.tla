---------------------------- MODULE MCSessionParts ----------------------------
(* What an open session is made of beside its hub: the page that follows it, its
   terminal and model picker, and the sandboxes behind it.  The hub's side of the
   page is part of SessionClient; the others share no state in these models: a
   behaviour runs one of them, "part", and leaves the others where they began.  *)
EXTENDS SessionClient, Conversation, Terminal, Composer, Gondolin, MockSandbox, Cloudflare, NativeBridge

VARIABLE part          \* the component that runs in this behaviour

PartsParts == {"client", "conversation", "terminal", "composer", "gondolin", "mock", "cloudflare", "bridge"}

PartsInit ==
  /\ part \in PartsParts
  /\ ClientInit
  /\ ConversationInit
  /\ TerminalInit
  /\ ComposerInit
  /\ GondolinInit
  /\ MockInit
  /\ CloudflareInit
  /\ BridgeInit
  /\ (part # "composer" => piModel = CHOOSE m \in PiModels : TRUE)

PartsNext ==
  \/ part = "client" /\ ClientNext
     /\ UNCHANGED <<part, conversationVars, terminalVars, composerVars, gondolinVars, mockVars, cloudflareVars, bridgeVars>>
  \/ part = "conversation" /\ ConversationNext
     /\ UNCHANGED <<part, clientVars, terminalVars, composerVars, gondolinVars, mockVars, cloudflareVars, bridgeVars>>
  \/ part = "terminal" /\ TerminalNext
     /\ UNCHANGED <<part, clientVars, conversationVars, composerVars, gondolinVars, mockVars, cloudflareVars, bridgeVars>>
  \/ part = "composer" /\ ComposerNext
     /\ UNCHANGED <<part, clientVars, conversationVars, terminalVars, gondolinVars, mockVars, cloudflareVars, bridgeVars>>
  \/ part = "gondolin" /\ GondolinNext
     /\ UNCHANGED <<part, clientVars, conversationVars, terminalVars, composerVars, mockVars, cloudflareVars, bridgeVars>>
  \/ part = "mock" /\ MockNext
     /\ UNCHANGED <<part, clientVars, conversationVars, terminalVars, composerVars, gondolinVars, cloudflareVars, bridgeVars>>
  \/ part = "cloudflare" /\ CloudflareNext
     /\ UNCHANGED <<part, clientVars, conversationVars, terminalVars, composerVars, gondolinVars, mockVars, bridgeVars>>
  \/ part = "bridge" /\ BridgeNext
     /\ UNCHANGED <<part, clientVars, conversationVars, terminalVars, composerVars, gondolinVars, mockVars, cloudflareVars>>

PartsSpec == PartsInit /\ [][PartsNext]_<<part, clientVars, conversationVars, terminalVars, composerVars, gondolinVars, mockVars, cloudflareVars, bridgeVars>>

(* The state of every component above keeps its types, whichever of them runs. *)
PartsTypeOK ==
  /\ part \in PartsParts
  /\ part = "conversation" => ConversationTypeOK
  /\ part = "terminal" => TerminalTypeOK
  /\ part = "composer" => ComposerTypeOK
  /\ part = "gondolin" => GondolinTypeOK
  /\ part = "mock" => MockTypeOK
  /\ part = "cloudflare" => CloudflareTypeOK
  /\ part = "bridge" => BridgeTypeOK
=============================================================================
