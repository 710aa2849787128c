----------------------------- MODULE PartsProofs -----------------------------
(***************************************************************************)
(* The parts of an open session together.  They share no state: each runs  *)
(* as it does alone, and what is proved of it alone holds of it among the  *)
(* others.                                                                 *)
(***************************************************************************)
EXTENDS MCSessionParts, SessionPartsProofs, SandboxProofs, TLAPS

partsVars ==
  <<part, clientVars, conversationVars, terminalVars, composerVars, gondolinVars, mockVars, cloudflareVars, bridgeVars>>

(* one of them runs *)
OneOfParts == part \in PartsParts

\* Seen from the page of the session, what the parts do is what it does, or nothing.
LEMMA ClientRuns == PartsSpec => ClientSpec
<1>1. PartsInit => ClientInit
  BY DEF PartsInit
<1>2. [PartsNext]_partsVars => [ClientNext]_clientVars
  <2> SUFFICES ASSUME [PartsNext]_partsVars PROVE ClientNext \/ UNCHANGED clientVars
    OBVIOUS
  <2> QED BY DEF PartsNext, partsVars
<1> QED BY <1>1, <1>2, PTL DEF PartsSpec, partsVars, ClientSpec

\* So it is seen from the conversation,
LEMMA ConversationRuns == PartsSpec => ConversationSpec
<1>1. PartsInit => ConversationInit
  BY DEF PartsInit
<1>2. [PartsNext]_partsVars => [ConversationNext]_conversationVars
  <2> SUFFICES ASSUME [PartsNext]_partsVars PROVE ConversationNext \/ UNCHANGED conversationVars
    OBVIOUS
  <2> QED BY DEF PartsNext, partsVars
<1> QED BY <1>1, <1>2, PTL DEF PartsSpec, partsVars, ConversationSpec

\* from the terminals,
LEMMA TerminalRuns == PartsSpec => TerminalSpec
<1>1. PartsInit => TerminalInit
  BY DEF PartsInit
<1>2. [PartsNext]_partsVars => [TerminalNext]_terminalVars
  <2> SUFFICES ASSUME [PartsNext]_partsVars PROVE TerminalNext \/ UNCHANGED terminalVars
    OBVIOUS
  <2> QED BY DEF PartsNext, partsVars
<1> QED BY <1>1, <1>2, PTL DEF PartsSpec, partsVars, TerminalSpec

\* from the composer,
LEMMA ComposerRuns == PartsSpec => ComposerSpec
<1>1. PartsInit => ComposerInit
  BY DEF PartsInit
<1>2. [PartsNext]_partsVars => [ComposerNext]_composerVars
  <2> SUFFICES ASSUME [PartsNext]_partsVars PROVE ComposerNext \/ UNCHANGED composerVars
    OBVIOUS
  <2> QED BY DEF PartsNext, partsVars
<1> QED BY <1>1, <1>2, PTL DEF PartsSpec, partsVars, ComposerSpec

\* from the Gondolin provider,
LEMMA GondolinRuns == PartsSpec => GondolinSpec
<1>1. PartsInit => GondolinInit
  BY DEF PartsInit
<1>2. [PartsNext]_partsVars => [GondolinNext]_gondolinVars
  <2> SUFFICES ASSUME [PartsNext]_partsVars PROVE GondolinNext \/ UNCHANGED gondolinVars
    OBVIOUS
  <2> QED BY DEF PartsNext, partsVars
<1> QED BY <1>1, <1>2, PTL DEF PartsSpec, partsVars, GondolinSpec

\* from the mock provider,
LEMMA MockRuns == PartsSpec => MockSpec
<1>1. PartsInit => MockInit
  BY DEF PartsInit
<1>2. [PartsNext]_partsVars => [MockNext]_mockVars
  <2> SUFFICES ASSUME [PartsNext]_partsVars PROVE MockNext \/ UNCHANGED mockVars
    OBVIOUS
  <2> QED BY DEF PartsNext, partsVars
<1> QED BY <1>1, <1>2, PTL DEF PartsSpec, partsVars, MockSpec

\* from the Cloudflare worker,
LEMMA CloudflareRuns == PartsSpec => CloudflareSpec
<1>1. PartsInit => CloudflareInit
  BY DEF PartsInit
<1>2. [PartsNext]_partsVars => [CloudflareNext]_cloudflareVars
  <2> SUFFICES ASSUME [PartsNext]_partsVars PROVE CloudflareNext \/ UNCHANGED cloudflareVars
    OBVIOUS
  <2> QED BY DEF PartsNext, partsVars
<1> QED BY <1>1, <1>2, PTL DEF PartsSpec, partsVars, CloudflareSpec

\* and from the bridge to the tools of a device.
LEMMA BridgeRuns == PartsSpec => BridgeSpec
<1>1. PartsInit => BridgeInit
  BY DEF PartsInit
<1>2. [PartsNext]_partsVars => [BridgeNext]_bridgeVars
  <2> SUFFICES ASSUME [PartsNext]_partsVars PROVE BridgeNext \/ UNCHANGED bridgeVars
    OBVIOUS
  <2> QED BY DEF PartsNext, partsVars
<1> QED BY <1>1, <1>2, PTL DEF PartsSpec, partsVars, BridgeSpec

\* The state of every part of a session keeps its types, whichever of them runs.
THEOREM PartsTypesCorrect == PartsSpec => []PartsTypeOK
<1>1. PartsSpec => []OneOfParts
  <2>1. PartsInit => OneOfParts
    BY DEF PartsInit, OneOfParts
  <2>2. OneOfParts /\ [PartsNext]_partsVars => OneOfParts'
    BY DEF PartsNext, partsVars, OneOfParts
  <2> QED BY <2>1, <2>2, PTL DEF PartsSpec, partsVars
<1>2. /\ OneOfParts
      /\ ConversationTypeOK /\ TerminalTypeOK /\ ComposerTypeOK /\ GondolinTypeOK /\ MockTypeOK
      /\ CloudflareTypeOK /\ (BridgeTypeOK /\ MadeInOrder)
      => PartsTypeOK
  BY DEF PartsTypeOK, OneOfParts
<1> QED BY <1>1, <1>2, ConversationRuns, TerminalRuns, ComposerRuns, GondolinRuns, MockRuns, CloudflareRuns,
           BridgeRuns, ConversationTypeCorrect, TerminalTypeCorrect, ComposerTypeCorrect, GondolinTypeCorrect,
           MockTypeCorrect, CloudflareTypeCorrect, BridgeTypeCorrect, PTL

(* what the parts promise, one conjunct each *)
PartsKeepTheirWord ==
  /\ NothingIsMissed /\ OnlyLooseSocketsStay /\ InitialPromptOnce
  /\ MergesLikeTheWhole /\ SaidOnce
  /\ OnlyLateShellsLeak
  /\ OnlyDoubtfulSwitchesMislead
  /\ BridgeIsTruthful
  /\ WorkIsKept

\* Whichever of the parts runs, all of them keep what they promise, and both
\* sandboxes are sandboxes.
THEOREM PartsAreSafe == PartsSpec => []PartsKeepTheirWord /\ MockIsASandbox /\ GondolinIsASandbox
<1>1. /\ NothingIsMissed /\ OnlyLooseSocketsStay /\ InitialPromptOnce /\ MergesLikeTheWhole
      /\ SaidOnce /\ OnlyLateShellsLeak /\ OnlyDoubtfulSwitchesMislead /\ BridgeIsTruthful /\ WorkIsKept
      => PartsKeepTheirWord
  BY DEF PartsKeepTheirWord
<1>2. PartsSpec => []PartsKeepTheirWord
  BY <1>1, ClientRuns, ConversationRuns, TerminalRuns, ComposerRuns, CloudflareRuns, BridgeRuns,
     PageMissesNothing, LooseSocketsAlone, InitialPromptGoesOnce, MergedLikeTheWhole,
     EverythingSaidOnce, ShellsEndWithTheirSockets,
     DoubtfulSwitchesMislead, BridgeTruth, WorkStays, PTL
<1>3. PartsSpec => MockIsASandbox /\ GondolinIsASandbox
  BY GondolinRuns, MockRuns, MockImplementsSandbox, GondolinImplementsSandbox
<1> QED BY <1>2, <1>3
=============================================================================
