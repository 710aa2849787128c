------------------------------ MODULE Terminal ------------------------------
(***************************************************************************)
(* The terminal of a session: the dashboard's TerminalInstance, one        *)
(* WebSocket to the relay, and the PTY the relay opens in the sandbox for  *)
(* it.  What is typed and printed is left out; what is modelled is who is  *)
(* there when the PTY arrives, exits or is closed.                         *)
(***************************************************************************)
EXTENDS Sequences, Naturals

CONSTANT Terminals      \* mounted terminals, each with a socket of its own

VARIABLES
  tab,        \* the component: "loading" its library, "shown" or "gone"
  shown,      \* the status it shows
  wire,       \* the socket: "none", "dialing", "open", "closing", "closed"
  mail,       \* what the browser has yet to report to the component
  opening,    \* openPty is awaited
  pty,        \* the process in the sandbox: "none", "running", "exited", "closed"
  held,       \* the relay's variable pty is not null, and its listeners are set
  late        \* observation: the socket went while openPty was awaited

terminalVars == <<tab, shown, wire, mail, opening, pty, held, late>>

TerminalInit ==
  /\ tab = [t \in Terminals |-> "loading"]
  /\ shown = [t \in Terminals |-> "connecting"]
  /\ wire = [t \in Terminals |-> "none"]
  /\ mail = [t \in Terminals |-> <<>>]
  /\ opening = [t \in Terminals |-> FALSE]
  /\ pty = [t \in Terminals |-> "none"]
  /\ held = [t \in Terminals |-> FALSE]
  /\ late = [t \in Terminals |-> FALSE]

(* What the browser reports of the socket once it has been closed to it. *)
Tell(t, events) ==
  mail' = [mail EXCEPT ![t] = IF wire[t] \in {"dialing", "open"} THEN @ \o events ELSE @]

(***************************************************************************)
(* The component.                                                          *)
(***************************************************************************)
Dial(t) ==
  /\ tab[t] = "loading"
  /\ tab' = [tab EXCEPT ![t] = "shown"]
  /\ wire' = [wire EXCEPT ![t] = "dialing"]
  /\ UNCHANGED <<shown, mail, opening, pty, held, late>>

Unmount(t) ==
  /\ tab[t] # "gone"
  /\ tab' = [tab EXCEPT ![t] = "gone"]
  /\ wire' = [wire EXCEPT ![t] = IF @ = "open" THEN "closing" ELSE @]
  /\ UNCHANGED <<shown, mail, opening, pty, held, late>>

StatusAfter(status, event) ==
  CASE event = "open" -> "connected"
    [] event = "exit" -> "exited"
    [] event = "error" -> "error"
    [] event = "close" /\ status = "connected" -> "exited"
    [] OTHER -> status

HearTerminal(t) ==
  /\ mail[t] # <<>>
  /\ mail' = [mail EXCEPT ![t] = Tail(@)]
  /\ shown' = [shown EXCEPT ![t] = IF tab[t] = "gone" THEN @ ELSE StatusAfter(@, Head(mail[t]))]
  /\ UNCHANGED <<tab, wire, opening, pty, held, late>>

(***************************************************************************)
(* The relay's handler.                                                    *)
(***************************************************************************)
(* no such session, an archived one, no sandbox, or one without terminals *)
OpenRefused(t) ==
  /\ wire[t] = "dialing"
  /\ wire' = [wire EXCEPT ![t] = "closing"]
  /\ Tell(t, <<"open", "error", "close">>)
  /\ UNCHANGED <<tab, shown, opening, pty, held, late>>

(* the relay cannot be reached: it never hears of the socket *)
DialFails(t) ==
  /\ wire[t] = "dialing"
  /\ wire' = [wire EXCEPT ![t] = "closed"]
  /\ Tell(t, <<"error", "close">>)
  /\ UNCHANGED <<tab, shown, opening, pty, held, late>>

OpenAccepted(t) ==
  /\ wire[t] = "dialing"
  /\ wire' = [wire EXCEPT ![t] = "open"]
  /\ opening' = [opening EXCEPT ![t] = TRUE]
  /\ Tell(t, <<"open">>)
  /\ UNCHANGED <<tab, shown, pty, held, late>>

(* openPty answers; nothing asks whether the socket is still there *)
PtyOpens(t) ==
  /\ opening[t]
  /\ opening' = [opening EXCEPT ![t] = FALSE]
  /\ pty' = [pty EXCEPT ![t] = "running"]
  /\ held' = [held EXCEPT ![t] = TRUE]
  /\ UNCHANGED <<tab, shown, wire, mail, late>>

(* the handle cannot be had, the sandbox is not running, exec fails *)
PtyFails(t) ==
  /\ opening[t]
  /\ opening' = [opening EXCEPT ![t] = FALSE]
  /\ wire' = [wire EXCEPT ![t] = IF @ = "open" THEN "closing" ELSE @]
  /\ Tell(t, <<"error", "close">>)
  /\ UNCHANGED <<tab, shown, pty, held, late>>

(* the shell ends, or its sandbox does; a closed handle has no listeners left *)
PtyExits(t) ==
  /\ pty[t] = "running"
  /\ pty' = [pty EXCEPT ![t] = "exited"]
  /\ wire' = [wire EXCEPT ![t] = IF @ = "open" /\ held[t] THEN "closing" ELSE @]
  /\ IF held[t] THEN Tell(t, <<"exit", "close">>) ELSE UNCHANGED mail
  /\ UNCHANGED <<tab, shown, opening, held, late>>

(* the listeners go and the shell stays *)
Unsubscribe(t) ==
  /\ UNCHANGED pty
  /\ held' = [held EXCEPT ![t] = FALSE]

(* the body of onClose and of onError: close the PTY, if there is one yet *)
ReleasePty(t) ==
  /\ pty' = [pty EXCEPT ![t] = IF held[t] /\ @ = "running" THEN "closed" ELSE @]
  /\ held' = [held EXCEPT ![t] = FALSE]

OnTerminalClose(t) ==
  /\ wire[t] \in {"open", "closing"}
  /\ wire' = [wire EXCEPT ![t] = "closed"]
  /\ ReleasePty(t)
  /\ late' = [late EXCEPT ![t] = @ \/ opening[t]]
  /\ Tell(t, <<"close">>)
  /\ UNCHANGED <<tab, shown, opening>>

(* a close event follows an error; the component hears of both *)
OnTerminalError(t) ==
  /\ wire[t] = "open"
  /\ wire' = [wire EXCEPT ![t] = "closing"]
  /\ ReleasePty(t)
  /\ Tell(t, <<"error", "close">>)
  /\ UNCHANGED <<tab, shown, opening, late>>

TerminalNext ==
  \E t \in Terminals :
    \/ Dial(t) \/ Unmount(t) \/ HearTerminal(t)
    \/ DialFails(t) \/ OpenRefused(t) \/ OpenAccepted(t)
    \/ PtyOpens(t) \/ PtyFails(t) \/ PtyExits(t)
    \/ OnTerminalClose(t) \/ OnTerminalError(t)

TerminalSpec == TerminalInit /\ [][TerminalNext]_terminalVars

-----------------------------------------------------------------------------
TerminalTypeOK ==
  /\ tab \in [Terminals -> {"loading", "shown", "gone"}]
  /\ shown \in [Terminals -> {"connecting", "connected", "error", "exited"}]
  /\ wire \in [Terminals -> {"none", "dialing", "open", "closing", "closed"}]
  /\ mail \in [Terminals -> Seq({"open", "exit", "error", "close"})]
  /\ opening \in [Terminals -> BOOLEAN]
  /\ pty \in [Terminals -> {"none", "running", "exited", "closed"}]
  /\ held \in [Terminals -> BOOLEAN]
  /\ late \in [Terminals -> BOOLEAN]

(***************************************************************************)
(* A shell that runs on without a socket is one that was still being       *)
(* opened when its socket went (terminal.ts:99): however closes, errors,   *)
(* exits and failures interleave, every other shell is closed with it.     *)
(***************************************************************************)
OnlyLateShellsLeak ==
  \A t \in Terminals : pty[t] = "running" /\ wire[t] = "closed" => late[t]
=============================================================================
