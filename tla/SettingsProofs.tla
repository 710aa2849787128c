--------------------------- MODULE SettingsProofs ---------------------------
(***************************************************************************)
(* What the settings of the relay decide of sessions: environments, secrets, *)
(* GitHub and models.                                                      *)
(***************************************************************************)
EXTENDS Environments, Secrets, GitHub, Models, FiniteSetTheorems, TLAPS

-----------------------------------------------------------------------------
(***************************************************************************)
(* Proofs about the environments, for any number of rows, secrets, places, *)
(* sessions, dialogs and probes: the dialog saves what was probed, and a   *)
(* sandbox is lost to the relay only through a change of what it was made  *)
(* from.                                                                   *)
(***************************************************************************)

(* the types, and that there is at most one dialog, and one row for an id *)
OneRow == \A e \in Envs : \A one, other \in env[e] : one = other
OneDialog == \A one, other \in dialog : one = other
Typed ==
  /\ env \in [Envs -> SUBSET Row]
  /\ key \in [Keys -> {"right", "wrong", "gone"}]
  /\ dialog \subseteq Form /\ opens \in 0..MaxOpens
  /\ probe \subseteq ProbeRequest /\ save \subseteq SaveRequest
  /\ home \in [Homes -> SUBSET Housed]
  /\ OneRow /\ OneDialog

(* the configuration that is shown is the one its probe asks about *)
ShownIsProbed ==
  \A d \in dialog : /\ d.status = "available" => d.found = {Shown(d)}
                    /\ \A p \in probe : p.live => p.config = Shown(d)

(* a live sandbox whose environment was not changed can be reached *)
UnmovedAreReached ==
  \A h \in Homes : \A s \in home[h] :
    s.state = "live" /\ ~s.moved => \E row \in env[s.env] : Reaches(row, s)

\* The dialog is opened with a place for every type.
LEMMA BlankIsTyped == Blank \in [Types -> Paths \union {0}]
BY EnvironmentsAssumption DEF Blank

\* What the dialog shows is a configuration.
LEMMA ShownIsTyped ==
  ASSUME NEW d \in Form
  PROVE  Shown(d) \in Config
BY DEF Shown, Form, Config

\* A probe that is cancelled is the same probe, and no longer alive.
LEMMA CancelledProbes ==
  ASSUME probe \subseteq ProbeRequest
  PROVE  Cancelled \subseteq ProbeRequest /\ \A p \in Cancelled : ~p.live
BY DEF Cancelled, ProbeRequest

\* The sessions that are marked as moved are the same sessions.
LEMMA MovedHomes ==
  ASSUME home \in [Homes -> SUBSET Housed], NEW es
  PROVE  /\ Moved(es) \in [Homes -> SUBSET Housed]
         /\ \A h \in Homes : \A s \in Moved(es)[h] : \E was \in home[h] :
              /\ s.env = was.env /\ s.place = was.place /\ s.state = was.state /\ s.left = was.left
              /\ s.moved <=> was.moved \/ was.env \in es
<1>1. ASSUME NEW s \in Housed
      PROVE  /\ [s EXCEPT !.moved = TRUE] \in Housed
             /\ [s EXCEPT !.moved = TRUE].env = s.env /\ [s EXCEPT !.moved = TRUE].place = s.place
             /\ [s EXCEPT !.moved = TRUE].state = s.state /\ [s EXCEPT !.moved = TRUE].left = s.left
             /\ [s EXCEPT !.moved = TRUE].moved
  BY <1>1 DEF Housed
<1>2. Moved(es) \in [Homes -> SUBSET Housed]
  BY <1>1 DEF Moved
<1>3. ASSUME NEW h \in Homes, NEW s \in Moved(es)[h]
      PROVE  \E was \in home[h] :
              /\ s.env = was.env /\ s.place = was.place /\ s.state = was.state /\ s.left = was.left
              /\ s.moved <=> was.moved \/ was.env \in es
  <2>1. PICK was \in home[h] : s = IF was.env \in es THEN [was EXCEPT !.moved = TRUE] ELSE was
    BY <1>3 DEF Moved
  <2>2. was \in Housed
    OBVIOUS
  <2>3. CASE was.env \in es
    BY <1>1, <2>1, <2>2, <2>3
  <2>4. CASE was.env \notin es
    BY <2>1, <2>2, <2>4
  <2> QED BY <2>3, <2>4
<1> QED BY <1>2, <1>3

\* A termination says at most that a sandbox is left.
LEMMA TerminatedHome ==
  ASSUME NEW s \in Housed
  PROVE  /\ Terminated(s) \in Housed
         /\ Terminated(s).env = s.env /\ Terminated(s).moved = s.moved
         /\ Terminated(s).state = s.state /\ Terminated(s).place = s.place
         /\ Terminated(s).left => s.left \/ (s.state = "live" /\ ~\E row \in env[s.env] : Reaches(row, s))
<1> DEFINE lost == s.state = "live" /\ ~\E row \in env[s.env] : Reaches(row, s)
<1>1. Terminated(s) = [s EXCEPT !.left = @ \/ lost]
  BY DEF Terminated
<1>2. lost \in BOOLEAN
  OBVIOUS
<1> HIDE DEF lost
<1>3. /\ [s EXCEPT !.left = @ \/ lost] \in Housed
      /\ [s EXCEPT !.left = @ \/ lost].env = s.env /\ [s EXCEPT !.left = @ \/ lost].moved = s.moved
      /\ [s EXCEPT !.left = @ \/ lost].state = s.state /\ [s EXCEPT !.left = @ \/ lost].place = s.place
      /\ [s EXCEPT !.left = @ \/ lost].left = (s.left \/ lost)
  BY <1>2 DEF Housed
<1>4. s.left \in BOOLEAN
  BY DEF Housed
<1> USE DEF lost
<1> QED BY <1>1, <1>3, <1>4

\* What the relay does to its rows and sessions keeps the types.
LEMMA RelayKeepsTypes ==
  ASSUME Typed,
         \/ \E s \in save : ServerSaves(s)
         \/ \E e \in Envs : DeleteEnvironment(e) \/ \E h \in Homes : CreateSession(h, e)
         \/ \E h \in Homes : ArchiveSession(h) \/ DeleteHome(h) \/ RestartSession(h)
         \/ \E k \in Keys : ReplaceSecret(k)
  PROVE  Typed'
<1> USE DEF Typed, OneRow, OneDialog
<1>1. ASSUME NEW s \in save, ServerSaves(s) PROVE Typed'
  <2>1. s \in SaveRequest /\ s.id \in Envs \union {"new"} /\ s.type \in Types /\ s.config \in Config
    BY DEF SaveRequest
  <2>2. \A answer \in {"done", "error"} : [s EXCEPT !.answer = answer] \in SaveRequest
    BY <2>1 DEF SaveRequest
  <2>3. save' \subseteq SaveRequest /\ UNCHANGED <<key, dialog, opens, probe>>
    BY <1>1, <2>2 DEF ServerSaves
  <2>4. CASE Create(s)
    <3>1. PICK e \in Envs : env' = [env EXCEPT ![e] = {[type |-> s.type, config |-> s.config]}]
      BY <2>4 DEF Create
    <3>2. [type |-> s.type, config |-> s.config] \in Row
      BY <2>1 DEF Row
    <3> QED BY <2>3, <2>4, <3>1, <3>2 DEF Create
  <2>5. CASE Update(s)
    <3>1. PICK row \in env[s.id] :
            /\ env' = [env EXCEPT ![s.id] = {[row EXCEPT !.config = s.config]}]
            /\ home' = IF row.config = s.config THEN home ELSE Moved({s.id})
      BY <2>5 DEF Update
    <3>2. s.id \in Envs /\ row \in Row
      BY <2>5, <3>1 DEF Update
    <3>3. [row EXCEPT !.config = s.config] \in Row
      BY <2>1, <3>2 DEF Row
    <3>4. home' \in [Homes -> SUBSET Housed]
      BY <3>1, MovedHomes
    <3> DEFINE new == [row EXCEPT !.config = s.config]
    <3>5. env' = [env EXCEPT ![s.id] = {new}] /\ new \in Row
      BY <3>1, <3>3
    <3> HIDE DEF new
    <3>6. env' \in [Envs -> SUBSET Row] /\ OneRow'
      BY <3>2, <3>5
    <3> QED BY <2>3, <3>4, <3>6
  <2>6. CASE UNCHANGED <<env, home>>
    BY <2>3, <2>6
  <2> QED BY <1>1, <2>4, <2>5, <2>6 DEF ServerSaves
<1>2. ASSUME NEW e \in Envs, DeleteEnvironment(e) PROVE Typed'
  BY <1>2 DEF DeleteEnvironment
<1>3. ASSUME NEW e \in Envs, NEW h \in Homes, CreateSession(h, e) PROVE Typed'
  <2>1. PICK row \in env[e] :
          home' = [home EXCEPT ![h] = {[env |-> e, place |-> ResolveEnvConfig(row).place,
                                        state |-> "live", left |-> FALSE, moved |-> FALSE]}]
    BY <1>3 DEF CreateSession
  <2>2. ResolveEnvConfig(row).place \in Paths \union {0}
    BY DEF ResolveEnvConfig, Row, Config
  <2>3. [env |-> e, place |-> ResolveEnvConfig(row).place, state |-> "live", left |-> FALSE,
         moved |-> FALSE] \in Housed
    BY <2>2 DEF Housed
  <2> QED BY <1>3, <2>1, <2>3 DEF CreateSession
<1>4. ASSUME NEW h \in Homes, NEW s \in home[h], NEW to \in Housed, home' = [home EXCEPT ![h] = {to}],
             UNCHANGED <<env, key, dialog, opens, probe, save>>
      PROVE  Typed'
  BY <1>4
<1>5. ASSUME NEW h \in Homes, ArchiveSession(h) PROVE Typed'
  <2>1. PICK s \in home[h] : home' = [home EXCEPT ![h] = {[Terminated(s) EXCEPT !.state = "archived"]}]
    BY <1>5 DEF ArchiveSession
  <2>2. [Terminated(s) EXCEPT !.state = "archived"] \in Housed
    BY TerminatedHome DEF Housed
  <2> QED BY <1>4, <1>5, <2>1, <2>2 DEF ArchiveSession
<1>6. ASSUME NEW h \in Homes, DeleteHome(h) PROVE Typed'
  <2>1. PICK s \in home[h] : home' = [home EXCEPT ![h] = {[Terminated(s) EXCEPT !.state = "deleted"]}]
    BY <1>6 DEF DeleteHome
  <2>2. [Terminated(s) EXCEPT !.state = "deleted"] \in Housed
    BY TerminatedHome DEF Housed
  <2> QED BY <1>4, <1>6, <2>1, <2>2 DEF DeleteHome
<1>7. ASSUME NEW h \in Homes, RestartSession(h) PROVE Typed'
  <2>1. PICK s \in home[h] : \E row \in env[s.env] :
          home' = [home EXCEPT ![h] = {[Terminated(s) EXCEPT !.place = ResolveEnvConfig(row).place]}]
    BY <1>7 DEF RestartSession
  <2>2. PICK row \in env[s.env] :
          home' = [home EXCEPT ![h] = {[Terminated(s) EXCEPT !.place = ResolveEnvConfig(row).place]}]
    BY <2>1
  <2>3. s.env \in Envs /\ row \in Row
    BY DEF Housed
  <2>4. ResolveEnvConfig(row).place \in Paths \union {0}
    BY <2>3 DEF ResolveEnvConfig, Row, Config
  <2>5. [Terminated(s) EXCEPT !.place = ResolveEnvConfig(row).place] \in Housed
    BY <2>4, TerminatedHome DEF Housed
  <2> QED BY <1>4, <1>7, <2>2, <2>5 DEF RestartSession
<1>8. ASSUME NEW k \in Keys, ReplaceSecret(k) PROVE Typed'
  <2>1. key' \in [Keys -> {"right", "wrong", "gone"}] /\ home' \in [Homes -> SUBSET Housed]
    BY <1>8, MovedHomes DEF ReplaceSecret
  <2> QED BY <1>8, <2>1 DEF ReplaceSecret
<1> QED BY <1>1, <1>2, <1>3, <1>5, <1>6, <1>7, <1>8

\* A dialog that is shown anew, with its probe cancelled, keeps the types,
\* and shows nothing as available.
LEMMA Shows ==
  ASSUME Typed, NEW form \in Form, dialog' = {form}, form.status # "available", probe' = Cancelled,
         opens' \in 0..MaxOpens, UNCHANGED <<env, key, save, home>>
  PROVE  Typed' /\ ShownIsProbed'
BY CancelledProbes DEF Typed, OneRow, OneDialog, ShownIsProbed

\* A change of the dialog that leaves what it shows leaves what was found.
LEMMA ShowsTheSame ==
  ASSUME Typed, ShownIsProbed, NEW d \in dialog, NEW new \in Form, dialog' = {new},
         Shown(new) = Shown(d), new.status = d.status \/ new.status = "probing",
         new.found = d.found, UNCHANGED <<env, key, opens, home>>,
         probe' \subseteq ProbeRequest,
         \A p \in probe' : p \in probe \/ p.config = Shown(d) \/ ~p.live,
         save' \subseteq SaveRequest
  PROVE  Typed' /\ ShownIsProbed'
<1>1. d.status = "available" => d.found = {Shown(d)}
  BY DEF ShownIsProbed
<1>2. \A p \in probe' : p.live => p.config = Shown(new)
  BY DEF ShownIsProbed
<1>3. new.status = "available" => new.found = {Shown(new)}
  BY <1>1
<1>4. ShownIsProbed'
  <2> SUFFICES ASSUME NEW e \in dialog'
               PROVE  (e.status = "available" => e.found = {Shown(e)})
                      /\ \A p \in probe' : p.live => p.config = Shown(e)
    BY DEF ShownIsProbed, Shown
  <2>1. e = new
    OBVIOUS
  <2> QED BY <1>2, <1>3, <2>1
<1> QED BY <1>4 DEF Typed, OneRow, OneDialog

\* Without a dialog nothing is shown.
LEMMA ShowsNothing ==
  ASSUME Typed, dialog' = {}, probe' = Cancelled, save' \subseteq SaveRequest,
         UNCHANGED <<env, key, opens, home>>
  PROVE  Typed' /\ ShownIsProbed'
BY CancelledProbes DEF Typed, OneRow, OneDialog, ShownIsProbed

\* What the page does keeps the types, and that what it shows as available
\* was found so.
LEMMA PageKeepsProbes ==
  ASSUME Typed, ShownIsProbed,
         \/ OpenCreate \/ CloseDialog \/ ChooseType \/ ChoosePlace \/ ChooseSecret
         \/ HandleInstallAssets \/ AssetsInstalled \/ AssetsNotInstalled \/ Probe \/ HandleSubmit
         \/ \E p \in probe : ServerProbes(p) \/ ProbeAnswered(p)
         \/ \E s \in save : SaveAnswered(s)
         \/ \E e \in Envs : OpenEdit(e)
  PROVE  Typed' /\ ShownIsProbed'
<1>a. /\ dialog \subseteq Form /\ probe \subseteq ProbeRequest /\ save \subseteq SaveRequest
      /\ opens \in 0..MaxOpens /\ env \in [Envs -> SUBSET Row] /\ MaxOpens \in Nat
  BY EnvironmentsAssumption DEF Typed
<1>1. ASSUME NEW form \in Form, form.status = "none", OpenDialog(form) PROVE Typed' /\ ShownIsProbed'
  <2>1. opens' \in 0..MaxOpens
    BY <1>1, <1>a DEF OpenDialog
  <2> QED BY <1>1, <2>1, Shows DEF OpenDialog
<1>2. CASE OpenCreate
  <2>1. PICK t \in Types :
          OpenDialog([id |-> "new", type |-> t, place |-> Blank, secret |-> 0,
                      status |-> "none", found |-> {}, saving |-> FALSE, installing |-> FALSE])
    BY <1>2 DEF OpenCreate
  <2>2. [id |-> "new", type |-> t, place |-> Blank, secret |-> 0,
         status |-> "none", found |-> {}, saving |-> FALSE, installing |-> FALSE] \in Form
    BY BlankIsTyped DEF Form
  <2> QED BY <1>1, <2>1, <2>2
<1>3. ASSUME NEW e \in Envs, OpenEdit(e) PROVE Typed' /\ ShownIsProbed'
  <2>1. PICK row \in env[e] :
          OpenDialog([id |-> e, type |-> row.type, secret |-> row.config.secret,
                      place |-> [Blank EXCEPT ![row.config.kind] = row.config.place],
                      status |-> "none", found |-> {}, saving |-> FALSE, installing |-> FALSE])
    BY <1>3 DEF OpenEdit
  <2>2. row.type \in Types /\ row.config.secret \in Keys \union {0} /\ row.config.kind \in Types
        /\ row.config.place \in Paths \union {0}
    BY <1>a DEF Row, Config
  <2>3. [Blank EXCEPT ![row.config.kind] = row.config.place] \in [Types -> Paths \union {0}]
    BY <2>2, BlankIsTyped
  <2>4. [id |-> e, type |-> row.type, secret |-> row.config.secret,
         place |-> [Blank EXCEPT ![row.config.kind] = row.config.place],
         status |-> "none", found |-> {}, saving |-> FALSE, installing |-> FALSE] \in Form
    BY <2>2, <2>3 DEF Form
  <2> QED BY <1>1, <2>1, <2>4
<1>4. CASE CloseDialog
  BY <1>4, <1>a, ShowsNothing DEF CloseDialog
<1>5. ASSUME NEW form \in Form, Reconfigure(form) PROVE Typed' /\ ShownIsProbed'
  <2> DEFINE new == [form EXCEPT !.status = "none", !.found = {}]
  <2>1. new \in Form /\ new.status = "none"
    BY DEF Form
  <2>2. dialog' = {new} /\ probe' = Cancelled /\ UNCHANGED <<env, key, opens, save, home>>
    BY <1>5 DEF Reconfigure
  <2> HIDE DEF new
  <2> QED BY <1>a, <2>1, <2>2, Shows
<1>6. CASE ChooseType
  <2>1. PICK d \in dialog : \E t \in Types : Reconfigure([d EXCEPT !.type = t])
    BY <1>6 DEF ChooseType
  <2>2. \A t \in Types : [d EXCEPT !.type = t] \in Form
    BY <1>a DEF Form
  <2> QED BY <1>5, <2>1, <2>2
<1>7. CASE ChoosePlace
  <2>1. PICK d \in dialog : \E p \in Paths : Reconfigure([d EXCEPT !.place[d.type] = p])
    BY <1>7 DEF ChoosePlace
  <2>2. \A p \in Paths : [d EXCEPT !.place[d.type] = p] \in Form
    BY <1>a DEF Form
  <2> QED BY <1>5, <2>1, <2>2
<1>8. CASE ChooseSecret
  <2>1. PICK d \in dialog : \E k \in Keys : Reconfigure([d EXCEPT !.secret = k])
    BY <1>8 DEF ChooseSecret
  <2>2. \A k \in Keys : [d EXCEPT !.secret = k] \in Form
    BY <1>a DEF Form
  <2> QED BY <1>5, <2>1, <2>2
<1>9. CASE AssetsInstalled
  <2>1. PICK d \in dialog : \E p \in Paths :
          Reconfigure([d EXCEPT !.installing = FALSE, !.place["gondolin"] = p])
    BY <1>9 DEF AssetsInstalled
  <2>2. \A p \in Paths : [d EXCEPT !.installing = FALSE, !.place["gondolin"] = p] \in Form
    BY <1>a DEF Form
  <2> QED BY <1>5, <2>1, <2>2
<1>b. ASSUME NEW d \in Form, NEW b \in BOOLEAN
      PROVE  /\ [d EXCEPT !.installing = b] \in Form /\ [d EXCEPT !.saving = b] \in Form
             /\ [d EXCEPT !.status = "probing"] \in Form
             /\ Shown([d EXCEPT !.installing = b]) = Shown(d) /\ Shown([d EXCEPT !.saving = b]) = Shown(d)
             /\ Shown([d EXCEPT !.status = "probing"]) = Shown(d)
             /\ [d EXCEPT !.installing = b].status = d.status /\ [d EXCEPT !.saving = b].status = d.status
             /\ [d EXCEPT !.installing = b].found = d.found /\ [d EXCEPT !.saving = b].found = d.found
             /\ [d EXCEPT !.status = "probing"].found = d.found
             /\ [d EXCEPT !.status = "probing"].status = "probing"
  BY DEF Form, Shown
<1>10. CASE HandleInstallAssets
  <2>1. PICK d \in dialog : dialog' = {[d EXCEPT !.installing = TRUE]}
    BY <1>10 DEF HandleInstallAssets
  <2>2. UNCHANGED <<env, key, opens, probe, save, home>>
    BY <1>10 DEF HandleInstallAssets
  <2> QED BY <1>a, <1>b, <2>1, <2>2, ShowsTheSame
<1>11. CASE AssetsNotInstalled
  <2>1. PICK d \in dialog : dialog' = {[d EXCEPT !.installing = FALSE]}
    BY <1>11 DEF AssetsNotInstalled
  <2>2. UNCHANGED <<env, key, opens, probe, save, home>>
    BY <1>11 DEF AssetsNotInstalled
  <2> QED BY <1>a, <1>b, <2>1, <2>2, ShowsTheSame
<1>12. CASE Probe
  <2>1. PICK d \in dialog :
          /\ dialog' = {[d EXCEPT !.status = "probing"]}
          /\ probe' = probe \union {[config |-> Shown(d), live |-> TRUE, answer |-> "none"]}
    BY <1>12 DEF Probe
  <2>2. [config |-> Shown(d), live |-> TRUE, answer |-> "none"] \in ProbeRequest
    BY <1>a, ShownIsTyped DEF ProbeRequest
  <2>3. probe' \subseteq ProbeRequest /\ \A p \in probe' : p \in probe \/ p.config = Shown(d) \/ ~p.live
    <3> DEFINE asked == [config |-> Shown(d), live |-> TRUE, answer |-> "none"]
    <3>1. asked.config = Shown(d) /\ asked \in ProbeRequest /\ probe' = probe \union {asked}
      BY <2>1, <2>2
    <3> HIDE DEF asked
    <3> QED BY <1>a, <3>1
  <2>4. UNCHANGED <<env, key, opens, save, home>>
    BY <1>12 DEF Probe
  <2> QED BY <1>a, <1>b, <2>1, <2>3, <2>4, ShowsTheSame
<1>13. ASSUME NEW p \in probe, ServerProbes(p) PROVE Typed' /\ ShownIsProbed'
  <2>1. PICK answer \in {"available", "unavailable"} :
          probe' = (probe \ {p}) \union {[p EXCEPT !.answer = answer]}
    BY <1>13 DEF ServerProbes
  <2>2. /\ [p EXCEPT !.answer = answer] \in ProbeRequest
        /\ [p EXCEPT !.answer = answer].config = p.config /\ [p EXCEPT !.answer = answer].live = p.live
    BY <1>a DEF ProbeRequest
  <2>3. UNCHANGED <<env, key, opens, dialog, save, home>>
    BY <1>13 DEF ServerProbes
  <2>4. \A q \in probe' : \E o \in probe : q.config = o.config /\ q.live = o.live
    <3> DEFINE new == [p EXCEPT !.answer = answer]
    <3>1. probe' = (probe \ {p}) \union {new} /\ new.config = p.config /\ new.live = p.live
      BY <2>1, <2>2
    <3> HIDE DEF new
    <3> QED BY <3>1
  <2>5. ShownIsProbed'
    <3>1. \A d \in dialog : \A q \in probe' : q.live => q.config = Shown(d)
      BY <2>4 DEF ShownIsProbed
    <3>2. \A d \in dialog : d.status = "available" => d.found = {Shown(d)}
      BY DEF ShownIsProbed
    <3> QED BY <2>3, <3>1, <3>2 DEF ShownIsProbed, Shown
  <2> QED BY <2>1, <2>2, <2>3, <2>5 DEF Typed, OneRow, OneDialog
<1>14. ASSUME NEW p \in probe, ProbeAnswered(p) PROVE Typed' /\ ShownIsProbed'
  <2>1. /\ probe' = probe \ {p} /\ UNCHANGED <<env, key, opens, save, home>> /\ p.answer # "none"
        /\ dialog' = {IF p.live THEN [d EXCEPT !.status = p.answer, !.found = {p.config}] ELSE d : d \in dialog}
    BY <1>14 DEF ProbeAnswered, Asked
  <2>2. p \in ProbeRequest /\ p.answer \in {"available", "unavailable"} /\ p.config \in Config
    BY <1>a, <2>1 DEF ProbeRequest
  <2>3. CASE ~p.live
    <3>1. dialog' = dialog
      BY <2>1, <2>3
    <3>2. ShownIsProbed'
      BY <2>1, <3>1 DEF ShownIsProbed, Shown
    <3> QED BY <2>1, <3>1, <3>2 DEF Typed, OneRow, OneDialog
  <2>4. CASE p.live
    <3>1. ASSUME NEW d \in dialog
          PROVE  /\ [d EXCEPT !.status = p.answer, !.found = {p.config}] \in Form
                 /\ Shown([d EXCEPT !.status = p.answer, !.found = {p.config}]) = Shown(d)
                 /\ [d EXCEPT !.status = p.answer, !.found = {p.config}].found = {p.config}
      BY <1>a, <2>2 DEF Form, Shown
    <3>2. \A d \in dialog : Shown(d) = p.config
      BY <2>4 DEF ShownIsProbed
    <3>3. dialog' = {[d EXCEPT !.status = p.answer, !.found = {p.config}] : d \in dialog}
      BY <2>1, <2>4
    <3>4. dialog' \subseteq Form /\ OneDialog'
      BY ZenonT(40), <3>1, <3>3 DEF Typed, OneDialog
    <3>5. \A e \in dialog' : Shown(e) = p.config /\ e.found = {p.config}
      BY <3>1, <3>2, <3>3
    <3>6. \A q \in probe : q.live => \A d \in dialog : q.config = Shown(d)
      BY DEF ShownIsProbed
    <3>7. dialog = {} => dialog' = {}
      BY <3>3
    <3>8. \A e \in dialog' : \A q \in probe' : q.live => q.config = Shown(e)
      <4> SUFFICES ASSUME NEW e \in dialog', NEW q \in probe', q.live PROVE q.config = Shown(e)
        OBVIOUS
      <4>1. PICK d \in dialog : TRUE
        BY <3>7
      <4> QED BY <2>1, <3>2, <3>5, <3>6, <4>1
    <3>9. ShownIsProbed'
      BY <3>5, <3>8 DEF ShownIsProbed, Shown
    <3> QED BY <2>1, <3>4, <3>9 DEF Typed, OneRow
  <2> QED BY <2>3, <2>4
<1>15. CASE HandleSubmit
  <2>1. PICK d \in dialog :
          /\ dialog' = {[d EXCEPT !.saving = TRUE]}
          /\ save' = save \union {[id |-> d.id, type |-> d.type, config |-> Shown(d),
                                   found |-> d.found, answer |-> "none"]}
    BY <1>15 DEF HandleSubmit
  <2>2. [id |-> d.id, type |-> d.type, config |-> Shown(d), found |-> d.found, answer |-> "none"]
          \in SaveRequest
    BY <1>a, ShownIsTyped DEF SaveRequest, Form
  <2>3. UNCHANGED <<env, key, opens, probe, home>> /\ save' \subseteq SaveRequest
    BY <1>15, <1>a, <2>1, <2>2 DEF HandleSubmit
  <2> QED BY <1>a, <1>b, <2>1, <2>3, ShowsTheSame
<1>16. ASSUME NEW s \in save, SaveAnswered(s) PROVE Typed' /\ ShownIsProbed'
  <2>1. UNCHANGED <<env, key, opens, home>> /\ save' \subseteq SaveRequest
    BY <1>16, <1>a DEF SaveAnswered
  <2>2. CASE s.answer = "done"
    BY <1>16, <2>1, <2>2, ShowsNothing DEF SaveAnswered
  <2>3. CASE s.answer # "done"
    <3>1. dialog' = {[d EXCEPT !.saving = FALSE] : d \in dialog} /\ probe' = probe
      BY <1>16, <2>3 DEF SaveAnswered
    <3>2. CASE dialog = {}
      <4>1. dialog' = {}
        BY <3>1, <3>2
      <4> QED BY <2>1, <3>1, <4>1 DEF Typed, OneRow, OneDialog, ShownIsProbed
    <3>3. CASE dialog # {}
      <4>1. PICK d \in dialog : dialog = {d}
        BY <3>3 DEF Typed, OneDialog
      <4>2. dialog' = {[d EXCEPT !.saving = FALSE]}
        BY <3>1, <4>1
      <4> QED BY ZenonT(40), <1>a, <1>b, <2>1, <3>1, <4>2, ShowsTheSame
    <3> QED BY <3>2, <3>3
  <2> QED BY <2>2, <2>3
<1> QED BY <1>2, <1>3, <1>4, <1>6, <1>7, <1>8, <1>9, <1>10, <1>11, <1>12, <1>13, <1>14, <1>15, <1>16

\* The steps of the relay leave the dialog and its probes alone.
LEMMA RelayKeepsDialog ==
  ASSUME \/ \E s \in save : ServerSaves(s)
         \/ \E e \in Envs : DeleteEnvironment(e) \/ \E h \in Homes : CreateSession(h, e)
         \/ \E h \in Homes : ArchiveSession(h) \/ DeleteHome(h) \/ RestartSession(h)
         \/ \E k \in Keys : ReplaceSecret(k)
  PROVE  UNCHANGED <<dialog, probe>>
BY DEF ServerSaves, DeleteEnvironment, CreateSession, ArchiveSession, DeleteHome, RestartSession,
       ReplaceSecret

\* The types, and what is shown as available, over the whole of the steps.
LEMMA PageInvariant == EnvironmentsSpec => [](Typed /\ ShownIsProbed)
<1>1. EnvironmentsInit => Typed /\ ShownIsProbed
  BY EnvironmentsAssumption DEF EnvironmentsInit, Typed, OneRow, OneDialog, ShownIsProbed
<1>2. Typed /\ ShownIsProbed /\ [EnvironmentsNext]_environmentsVars => Typed' /\ ShownIsProbed'
  <2> SUFFICES ASSUME Typed, ShownIsProbed, [EnvironmentsNext]_environmentsVars
               PROVE  Typed' /\ ShownIsProbed'
    OBVIOUS
  <2>1. CASE UNCHANGED environmentsVars
    BY <2>1 DEF environmentsVars, Typed, OneRow, OneDialog, ShownIsProbed, Shown
  <2>2. CASE \/ \E s \in save : ServerSaves(s)
             \/ \E e \in Envs : DeleteEnvironment(e) \/ \E h \in Homes : CreateSession(h, e)
             \/ \E h \in Homes : ArchiveSession(h) \/ DeleteHome(h) \/ RestartSession(h)
             \/ \E k \in Keys : ReplaceSecret(k)
    <3>1. Typed'
      BY <2>2, RelayKeepsTypes
    <3>2. UNCHANGED <<dialog, probe>>
      BY <2>2, RelayKeepsDialog
    <3> QED BY <3>1, <3>2 DEF ShownIsProbed, Shown
  <2>3. CASE \/ OpenCreate \/ CloseDialog \/ ChooseType \/ ChoosePlace \/ ChooseSecret
             \/ HandleInstallAssets \/ AssetsInstalled \/ AssetsNotInstalled \/ Probe \/ HandleSubmit
             \/ \E p \in probe : ServerProbes(p) \/ ProbeAnswered(p)
             \/ \E s \in save : SaveAnswered(s)
             \/ \E e \in Envs : OpenEdit(e)
    BY <2>3, PageKeepsProbes
  <2> QED BY <2>1, <2>2, <2>3 DEF EnvironmentsNext
<1> QED BY <1>1, <1>2, PTL DEF EnvironmentsSpec

\* The rows, the page and the sessions are well typed, with at most one
\* dialog.
THEOREM EnvironmentsTypeCorrect == EnvironmentsSpec => []EnvironmentsTypeOK
<1>1. Typed => EnvironmentsTypeOK
  <2> SUFFICES ASSUME Typed PROVE Cardinality(dialog) <= 1
    BY DEF Typed, EnvironmentsTypeOK
  <2>1. CASE dialog = {}
    BY <2>1, FS_EmptySet
  <2>2. CASE dialog # {}
    <3>a. PICK d \in dialog : TRUE
      BY <2>2
    <3>1. dialog = {d}
      BY DEF Typed, OneDialog
    <3>2. Cardinality({d}) = 1
      BY FS_Singleton
    <3> QED BY <3>1, <3>2
  <2> QED BY <2>1, <2>2
<1> QED BY <1>1, PageInvariant, PTL

\* The dialog saves no configuration but one a probe found available,
\* whatever is changed while a probe is under way (environments.tsx:157).
THEOREM ProbedIsSaved == EnvironmentsSpec => []SavedWasProbed
<1>1. EnvironmentsInit => SavedWasProbed
  BY DEF EnvironmentsInit, SavedWasProbed
<1>2. Typed /\ ShownIsProbed /\ SavedWasProbed /\ [EnvironmentsNext]_environmentsVars => SavedWasProbed'
  <2> SUFFICES ASSUME Typed, ShownIsProbed, SavedWasProbed, [EnvironmentsNext]_environmentsVars
               PROVE  SavedWasProbed'
    OBVIOUS
  <2> USE DEF SavedWasProbed
  <2>1. CASE HandleSubmit
    <3>1. PICK d \in dialog :
            /\ d.status = "available"
            /\ save' = save \union {[id |-> d.id, type |-> d.type, config |-> Shown(d),
                                     found |-> d.found, answer |-> "none"]}
      BY <2>1 DEF HandleSubmit
    <3>2. d.found = {Shown(d)}
      BY <3>1 DEF ShownIsProbed
    <3> QED BY <3>1, <3>2
  <2>2. ASSUME NEW s \in save, ServerSaves(s) PROVE SavedWasProbed'
    <3>1. s \in SaveRequest
      BY DEF Typed
    <3>2. ASSUME NEW answer PROVE /\ [s EXCEPT !.answer = answer].found = s.found
                                  /\ [s EXCEPT !.answer = answer].config = s.config
      BY <3>1 DEF SaveRequest
    <3>3. \E answer : save' = (save \ {s}) \union {[s EXCEPT !.answer = answer]}
      BY <2>2 DEF ServerSaves
    <3> QED BY <3>2, <3>3
  <2>3. ASSUME NEW s \in save, SaveAnswered(s) PROVE SavedWasProbed'
    BY <2>3 DEF SaveAnswered
  <2>4. CASE save' = save
    BY <2>4
  <2>5. ASSUME OpenCreate \/ CloseDialog \/ ChooseType \/ ChoosePlace \/ ChooseSecret
               \/ HandleInstallAssets \/ AssetsInstalled \/ AssetsNotInstalled \/ Probe
               \/ (\E p \in probe : ServerProbes(p) \/ ProbeAnswered(p))
               \/ (\E e \in Envs : OpenEdit(e))
        PROVE  save' = save
    BY <2>5 DEF OpenCreate, OpenDialog, CloseDialog, ChooseType, ChoosePlace, ChooseSecret, Reconfigure,
                HandleInstallAssets, AssetsInstalled, AssetsNotInstalled, Probe, ServerProbes,
                ProbeAnswered, OpenEdit
  <2>6. ASSUME \/ \E e \in Envs : DeleteEnvironment(e) \/ (\E h \in Homes : CreateSession(h, e))
               \/ \E h \in Homes : ArchiveSession(h) \/ DeleteHome(h) \/ RestartSession(h)
               \/ \E k \in Keys : ReplaceSecret(k)
        PROVE  save' = save
    BY <2>6 DEF DeleteEnvironment, CreateSession, ArchiveSession, DeleteHome, RestartSession, ReplaceSecret
  <2>7. CASE UNCHANGED environmentsVars
    BY <2>4, <2>7 DEF environmentsVars
  <2> QED BY <2>1, <2>2, <2>3, <2>4, <2>5, <2>6, <2>7 DEF EnvironmentsNext
<1> QED BY <1>1, <1>2, PageInvariant, PTL DEF EnvironmentsSpec

\* What a row reaches depends, the row aside, on the secrets alone.
LEMMA ReachesTheSame ==
  ASSUME UNCHANGED key, NEW row, NEW s
  PROVE  Reaches(row, s)' <=> Reaches(row, s)
BY DEF Reaches, GetProvider, ResolveEnvConfig

\* A secret that a row does not name may be replaced.
LEMMA ReachesWithItsSecret ==
  ASSUME Typed, NEW k \in Keys, NEW to, key' = [key EXCEPT ![k] = to], NEW row \in Row,
         row.config.secret # k, NEW s
  PROVE  Reaches(row, s)' <=> Reaches(row, s)
<1>1. row.config.secret \in Keys \union {0}
  BY DEF Row, Config
<1>2. row.config.secret # 0 => key'[row.config.secret] = key[row.config.secret]
  BY <1>1 DEF Typed
<1>3. ResolveEnvConfig(row)' = ResolveEnvConfig(row)
  BY <1>2 DEF ResolveEnvConfig
<1> QED BY <1>3 DEF Reaches, GetProvider

MovedInv == OnlyMovedSandboxesStay /\ UnmovedAreReached

\* A session that is replaced by one that can be reached, or is over.
LEMMA HomeReplaced ==
  ASSUME Typed, MovedInv, NEW h \in Homes, NEW to, home' = [home EXCEPT ![h] = {to}],
         UNCHANGED <<env, key>>, to.left => to.moved,
         to.state = "live" /\ ~to.moved => \E row \in env[to.env] : Reaches(row, to)
  PROVE  MovedInv'
<1>1. \A g \in Homes : home'[g] = IF g = h THEN {to} ELSE home[g]
  BY DEF Typed
<1>2. OnlyMovedSandboxesStay'
  BY <1>1 DEF MovedInv, OnlyMovedSandboxesStay
<1>3. ASSUME NEW g \in Homes, NEW s \in home'[g], s.state = "live", ~s.moved
      PROVE  \E row \in env'[s.env] : Reaches(row, s)'
  <2>1. \E row \in env[s.env] : Reaches(row, s)
    BY <1>1, <1>3 DEF MovedInv, UnmovedAreReached
  <2> QED BY <2>1, ReachesTheSame
<1>4. UnmovedAreReached'
  BY <1>3 DEF UnmovedAreReached
<1> QED BY <1>2, <1>4 DEF MovedInv

\* A termination leaves a sandbox only where its environment was changed.
LEMMA LeftWasMoved ==
  ASSUME Typed, MovedInv, NEW h \in Homes, NEW s \in home[h], Terminated(s).left
  PROVE  s.moved
<1>1. s \in Housed
  BY DEF Typed
<1>2. s.left \/ (s.state = "live" /\ ~\E row \in env[s.env] : Reaches(row, s))
  BY <1>1, TerminatedHome
<1> QED BY <1>2 DEF MovedInv, OnlyMovedSandboxesStay, UnmovedAreReached

\* A change of rows or secrets marks the sessions whose sandboxes can no
\* longer be reached.
LEMMA HomesMarked ==
  ASSUME Typed, MovedInv, NEW es, home' = Moved(es),
         \A h \in Homes : \A s \in home[h] :
           s.env \notin es => ((\E row \in env[s.env] : Reaches(row, s))
                                 => \E row \in env'[s.env] : Reaches(row, s)')
  PROVE  MovedInv'
<1>1. home \in [Homes -> SUBSET Housed]
  BY DEF Typed
<1>2. ASSUME NEW h \in Homes, NEW s \in home'[h]
      PROVE  /\ s.left => s.moved
             /\ s.state = "live" /\ ~s.moved => \E row \in env'[s.env] : Reaches(row, s)'
  <2>1. PICK was \in home[h] :
          /\ s.env = was.env /\ s.place = was.place /\ s.state = was.state /\ s.left = was.left
          /\ s.moved <=> was.moved \/ was.env \in es
    BY <1>1, <1>2, MovedHomes
  <2>2. s.left => s.moved
    BY <2>1 DEF MovedInv, OnlyMovedSandboxesStay
  <2>3. ASSUME s.state = "live", ~s.moved PROVE \E row \in env'[s.env] : Reaches(row, s)'
    <3>1. was.state = "live" /\ ~was.moved /\ was.env \notin es
      BY <2>1, <2>3
    <3>2. \E row \in env[was.env] : Reaches(row, was)
      BY <3>1 DEF MovedInv, UnmovedAreReached
    <3>3. PICK row \in env'[was.env] : Reaches(row, was)'
      BY <3>1, <3>2
    <3>4. Reaches(row, s)'
      BY <2>1, <3>3 DEF Reaches
    <3> QED BY <2>1, <3>4
  <2> QED BY <2>2, <2>3
<1> QED BY <1>2 DEF MovedInv, OnlyMovedSandboxesStay, UnmovedAreReached

\* Rows that come and go without a session that needs them.
LEMMA RowsChange ==
  ASSUME Typed, MovedInv, UNCHANGED <<key, home>>,
         \A h \in Homes : \A s \in home[h] :
           s.state = "live" /\ ~s.moved => env[s.env] \subseteq env'[s.env]
  PROVE  MovedInv'
<1>1. ASSUME NEW h \in Homes, NEW s \in home[h], s.state = "live", ~s.moved
      PROVE  \E row \in env'[s.env] : Reaches(row, s)'
  <2>1. PICK row \in env[s.env] : Reaches(row, s)
    BY <1>1 DEF MovedInv, UnmovedAreReached
  <2> QED BY <1>1, <2>1, ReachesTheSame
<1> QED BY <1>1 DEF MovedInv, OnlyMovedSandboxesStay, UnmovedAreReached

\* A sandbox outlives its session, or the one that replaces it, only when
\* the environment it was made from, or its secret, has been changed since:
\* the relay finds a sandbox through what its row says (manager.ts:379-397).
THEOREM OnlyMovedStay == EnvironmentsSpec => []OnlyMovedSandboxesStay
<1>1. EnvironmentsInit => MovedInv
  BY DEF EnvironmentsInit, MovedInv, OnlyMovedSandboxesStay, UnmovedAreReached
<1>2. Typed /\ MovedInv /\ [EnvironmentsNext]_environmentsVars => MovedInv'
  <2> SUFFICES ASSUME Typed, MovedInv, [EnvironmentsNext]_environmentsVars
               PROVE  MovedInv'
    OBVIOUS
  <2>a. /\ \A h \in Homes : \A s \in home[h] : s \in Housed /\ s.env \in Envs
        /\ \A e \in Envs : \A row \in env[e] : row \in Row
    BY DEF Typed, Housed
  <2>1. ASSUME NEW s \in save, ServerSaves(s) PROVE MovedInv'
    <3>1. key' = key
      BY <2>1 DEF ServerSaves
    <3>2. CASE Create(s)
      <4>1. PICK e \in Envs : env[e] = {} /\ env' = [env EXCEPT ![e] = {[type |-> s.type, config |-> s.config]}]
        BY <3>2 DEF Create
      <4>2. home' = home /\ \A o \in Envs : env[o] \subseteq env'[o]
        BY <3>2, <4>1 DEF Create, Typed
      <4> QED BY <2>a, <3>1, <4>2, RowsChange
    <3>3. CASE Update(s)
      <4>1. PICK row \in env[s.id] :
              /\ env' = [env EXCEPT ![s.id] = {[row EXCEPT !.config = s.config]}]
              /\ home' = IF row.config = s.config THEN home ELSE Moved({s.id})
        BY <3>3 DEF Update
      <4>2. s.id \in Envs /\ row \in Row
        BY <2>a, <3>3, <4>1 DEF Update
      <4>3. CASE row.config = s.config
        <5>1. [row EXCEPT !.config = s.config] = row
          BY <4>2, <4>3 DEF Row
        <5>2. env[s.id] = {row}
          BY <4>1, <4>2 DEF Typed, OneRow
        <5>3. \A o \in Envs : env[o] \subseteq env'[o]
          BY <4>1, <5>1, <5>2 DEF Typed
        <5> QED BY <2>a, <3>1, <4>1, <4>3, <5>3, RowsChange
      <4>4. CASE row.config # s.config
        <5>1. \A o \in Envs \ {s.id} : env'[o] = env[o]
          BY <4>1 DEF Typed
        <5> QED BY <2>a, <3>1, <4>1, <4>4, <5>1, HomesMarked, ReachesTheSame
      <4> QED BY <4>3, <4>4
    <3>4. CASE UNCHANGED <<env, home>>
      BY <3>1, <3>4, RowsChange
    <3> QED BY <2>1, <3>2, <3>3, <3>4 DEF ServerSaves
  <2>2. ASSUME NEW e \in Envs, DeleteEnvironment(e) PROVE MovedInv'
    <3>1. UNCHANGED <<key, home>> /\ env' = [env EXCEPT ![e] = {}]
      BY <2>2 DEF DeleteEnvironment
    <3>2. \A h \in Homes : \A s \in home[h] : s.state = "live" => s.env # e
      BY <2>2 DEF DeleteEnvironment, Referenced
    <3>3. \A o \in Envs \ {e} : env'[o] = env[o]
      BY <3>1 DEF Typed
    <3> QED BY <2>a, <3>1, <3>2, <3>3, RowsChange
  <2>3. ASSUME NEW e \in Envs, NEW h \in Homes, CreateSession(h, e) PROVE MovedInv'
    <3>1. PICK row \in env[e] :
            /\ Reaches(row, [place |-> ResolveEnvConfig(row).place])
            /\ home' = [home EXCEPT ![h] = {[env |-> e, place |-> ResolveEnvConfig(row).place,
                                             state |-> "live", left |-> FALSE, moved |-> FALSE]}]
      BY <2>3 DEF CreateSession
    <3> DEFINE to == [env |-> e, place |-> ResolveEnvConfig(row).place,
                      state |-> "live", left |-> FALSE, moved |-> FALSE]
    <3>2. Reaches(row, to) /\ to.env = e /\ ~to.left
      BY <3>1 DEF Reaches
    <3>3. home' = [home EXCEPT ![h] = {to}]
      BY <3>1
    <3>4. UNCHANGED <<env, key>>
      BY <2>3 DEF CreateSession
    <3> HIDE DEF to
    <3> QED BY <3>2, <3>3, <3>4, HomeReplaced
  <2>4. ASSUME NEW h \in Homes, ArchiveSession(h) PROVE MovedInv'
    <3>1. PICK s \in home[h] : home' = [home EXCEPT ![h] = {[Terminated(s) EXCEPT !.state = "archived"]}]
      BY <2>4 DEF ArchiveSession
    <3> DEFINE to == [Terminated(s) EXCEPT !.state = "archived"]
    <3>2. Terminated(s) \in Housed /\ Terminated(s).moved = s.moved
      BY <2>a, TerminatedHome
    <3>3. to.state = "archived" /\ to.left = Terminated(s).left /\ to.moved = s.moved
      BY <3>2 DEF Housed
    <3>4. to.left => to.moved
      BY <3>3, LeftWasMoved
    <3>5. UNCHANGED <<env, key>> /\ home' = [home EXCEPT ![h] = {to}]
      BY <2>4, <3>1 DEF ArchiveSession
    <3> HIDE DEF to
    <3> QED BY <3>3, <3>4, <3>5, HomeReplaced
  <2>5. ASSUME NEW h \in Homes, DeleteHome(h) PROVE MovedInv'
    <3>1. PICK s \in home[h] : home' = [home EXCEPT ![h] = {[Terminated(s) EXCEPT !.state = "deleted"]}]
      BY <2>5 DEF DeleteHome
    <3> DEFINE to == [Terminated(s) EXCEPT !.state = "deleted"]
    <3>2. Terminated(s) \in Housed /\ Terminated(s).moved = s.moved
      BY <2>a, TerminatedHome
    <3>3. to.state = "deleted" /\ to.left = Terminated(s).left /\ to.moved = s.moved
      BY <3>2 DEF Housed
    <3>4. to.left => to.moved
      BY <3>3, LeftWasMoved
    <3>5. UNCHANGED <<env, key>> /\ home' = [home EXCEPT ![h] = {to}]
      BY <2>5, <3>1 DEF DeleteHome
    <3> HIDE DEF to
    <3> QED BY <3>3, <3>4, <3>5, HomeReplaced
  <2>6. ASSUME NEW h \in Homes, RestartSession(h) PROVE MovedInv'
    <3>1. PICK s \in home[h] : \E row \in env[s.env] :
            /\ Reaches(row, [place |-> ResolveEnvConfig(row).place])
            /\ home' = [home EXCEPT ![h] = {[Terminated(s) EXCEPT !.place = ResolveEnvConfig(row).place]}]
      BY <2>6 DEF RestartSession
    <3>2. PICK row \in env[s.env] :
            /\ Reaches(row, [place |-> ResolveEnvConfig(row).place])
            /\ home' = [home EXCEPT ![h] = {[Terminated(s) EXCEPT !.place = ResolveEnvConfig(row).place]}]
      BY <3>1
    <3> DEFINE to == [Terminated(s) EXCEPT !.place = ResolveEnvConfig(row).place]
    <3>3. Terminated(s) \in Housed /\ Terminated(s).moved = s.moved /\ Terminated(s).env = s.env
      BY <2>a, TerminatedHome
    <3>4. to.left = Terminated(s).left /\ to.moved = s.moved /\ to.env = s.env
          /\ to.place = ResolveEnvConfig(row).place
      BY <3>3 DEF Housed
    <3>5. to.left => to.moved
      BY <3>4, LeftWasMoved
    <3>6. Reaches(row, to)
      BY <3>2, <3>4 DEF Reaches
    <3>7. UNCHANGED <<env, key>> /\ home' = [home EXCEPT ![h] = {to}]
      BY <2>6, <3>2 DEF RestartSession
    <3> HIDE DEF to
    <3> QED BY <3>4, <3>5, <3>6, <3>7, HomeReplaced
  <2>7. ASSUME NEW k \in Keys, ReplaceSecret(k) PROVE MovedInv'
    <3> DEFINE es == {e \in Envs : \E row \in env[e] : row.config.secret = k}
    <3>1. PICK to : key' = [key EXCEPT ![k] = to]
      BY <2>7 DEF ReplaceSecret
    <3>2. home' = Moved(es) /\ env' = env
      BY <2>7 DEF ReplaceSecret
    <3>3. \A e \in Envs \ es : \A row \in env[e] : row.config.secret # k
      OBVIOUS
    <3> HIDE DEF es
    <3>4. \A h \in Homes : \A s \in home[h] :
            s.env \notin es => ((\E row \in env[s.env] : Reaches(row, s))
                                  => \E row \in env'[s.env] : Reaches(row, s)')
      BY <2>a, <3>1, <3>2, <3>3, ReachesWithItsSecret
    <3> QED BY <3>2, <3>4, HomesMarked
  <2>8. CASE UNCHANGED <<env, key, home>>
    BY <2>8, RowsChange
  <2>9. ASSUME OpenCreate \/ CloseDialog \/ ChooseType \/ ChoosePlace \/ ChooseSecret
               \/ HandleInstallAssets \/ AssetsInstalled \/ AssetsNotInstalled \/ Probe \/ HandleSubmit
               \/ (\E p \in probe : ServerProbes(p) \/ ProbeAnswered(p))
               \/ (\E s \in save : SaveAnswered(s)) \/ (\E e \in Envs : OpenEdit(e))
        PROVE  UNCHANGED <<env, key, home>>
    BY <2>9 DEF OpenCreate, OpenDialog, CloseDialog, ChooseType, ChoosePlace, ChooseSecret, Reconfigure,
                HandleInstallAssets, AssetsInstalled, AssetsNotInstalled, Probe, HandleSubmit,
                ServerProbes, ProbeAnswered, SaveAnswered, OpenEdit
  <2>10. CASE UNCHANGED environmentsVars
    BY <2>8, <2>10 DEF environmentsVars
  <2> QED BY <2>1, <2>2, <2>3, <2>4, <2>5, <2>6, <2>7, <2>8, <2>9, <2>10 DEF EnvironmentsNext
<1>3. MovedInv => OnlyMovedSandboxesStay
  BY DEF MovedInv
<1> QED BY <1>1, <1>2, <1>3, PageInvariant, PTL DEF EnvironmentsSpec

-----------------------------------------------------------------------------
(***************************************************************************)
(* Secrets and the page that lists them, for any variables and domains.    *)
(* As long as the edits and lists of a variable do not overlap, its row is *)
(* what the page shows, or what the answer under way is going to leave to  *)
(* be shown (InOrder).                                                     *)
(***************************************************************************)

EditType == [of : Variables, body : Bodies, answer : {"none", "ok", "error"}]

(* one row at most has a variable *)
OneSecret(v) == secret[v] = {} \/ \E s \in Kept : secret[v] = {s}

(* the page shows what there is *)
RowShown(v) ==
  \/ secret[v] = {} /\ listing[v] = {} /\ drawn[v] = {}
  \/ \E s, t \in Kept : /\ secret[v] = {s} /\ listing[v] = {t} /\ s.enabled = t.enabled
                        /\ drawn[v] = {s.domains}

(* a row that is drawn, of a secret that is there, shows the domains of it *)
RowIsTrue(v) ==
  drawn[v] = {} \/ secret[v] = {} \/ \E s \in Kept : secret[v] = {s} /\ drawn[v] = {s.domains}

(* what an edit that was served has left to be shown *)
ToBeShown(v, r) ==
  IF r.body.what = "domains"
  THEN \E s, t \in Kept : /\ secret[v] = {s} /\ listing[v] = {t} /\ s.enabled = t.enabled
                          /\ s.domains = r.body.domains /\ \E d \in SUBSET Domains : drawn[v] = {d}
  ELSE RowIsTrue(v)

InOrder(v) ==
  /\ \A q, r \in edits : q.of = v /\ r.of = v => q = r
  /\ (\A r \in edits : r.of = v => r.answer # "ok") =>
       IF lists = {} THEN RowShown(v) ELSE RowIsTrue(v) /\ \A l \in lists : l[v] = secret[v]
  /\ \A r \in edits : r.of = v /\ r.answer = "ok" /\ lists = {} => ToBeShown(v, r)

PageFollows == SecretsTypeOK /\ \A v \in Variables : OneSecret(v) /\ (v \notin loose => InOrder(v))

\* What a request does to the row of its variable.
LEMMA RowServed ==
  ASSUME SecretsTypeOK, NEW v \in Variables, OneSecret(v), NEW body \in Bodies, Served(v, body)
  PROVE  /\ secret' \in [Variables -> SUBSET Kept]
         /\ \A w \in Variables : w # v => secret'[w] = secret[w]
         /\ OneSecret(v)'
         /\ body.what = "create" => secret[v] = {}
         /\ body.what # "create" => secret[v] # {}
         /\ body.what = "delete" => secret'[v] = {}
         /\ body.what \notin {"create", "delete"} =>
              \E s, t \in Kept : /\ secret[v] = {s} /\ secret'[v] = {t}
                                 /\ body.what # "toggle" => t.enabled = s.enabled
                                 /\ body.what # "domains" => t.domains = s.domains
                                 /\ body.what = "domains" => t.domains = body.domains
<1>0. secret \in [Variables -> SUBSET Kept]
  BY DEF SecretsTypeOK
<1>1. CASE body.what = "create"
  <2>1. secret[v] = {} /\ secret' = [secret EXCEPT ![v] = {[enabled |-> body.enabled, domains |-> body.domains]}]
    BY <1>1 DEF Served, CreateSecret
  <2>2. body.enabled \in BOOLEAN /\ body.domains \subseteq Domains
    BY <1>1 DEF Bodies
  <2>3. [enabled |-> body.enabled, domains |-> body.domains] \in Kept
    BY <2>2 DEF Kept
  <2> QED BY <1>0, <1>1, <2>1, <2>3 DEF OneSecret
<1>2. CASE body.what = "delete"
  BY <1>0, <1>2 DEF Served, Delete, OneSecret
<1>3. CASE body.what \notin {"create", "delete"}
  <2> DEFINE New(s) == CASE body.what = "toggle" -> [s EXCEPT !.enabled = body.enabled]
                         [] body.what = "domains" -> [s EXCEPT !.domains = body.domains]
                         [] OTHER -> s
  <2>1. secret[v] # {} /\ secret' = [secret EXCEPT ![v] = {New(s) : s \in secret[v]}]
    BY <1>3 DEF Served, UpdateSecret
  <2>2. PICK s \in Kept : secret[v] = {s}
    BY <2>1 DEF OneSecret
  <2>3. /\ body.what = "toggle" => body.enabled \in BOOLEAN
        /\ body.what = "domains" => body.domains \subseteq Domains
    BY DEF Bodies
  <2>4. /\ New(s) \in Kept
        /\ body.what # "toggle" => New(s).enabled = s.enabled
        /\ body.what # "domains" => New(s).domains = s.domains
        /\ body.what = "domains" => New(s).domains = body.domains
    BY <2>3 DEF Kept
  <2> HIDE DEF New
  <2>5. secret'[v] = {New(s)} /\ \A w \in Variables : w # v => secret'[w] = secret[w]
    BY <1>0, <2>1, <2>2
  <2> QED BY <1>0, <1>3, <2>1, <2>2, <2>4, <2>5 DEF OneSecret
<1> QED BY <1>1, <1>2, <1>3

\* The page begins as the rows are: there are none.
LEMMA SecretsBegin == SecretsInit => PageFollows
BY DEF SecretsInit, PageFollows, SecretsTypeOK, OneSecret, InOrder, RowShown

\* An edit, its answer, a list or a reload keeps the page to the rows of every
\* variable whose edits and lists do not overlap.
LEMMA SecretsStep ==
  ASSUME PageFollows, [SecretsNext]_secretsVars
  PROVE  PageFollows'
<1>0. /\ SecretsTypeOK /\ \A v \in Variables : OneSecret(v) /\ (v \notin loose => InOrder(v))
      /\ edits \subseteq EditType
  BY DEF PageFollows, SecretsTypeOK, EditType
\* the row of a variable that nothing touches
<1>k. ASSUME NEW w \in Variables, secret'[w] = secret[w], listing'[w] = listing[w], drawn'[w] = drawn[w]
      PROVE  (RowShown(w)' <=> RowShown(w)) /\ (RowIsTrue(w)' <=> RowIsTrue(w)) /\ (OneSecret(w)' <=> OneSecret(w))
             /\ \A r : (ToBeShown(w, r)' <=> ToBeShown(w, r))
  <2>1. (RowShown(w)' <=> RowShown(w)) /\ (RowIsTrue(w)' <=> RowIsTrue(w)) /\ (OneSecret(w)' <=> OneSecret(w))
    BY <1>k DEF RowShown, RowIsTrue, OneSecret
  <2>2. ASSUME NEW r PROVE ToBeShown(w, r)' <=> ToBeShown(w, r)
    BY <1>k, <2>1 DEF ToBeShown
  <2> QED BY <2>1, <2>2
<1>u. ASSUME NEW w \in Variables, secret'[w] = secret[w], listing'[w] = listing[w], drawn'[w] = drawn[w],
             \A q : q.of = w => (q \in edits' <=> q \in edits), UNCHANGED lists, w \notin loose
      PROVE  InOrder(w)'
  <2>1. InOrder(w)
    BY <1>0, <1>u
  <2>2. \A q, r \in edits' : q.of = w /\ r.of = w => q = r
    BY <1>u, <2>1 DEF InOrder
  <2>3. ASSUME \A r \in edits' : r.of = w => r.answer # "ok"
        PROVE  IF lists' = {} THEN RowShown(w)' ELSE RowIsTrue(w)' /\ \A l \in lists' : l[w] = secret'[w]
    <3>1. \A r \in edits : r.of = w => r.answer # "ok"
      BY <1>u, <2>3
    <3> QED BY <1>k, <1>u, <2>1, <3>1 DEF InOrder
  <2>4. ASSUME NEW r \in edits', r.of = w, r.answer = "ok", lists' = {} PROVE ToBeShown(w, r)'
    BY <1>k, <1>u, <2>1, <2>4 DEF InOrder
  <2> QED BY <2>2, <2>3, <2>4 DEF InOrder
\* a request is sent
<1>a. ASSUME NEW v \in Variables, NEW body \in Bodies, Ask(v, body) PROVE PageFollows'
  <2> DEFINE r == [of |-> v, body |-> body, answer |-> "none"]
  <2>1. /\ edits' = edits \union {r} /\ UNCHANGED <<secret, listing, drawn, lists>>
        /\ loose' = IF UnderWay(v) # {} \/ lists # {} THEN loose \union {v} ELSE loose
    BY <1>a DEF Ask
  <2>2. r.of = v /\ r.answer = "none" /\ r \in EditType
    BY DEF EditType
  <2> HIDE DEF r
  <2>3. SecretsTypeOK'
    BY <1>0, <2>1, <2>2 DEF SecretsTypeOK, EditType
  <2>4. ASSUME NEW w \in Variables PROVE OneSecret(w)' /\ (w \notin loose' => InOrder(w)')
    <3>1. OneSecret(w)'
      BY <1>0, <2>1 DEF OneSecret
    <3>2. CASE w # v
      BY <1>u, <2>1, <2>2, <3>1, <3>2
    <3>3. CASE w = v /\ w \notin loose'
      <4>1. w \notin loose /\ lists = {} /\ \A q \in edits : q.of # v
        BY <2>1, <3>3 DEF UnderWay
      <4>2. RowShown(w)
        BY <1>0, <3>3, <4>1 DEF InOrder
      <4>3. InOrder(w)'
        BY <2>1, <2>2, <3>3, <4>1, <4>2 DEF InOrder, RowShown
      <4> QED BY <3>1, <4>3
    <3> QED BY <3>1, <3>2, <3>3
  <2> QED BY <2>3, <2>4 DEF PageFollows
<1>1. ASSUME NEW v \in Variables, HandleAddSecret(v) PROVE PageFollows'
  <2>1. PICK enabled \in BOOLEAN, domains \in SUBSET Domains :
          Ask(v, [what |-> "create", enabled |-> enabled, domains |-> domains])
    BY <1>1 DEF HandleAddSecret
  <2>2. [what |-> "create", enabled |-> enabled, domains |-> domains] \in Bodies
    BY DEF Bodies
  <2> QED BY <1>a, <2>1, <2>2
<1>2. ASSUME NEW v \in Variables, HandleToggle(v) PROVE PageFollows'
  <2>1. PICK s \in listing[v] : Ask(v, [what |-> "toggle", enabled |-> ~s.enabled])
    BY <1>2 DEF HandleToggle
  <2>2. [what |-> "toggle", enabled |-> ~s.enabled] \in Bodies
    BY DEF Bodies
  <2> QED BY <1>a, <2>1, <2>2
<1>3. ASSUME NEW v \in Variables, HandleUpdateValue(v) PROVE PageFollows'
  <2>1. [what |-> "value"] \in Bodies
    BY DEF Bodies
  <2> QED BY <1>3, <1>a, <2>1 DEF HandleUpdateValue
<1>4. ASSUME NEW v \in Variables, HandleDelete(v) PROVE PageFollows'
  <2>1. [what |-> "delete"] \in Bodies
    BY DEF Bodies
  <2> QED BY <1>4, <1>a, <2>1 DEF HandleDelete
<1>5. ASSUME NEW v \in Variables, HandleSaveDomains(v) PROVE PageFollows'
  <2>1. PICK domains \in drawn[v], d \in Domains :
          Ask(v, [what |-> "domains", domains |-> IF d \in domains THEN domains \ {d} ELSE domains \union {d}])
    BY <1>5 DEF HandleSaveDomains
  <2>2. (IF d \in domains THEN domains \ {d} ELSE domains \union {d}) \in SUBSET Domains
    BY <1>0, <2>1 DEF SecretsTypeOK
  <2>3. [what |-> "domains", domains |-> IF d \in domains THEN domains \ {d} ELSE domains \union {d}] \in Bodies
    BY <2>2 DEF Bodies
  <2> QED BY <1>a, <2>1, <2>3
\* the relay serves a request, or refuses it
<1>6. ASSUME NEW r \in edits, ServerAnswers(r) PROVE PageFollows'
  <2>0. /\ r.of \in Variables /\ r.body \in Bodies /\ r.answer = "none" /\ r \in EditType
        /\ UNCHANGED <<listing, drawn, lists, loose>>
    BY <1>0, <1>6 DEF ServerAnswers, EditType
  <2>1. CASE Served(r.of, r.body) /\ edits' = (edits \ {r}) \union {[r EXCEPT !.answer = "ok"]}
    <3> DEFINE v == r.of
               n == [r EXCEPT !.answer = "ok"]
    <3>1. n.of = v /\ n.body = r.body /\ n.answer = "ok" /\ n \in EditType
      BY <2>0 DEF EditType
    <3>2. /\ secret' \in [Variables -> SUBSET Kept]
          /\ \A w \in Variables : w # v => secret'[w] = secret[w]
          /\ OneSecret(v)'
      BY <1>0, <2>0, <2>1, RowServed
    <3> HIDE DEF n
    <3>3. SecretsTypeOK'
      BY <1>0, <2>0, <2>1, <3>1, <3>2 DEF SecretsTypeOK, EditType, n
    <3>4. ASSUME NEW w \in Variables, w # v PROVE OneSecret(w)' /\ (w \notin loose' => InOrder(w)')
      <4>1. \A q : q.of = w => (q \in edits' <=> q \in edits)
        BY <2>1, <3>1, <3>4 DEF n
      <4> QED BY <1>0, <1>k, <1>u, <2>0, <3>2, <3>4, <4>1
    <3>5. ASSUME v \notin loose PROVE InOrder(v)'
      <4>1. InOrder(v) /\ \A q \in edits : q.of = v => q = r
        BY <1>0, <1>6, <2>0, <3>5 DEF InOrder
      <4>2. \A q \in edits' : q.of = v => q = n
        BY <2>1, <4>1 DEF n
      <4>3. ASSUME lists = {} PROVE ToBeShown(v, n)'
        <5>1. RowShown(v)
          BY <2>0, <4>1, <4>3 DEF InOrder
        <5>2. CASE r.body.what = "create"
          <6>1. secret[v] = {}
            BY <1>0, <2>0, <2>1, <5>2, RowServed
          <6>2. drawn'[v] = {}
            BY <2>0, <5>1, <6>1 DEF RowShown
          <6> QED BY <3>1, <5>2, <6>2 DEF ToBeShown, RowIsTrue
        <5>3. CASE r.body.what = "delete"
          <6>1. secret'[v] = {}
            BY <1>0, <2>0, <2>1, <5>3, RowServed
          <6> QED BY <3>1, <5>3, <6>1 DEF ToBeShown, RowIsTrue
        <5>4. CASE r.body.what \notin {"create", "delete"}
          <6>1. PICK s, t \in Kept : /\ secret[v] = {s} /\ secret'[v] = {t}
                                     /\ r.body.what # "toggle" => t.enabled = s.enabled
                                     /\ r.body.what # "domains" => t.domains = s.domains
                                     /\ r.body.what = "domains" => t.domains = r.body.domains
            BY <1>0, <2>0, <2>1, <5>4, RowServed
          <6>2. PICK y \in Kept : listing[v] = {y} /\ s.enabled = y.enabled /\ drawn[v] = {s.domains}
            BY <5>1, <6>1 DEF RowShown
          <6>3. CASE r.body.what = "domains"
            <7>1. s.domains \in SUBSET Domains
              BY DEF Kept
            <7>2. t.enabled = y.enabled /\ t.domains = n.body.domains /\ n.body.what = "domains"
              BY <3>1, <6>1, <6>2, <6>3
            <7>3. secret'[v] = {t} /\ listing'[v] = {y} /\ drawn'[v] = {s.domains}
              BY <2>0, <6>1, <6>2
            <7> QED BY <7>1, <7>2, <7>3 DEF ToBeShown
          <6>4. CASE r.body.what # "domains"
            BY <2>0, <3>1, <6>1, <6>2, <6>4 DEF ToBeShown, RowIsTrue
          <6> QED BY <6>3, <6>4
        <5> QED BY <5>2, <5>3, <5>4
      <4>4. n \in edits' /\ n.of = v /\ n.answer = "ok"
        BY <2>1, <3>1 DEF n
      <4> QED BY <2>0, <4>2, <4>3, <4>4 DEF InOrder
    <3> QED BY <2>0, <3>2, <3>3, <3>4, <3>5 DEF PageFollows
  <2>2. CASE UNCHANGED secret /\ edits' = (edits \ {r}) \union {[r EXCEPT !.answer = "error"]}
    <3> DEFINE v == r.of
               n == [r EXCEPT !.answer = "error"]
    <3>1. n.of = v /\ n.body = r.body /\ n.answer = "error" /\ n \in EditType
      BY <2>0 DEF EditType
    <3> HIDE DEF n
    <3>3. SecretsTypeOK'
      BY <1>0, <2>0, <2>2, <3>1 DEF SecretsTypeOK, EditType, n
    <3>4. ASSUME NEW w \in Variables, w # v PROVE OneSecret(w)' /\ (w \notin loose' => InOrder(w)')
      <4>1. \A q : q.of = w => (q \in edits' <=> q \in edits)
        BY <2>2, <3>1, <3>4 DEF n
      <4> QED BY <1>0, <1>k, <1>u, <2>0, <2>2, <3>4, <4>1
    <3>5. OneSecret(v)'
      BY <1>0, <2>0, <2>2 DEF OneSecret
    <3>6. ASSUME v \notin loose PROVE InOrder(v)'
      <4>1. InOrder(v) /\ \A q \in edits : q.of = v => q = r
        BY <1>0, <1>6, <2>0, <3>6 DEF InOrder
      <4>2. \A q \in edits' : q.of = v => q = n
        BY <2>2, <4>1 DEF n
      <4>3. IF lists = {} THEN RowShown(v) ELSE RowIsTrue(v) /\ \A l \in lists : l[v] = secret[v]
        BY <2>0, <4>1 DEF InOrder
      <4>4. (RowShown(v)' <=> RowShown(v)) /\ (RowIsTrue(v)' <=> RowIsTrue(v))
        BY <1>k, <2>0, <2>2
      <4> QED BY <2>0, <2>2, <3>1, <4>2, <4>3, <4>4 DEF InOrder
    <3> QED BY <2>0, <3>3, <3>4, <3>5, <3>6 DEF PageFollows
  <2> QED BY <1>6, <2>1, <2>2 DEF ServerAnswers
\* the page hears the answer
<1>7. ASSUME NEW r \in edits, PageHears(r) PROVE PageFollows'
  <2>0. /\ r.of \in Variables /\ r.body \in Bodies /\ r.answer \in {"ok", "error"} /\ edits' = edits \ {r}
        /\ UNCHANGED <<secret, listing>>
        /\ loose' = IF r.answer = "ok" /\ lists # {} THEN Variables ELSE loose
    BY <1>0, <1>7 DEF PageHears, EditType
  <2> DEFINE v == r.of
  <2>1. /\ r.body.what = "domains" /\ r.answer = "ok" => drawn' = [drawn EXCEPT ![v] = {r.body.domains : d \in @}]
        /\ ~(r.body.what = "domains" /\ r.answer = "ok") => drawn' = drawn
        /\ r.body.what # "domains" /\ r.answer = "ok" => lists' = lists \union {secret}
        /\ ~(r.body.what # "domains" /\ r.answer = "ok") => lists' = lists
    BY <1>0, <1>7, <2>0 DEF PageHears, ShowsIfSaved, SecretsTypeOK
  <2>2. SecretsTypeOK'
    <3>1. r.body.what = "domains" => r.body.domains \in SUBSET Domains
      BY <2>0 DEF Bodies
    <3>2. drawn' \in [Variables -> SUBSET SUBSET Domains]
      <4>1. CASE r.body.what = "domains" /\ r.answer = "ok"
        <5>1. {r.body.domains : d \in drawn[v]} \in SUBSET SUBSET Domains
          BY <3>1, <4>1
        <5> QED BY <1>0, <2>1, <4>1, <5>1 DEF SecretsTypeOK
      <4> QED BY <1>0, <2>1, <4>1 DEF SecretsTypeOK
    <3>3. lists' \subseteq [Variables -> SUBSET Kept]
      BY <1>0, <2>1 DEF SecretsTypeOK
    <3> QED BY <1>0, <2>0, <3>2, <3>3 DEF SecretsTypeOK
  <2>3. \A w \in Variables : OneSecret(w)'
    BY <1>0, <2>0 DEF OneSecret
  <2>4. ASSUME NEW w \in Variables, w \notin loose' PROVE InOrder(w)'
    <3>1. w \notin loose /\ (r.answer = "ok" => lists = {}) /\ InOrder(w)
      BY <1>0, <2>0, <2>4
    <3>2. \A p, q \in edits' : p.of = w /\ q.of = w => p = q
      BY <2>0, <3>1 DEF InOrder
    <3>3. CASE r.answer = "error"
      <4>1. UNCHANGED <<lists, drawn, secret, listing>>
        BY <2>0, <2>1, <3>3
      <4>2. (RowShown(w)' <=> RowShown(w)) /\ (RowIsTrue(w)' <=> RowIsTrue(w)) /\ \A q : (ToBeShown(w, q)' <=> ToBeShown(w, q))
        BY <1>k, <4>1
      <4>3. (\A q \in edits' : q.of = w => q.answer # "ok") => (\A q \in edits : q.of = w => q.answer # "ok")
        BY <2>0, <3>3
      <4> QED BY <2>0, <3>1, <3>2, <4>1, <4>2, <4>3 DEF InOrder
    <3>4. CASE r.answer = "ok" /\ r.body.what = "domains"
      <4>1. lists = {} /\ lists' = {}
        BY <2>1, <3>1, <3>4
      <4>2. CASE w # v
        <5>1. drawn'[w] = drawn[w]
          BY <1>0, <2>0, <2>1, <3>4, <4>2 DEF SecretsTypeOK
        <5>2. \A q : q.of = w => (q \in edits' <=> q \in edits)
          BY <2>0, <4>2
        <5> QED BY <1>u, <2>0, <3>1, <4>1, <5>1, <5>2
      <4>3. CASE w = v
        <5>1. ToBeShown(w, r)
          BY <3>1, <3>4, <4>1, <4>3 DEF InOrder
        <5>2. PICK s, t \in Kept, d \in SUBSET Domains :
                /\ secret[w] = {s} /\ listing[w] = {t} /\ s.enabled = t.enabled
                /\ s.domains = r.body.domains /\ drawn[w] = {d}
          BY <3>4, <5>1 DEF ToBeShown
        <5>3. drawn'[w] = {s.domains}
          BY <1>0, <2>1, <3>4, <4>3, <5>2 DEF SecretsTypeOK
        <5>4. RowShown(w)'
          BY <2>0, <5>2, <5>3 DEF RowShown
        <5>5. \A q \in edits' : q.of # w
          BY <1>7, <2>0, <3>1, <4>3 DEF InOrder
        <5> QED BY <3>2, <4>1, <5>4, <5>5 DEF InOrder
      <4> QED BY <4>2, <4>3
    <3>5. CASE r.answer = "ok" /\ r.body.what # "domains"
      <4>1. lists = {} /\ lists' = {secret} /\ UNCHANGED drawn
        BY <2>1, <3>1, <3>5
      <4>2. RowIsTrue(w)' <=> RowIsTrue(w)
        BY <1>k, <2>0, <4>1
      <4>3. CASE \A q \in edits' : q.of = w => q.answer # "ok"
        <5>1. RowIsTrue(w)
          <6>1. CASE w = v
            BY <1>7, <3>1, <3>5, <4>1, <6>1 DEF InOrder, ToBeShown
          <6>2. CASE w # v
            <7>1. \A q \in edits : q.of = w => q.answer # "ok"
              BY <2>0, <4>3, <6>2
            <7>2. RowShown(w)
              BY <3>1, <4>1, <7>1 DEF InOrder
            <7> QED BY <7>2 DEF RowShown, RowIsTrue
          <6> QED BY <6>1, <6>2
        <5> QED BY <2>0, <3>2, <4>1, <4>2, <5>1 DEF InOrder
      <4>4. CASE ~\A q \in edits' : q.of = w => q.answer # "ok"
        BY <3>2, <4>1, <4>4 DEF InOrder
      <4> QED BY <4>3, <4>4
    <3> QED BY <2>0, <3>3, <3>4, <3>5
  <2> QED BY <2>2, <2>3, <2>4 DEF PageFollows
\* a list arrives
<1>8. ASSUME NEW l \in lists, LoadSecrets(l) PROVE PageFollows'
  <2>0. /\ lists' = lists \ {l} /\ listing' = l /\ UNCHANGED <<secret, edits>> /\ l \in [Variables -> SUBSET Kept]
        /\ loose' = loose \union {v \in Variables : UnderWay(v) # {}}
        /\ drawn' = [v \in Variables |-> IF l[v] = {} THEN {}
                       ELSE IF drawn[v] = {} THEN {s.domains : s \in l[v]} ELSE drawn[v]]
    BY <1>0, <1>8 DEF LoadSecrets, SecretsTypeOK
  <2>1. SecretsTypeOK'
    <3>1. \A v \in Variables : {s.domains : s \in l[v]} \in SUBSET SUBSET Domains
      BY <2>0 DEF Kept
    <3>2. drawn' \in [Variables -> SUBSET SUBSET Domains]
      BY <1>0, <2>0, <3>1 DEF SecretsTypeOK
    <3> QED BY <1>0, <2>0, <3>2 DEF SecretsTypeOK
  <2>2. \A w \in Variables : OneSecret(w)'
    BY <1>0, <2>0 DEF OneSecret
  <2>3. ASSUME NEW w \in Variables, w \notin loose' PROVE InOrder(w)'
    <3>1. w \notin loose /\ InOrder(w) /\ \A q \in edits : q.of # w
      BY <1>0, <2>0, <2>3 DEF UnderWay
    <3>2. RowIsTrue(w) /\ \A k \in lists : k[w] = secret[w]
      BY <1>8, <3>1 DEF InOrder
    <3>3. l[w] = secret[w] /\ listing'[w] = secret[w]
      BY <2>0, <3>2
    <3>4. \/ secret[w] = {} /\ drawn'[w] = {}
          \/ \E s \in Kept : secret[w] = {s} /\ drawn'[w] = {s.domains}
      <4>1. CASE secret[w] = {}
        BY <2>0, <3>3, <4>1
      <4>2. CASE secret[w] # {}
        <5>1. PICK s \in Kept : secret[w] = {s}
          BY <1>0, <4>2 DEF OneSecret
        <5>2. drawn[w] # {} => drawn[w] = {s.domains}
          BY <3>2, <5>1 DEF RowIsTrue
        <5>3. drawn'[w] = {s.domains}
          BY <2>0, <3>3, <5>1, <5>2
        <5> QED BY <5>1, <5>3
      <4> QED BY <4>1, <4>2
    <3>5. RowShown(w)' /\ RowIsTrue(w)'
      BY <2>0, <3>3, <3>4 DEF RowShown, RowIsTrue
    <3> QED BY <2>0, <3>1, <3>2, <3>5 DEF InOrder
  <2> QED BY <2>1, <2>2, <2>3 DEF PageFollows
\* rows are drawn anew
<1>9. CASE ShowAnotherKind
  <2>0. /\ UNCHANGED <<secret, listing, edits, lists>>
        /\ loose' = loose \union {v \in Variables : listing[v] # secret[v] \/ UnderWay(v) # {}}
        /\ drawn' = [v \in Variables |-> {s.domains : s \in listing[v]}]
    BY <1>9 DEF ShowAnotherKind
  <2>1. SecretsTypeOK'
    <3>1. \A v \in Variables : {s.domains : s \in listing[v]} \in SUBSET SUBSET Domains
      BY <1>0 DEF SecretsTypeOK, Kept
    <3> QED BY <1>0, <2>0, <3>1 DEF SecretsTypeOK
  <2>2. \A w \in Variables : OneSecret(w)'
    BY <1>0, <2>0 DEF OneSecret
  <2>3. ASSUME NEW w \in Variables, w \notin loose' PROVE InOrder(w)'
    <3>1. w \notin loose /\ InOrder(w) /\ listing[w] = secret[w] /\ \A q \in edits : q.of # w
      BY <1>0, <2>0, <2>3 DEF UnderWay
    <3>2. \/ secret[w] = {} /\ drawn'[w] = {}
          \/ \E s \in Kept : secret[w] = {s} /\ drawn'[w] = {s.domains}
      <4>1. CASE secret[w] = {}
        BY <2>0, <3>1, <4>1
      <4>2. CASE secret[w] # {}
        <5>1. PICK s \in Kept : secret[w] = {s}
          BY <1>0, <4>2 DEF OneSecret
        <5>3. drawn'[w] = {s.domains}
          BY <2>0, <3>1, <5>1
        <5> QED BY <5>1, <5>3
      <4> QED BY <4>1, <4>2
    <3>5. RowShown(w)' /\ RowIsTrue(w)'
      BY <2>0, <3>1, <3>2 DEF RowShown, RowIsTrue
    <3>6. lists # {} => \A l \in lists : l[w] = secret[w]
      BY <3>1 DEF InOrder
    <3> QED BY <2>0, <3>1, <3>5, <3>6 DEF InOrder
  <2> QED BY <2>1, <2>2, <2>3 DEF PageFollows
<1>10. CASE UNCHANGED secretsVars
  BY <1>0, <1>k, <1>u, <1>10 DEF secretsVars, PageFollows, SecretsTypeOK
<1> QED BY <1>1, <1>2, <1>3, <1>4, <1>5, <1>6, <1>7, <1>8, <1>9, <1>10 DEF SecretsNext

\* The rows of secrets, the page and what is under way between them are well typed.
THEOREM SecretsTypeCorrect == SecretsSpec => []SecretsTypeOK
<1>1. PageFollows => SecretsTypeOK
  BY DEF PageFollows
<1> QED BY <1>1, SecretsBegin, SecretsStep, PTL DEF SecretsSpec

\* What the page shows of a secret is how a Gondolin sandbox is given it
\* (settings.tsx, secrets.service.ts: getSecretMaterial), unless its edits or
\* lists overlapped: one edit at a time, what its answer leaves to be shown is
\* shown by the list, or the row, that follows it.
THEOREM StaleRowsMislead == SecretsSpec => []OnlyStaleRowsMislead
<1>1. PageFollows => OnlyStaleRowsMislead
  <2> SUFFICES ASSUME PageFollows, NEW v \in Variables \ loose, UnderWay(v) = {}, lists = {}
               PROVE  /\ v \in GondolinHookSecrets
                           <=> (\E s \in listing[v] : s.enabled) /\ (\E domains \in drawn[v] : domains # {})
                      /\ v \in DirectEnv("gondolin")
                           <=> (\E s \in listing[v] : s.enabled) /\ {} \in drawn[v]
    BY DEF OnlyStaleRowsMislead
  <2>1. RowShown(v)
    <3>1. \A q \in edits : q.of # v
      BY DEF UnderWay
    <3> QED BY <3>1 DEF PageFollows, InOrder
  <2>2. CASE secret[v] = {} /\ listing[v] = {} /\ drawn[v] = {}
    BY <2>2 DEF GondolinHookSecrets, DirectEnv, Enabled, Restricted
  <2>3. ASSUME NEW s \in Kept, NEW t \in Kept, secret[v] = {s}, listing[v] = {t}, s.enabled = t.enabled,
               drawn[v] = {s.domains}
        PROVE  /\ v \in GondolinHookSecrets
                    <=> (\E x \in listing[v] : x.enabled) /\ (\E domains \in drawn[v] : domains # {})
               /\ v \in DirectEnv("gondolin")
                    <=> (\E x \in listing[v] : x.enabled) /\ {} \in drawn[v]
    <3>1. /\ Enabled(v) <=> s.enabled
          /\ Restricted(v) <=> s.domains # {}
          /\ (\E x \in listing[v] : x.enabled) <=> s.enabled
          /\ (\E domains \in drawn[v] : domains # {}) <=> s.domains # {}
          /\ {} \in drawn[v] <=> s.domains = {}
      BY <2>3 DEF Enabled, Restricted
    <3> QED BY <3>1 DEF GondolinHookSecrets, DirectEnv
  <2> QED BY <2>1, <2>2, <2>3 DEF RowShown
<1> QED BY <1>1, SecretsBegin, SecretsStep, PTL DEF SecretsSpec

-----------------------------------------------------------------------------
(***************************************************************************)
(* GitHub, for any apps, tokens and jobs.  A job that asks who it is does  *)
(* so with the settings it got its token from, unless they changed since   *)
(* (Standing).                                                             *)
(***************************************************************************)

JobType == [for : {"none", "auth", "repos"}, at : Steps, app : SUBSET Apps,
            mode : {"none", "app", "pat"}, token : SUBSET (Apps \union Pats),
            identity : SUBSET (Apps \union Pats), changed : BOOLEAN]

\* Where a job comes to after a change of the settings, and after a failure.
LEMMA DisturbedJobs ==
  ASSUME GitHubTypeOK
  PROVE  /\ Disturbed \in [Jobs -> JobType]
         /\ \A j \in Jobs : Disturbed[j] = job[j] \/ /\ Disturbed[j] = [job[j] EXCEPT !.changed = TRUE]
                                                     /\ job[j].at \notin {"none", "done", "failed"}
<1>1. \A j \in Jobs : job[j] \in JobType /\ [job[j] EXCEPT !.changed = TRUE] \in JobType
  BY ZenonT(40) DEF GitHubTypeOK, JobType
<1> QED BY <1>1 DEF Disturbed

\* A job that the app fails goes on with the token of the user, or fails.
LEMMA FallenBack ==
  ASSUME GitHubTypeOK, NEW was \in JobType
  PROVE  /\ FallsBack(was) \in JobType
         /\ FallsBack(was).at \in {"failed", "pat"}
BY DEF GitHubTypeOK, JobType, FallsBack, Steps

(* what a job has found by the time it asks who it is *)
Standing(j) ==
  /\ job[j].at = "repos" => job[j].for # "auth"
  /\ job[j].at = "identity" => job[j].mode = "app" /\ (job[j].changed \/ config = job[j].token)
  /\ job[j].for = "auth" /\ job[j].at = "done" =>
      \/ job[j].identity \in {{}, job[j].token}
      \/ job[j].mode = "app" /\ job[j].changed

\* The settings and the jobs begin well typed.
LEMMA GitHubTypesInit == GitHubInit => GitHubTypeOK
<1>1. Idle \in JobType
  BY DEF Idle, JobType, Steps
<1> QED BY <1>1 DEF GitHubInit, GitHubTypeOK, JobType

\* One step of a job: the next state of it is well typed, and stands.
LEMMA JobSteps ==
  ASSUME GitHubTypeOK, NEW j \in Jobs, Standing(j),
         Begin(j, "auth") \/ FetchRepos(j) \/ GetStatus(j) \/ GetInstallation(j)
           \/ GetInstallationToken(j) \/ GetActorIdentity(j) \/ ListInstallationRepos(j) \/ UsePat(j)
           \/ ReposFetched(j) \/ SessionIsMade(j)
  PROVE  /\ \E new \in JobType : job' = [job EXCEPT ![j] = new]
         /\ Standing(j)'
         /\ UNCHANGED <<config, pem, pat, posted, authStatus>> /\ repos' \in {"none", "app", "pat"}
<1>0. /\ job \in [Jobs -> JobType] /\ job[j] \in JobType /\ repos \in {"none", "app", "pat"}
      /\ config \subseteq Apps /\ pat \subseteq Pats
  BY DEF GitHubTypeOK, JobType
<1>i. Idle \in JobType
  BY DEF Idle, JobType, Steps
<1>g. ASSUME NEW new \in JobType, JobGoes(j, new), Settings,
             new.at = "repos" => new.for # "auth",
             new.at = "identity" => new.mode = "app" /\ (new.changed \/ config = new.token),
             new.for = "auth" /\ new.at = "done" =>
               new.identity \in {{}, new.token} \/ (new.mode = "app" /\ new.changed)
      PROVE  /\ \E n \in JobType : job' = [job EXCEPT ![j] = n]
             /\ Standing(j)'
             /\ UNCHANGED <<config, pem, pat, posted, authStatus>> /\ repos' \in {"none", "app", "pat"}
  BY <1>0, <1>g DEF JobGoes, Settings, Standing
<1>f. /\ FallsBack(job[j]) \in JobType /\ FallsBack(job[j]).at \in {"failed", "pat"}
  BY <1>0, FallenBack
<1>1. ASSUME NEW what \in {"auth", "repos"}, Begin(j, what)
      PROVE  /\ \E n \in JobType : job' = [job EXCEPT ![j] = n]
             /\ Standing(j)'
             /\ UNCHANGED <<config, pem, pat, posted, authStatus>> /\ repos' \in {"none", "app", "pat"}
  <2>1. [Idle EXCEPT !.for = what, !.at = "status"] \in JobType
    BY <1>i DEF Idle, JobType, Steps
  <2>2. [Idle EXCEPT !.for = what, !.at = "status"].at = "status"
    BY DEF Idle
  <2> QED BY <1>1, <1>g, <2>1, <2>2 DEF Begin
<1>2. CASE GetStatus(j)
  <2>1. [job[j] EXCEPT !.at = "installation"] \in JobType
    BY <1>0 DEF JobType, Steps
  <2>2. [job[j] EXCEPT !.at = "installation"].at = "installation"
    BY <1>0 DEF JobType
  <2> QED BY <1>2, <1>f, <1>g, <2>1, <2>2 DEF GetStatus
<1>3. CASE GetInstallation(j)
  <2>1. [job[j] EXCEPT !.at = "token", !.app = config] \in JobType
    BY <1>0 DEF JobType, Steps
  <2>2. [job[j] EXCEPT !.at = "token", !.app = config].at = "token"
    BY <1>0 DEF JobType
  <2> QED BY <1>3, <1>f, <1>g, <2>1, <2>2 DEF GetInstallation
<1>4. CASE GetInstallationToken(j)
  <2> DEFINE new == [job[j] EXCEPT !.at = IF job[j].for = "auth" THEN "identity" ELSE "repos",
                                   !.mode = "app", !.token = config]
  <2>1. new \in JobType
    BY <1>0 DEF JobType, Steps
  <2>2. /\ new.at \in {"identity", "repos"} /\ new.mode = "app" /\ new.token = config
    BY <1>0 DEF JobType
  <2>3. new.at = "repos" => new.for # "auth"
    BY <1>0, <1>4 DEF JobType, GetInstallationToken, Standing
  <2>4. CASE JobGoes(j, new) /\ Settings
    BY <1>g, <2>1, <2>2, <2>3, <2>4
  <2>5. CASE JobGoes(j, FallsBack(job[j])) /\ Settings
    BY <1>f, <1>g, <2>5
  <2> QED BY <1>4, <2>4, <2>5 DEF GetInstallationToken
<1>5. CASE GetActorIdentity(j)
  <2>1. PICK slug \in AppSlug : JobGoes(j, [job[j] EXCEPT !.at = "done", !.identity = slug])
    BY <1>5 DEF GetActorIdentity
  <2>2. slug \in {config, {}}
    BY <2>1 DEF AppSlug
  <2> DEFINE new == [job[j] EXCEPT !.at = "done", !.identity = slug]
  <2>3. new \in JobType
    BY <1>0, <2>2 DEF JobType, Steps
  <2>4. /\ new.at = "done" /\ new.identity = slug /\ new.token = job[j].token /\ new.mode = job[j].mode
        /\ new.changed = job[j].changed
    BY <1>0 DEF JobType
  <2>5. new.identity \in {{}, new.token} \/ (new.mode = "app" /\ new.changed)
    <3>1. job[j].at = "identity"
      BY <1>5 DEF GetActorIdentity
    <3>2. job[j].mode = "app" /\ (job[j].changed \/ config = job[j].token)
      BY <3>1 DEF Standing
    <3> QED BY <2>2, <2>4, <3>2
  <2>6. JobGoes(j, new) /\ Settings
    BY <1>5, <2>1 DEF GetActorIdentity
  <2> HIDE DEF new
  <2> QED BY <1>g, <2>3, <2>4, <2>5, <2>6
<1>6. CASE ListInstallationRepos(j)
  <2> DEFINE new == [job[j] EXCEPT !.at = "done"]
  <2>1. new \in JobType
    BY <1>0 DEF JobType, Steps
  <2>2. new.at = "done" /\ new.for # "auth"
    BY <1>0, <1>6 DEF JobType, ListInstallationRepos, Standing
  <2>3. Settings /\ (JobGoes(j, new) \/ JobGoes(j, FallsBack(job[j])))
    BY <1>6 DEF ListInstallationRepos
  <2> HIDE DEF new
  <2> QED BY <1>f, <1>g, <2>1, <2>2, <2>3
<1>7. CASE UsePat(j)
  <2>1. CASE job[j].for = "auth"
    <3>1. PICK who \in {job[j].token, {}} : JobGoes(j, [job[j] EXCEPT !.at = "done", !.identity = who])
      BY <1>7, <2>1 DEF UsePat, PatActor
    <3> DEFINE new == [job[j] EXCEPT !.at = "done", !.identity = who]
    <3>2. new \in JobType
      BY <1>0, <3>1 DEF JobType, Steps
    <3>3. new.at = "done" /\ new.identity \in {{}, new.token}
      BY <1>0, <3>1 DEF JobType
    <3>4. JobGoes(j, new) /\ Settings
      BY <1>7, <3>1 DEF UsePat
    <3> HIDE DEF new
    <3>5. new.at # "repos" /\ new.at # "identity" /\ (new.for = "auth" /\ new.at = "done" =>
               new.identity \in {{}, new.token} \/ (new.mode = "app" /\ new.changed))
      BY <3>3
    <3> QED BY <1>g, <3>2, <3>4, <3>5
  <2>2. CASE job[j].for # "auth"
    <3>1. PICK end \in {"done", "failed"} : JobGoes(j, [job[j] EXCEPT !.at = end])
      BY <1>7, <2>2 DEF UsePat
    <3> DEFINE new == [job[j] EXCEPT !.at = end]
    <3>2. new \in JobType
      BY <1>0, <3>1 DEF JobType, Steps
    <3>3. new.at = end /\ new.for # "auth"
      BY <1>0, <2>2 DEF JobType
    <3>4. JobGoes(j, new) /\ Settings
      BY <1>7, <3>1 DEF UsePat
    <3> HIDE DEF new
    <3> QED BY <1>g, <3>1, <3>2, <3>3, <3>4
  <2> QED BY <2>1, <2>2
<1>8. CASE ReposFetched(j)
  <2>1. job' = [job EXCEPT ![j] = Idle] /\ UNCHANGED <<config, pem, pat, posted, authStatus>>
        /\ repos' \in {"none", "app", "pat"}
    BY <1>0, <1>8 DEF ReposFetched, JobType
  <2>2. Standing(j)'
    BY <1>0, <2>1 DEF Standing, Idle
  <2> QED BY <1>i, <2>1, <2>2
<1>9. CASE SessionIsMade(j)
  <2>1. job' = [job EXCEPT ![j] = Idle] /\ Settings
    BY <1>9 DEF SessionIsMade
  <2>2. Standing(j)'
    BY <1>0, <2>1 DEF Standing, Idle
  <2> QED BY <1>0, <1>i, <2>1, <2>2 DEF Settings
<1>10. CASE FetchRepos(j)
  BY <1>10, <1>1 DEF FetchRepos
<1> QED BY <1>1, <1>2, <1>3, <1>4, <1>5, <1>6, <1>7, <1>8, <1>9, <1>10

GitHubSound == GitHubTypeOK /\ \A j \in Jobs : Standing(j)

\* No step leaves a job with what it cannot have found.
LEMMA GitHubStep ==
  ASSUME GitHubSound, [GitHubNext]_githubVars
  PROVE  GitHubSound'
<1>0. GitHubTypeOK /\ \A j \in Jobs : Standing(j)
  BY DEF GitHubSound
<1>1. ASSUME NEW j \in Jobs,
             Begin(j, "auth") \/ FetchRepos(j) \/ GetStatus(j) \/ GetInstallation(j)
               \/ GetInstallationToken(j) \/ GetActorIdentity(j) \/ ListInstallationRepos(j) \/ UsePat(j)
               \/ ReposFetched(j) \/ SessionIsMade(j)
      PROVE  GitHubSound'
  <2>1. /\ \E new \in JobType : job' = [job EXCEPT ![j] = new]
        /\ Standing(j)'
        /\ UNCHANGED <<config, pem, pat, posted, authStatus>> /\ repos' \in {"none", "app", "pat"}
    BY <1>0, <1>1, JobSteps
  <2>2. \A k \in Jobs : k # j => job'[k] = job[k]
    BY <1>0, <2>1 DEF GitHubTypeOK
  <2>3. \A k \in Jobs : Standing(k)'
    BY <1>0, <2>1, <2>2 DEF Standing
  <2>4. GitHubTypeOK'
    BY <1>0, <2>1 DEF GitHubTypeOK, JobType
  <2> QED BY <2>3, <2>4 DEF GitHubSound
<1>d. ASSUME job' = Disturbed, UNCHANGED <<pat, posted, authStatus, repos>>,
             config' \subseteq Apps, pem' \subseteq [of : Apps, enabled : BOOLEAN]
      PROVE  GitHubSound'
  <2>1. GitHubTypeOK'
    BY <1>0, <1>d, DisturbedJobs DEF GitHubTypeOK, JobType
  <2>2. ASSUME NEW j \in Jobs PROVE Standing(j)'
    <3>0. Standing(j) /\ job[j] \in JobType
      BY <1>0 DEF GitHubTypeOK, JobType
    <3>1. CASE job'[j] = [job[j] EXCEPT !.changed = TRUE]
      <4>1. /\ job'[j].changed /\ job'[j].at = job[j].at /\ job'[j].for = job[j].for /\ job'[j].mode = job[j].mode
            /\ job'[j].identity = job[j].identity /\ job'[j].token = job[j].token
        BY <3>0, <3>1 DEF JobType
      <4> QED BY <3>0, <4>1 DEF Standing
    <3>2. CASE job'[j] = job[j] /\ job[j].at \in {"none", "done", "failed"}
      BY <3>0, <3>2 DEF Standing
    <3> QED BY <1>d, <3>1, <3>2 DEF Disturbed
  <2> QED BY <2>1, <2>2 DEF GitHubSound
<1>2. ASSUME NEW a \in Apps, Connect(a) PROVE GitHubSound'
  <2>1. [of |-> a, enabled |-> \A newPem \in pem : newPem.enabled] \in [of : Apps, enabled : BOOLEAN]
    OBVIOUS
  <2> QED BY <1>2, <1>d, <2>1 DEF Connect
<1>3. CASE Disconnect
  BY <1>3, <1>d DEF Disconnect
<1>4. CASE EditKey
  <2>1. \A newPem \in pem : [newPem EXCEPT !.enabled = ~@] \in [of : Apps, enabled : BOOLEAN]
    BY <1>0 DEF GitHubTypeOK
  <2>2. pem' \subseteq [of : Apps, enabled : BOOLEAN]
    BY <1>4, <2>1 DEF EditKey
  <2>3. config' \subseteq Apps /\ job' = Disturbed /\ UNCHANGED <<pat, posted, authStatus, repos>>
    BY <1>0, <1>4 DEF EditKey, GitHubTypeOK
  <2> QED BY <1>d, <2>2, <2>3
<1>s. ASSUME UNCHANGED <<config, pem, job, repos>>, pat' \subseteq Pats, posted' \subseteq Pats,
             authStatus' \in [app : BOOLEAN, pat : BOOLEAN]
      PROVE  GitHubSound'
  BY <1>0, <1>s DEF GitHubSound, GitHubTypeOK, Standing
<1>5. ASSUME NEW t \in Pats, PostToken(t) PROVE GitHubSound'
  BY <1>0, <1>5, <1>s DEF PostToken, GitHubTypeOK
<1>6. ASSUME NEW t \in Pats, TokenValidated(t) PROVE GitHubSound'
  BY <1>0, <1>6, <1>s DEF TokenValidated, GitHubTypeOK
<1>7. CASE DeleteToken
  BY <1>0, <1>7, <1>s DEF DeleteToken, GitHubTypeOK
<1>8. CASE Reload
  <2>1. authStatus' \in [app : BOOLEAN, pat : BOOLEAN]
    BY <1>8 DEF Reload, Configured
  <2> QED BY <1>0, <1>8, <1>s, <2>1 DEF Reload, GitHubTypeOK
<1>9. CASE UNCHANGED githubVars
  BY <1>0, <1>9, <1>s DEF githubVars, GitHubTypeOK
<1> QED BY <1>1, <1>2, <1>3, <1>4, <1>5, <1>6, <1>7, <1>8, <1>9 DEF GitHubNext

\* Before any job has begun, none has found anything.
LEMMA GitHubBegins == GitHubInit => GitHubSound
BY GitHubTypesInit DEF GitHubSound, GitHubInit, Standing, Idle

\* The settings of GitHub and what each job has found of them are well typed.
THEOREM GitHubTypeCorrect == GitHubSpec => []GitHubTypeOK
<1>1. GitHubSound => GitHubTypeOK
  BY DEF GitHubSound
<1> QED BY <1>1, GitHubBegins, GitHubStep, PTL DEF GitHubSpec

\* A session commits as the one it pushes as (github.service.ts, getAuth),
\* unless the app was changed while its auth was resolved: until then the
\* identity that is asked for last is that of the app whose token it got.
THEOREM TokenAndIdentityAgree == GitHubSpec => []TokenAndIdentityAreOne
<1>1. GitHubSound => TokenAndIdentityAreOne
  BY DEF GitHubSound, Standing, TokenAndIdentityAreOne
<1> QED BY <1>1, GitHubBegins, GitHubStep, PTL DEF GitHubSpec

-----------------------------------------------------------------------------
(***************************************************************************)
(* The models of pi, for any environments, requests and refreshes.  What   *)
(* is cached is as new as the last refresh, and what a request still waits *)
(* for began with what its fingerprint was taken of.                       *)
(***************************************************************************)

ModelsType == [of : Inputs, from : Sources, stored : Nat, calm : BOOLEAN]
CacheType == [print : Inputs, models : ModelsType]
OpenType == [at : {"idle", "choosing", "introspecting"}, print : Inputs \cup {"none"}, since : Nat,
             left : Seq(Sources), calm : BOOLEAN]
AnsweredType == [at : {"answered"}, print : Inputs \cup {"none"}, since : Nat, left : Seq(Sources),
                 models : ModelsType, degraded : BOOLEAN]
TrialType == [at : {"none", "creating", "running", "leaving", "failing"}, of : Inputs \cup {"none"}, calm : BOOLEAN]

RequestTypes ==
    /\ inputs \in Inputs /\ refreshes \in 0..MaxRefreshes
    /\ cache = NoCache \/ cache \in CacheType
    /\ ask \in [Askers -> OpenType \cup AnsweredType]
    /\ introspection \in [Askers -> [Sources -> TrialType]]

(* what is cached was stored since the last refresh, which would have dropped it *)
CacheIsCurrent ==
    cache # NoCache => /\ cache.models.stored = refreshes
                       /\ cache.models.of = cache.print \/ ~ cache.models.calm

(* an introspection that is waited for began with what its request knows *)
Hopeful(a, e) ==
    /\ introspection[a][e].at \in {"creating", "running", "leaving", "failing"}
    /\ introspection[a][e].at # "failing" =>
        /\ introspection[a][e].of \in Inputs
        /\ introspection[a][e].of = ask[a].print \/ ~ introspection[a][e].calm

RequestIsCurrent(a) ==
    /\ ask[a].at \in {"choosing", "introspecting"} =>
        /\ ask[a].print \in Inputs /\ ask[a].since <= refreshes
        /\ ask[a].calm => ask[a].print = inputs
    /\ ask[a].at = "introspecting" => ask[a].left # <<>> /\ Hopeful(a, Head(ask[a].left))
    /\ ask[a].at = "answered" =>
        /\ ask[a].models.stored >= ask[a].since
        /\ ask[a].degraded \/ ask[a].models.of = ask[a].print \/ ~ ask[a].models.calm

ModelsAreCurrent == RequestTypes /\ CacheIsCurrent /\ \A a \in Askers : RequestIsCurrent(a)

\* The list of the environments is one of environments.
LEMMA SetAsSequence ==
    ASSUME NEW S, IsFiniteSet(S)
    PROVE  SetToSeq(S) \in Seq(S)
<1>1. Cardinality(S) \in Nat /\ ExistsBijection(1..Cardinality(S), S)
  BY FS_CardinalityType
<1>2. PICK f \in [1..Cardinality(S) -> S] : IsInjective(f)
  BY <1>1 DEF ExistsBijection, Bijection, Injection, IsInjective
<1>3. SetToSeq(S) \in [1..Cardinality(S) -> S]
  BY <1>2 DEF SetToSeq
<1> QED BY <1>1, <1>3

\* The environments that an introspection may try are a list of environments.
LEMMA Candidates ==
    ASSUME NEW configured \in Sources \cup {"none"}
    PROVE  BuildIntrospectionCandidates(configured) \in Seq(Sources)
<1>1. IsFiniteSet(Sources \ {configured})
  BY ModelsAssumption, FS_Subset
<1>2. SetToSeq(Sources \ {configured}) \in Seq(Sources)
  BY <1>1, SetAsSequence
<1>3. configured # "none" => <<configured>> \in Seq(Sources)
  OBVIOUS
<1> QED BY <1>2, <1>3 DEF BuildIntrospectionCandidates

\* Nothing is cached, asked for or tried at first.
LEMMA ModelsBegin == ModelsInit => ModelsAreCurrent
<1>1. NoAsk \in OpenType /\ NoAsk.at = "idle" /\ NoTrial \in TrialType
  BY DEF NoAsk, OpenType, NoTrial, TrialType
<1> QED BY <1>1, ModelsAssumption DEF ModelsInit, ModelsAreCurrent, RequestTypes, CacheIsCurrent, RequestIsCurrent

\* No step caches, or answers with, models that have been dropped or are of other
\* settings without this being known of them.
LEMMA ModelsStep ==
    ASSUME ModelsAreCurrent, [ModelsNext]_modelsVars
    PROVE  ModelsAreCurrent'
<1>0. /\ inputs \in Inputs /\ refreshes \in 0..MaxRefreshes /\ MaxRefreshes \in Nat
      /\ cache = NoCache \/ cache \in CacheType
      /\ ask \in [Askers -> OpenType \cup AnsweredType]
      /\ introspection \in [Askers -> [Sources -> TrialType]]
  BY ModelsAssumption DEF ModelsAreCurrent, RequestTypes
<1>c. CacheIsCurrent /\ \A a \in Askers : RequestIsCurrent(a)
  BY DEF ModelsAreCurrent
<1>n. NoAsk \in OpenType /\ NoAsk.at = "idle" /\ NoTrial \in TrialType
  BY DEF NoAsk, OpenType, NoTrial, TrialType
\* a change of one request alone
<1>o. ASSUME NEW a \in Askers, NEW new \in OpenType \cup AnsweredType, ask' = [ask EXCEPT ![a] = new],
             UNCHANGED <<inputs, refreshes>>, \A b \in Askers \ {a} : UNCHANGED introspection[b],
             introspection' \in [Askers -> [Sources -> TrialType]], RequestIsCurrent(a)',
             UNCHANGED cache \/ (cache' \in CacheType /\ CacheIsCurrent')
      PROVE  ModelsAreCurrent'
  <2>1. \A b \in Askers : b # a => ask'[b] = ask[b]
    BY <1>0, <1>o
  <2>2. \A b \in Askers : RequestIsCurrent(b)'
    BY SMTT(20), <1>c, <1>o, <2>1 DEF RequestIsCurrent, Hopeful
  <2>3. CacheIsCurrent'
    BY <1>c, <1>o DEF CacheIsCurrent
  <2>4. RequestTypes'
    BY <1>0, <1>o DEF RequestTypes
  <2> QED BY <2>2, <2>3, <2>4 DEF ModelsAreCurrent
\* an answer
<1>w. ASSUME NEW a \in Askers, NEW asked, asked.print \in Inputs, asked.since \in 0..refreshes,
             NEW models \in ModelsType, models.stored = refreshes, NEW degraded \in BOOLEAN,
             degraded \/ models.of = asked.print \/ ~ models.calm, AnswerWith(a, asked, models, degraded)
      PROVE  /\ \E new \in AnsweredType : ask' = [ask EXCEPT ![a] = new]
             /\ RequestIsCurrent(a)'
  <2> DEFINE new == [at |-> "answered", print |-> asked.print, since |-> asked.since, left |-> <<>>,
                     models |-> models, degraded |-> degraded]
  <2>1. new \in AnsweredType
    BY <1>0, <1>w DEF AnsweredType
  <2>2. /\ new.at = "answered" /\ new.models = models /\ new.print = asked.print /\ new.since = asked.since
        /\ new.degraded = degraded
    OBVIOUS
  <2>3. ask' = [ask EXCEPT ![a] = new]
    BY <1>w DEF AnswerWith
  <2> HIDE DEF new
  <2>4. ask'[a] = new
    BY <1>0, <2>3
  <2>5. models.stored >= asked.since
    BY <1>0, <1>w
  <2>6. RequestIsCurrent(a)'
    BY <1>w, <2>2, <2>4, <2>5 DEF RequestIsCurrent
  <2> QED BY <2>1, <2>3, <2>6
<1>1. CASE InputsChange
  <2>1. inputs' \in Inputs /\ UNCHANGED <<refreshes, cache, introspection>>
    BY <1>1 DEF InputsChange
  <2>2. ASSUME NEW a \in Askers PROVE /\ ask'[a] \in OpenType \cup AnsweredType
                                      /\ RequestIsCurrent(a)'
    <3>0. RequestIsCurrent(a) /\ ask[a] \in OpenType \cup AnsweredType
      BY <1>0, <1>c
    <3>1. CASE a \in Unanswered
      <4>1. ask[a] \in OpenType
        BY <3>0, <3>1 DEF Unanswered, AnsweredType
      <4>2. ask'[a] = [ask[a] EXCEPT !.calm = FALSE]
        BY <1>1, <3>1 DEF InputsChange
      <4>3. ask'[a] \in OpenType /\ ask'[a].at = ask[a].at /\ ask'[a].print = ask[a].print /\ ask'[a].since = ask[a].since
            /\ ask'[a].left = ask[a].left /\ ~ask'[a].calm
        BY <4>1, <4>2 DEF OpenType
      <4>4. ask[a].at # "answered"
        BY <3>1 DEF Unanswered
      <4> QED BY <2>1, <3>0, <4>3, <4>4 DEF RequestIsCurrent, Hopeful
    <3>2. CASE a \notin Unanswered
      <4>1. ask'[a] = ask[a] /\ ask[a].at \in {"idle", "answered"}
        BY <1>1, <3>2 DEF InputsChange, Unanswered
      <4> QED BY <2>1, <3>0, <4>1 DEF RequestIsCurrent
    <3> QED BY <3>1, <3>2
  <2>3. ask' \in [Askers -> OpenType \cup AnsweredType]
    BY <1>1, <2>2 DEF InputsChange
  <2>4. CacheIsCurrent'
    BY <1>c, <2>1 DEF CacheIsCurrent
  <2> QED BY <1>0, <2>1, <2>2, <2>3, <2>4 DEF ModelsAreCurrent, RequestTypes
<1>2. CASE Refresh
  <2>1. refreshes' = refreshes + 1 /\ refreshes' \in 0..MaxRefreshes /\ cache' = NoCache /\ UNCHANGED <<inputs, ask, introspection>>
    BY <1>0, <1>2 DEF Refresh, ClearCaches
  <2>2. CacheIsCurrent' /\ RequestTypes'
    BY <1>0, <2>1 DEF CacheIsCurrent, RequestTypes
  <2>3. \A a \in Askers : ask[a].since \in Nat
    BY <1>0 DEF OpenType, AnsweredType
  <2>4. \A a \in Askers : RequestIsCurrent(a)'
    BY <1>0, <1>c, <2>1, <2>3 DEF RequestIsCurrent, Hopeful
  <2> QED BY <2>2, <2>4 DEF ModelsAreCurrent
<1>3. ASSUME NEW a \in Askers, Asks(a) PROVE ModelsAreCurrent'
  <2> DEFINE asked == [NoAsk EXCEPT !.print = inputs, !.since = refreshes]
  <2>1. UNCHANGED <<inputs, refreshes, cache, introspection>>
    BY <1>3 DEF Asks
  <2>2. asked.print = inputs /\ asked.since = refreshes /\ asked \in OpenType
    <3>1. refreshes \in Nat
      BY <1>0
    <3> QED BY <1>0, <1>n, <3>1 DEF OpenType
  <2>3. CASE FreshlyCached
    <3>1. AnswerWith(a, asked, cache.models, FALSE)
      BY <1>3, <2>3 DEF Asks
    <3>2. cache \in CacheType /\ cache.print = inputs /\ CacheIsCurrent /\ cache # NoCache
      BY <1>0, <1>c, <2>3 DEF FreshlyCached
    <3>3. cache.models \in ModelsType /\ cache.models.stored = refreshes /\ (cache.models.of = inputs \/ ~ cache.models.calm)
      BY <3>2 DEF CacheType, CacheIsCurrent
    <3> HIDE DEF asked
    <3>4. asked.print \in Inputs /\ asked.since \in 0..refreshes
      BY <1>0, <2>2
    <3>5. (\E new \in AnsweredType : ask' = [ask EXCEPT ![a] = new]) /\ RequestIsCurrent(a)'
      BY <1>w, <2>2, <3>1, <3>3, <3>4
    <3> QED BY <1>0, <1>o, <2>1, <3>5
  <2>4. CASE ~FreshlyCached
    <3>1. PICK configured \in Sources \cup {"none"} :
            ask' = [ask EXCEPT ![a] = [asked EXCEPT !.at = "choosing", !.left = BuildIntrospectionCandidates(configured)]]
      BY <1>3, <2>4 DEF Asks
    <3> DEFINE new == [asked EXCEPT !.at = "choosing", !.left = BuildIntrospectionCandidates(configured)]
    <3>2. BuildIntrospectionCandidates(configured) \in Seq(Sources)
      BY <3>1, Candidates
    <3>3. new \in OpenType /\ new.at = "choosing" /\ new.print = inputs /\ new.since = refreshes
      <4>1. new = [asked EXCEPT !.at = "choosing", !.left = BuildIntrospectionCandidates(configured)]
        OBVIOUS
      <4> HIDE DEF asked, new
      <4> QED BY <2>2, <3>2, <4>1 DEF OpenType
    <3>4. ask' = [ask EXCEPT ![a] = new]
      BY <3>1
    <3> HIDE DEF new
    <3>5. RequestIsCurrent(a)'
      BY <1>0, <2>1, <3>3, <3>4 DEF RequestIsCurrent
    <3> QED BY <1>0, <1>o, <2>1, <3>3, <3>4, <3>5
  <2> QED BY <2>3, <2>4
\* a request that moves on with what it knows
<1>m. ASSUME NEW a \in Askers, ask[a].at \in {"choosing", "introspecting"},
             NEW at \in {"choosing", "introspecting"}, NEW left \in Seq(Sources),
             ask' = [ask EXCEPT ![a].at = at, ![a].left = left],
             UNCHANGED <<inputs, refreshes, cache>>, \A b \in Askers \ {a} : UNCHANGED introspection[b],
             introspection' \in [Askers -> [Sources -> TrialType]],
             at = "introspecting" => left # <<>> /\ Hopeful(a, Head(left))'
      PROVE  ModelsAreCurrent'
  <2> DEFINE new == [ask[a] EXCEPT !.at = at, !.left = left]
  <2>1. ask[a] \in OpenType
    BY <1>0, <1>m DEF OpenType, AnsweredType
  <2>2. new \in OpenType /\ new.at = at /\ new.left = left /\ new.print = ask[a].print /\ new.since = ask[a].since
        /\ new.calm = ask[a].calm
    BY <1>m, <2>1 DEF OpenType
  <2>3. ask' = [ask EXCEPT ![a] = new]
    BY <1>0, <1>m, <2>1 DEF OpenType
  <2> HIDE DEF new
  <2>4. ask'[a] = new
    BY <1>0, <2>3
  <2>5. RequestIsCurrent(a)'
    BY <1>c, <1>m, <2>2, <2>4 DEF RequestIsCurrent
  <2> QED BY <1>m, <1>o, <2>2, <2>3, <2>5
<1>a. \A a \in Askers : ask[a].at \in {"choosing", "introspecting"} =>
        /\ ask[a] \in OpenType /\ ask[a].left \in Seq(Sources) /\ ask[a].print \in Inputs /\ ask[a].since \in 0..refreshes
        /\ ask[a].calm => ask[a].print = inputs
  BY <1>0, <1>c DEF OpenType, AnsweredType, RequestIsCurrent
<1>4. ASSUME NEW a \in Askers, SkipCandidate(a) PROVE ModelsAreCurrent'
  <2>1. /\ ask[a].at = "choosing" /\ ask[a].left # <<>> /\ ask[a] \in OpenType /\ ask[a].left \in Seq(Sources)
        /\ UNCHANGED <<inputs, refreshes, cache, introspection>>
    BY <1>4, <1>a DEF SkipCandidate
  <2>2. Tail(ask[a].left) \in Seq(Sources)
    BY <2>1
  <2>3. ask' = [ask EXCEPT ![a].at = "choosing", ![a].left = Tail(ask[a].left)]
    BY <1>0, <1>4, <2>1 DEF SkipCandidate, OpenType
  <2> QED BY <1>0, <1>m, <2>1, <2>2, <2>3
<1>5. ASSUME NEW a \in Askers, StartIntrospection(a) PROVE ModelsAreCurrent'
  <2>l. PICK left : left = ask[a].left
    OBVIOUS
  <2> DEFINE e == Head(left)
             new == [at |-> "creating", of |-> inputs, calm |-> ask[a].calm]
  <2>1. /\ ask[a].at = "choosing" /\ ask[a].left # <<>> /\ ask[a] \in OpenType /\ ask[a].left \in Seq(Sources)
        /\ UNCHANGED <<inputs, refreshes, cache>>
        /\ introspection' = [introspection EXCEPT ![a][e] = new]
        /\ ask' = [ask EXCEPT ![a].at = "introspecting"]
    BY <1>5, <1>a, <2>l DEF StartIntrospection
  <2>2. e \in Sources
    BY <2>1, <2>l
  <2>3. new \in TrialType /\ new.at = "creating" /\ new.of = inputs /\ new.calm = ask[a].calm
    BY <1>0, <2>1 DEF TrialType, OpenType
  <2>4. ask' = [ask EXCEPT ![a].at = "introspecting", ![a].left = ask[a].left]
    BY <1>0, <2>1 DEF OpenType
  <2>5. ask'[a].print = ask[a].print
    BY <1>0, <2>1 DEF OpenType
  <2> HIDE DEF e, new
  <2>6. introspection'[a][e] = new /\ introspection' \in [Askers -> [Sources -> TrialType]]
        /\ \A b \in Askers \ {a} : UNCHANGED introspection[b]
    BY <1>0, <2>1, <2>2, <2>3
  <2>7. Hopeful(a, e)'
    BY <1>0, <1>a, <2>1, <2>3, <2>5, <2>6 DEF Hopeful
  <2>8. Hopeful(a, Head(left))'
    BY <2>7 DEF e
  <2> QED BY <1>m, <2>1, <2>4, <2>6, <2>8, <2>l
<1>6. ASSUME NEW a \in Askers, IntrospectionTimesOut(a) PROVE ModelsAreCurrent'
  <2> DEFINE e == Head(ask[a].left)
             new == [NoTrial EXCEPT !.at = introspection[a][e].at]
  <2>1. /\ ask[a].at = "introspecting" /\ ask[a] \in OpenType /\ ask[a].left \in Seq(Sources) /\ ask[a].left # <<>>
        /\ UNCHANGED <<inputs, refreshes, cache>>
        /\ introspection' = [introspection EXCEPT ![a][e] = new]
        /\ ask' = [ask EXCEPT ![a].at = "choosing", ![a].left = Tail(ask[a].left)]
    BY <1>0, <1>6, <1>a, <1>c DEF IntrospectionTimesOut, NextCandidate, OpenType, RequestIsCurrent
  <2>2. e \in Sources /\ Tail(ask[a].left) \in Seq(Sources)
    BY <2>1
  <2>3. new \in TrialType
    BY <1>0, <2>2 DEF TrialType, NoTrial
  <2> HIDE DEF e, new
  <2>4. introspection' \in [Askers -> [Sources -> TrialType]] /\ \A b \in Askers \ {a} : UNCHANGED introspection[b]
    BY <1>0, <2>1, <2>2, <2>3
  <2> QED BY <1>m, <2>1, <2>2, <2>4
<1>7. ASSUME NEW a \in Askers, NoCandidateLeft(a) PROVE ModelsAreCurrent'
  <2>1. /\ ask[a].at = "choosing" /\ ask[a].print \in Inputs /\ ask[a].since \in 0..refreshes
        /\ UNCHANGED <<inputs, refreshes, cache, introspection>>
    BY <1>7, <1>a DEF NoCandidateLeft
  <2>2. CASE AnyCached
    <3>1. AnswerWith(a, ask[a], cache.models, TRUE)
      BY <1>7, <2>2 DEF NoCandidateLeft
    <3>2. cache.models \in ModelsType /\ cache.models.stored = refreshes
      BY <1>0, <1>c, <2>2 DEF AnyCached, CacheType, CacheIsCurrent
    <3> QED BY <1>0, <1>o, <1>w, <2>1, <3>1, <3>2
  <2>3. CASE ~AnyCached
    <3>1. ask' = [ask EXCEPT ![a] = NoAsk]
      BY <1>7, <2>3 DEF NoCandidateLeft
    <3>2. RequestIsCurrent(a)'
      BY <1>0, <1>n, <3>1 DEF RequestIsCurrent
    <3> QED BY <1>0, <1>n, <1>o, <2>1, <3>1, <3>2
  <2> QED BY <2>2, <2>3
\* an introspection goes on
<1>t. ASSUME NEW a \in Askers, NEW e \in Sources, NEW new \in TrialType,
             introspection' = [introspection EXCEPT ![a][e] = new], UNCHANGED <<inputs, refreshes, cache, ask>>,
             \/ new.at = "failing"
             \/ /\ new.at \in {"running", "leaving"} /\ introspection[a][e].at \in {"creating", "running"}
                /\ new.of = introspection[a][e].of /\ new.calm = introspection[a][e].calm
      PROVE  ModelsAreCurrent'
  <2>1. /\ introspection' \in [Askers -> [Sources -> TrialType]] /\ introspection'[a][e] = new
        /\ \A b \in Askers, f \in Sources : ~(b = a /\ f = e) => introspection'[b][f] = introspection[b][f]
    BY <1>0, <1>t
  <2>2. ASSUME NEW b \in Askers PROVE RequestIsCurrent(b)'
    <3>1. CASE ask[b].at = "introspecting"
      <4>l. PICK h : h = Head(ask[b].left)
        OBVIOUS
      <4>1. ask[b].left # <<>> /\ Hopeful(b, h)
        BY <1>c, <3>1, <4>l DEF RequestIsCurrent
      <4>2. h \in Sources
        BY <1>a, <3>1, <4>1, <4>l
      <4>3. Hopeful(b, h)'
        BY <1>t, <2>1, <4>1, <4>2 DEF Hopeful
      <4>4. RequestIsCurrent(b)
        BY <1>c
      <4>5. ask'[b] = ask[b] /\ inputs' = inputs /\ refreshes' = refreshes
        BY <1>t
      <4> QED BY <3>1, <4>1, <4>3, <4>4, <4>5, <4>l DEF RequestIsCurrent
    <3>2. CASE ask[b].at # "introspecting"
      BY <1>c, <1>t, <3>2 DEF RequestIsCurrent
    <3> QED BY <3>1, <3>2
  <2> QED BY <1>0, <1>c, <1>t, <2>1, <2>2 DEF ModelsAreCurrent, RequestTypes, CacheIsCurrent
<1>8. ASSUME NEW a \in Askers, NEW e \in Sources, SandboxIsMade(a, e) PROVE ModelsAreCurrent'
  <2> DEFINE new == [introspection[a][e] EXCEPT !.at = "running"]
  <2>1. introspection[a][e] \in TrialType /\ introspection[a][e].at = "creating"
    BY <1>0, <1>8 DEF SandboxIsMade, Trials
  <2>2. new \in TrialType /\ new.at = "running" /\ new.of = introspection[a][e].of /\ new.calm = introspection[a][e].calm
    BY <2>1 DEF TrialType
  <2>3. introspection' = [introspection EXCEPT ![a][e] = new] /\ UNCHANGED <<inputs, refreshes, cache, ask>>
    BY <1>0, <1>8 DEF SandboxIsMade
  <2> HIDE DEF new
  <2> QED BY <1>t, <2>1, <2>2, <2>3
<1>9. ASSUME NEW a \in Askers, NEW e \in Sources, ModelsArrive(a, e) PROVE ModelsAreCurrent'
  <2> DEFINE new == [introspection[a][e] EXCEPT !.at = "leaving"]
  <2>1. introspection[a][e] \in TrialType /\ introspection[a][e].at = "running"
    BY <1>0, <1>9 DEF ModelsArrive, Trials
  <2>2. new \in TrialType /\ new.at = "leaving" /\ new.of = introspection[a][e].of /\ new.calm = introspection[a][e].calm
    BY <2>1 DEF TrialType
  <2>3. introspection' = [introspection EXCEPT ![a][e] = new] /\ UNCHANGED <<inputs, refreshes, cache, ask>>
    BY <1>0, <1>9 DEF ModelsArrive
  <2> HIDE DEF new
  <2> QED BY <1>t, <2>1, <2>2, <2>3
<1>10. ASSUME NEW a \in Askers, NEW e \in Sources, IntrospectionFails(a, e) PROVE ModelsAreCurrent'
  <2> DEFINE new == [NoTrial EXCEPT !.at = "failing"]
  <2>1. new \in TrialType /\ new.at = "failing"
    BY DEF TrialType, NoTrial
  <2>2. introspection' = [introspection EXCEPT ![a][e] = new] /\ UNCHANGED <<inputs, refreshes, cache, ask>>
    BY <1>10 DEF IntrospectionFails
  <2> HIDE DEF new
  <2> QED BY <1>t, <2>1, <2>2
<1>11. ASSUME NEW a \in Askers, NEW e \in Sources, TearDown(a, e) PROVE ModelsAreCurrent'
  <2>1. /\ introspection' = [introspection EXCEPT ![a][e] = NoTrial] /\ UNCHANGED <<inputs, refreshes>>
        /\ introspection[a][e] \in TrialType
    BY <1>0, <1>11 DEF TearDown
  <2>2. /\ introspection' \in [Askers -> [Sources -> TrialType]] /\ \A b \in Askers \ {a} : UNCHANGED introspection[b]
        /\ \A f \in Sources : f # e => introspection'[a][f] = introspection[a][f]
    BY <1>0, <1>n, <2>1
  <2>3. CASE ~ Waiting(a, e)
    <3>1. UNCHANGED <<cache, ask>>
      BY <1>11, <2>3 DEF TearDown, Gives
    <3>2. RequestIsCurrent(a)'
      <4>1. CASE ask[a].at = "introspecting"
        <5>l. PICK h : h = Head(ask[a].left)
          OBVIOUS
        <5>1. ask[a].left # <<>> /\ Hopeful(a, h) /\ h # e
          BY <1>c, <2>3, <4>1, <5>l DEF RequestIsCurrent, Waiting
        <5>2. h \in Sources
          BY <1>a, <4>1, <5>1, <5>l
        <5>3. Hopeful(a, h)'
          BY <2>2, <3>1, <5>1, <5>2 DEF Hopeful
        <5>4. RequestIsCurrent(a)
          BY <1>c
        <5>5. ask'[a] = ask[a] /\ inputs' = inputs /\ refreshes' = refreshes
          BY <2>1, <3>1
        <5> QED BY <4>1, <5>1, <5>3, <5>4, <5>5, <5>l DEF RequestIsCurrent
      <4>2. CASE ask[a].at # "introspecting"
        BY <1>c, <2>1, <3>1, <4>2 DEF RequestIsCurrent
      <4> QED BY <4>1, <4>2
    <3>3. ask' = [ask EXCEPT ![a] = ask[a]] /\ ask[a] \in OpenType \cup AnsweredType
      BY <1>0, <3>1
    <3> QED BY <1>o, <2>1, <2>2, <3>1, <3>2, <3>3
  <2>4. CASE Waiting(a, e)
    <3>1. /\ ask[a].at = "introspecting" /\ ask[a].left # <<>> /\ Hopeful(a, e) /\ Head(ask[a].left) = e
          /\ ask[a] \in OpenType /\ ask[a].left \in Seq(Sources)
          /\ ask[a].print \in Inputs /\ ask[a].since \in 0..refreshes
      BY <1>a, <1>c, <2>4 DEF Waiting, RequestIsCurrent
    <3>2. CASE introspection[a][e].at = "leaving"
      <4> DEFINE models == [of |-> introspection[a][e].of, from |-> e, stored |-> refreshes,
                            calm |-> introspection[a][e].calm]
                 kept == [print |-> ask[a].print, models |-> models]
      <4>1. /\ introspection[a][e].of \in Inputs
            /\ introspection[a][e].of = ask[a].print \/ ~ introspection[a][e].calm
        BY <3>1, <3>2 DEF Hopeful
      <4>2. models \in ModelsType /\ models.stored = refreshes /\ (models.of = ask[a].print \/ ~ models.calm)
        BY <1>0, <2>1, <4>1 DEF ModelsType, TrialType
      <4>3. cache' = kept /\ AnswerWith(a, ask[a], models, FALSE)
        BY <1>11, <2>4, <3>2 DEF TearDown, Gives
      <4> HIDE DEF models
      <4>4. kept \in CacheType /\ kept.print = ask[a].print /\ kept.models = models
        BY <3>1, <4>2 DEF CacheType
      <4> HIDE DEF kept
      <4>5. cache' \in CacheType /\ CacheIsCurrent'
        BY <2>1, <4>2, <4>3, <4>4 DEF CacheIsCurrent
      <4>6. (\E new \in AnsweredType : ask' = [ask EXCEPT ![a] = new]) /\ RequestIsCurrent(a)'
        BY <1>w, <3>1, <4>2, <4>3
      <4> QED BY <1>o, <2>1, <2>2, <4>5, <4>6
    <3>3. CASE introspection[a][e].at # "leaving"
      <4>1. ask' = [ask EXCEPT ![a].at = "choosing", ![a].left = Tail(ask[a].left)] /\ UNCHANGED cache
        BY <1>0, <1>11, <2>4, <3>1, <3>3 DEF TearDown, NextCandidate, OpenType
      <4>2. Tail(ask[a].left) \in Seq(Sources)
        BY <3>1
      <4> QED BY <1>m, <2>1, <2>2, <3>1, <4>1, <4>2
    <3> QED BY <3>2, <3>3
  <2> QED BY <2>3, <2>4
<1>12. CASE UNCHANGED modelsVars
  BY <1>0, <1>c, <1>12 DEF modelsVars, ModelsAreCurrent, RequestTypes, CacheIsCurrent, RequestIsCurrent, Hopeful
<1> QED BY <1>1, <1>2, <1>3, <1>4, <1>5, <1>6, <1>7, <1>8, <1>9, <1>10, <1>11, <1>12 DEF ModelsNext

\* The cache of the models, the requests for them and their introspections are
\* well typed.
THEOREM ModelsTypeCorrect == ModelsSpec => []ModelsTypeOK
<1>1. ModelsAreCurrent => ModelsTypeOK
  BY ModelsAssumption DEF ModelsAreCurrent, RequestTypes, ModelsTypeOK, CacheType, ModelsType, OpenType, AnsweredType, TrialType
<1> QED BY <1>1, ModelsBegin, ModelsStep, PTL DEF ModelsSpec

\* The models a request is answered with (routes/models.ts) are no older than
\* the last refresh before it, and are those of the packages and secrets it came
\* for: what is cached was stored since the last refresh, and an introspection
\* that is still waited for began with what its request took its fingerprint of.
THEOREM ModelsServedAreCurrent == ModelsSpec => []ServedModelsAreCurrent
<1>1. ModelsAreCurrent => ServedModelsAreCurrent
  BY DEF ModelsAreCurrent, RequestIsCurrent, ServedModelsAreCurrent
<1> QED BY <1>1, ModelsBegin, ModelsStep, PTL DEF ModelsSpec
=============================================================================
