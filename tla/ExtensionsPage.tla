------------------------------ MODULE ExtensionsPage ---------------------------
(***************************************************************************)
(* The page of extensions: a tab, a scope, a query, and the two lists that *)
(* its effect loads.  The answers to its requests come in any order, and   *)
(* each is shown when it comes.                                            *)
(***************************************************************************)
EXTENDS Naturals, FiniteSets

CONSTANTS
  Queries,      \* what may be searched for
  PageScopes,   \* scopes of packages that the page shows
  Loads,        \* requests for a list under way (a bound)
  MaxEdits      \* requests that add, change or delete a package (a bound)

ASSUME PageAssumption == MaxEdits \in Nat

VARIABLES
  view,         \* the tab, "installed" or "discover" (that of skills is as the first)
  scope,        \* the scope chosen
  query,        \* the query typed
  configs,      \* {} or the scope whose packages are listed
  packages,     \* {} or the query that the packages were found with
  load,         \* requests for a list
  edit,         \* per edit: {} or the scope it was made in
  overtaken     \* observation: lists whose requests overlapped, or were for another scope

pageVars == <<view, scope, query, configs, packages, load, edit, overtaken>>

Edits == 1..MaxEdits
NoLoad == [list |-> "none", of |-> {}, installs |-> FALSE]
Sent(list, of, installs) == [list |-> list, of |-> {of}, installs |-> installs]

PageInit ==
  /\ view = "installed" /\ scope \in PageScopes /\ query \in Queries
  /\ configs = {} /\ packages = {} /\ overtaken = {}
  /\ edit = [e \in Edits |-> {}]
  /\ \E l \in Loads :
       load = [o \in Loads |-> IF o = l THEN Sent("installed", scope, FALSE) ELSE NoLoad]

(* one more request, for a page as it is by now *)
BeginLoad(left, list, of, installs) ==
  /\ \E l \in Loads : left[l] = NoLoad /\ load' = [left EXCEPT ![l] = Sent(list, of, installs)]
  /\ overtaken' =
       IF \/ \E l \in Loads : left[l].list = list
          \/ list = "installed" /\ (of # scope' \/ \E e \in Edits : edit'[e] # {})
       THEN overtaken \union {list} ELSE overtaken \ {list}

(* the effect that loads the list of the tab, when the tab, the scope or the *)
(* query has changed                                                         *)
LoadOf(left) ==
  IF view' = "discover" THEN BeginLoad(left, "discover", query', FALSE)
  ELSE BeginLoad(left, "installed", scope', FALSE)
EffectOfView(left) ==
  IF view' # view THEN LoadOf(left) ELSE load' = left /\ UNCHANGED overtaken
Effect(left) == LoadOf(left)

SetView(v) ==
  /\ v # view /\ view' = v
  /\ UNCHANGED <<scope, query, configs, packages, edit>>
  /\ Effect(load)
SetScope(s) ==
  /\ s # scope /\ scope' = s
  /\ UNCHANGED <<view, query, configs, packages, edit>>
  /\ Effect(load)
SetQuery(q) ==
  /\ view = "discover" /\ q # query /\ query' = q
  /\ UNCHANGED <<view, scope, configs, packages, edit>>
  /\ Effect(load)

(* handleInstall, of a package found; else one is added by name, saved or deleted *)
HandleEdit(e) ==
  /\ edit[e] = {} /\ edit' = [edit EXCEPT ![e] = {[of |-> scope, installs |-> view = "discover"]}]
  /\ UNCHANGED <<view, scope, query, configs, packages, load, overtaken>>
(* unless it was refused, the scope it was made in is loaded *)
EditAnswered(e) ==
  /\ edit[e] # {} /\ edit' = [edit EXCEPT ![e] = {}]
  /\ UNCHANGED <<view, scope, query, configs, packages>>
  /\ \/ UNCHANGED <<load, overtaken>>
     \/ \E was \in edit[e] : BeginLoad(load, "installed", was.of, was.installs)

(* an answer is shown, an error empties the list; once a package was installed *)
(* the page turns to what is installed                                         *)
LoadAnswered(l) ==
  /\ load[l] # NoLoad
  /\ LET left == [load EXCEPT ![l] = NoLoad] IN
     /\ \E data \in {load[l].of, {}} :
          IF load[l].list = "discover" THEN packages' = data /\ UNCHANGED configs
          ELSE configs' = data /\ UNCHANGED packages
     /\ UNCHANGED <<scope, query, edit>>
     /\ IF load[l].installs /\ view # "installed" THEN view' = "installed" /\ Effect(left)
        ELSE load' = left /\ UNCHANGED <<view, overtaken>>

PageNext ==
  \/ \E v \in {"installed", "discover"} : SetView(v)
  \/ \E s \in PageScopes : SetScope(s)
  \/ \E q \in Queries : SetQuery(q)
  \/ \E e \in Edits : HandleEdit(e) \/ EditAnswered(e)
  \/ \E l \in Loads : LoadAnswered(l)

PageSpec == PageInit /\ [][PageNext]_pageVars

-----------------------------------------------------------------------------
PageTypeOK ==
  /\ view \in {"installed", "discover"} /\ scope \in PageScopes /\ query \in Queries
  /\ configs \subseteq PageScopes /\ packages \subseteq Queries
  /\ load \in [Loads -> [list : {"none", "installed", "discover"},
                        of : SUBSET (PageScopes \union Queries), installs : BOOLEAN]]
  /\ edit \in [Edits -> SUBSET [of : PageScopes, installs : BOOLEAN]]
  /\ overtaken \subseteq {"installed", "discover"}

(***************************************************************************)
(* Once nothing is under way a list is of the scope, or the query, that    *)
(* the page shows above it, unless its requests overlapped or an edit was  *)
(* answered after the scope had been changed: no answer is dropped for     *)
(* being late (settings-extensions.tsx:216-262, 293).                      *)
(***************************************************************************)
OnlyOvertakenListsMislead ==
  /\ view = "installed" /\ "installed" \notin overtaken =>
       configs \subseteq {scope} \/ \E l \in Loads : load[l].list = "installed"
  /\ view = "discover" /\ "discover" \notin overtaken =>
       packages \subseteq {query} \/ \E l \in Loads : load[l].list = "discover"
=============================================================================
