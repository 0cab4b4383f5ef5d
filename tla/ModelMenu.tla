------------------------------- MODULE ModelMenu -------------------------------
(***************************************************************************)
(* The model menu of a page and what the program learns from it:           *)
(* discover_models, select_candidate and select_family of                  *)
(* crates/browser-adapter/src/pipe.rs, with their callers - the discovery  *)
(* of the setup (runtime/src/control.rs), the qualification of the         *)
(* efforts of an installed route (reasoning_qualification.rs) and the      *)
(* check of a reopened browser (web_recovery.rs).                          *)
(*                                                                         *)
(* A route is a family and a position of its effort slider; its label is   *)
(* what the page shows there.  The only way to read a label is to move the *)
(* slider to it and back, key by key, on a page that shows the result of a *)
(* key later, that the user may use and whose offer the service may        *)
(* change.  Three layers of calls: `pick` (select_candidate), `scan`       *)
(* (discover_family_routes) and `task` (the caller).  A key that a call    *)
(* gave up waiting for is taken to be lost.                                *)
(***************************************************************************)
EXTENDS Integers, FiniteSets, Sequences

CONSTANTS Families,  \* the families that the menu lists
          Names,     \* the names of efforts that the program knows
          MaxMoves   \* how often the user or the service changes the page

ASSUME MenuAssumption == MaxMoves \in Nat /\ Families # {} /\ IsFiniteSet(Names) /\ Names # {}

VARIABLES picker,   \* the page: what is selected, and what it offers
          pick, scan, task,
          shown     \* history: routes with the label that the page showed for them

menuVars == <<picker, pick, scan, task, shown>>

Values == 1..Cardinality(Names)
NoLabel == << >>
Identity == [family : Families, top : Values, value : Values]

\* The route that the page shows, and its label there.
Here == [family |-> picker.family, top |-> picker.top[picker.family], value |-> picker.value]
LabelHere == <<picker.family, picker.name[picker.family][picker.value]>>

Resting == [at |-> "idle"]

MenuTypeOK ==
  /\ picker.family \in Families /\ picker.value \in 1..picker.top[picker.family]
  /\ picker.top \in [Families -> Values] /\ picker.off \subseteq Families \ {picker.family}
  /\ picker.name \in [Families -> [Values -> Names]]
  /\ picker.touched \in BOOLEAN /\ picker.moves \in 0..MaxMoves
  /\ pick.at \in {"idle", "family", "effort", "close", "done"}
  /\ scan.at \in {"idle", "open", "values", "restore", "done"}
  /\ task.kind \in {"discover", "extend", "reopen"}
  /\ task.at \in {"start", "families", "restore", "confirm", "select", "test", "save", "routes", "done"}
  /\ task.code \in {"none", "E_MODEL_RESTORE", "other"}
-----------------------------------------------------------------------------
(* The page. *)

\* A key moves the slider when the page gets to it.
KeyLands ==
  /\ picker.pending # 0
  /\ LET step == IF picker.pending > 0 THEN 1 ELSE -1
         next == picker.value + step
     IN picker' = [picker EXCEPT !.pending = @ - step,
                     !.value = IF next \in 1..picker.top[picker.family] THEN next ELSE @]
  /\ UNCHANGED <<pick, scan, task>>

\* The user selects something else; the service renames an effort, offers more or
\* fewer of them, or withdraws a family.  `touched` records that the selection moved.
PageMoved(p) ==
  /\ picker.moves < MaxMoves /\ task.at # "done"
  /\ picker' = [p EXCEPT !.moves = @ + 1]
  /\ UNCHANGED <<pick, scan, task>>

UserPicks ==
  \E f \in Families \ picker.off : \E v \in 1..picker.top[f] :
    PageMoved([picker EXCEPT !.family = f, !.value = v, !.touched = TRUE])

OfferChanges ==
  \E f \in Families :
    \/ \E v \in Values, n \in Names : PageMoved([picker EXCEPT !.name[f][v] = n])
    \/ \E t \in Values :
         PageMoved([picker EXCEPT !.top[f] = t,
                      !.value = IF f = picker.family /\ @ > t THEN t ELSE @,
                      !.touched = @ \/ (f = picker.family /\ picker.value > t)])
    \/ f # picker.family /\ PageMoved([picker EXCEPT !.off = @ \cup {f}])
-----------------------------------------------------------------------------
(* select_candidate: the family first, then at most four keys, each only    *)
(* after the slider shows the result of the one before.                     *)

Picking(id, alone) ==
  [at |-> "family", id |-> id, alone |-> alone, clicked |-> FALSE,
   previous |-> 0, keys |-> 0, label |-> NoLabel, ok |-> FALSE]

\* A deadline, a script that refused, or a call that failed.
PickFails ==
  /\ pick.at \in {"family", "effort", "close"}
  /\ pick' = [pick EXCEPT !.at = "done", !.ok = FALSE]
  /\ picker' = [picker EXCEPT !.pending = 0]
  /\ UNCHANGED <<scan, task>>

\* A family is clicked at most once; the page has its own effort for each.
PickFamily ==
  /\ pick.at = "family"
  /\ \/ /\ picker.family = pick.id.family
        /\ pick' = [pick EXCEPT !.at = IF pick.alone THEN "done" ELSE "effort", !.ok = pick.alone]
        /\ UNCHANGED picker
     \/ /\ picker.family # pick.id.family /\ pick.id.family \notin picker.off /\ ~pick.clicked
        /\ \E v \in 1..picker.top[pick.id.family] :
             picker' = [picker EXCEPT !.family = pick.id.family, !.value = v]
        /\ pick' = [pick EXCEPT !.clicked = TRUE]
  /\ UNCHANGED <<scan, task>>

\* effort_state refuses another family or another range.
Slider == picker.family = pick.id.family /\ picker.top[picker.family] = pick.id.top

SliderReadAtOnce == Slider

SliderMoved == Slider /\ picker.value # pick.previous

PickEffort ==
  /\ pick.at = "effort" /\ SliderMoved
  /\ \/ /\ picker.value = pick.id.value
        /\ pick' = [pick EXCEPT !.at = "close", !.label = LabelHere]
        /\ UNCHANGED picker
     \/ /\ picker.value # pick.id.value /\ pick.keys < 4
        /\ picker' = [picker EXCEPT !.pending = @ + (IF pick.id.value > picker.value THEN 1 ELSE -1)]
        /\ pick' = [pick EXCEPT !.keys = @ + 1, !.previous = picker.value]
  /\ UNCHANGED <<scan, task>>

PickCloses ==
  /\ pick.at = "close"
  /\ pick' = [pick EXCEPT !.at = "done", !.ok = TRUE]
  /\ UNCHANGED <<picker, scan, task>>

Picked(label) == pick.at = "done" /\ pick.ok /\ pick.label = label
-----------------------------------------------------------------------------
(* discover_family_routes: one reading of the open menu, then a visit to    *)
(* every other position of the slider, then back.                           *)

Scanning == [at |-> "open", code |-> "none", found |-> {}]

ScanOpens ==
  /\ scan.at = "open" /\ pick.at = "idle"
  /\ \/ scan' = [at |-> "values", code |-> "none", found |-> {}, next |-> 1, first |-> Here,
                 label |-> LabelHere, others |-> Families \ (picker.off \cup {picker.family})]
     \/ scan' = [scan EXCEPT !.at = "done", !.code = "other"]
  /\ UNCHANGED <<picker, pick, task>>

Candidate(id, label, selected) == [id |-> id, label |-> label, selected |-> selected]

FoundAsFirst(label) ==
  [scan EXCEPT !.next = @ + 1,
     !.found = @ \cup {Candidate([scan.first EXCEPT !.value = scan.next], scan.label,
                                 scan.next = scan.first.value)}]

Found(label) ==
  [scan EXCEPT !.next = @ + 1,
     !.found = @ \cup {Candidate([scan.first EXCEPT !.value = scan.next], label,
                                 scan.next = scan.first.value)}]

ScanValue ==
  /\ scan.at = "values"
  /\ \/ /\ pick.at = "idle" /\ scan.next > scan.first.top
        /\ scan' = [scan EXCEPT !.at = "restore"] /\ pick' = Picking(scan.first, FALSE)
     \/ /\ pick.at = "idle" /\ scan.next <= scan.first.top
        /\ IF scan.next = scan.first.value
           THEN scan' = Found(scan.label) /\ UNCHANGED pick
           ELSE pick' = Picking([scan.first EXCEPT !.value = scan.next], FALSE) /\ UNCHANGED scan
     \/ /\ pick.at = "done" /\ pick.ok
        /\ scan' = Found(pick.label) /\ pick' = Resting
     \/ /\ pick.at = "done" /\ ~pick.ok
        /\ scan' = [scan EXCEPT !.at = "restore", !.code = "other"]
        /\ pick' = Picking(scan.first, FALSE)
  /\ UNCHANGED <<picker, task>>

\* A route that is not restored is worse than one that could not be read.
ScanRestores ==
  /\ scan.at = "restore" /\ pick.at = "done"
  /\ scan' = [scan EXCEPT !.at = "done", !.code = IF Picked(scan.label) THEN @ ELSE "E_MODEL_RESTORE"]
  /\ pick' = Resting
  /\ UNCHANGED <<picker, task>>

Scanned == scan.at = "done" /\ scan.code = "none"
-----------------------------------------------------------------------------
(* The callers. *)

Finish(code) == task' = [task EXCEPT !.at = "done", !.code = code]

\* discover_models: the family that is selected, then each of the others that is
\* offered, then back to the first route, whatever went wrong.
Discovers ==
  /\ task.kind = "discover" /\ task.at = "start"
  /\ \/ /\ scan.at = "idle"
        /\ scan' = Scanning /\ UNCHANGED <<task, pick>>
     \/ /\ Scanned
        /\ task' = [task EXCEPT !.at = "families", !.listed = scan.found, !.todo = scan.others,
                                !.route = [id |-> scan.first, label |-> scan.label]]
        /\ scan' = Resting /\ UNCHANGED pick
     \/ /\ scan.at = "done" /\ scan.code # "none"
        /\ Finish(scan.code) /\ scan' = Resting /\ UNCHANGED pick
  /\ UNCHANGED picker

ReturnIfRead(code) ==
  /\ task' = [task EXCEPT !.at = IF code = "none" THEN "restore" ELSE "done", !.code = code]
  /\ pick' = IF code = "none" THEN Picking(task.route.id, FALSE) ELSE Resting
  /\ scan' = Resting

Return(code) ==
  /\ task' = [task EXCEPT !.at = "restore", !.code = code]
  /\ pick' = Picking(task.route.id, FALSE) /\ scan' = Resting

\* The candidates of another family are not the selected ones.
Unselected(found) == {[c EXCEPT !.selected = FALSE] : c \in found}

VisitFamily ==
  /\ task.at = "families"
  /\ \/ /\ pick.at = "idle" /\ scan.at = "idle"
        /\ \E f \in task.todo :
             /\ pick' = Picking([task.route.id EXCEPT !.family = f], TRUE)
             /\ task' = [task EXCEPT !.todo = @ \ {f}, !.family = f]
        /\ UNCHANGED scan
     \/ /\ scan.at = "idle" /\ pick.at = "done" /\ pick.ok
        /\ pick' = Resting /\ scan' = Scanning /\ UNCHANGED task
     \/ /\ Scanned /\ scan.first.family = task.family
        /\ task' = [task EXCEPT !.listed = @ \cup Unselected(scan.found)]
        /\ scan' = Resting /\ UNCHANGED pick
     \/ /\ scan.at = "idle" /\ pick.at = "idle" /\ task.todo = {} /\ Return("none")
     \/ /\ scan.at = "idle" /\ pick.at = "done" /\ ~pick.ok /\ Return("other")
     \/ /\ Scanned /\ scan.first.family # task.family /\ Return("other")
     \/ /\ scan.at = "done" /\ scan.code # "none" /\ Return(scan.code)
  /\ UNCHANGED picker

\* Exactly one candidate is selected; the setup selects it once more before it
\* publishes the list.
ListRestored ==
  /\ task.at = "restore" /\ pick.at = "done"
  /\ IF Picked(task.route.label) /\ task.code = "none"
     THEN /\ task' = [task EXCEPT !.at = "confirm"]
          /\ pick' = Picking(task.route.id, FALSE)
     ELSE /\ Finish(IF Picked(task.route.label) THEN task.code ELSE "E_MODEL_RESTORE")
          /\ pick' = Resting
  /\ UNCHANGED <<picker, scan>>

Confirmed ==
  /\ task.at = "confirm" /\ pick.at = "done"
  /\ Finish(IF Picked(task.route.label) THEN "none" ELSE "other")
  /\ pick' = Resting
  /\ UNCHANGED <<picker, scan>>

\* qualify_inner: the installed route must be what it was, and the family must
\* offer every known effort once.
Extends ==
  /\ task.at = "select" /\ scan.at = "idle"
  /\ \/ /\ pick.at = "idle"
        /\ pick' = Picking(task.route.id, FALSE) /\ UNCHANGED <<task, scan>>
     \/ /\ pick.at = "done" /\ Picked(task.route.label)
        /\ pick' = Resting /\ scan' = Scanning /\ UNCHANGED task
     \/ /\ pick.at = "done" /\ ~Picked(task.route.label)
        /\ Finish("other") /\ pick' = Resting /\ UNCHANGED scan
  /\ UNCHANGED picker

Complete(found) ==
  /\ Cardinality(found) = Cardinality(Names)
  /\ \E c \in found : c.id = task.route.id /\ c.label = task.route.label
  /\ \A c \in found : c.label[1] = task.route.label[1]
  /\ {c.label[2] : c \in found} = Names

FamilyRead ==
  /\ task.at = "select" /\ scan.at = "done"
  /\ IF Scanned /\ Complete(scan.found)
     THEN task' = [task EXCEPT !.at = "test", !.todo = {c \in scan.found : c.id # task.route.id}]
     ELSE Finish("other")
  /\ scan' = Resting
  /\ UNCHANGED <<picker, pick>>

\* One test turn on a chat of its own, of which only this matters here: it runs with
\* the candidate selected and its label shown, and its record says how it ended.
Offered(c) ==
  /\ c.id.family \notin picker.off /\ picker.top[c.id.family] = c.id.top
  /\ picker.name[c.id.family][c.id.value] = c.label[2]

TestKinds == <<"text", "tools">>

Test ==
  /\ task.at = "test" /\ task.todo # {}
  /\ LET c == CHOOSE d \in task.todo : \A e \in task.todo : d.id.value <= e.id.value
         kind == TestKinds[task.step]
         record(state) == [id |-> c.id, label |-> c.label, kind |-> kind, state |-> state]
     IN \/ /\ Offered(c)
           /\ picker' = [picker EXCEPT !.family = c.id.family, !.value = c.id.value]
           /\ task' = [task EXCEPT !.tests = @ \cup {record("Completed")},
                         !.step = 3 - @,
                         !.todo = IF task.step = 2 THEN @ \ {c} ELSE @,
                         !.listed = IF task.step = 2 THEN @ \cup {c} ELSE @]
        \/ /\ \E state \in {"Failed", "SubmissionUncertain"} :
                task' = [task EXCEPT !.tests = @ \cup {record(state)}, !.at = "done", !.code = "other"]
           /\ UNCHANGED picker
  /\ UNCHANGED <<pick, scan>>

\* validate, the cancellation, validate_extension, extend_web and adopt_binding: the
\* variants are published whole or not at all.
Adopt ==
  /\ task.at = "test" /\ task.todo = {}
  /\ \E code \in {"none", "other"} : Finish(code)
  /\ UNCHANGED <<picker, pick, scan>>

\* resume_managed: every variant of the installed route, then the route itself.
Reopens ==
  /\ task.at = "routes"
  /\ \/ /\ pick.at = "idle" /\ task.todo # {}
        /\ \E c \in task.todo : pick' = Picking(c.id, FALSE) /\ task' = [task EXCEPT !.next = c]
     \/ /\ pick.at = "idle" /\ task.todo = {}
        /\ pick' = Picking(task.route.id, FALSE)
        /\ task' = [task EXCEPT !.next = task.route, !.at = "confirm"]
     \/ /\ pick.at = "done" /\ Picked(task.next.label)
        /\ pick' = Resting /\ task' = [task EXCEPT !.todo = @ \ {task.next}]
     \/ /\ pick.at = "done" /\ ~Picked(task.next.label)
        /\ pick' = Resting /\ Finish("other")
  /\ UNCHANGED <<picker, scan>>
-----------------------------------------------------------------------------
Installed == [id |-> Here, label |-> LabelHere]
Variants ==
  {Candidate([Here EXCEPT !.value = v], <<picker.family, picker.name[picker.family][v]>>, FALSE)
     : v \in Values \ {picker.value}}

MenuInit ==
  /\ \E f \in Families, v \in Values, n \in [Values -> Names] :
       /\ \A u, w \in Values : n[u] = n[w] => u = w
       /\ picker = [family |-> f, value |-> v, top |-> [g \in Families |-> Cardinality(Names)],
                    off |-> {}, name |-> [g \in Families |-> n], pending |-> 0,
                    touched |-> FALSE, moves |-> 0]
  /\ pick = Resting /\ scan = Resting
  /\ \E kind \in {"discover", "extend", "reopen"} :
       task = [kind |-> kind, code |-> "none", route |-> Installed, next |-> Installed,
               at |-> CASE kind = "discover" -> "start" [] kind = "extend" -> "select"
                        [] OTHER -> "routes",
               listed |-> IF kind = "reopen" THEN Variants ELSE {},
               todo |-> IF kind = "reopen" THEN Variants ELSE {},
               tests |-> {}, step |-> 1, family |-> picker.family, start |-> Here]
  /\ shown = {<<Here, LabelHere>>}

MenuNext ==
  /\ \/ KeyLands \/ UserPicks \/ OfferChanges
     \/ PickFamily \/ PickEffort \/ PickCloses \/ PickFails
     \/ ScanOpens \/ ScanValue \/ ScanRestores
     \/ Discovers \/ VisitFamily \/ ListRestored \/ Confirmed
     \/ Extends \/ FamilyRead \/ Test \/ Adopt \/ Reopens
     \/ task.at = "done" /\ UNCHANGED <<picker, pick, scan, task>>
  /\ shown' = shown \cup {<<Here', LabelHere'>>}

MenuSpec == MenuInit /\ [][MenuNext]_menuVars
-----------------------------------------------------------------------------
Succeeded == task.at = "done" /\ task.code = "none"

\* A label is never guessed from a position and never taken from another route: each
\* candidate that a discovery lists, that an extension publishes and that a reopened
\* browser was accepted with carries a label that the page itself showed for exactly
\* that family, range and position while the task ran.
LabelsWereShown == Succeeded => \A c \in task.listed : <<c.id, c.label>> \in shown

\* Looking does not select: a discovery leaves the selection that it found, also when
\* it fails half way, or it says that it could not restore it.
SelectionIsKept ==
  task.kind = "discover" /\ task.at = "done" /\ task.code # "E_MODEL_RESTORE" /\ ~picker.touched
    => picker.family = task.start.family /\ picker.value = task.start.value

\* An extension has both tests of every effort that it adds, under the label that it
\* publishes, and adds all of them.
VariantsAreTested ==
  task.kind = "extend" /\ Succeeded =>
    /\ \A c \in task.listed, i \in DOMAIN TestKinds :
         [id |-> c.id, label |-> c.label, kind |-> TestKinds[i], state |-> "Completed"] \in task.tests
    /\ {c.label[2] : c \in task.listed} = Names \ {task.route.label[2]}

\* What the program says of the model menu is what the menu says.
MenuIsTrue == LabelsWereShown /\ SelectionIsKept /\ VariantsAreTested
=============================================================================
