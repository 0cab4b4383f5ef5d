---------------------------- MODULE EffortRoutes ----------------------------
(***************************************************************************)
(* The reasoning efforts of the installed route: which ones the catalog    *)
(* publishes, which choice of the menu a requested effort stands for, and  *)
(* how a qualified set of choices replaces the installed one;              *)
(* managed_driver.rs (Route, Binding) and web_recovery.rs (Receipt) of     *)
(* crates/runtime.  The menu shows names ("Instant"), the client sends     *)
(* efforts ("low"), and receipts of older versions recorded efforts that   *)
(* are now aliases ("none").                                               *)
(*                                                                         *)
(* The receipt in the journal, the binding of the driver and the catalog   *)
(* that clients see change one after the other; the process may end, or a  *)
(* step fail, between any two, and a client keeps the catalog it has read. *)
(***************************************************************************)
EXTENDS FiniteSets, Naturals

VARIABLES receipt,    \* the installed binding in the journal
          live,       \* the driver's binding
          published,  \* the levels of the catalog that clients see
          extension,  \* the qualification under way: its step and its result
          known       \* history: the levels that clients have read

effortVars == <<receipt, live, published, extension, known>>

\* Three names stand for the five; "plain" is any label that tells no effort.
Labels == {"Instant", "Medium", "High"}
Places == 1..Cardinality(Labels)
Recorded == {"none", "low", "medium", "high"}

MenuChoices == [family: {"f", "g"}, name: Labels \cup {"plain"}, place: Places, effort: Recorded]

ObservedEffort(name) ==
  CASE name = "Instant" -> "low" [] name = "Medium" -> "medium" [] name = "High" -> "high"

Told(c) == c.name \in Labels

\* "none" is an alias of "low", and only of that.
Alias(e, canonical) == e = canonical \/ (canonical = "low" /\ e = "none")

\* Mutant: without the names.
StandsForRecorded(c, e) == e = c.effort

StandsFor(c, e) ==
  \/ e = c.effort
  \/ Told(c) /\ Alias(c.effort, ObservedEffort(c.name)) /\ Alias(e, ObservedEffort(c.name))

All(b) == {b.default} \cup b.variants

\* Route::selection: no effort is the default's, and the default comes first.  The first
\* variant that matches is taken: any of this set.
Selection(b, e) ==
  IF e = "unset" \/ StandsFor(b.default, e) THEN {b.default}
  ELSE {c \in b.variants : StandsFor(c, e)}

Agrees(c) == Told(c) /\ Alias(c.effort, ObservedEffort(c.name))

Level(c) == [effort |-> IF Told(c) THEN ObservedEffort(c.name) ELSE c.effort, name |-> c.name]

\* Route::catalog: what the names say and what is recorded agree, all choices are of one
\* family, and no two are the same level.
ValidCatalog(b) ==
  /\ b.default.effort # "unset"
  /\ IF b.variants = {} THEN Told(b.default) => Agrees(b.default)
     ELSE \A c \in All(b) : Agrees(c) /\ c.family = b.default.family
  /\ \A c, d \in All(b) : Level(c).effort = Level(d).effort => c = d

Catalog(b) == {Level(c) : c \in All(b)}

\* Binding::validate looks into the variants only where there are some.
ValidBinding(b) ==
  b.variants # {} =>
    /\ Cardinality(b.variants) <= 4
    /\ \A c, d \in All(b) : c.place = d.place => c = d
    /\ ValidCatalog(b)

ExtendsBinding(b, next) == ValidBinding(next) /\ next.default = b.default

ValidReceipt(b) == ValidBinding(b) /\ ValidCatalog(b)

NoBinding ==
  [default |-> [family |-> "none", name |-> "none", place |-> 0, effort |-> "unset"],
   variants |-> {}]

Bindings ==
  [default: {[family |-> "f", name |-> n, place |-> p, effort |-> e] :
               n \in Labels \cup {"plain"}, p \in Places, e \in Recorded \cup {"unset"}},
   variants: {{}} \cup {{c, d} : c, d \in MenuChoices}]

Installable == {b \in Bindings : ValidReceipt(b)}

NoExtension == [at |-> "idle", binding |-> NoBinding]

EffortTypeOK ==
  /\ {receipt, live, extension.binding} \subseteq Bindings \cup {NoBinding}
  /\ ValidReceipt(receipt)
  /\ {published, known} \subseteq SUBSET [effort: Recorded, name: Labels \cup {"plain"}]
  /\ extension.at \in {"idle", "qualified", "saved", "adopted"}

\* Activation wrote the receipt; no process is up.
EffortInit ==
  /\ receipt \in Installable
  /\ live = NoBinding /\ published = {} /\ extension = NoExtension /\ known = {}
-----------------------------------------------------------------------------
\* A process validates the receipt before it starts a driver and publishes a catalog.
RestoreReceipt ==
  /\ live = NoBinding /\ ValidReceipt(receipt)
  /\ live' = receipt /\ published' = Catalog(receipt)
  /\ UNCHANGED <<receipt, extension, known>>

ReadCatalog ==
  /\ known' = known \cup published
  /\ UNCHANGED <<receipt, live, published, extension>>

\* qualify_inner ends with every name of the menu tested, the default at its place; the
\* menu need not be in the order of an earlier qualification.
Qualified(b) ==
  LET others == Labels \ {b.default.name}
      Menus == {p \in [others -> Places \ {b.default.place}] :
                  \A m, n \in others : p[m] = p[n] => m = n}
  IN {[default |-> b.default,
       variants |-> {[family |-> b.default.family, name |-> n, place |-> menu[n],
                      effort |-> ObservedEffort(n)] : n \in others}] : menu \in Menus}

QualifyEfforts ==
  /\ live # NoBinding /\ extension = NoExtension /\ Told(live.default)
  /\ \E next \in Qualified(live) : extension' = [at |-> "qualified", binding |-> next]
  /\ UNCHANGED <<receipt, live, published, known>>

\* extend_web: the journal holds the receipt that the qualification began with, and the
\* next one extends it.  A write that reports an error may have been made.
SaveReceipt ==
  /\ extension.at = "qualified"
  /\ LET next == extension.binding IN
     IF receipt = live /\ ExtendsBinding(receipt, next) /\ ValidReceipt(next)
     THEN \/ receipt' = next /\ extension' = [extension EXCEPT !.at = "saved"]
          \/ receipt' \in {receipt, next} /\ extension' = NoExtension
     ELSE UNCHANGED receipt /\ extension' = NoExtension
  /\ UNCHANGED <<live, published, known>>

\* A driver that cannot adopt the binding leaves nothing published until it is restored.
AdoptBinding ==
  /\ extension.at = "saved"
  /\ \/ /\ ExtendsBinding(live, extension.binding)
        /\ live' = extension.binding /\ extension' = [extension EXCEPT !.at = "adopted"]
        /\ UNCHANGED published
     \/ live' = NoBinding /\ published' = {} /\ extension' = NoExtension
  /\ UNCHANGED <<receipt, known>>

PublishEfforts ==
  /\ extension.at = "adopted"
  /\ published' = Catalog(extension.binding) /\ extension' = NoExtension
  /\ UNCHANGED <<receipt, live, known>>

EffortsStop ==
  /\ live # NoBinding
  /\ live' = NoBinding /\ published' = {} /\ extension' = NoExtension
  /\ UNCHANGED <<receipt, known>>

EffortNext ==
  \/ RestoreReceipt \/ ReadCatalog \/ EffortsStop
  \/ QualifyEfforts \/ SaveReceipt \/ AdoptBinding \/ PublishEfforts

EffortSpec == EffortInit /\ [][EffortNext]_effortVars
-----------------------------------------------------------------------------
\* Whatever a client has ever read of this installation, or can read now, is served as it
\* was shown: the effort of each level stands for exactly one choice, the one with the
\* level's name, whichever binding the driver has by then.  The old alias means the same.
EffortsAreHonoured ==
  live # NoBinding =>
    /\ \A l \in published \cup known : {c.name : c \in Selection(live, l.effort)} = {l.name}
    /\ \A l \in published \cup known : Cardinality(Selection(live, l.effort)) = 1
    /\ (\E l \in published : l.name = "Instant") => Selection(live, "none") = Selection(live, "low")
    /\ Selection(live, "unset") = {receipt.default}
=============================================================================
