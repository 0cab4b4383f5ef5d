------------------------------- MODULE MCEdges -------------------------------
\* The parts around the coordinator, each on its own: the control pipe to the user
\* interface, the page that the browser shows, the provider that prepares the history
\* of a request, and the list of models that a client gets.  A behaviour takes the steps
\* of the one that `part` names and leaves the others as they started.
EXTENDS ControlService, BrowserPage, Compaction, CatalogList, TLC

VARIABLE part

MCEvents == {Item("user", 1), Item("call", 1), Item("result", 1), Item("call", 2)}
HomeAccount == CHOOSE x \in Accounts : TRUE
Symmetry == Permutations(Texts)

EdgesInit ==
  /\ part \in {"control", "page", "provider", "list"}
  /\ ControlInit /\ PageInit /\ ProviderInit /\ CatalogInit
  /\ part # "list" => reader.account = HomeAccount /\ Reviewed
  /\ part # "control" => mode = "login" /\ earlier = 0 /\ \A c \in Callers : call[c].kind = "connect"

EdgesNext ==
  /\ \/ part = "control" /\ ControlNext /\ UNCHANGED <<pageVars, providerVars, catalogVars>>
     \/ part = "page" /\ PageNext /\ UNCHANGED <<controlVars, providerVars, catalogVars>>
     \/ part = "provider" /\ ProviderNext /\ UNCHANGED <<controlVars, pageVars, catalogVars>>
     \/ part = "list" /\ CatalogNext /\ UNCHANGED <<controlVars, pageVars, providerVars>>
  /\ UNCHANGED part

EdgesSpec == EdgesInit /\ [][EdgesNext]_<<part, controlVars, pageVars, providerVars, catalogVars>>
=============================================================================
