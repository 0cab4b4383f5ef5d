------------------------------- MODULE MCParts -------------------------------
\* Components that share nothing, each on its own: a behaviour takes the
\* steps of the one that `part` names and leaves the others as they started.
\* Scheduler: four calls over three sessions; w1 and w2 share one, so the session
\* check, the full queue and the FIFO hand-over all happen.
\* ModelMenu: one naming of the efforts stands for all, and one family for the first.
EXTENDS Ledger, Scheduler, Setup, ModelMenu, AccountMenu, BrowserTargets,
        EffortRoutes, TLC

CONSTANTS w1, w2, w3, w4, sa, sb, sc, f1, low, mid, high

VARIABLE part

MCWorkers == {w1, w2, w3, w4}
MCNaming == <<low, mid, high>>
MCSessionOf == w1 :> sa @@ w2 :> sa @@ w3 :> sb @@ w4 :> sc

AnOwner == CHOOSE o \in Owners : TRUE
AReceipt == [default |-> [family |-> "f", name |-> "High", place |-> 3, effort |-> "high"],
             variants |-> {}]
otherVars == <<menuVars, accountVars, targetsVars, effortVars>>

PartsInit ==
  /\ part \in {"ledger", "scheduler", "setup", "models", "account", "targets", "efforts"}
  /\ EffortInit /\ (part # "efforts" => receipt = AReceipt)
  /\ LedgerInit /\ SchedulerInit /\ SetupInit /\ MenuInit /\ AccountInit /\ TargetsInit
  /\ picker.family = f1 /\ picker.name[f1] = MCNaming
  /\ part # "setup" => account = NoAccount
  /\ part # "models" => task.kind = "discover" /\ picker.value = 1
  /\ part # "account" => layout.account /\ layout.workspace /\ view.context = <<AnOwner, Personal>>

PartsNext ==
  /\ \/ part = "ledger" /\ LedgerNext /\ UNCHANGED <<schedulerVars, setupVars, otherVars>>
     \/ part = "scheduler" /\ SchedulerNext /\ UNCHANGED <<turns, setupVars, otherVars>>
     \/ part = "setup" /\ SetupNext /\ UNCHANGED <<turns, schedulerVars, otherVars>>
     \/ /\ part = "models" /\ MenuNext
        /\ UNCHANGED <<turns, schedulerVars, setupVars, accountVars, targetsVars, effortVars>>
     \/ /\ part = "account" /\ AccountNext
        /\ UNCHANGED <<turns, schedulerVars, setupVars, menuVars, targetsVars, effortVars>>
     \/ /\ part = "targets" /\ TargetsNext
        /\ UNCHANGED <<turns, schedulerVars, setupVars, menuVars, accountVars, effortVars>>
     \/ /\ part = "efforts" /\ EffortNext
        /\ UNCHANGED <<turns, schedulerVars, setupVars, menuVars, accountVars, targetsVars>>
  /\ UNCHANGED part

PartsSpec ==
  /\ PartsInit /\ [][PartsNext]_<<part, turns, schedulerVars, setupVars, otherVars>>
  /\ \A w \in Workers : WF_schedulerVars(part = "scheduler" /\ Proceed(w))

PartsTypeOK == LedgerTypeOK /\ SchedulerTypeOK /\ SetupTypeOK /\ MenuTypeOK /\ AccountTypeOK
               /\ TargetsTypeOK /\ EffortTypeOK
=============================================================================
