------------------------------ MODULE MCJournal ------------------------------
\* What is on disk, each part on its own: the user's configuration with its journal,
\* the evidence of a quality run, the programs of the installations, and what is left when
\* they are removed.  A behaviour takes the steps of the one that `part` names and leaves
\* the others as they started.
\* The user has no configuration file, an empty one, or one with a model that the
\* client offers and settings of his own.
EXTENDS ConfigJournal, QualityRun, RuntimeUpdate, Uninstall

CONSTANT p1

VARIABLE part

MCOriginals ==
  {Absent, Blank, [Blank EXCEPT !.model = "native", !.other = "text"]}

AnOriginal == CHOOSE c \in Originals : TRUE

DiskInit ==
  /\ part \in {"journal", "quality", "update", "uninstall"}
  /\ JournalInit /\ QualityInit /\ UpdateInit /\ UninstallInit
  /\ world.page = p1
  /\ part # "journal" => last = AnOriginal
  /\ part # "update" => \A i \in Installations : disk[i].journal = "none"
  /\ part # "uninstall" => tool.goal = "check" /\ \A h \in Homes : home[h].record = "none"

DiskNext ==
  /\ \/ part = "journal" /\ JournalNext /\ UNCHANGED <<qualityVars, updateVars, uninstallVars>>
     \/ part = "quality" /\ QualityNext /\ UNCHANGED <<journalVars, updateVars, uninstallVars>>
     \/ part = "update" /\ UpdateNext /\ UNCHANGED <<journalVars, qualityVars, uninstallVars>>
     \/ part = "uninstall" /\ UninstallNext /\ UNCHANGED <<journalVars, qualityVars, updateVars>>
  /\ UNCHANGED part

DiskSpec ==
  /\ DiskInit /\ [][DiskNext]_<<part, journalVars, qualityVars, updateVars, uninstallVars>>
  /\ part = "journal" => JournalFairness

DiskTypeOK == JournalTypeOK /\ QualityTypeOK /\ UpdateTypeOK /\ UninstallTypeOK
=============================================================================
