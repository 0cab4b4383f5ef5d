--------------------------- MODULE RuntimeUpdate ---------------------------
(***************************************************************************)
(* A new program for every installation: stage of                          *)
(* crates/runtime/src/runtime_update.rs and replace of                     *)
(* crates/platform/src/binary_update.rs.  An installer locks and validates *)
(* all installations before it replaces the program of any; ReplaceFile    *)
(* keeps the old one beside the new, and may fail half-way.  Meanwhile     *)
(* another installer runs, an installation is activated, its task changes, *)
(* something else touches the file, and an installer may end at any point. *)
(*                                                                         *)
(* A program stands for the content and the identity of its file.  A       *)
(* disconnected installation keeps its journal and its task: it is updated *)
(* like any other.                                                         *)
(***************************************************************************)
EXTENDS FiniteSets, Naturals

CONSTANTS Installations, Installers,
          OldProgram, Foreign, NoProgram,  \* before any update; put there by others; no file
          MaxMishaps                    \* ends, failures and foreign changes

ASSUME UpdateAssumption ==
  /\ IsFiniteSet(Installations) /\ IsFiniteSet(Installers) /\ MaxMishaps \in Nat
  /\ {OldProgram, Foreign, NoProgram} \cap Installers = {}
  /\ OldProgram # Foreign /\ NoProgram \notin {OldProgram, Foreign}

VARIABLES disk,       \* per installation: the program, the backups, the journal
          lock,       \* per installation: who holds runtime-update.lock
          installer,  \* the installers; each delivers a program of its own name
          mishaps,
          history     \* per installation: the programs that were there; whether it was touched;
            \* who had looked at it when its task was changed or registered; whether a file came
            \* between the look at the empty place and the rename that restores the old program

updateVars == <<disk, lock, installer, mishaps, history>>

Programs == Installers \cup {OldProgram, Foreign}

Disks == [program: Programs \cup {NoProgram}, backups: SUBSET Programs,
          journal: {"owned", "pending", "none", "invalid"}, task: BOOLEAN]

InstallerStates == [at: {"new", "validating", "replacing", "staged", "compared", "torn",
                         "restoring", "swapped", "done", "failed"},
                    left: SUBSET Installations, targets: SUBSET Installations,
                    replaced: SUBSET Installations, seen: SUBSET Programs,
                    now: Installations \cup {<< >>}]

UpdateTypeOK ==
  /\ disk \in [Installations -> Disks]
  /\ lock \in [Installations -> Installers \cup {NoProgram}]
  /\ installer \in [Installers -> InstallerStates]
  /\ mishaps \in 0..MaxMishaps
  /\ history \in [Installations ->
                    [programs: SUBSET Programs, touched: BOOLEAN, late: SUBSET Installers,
                     raced: BOOLEAN]]

UpdateInit ==
  /\ \E journals \in [Installations -> {"owned", "none", "invalid"}] :
       disk = [i \in Installations |->
                 [program |-> OldProgram, backups |-> {}, journal |-> journals[i],
                  task |-> TRUE]]
  /\ lock = [i \in Installations |-> NoProgram]
  /\ installer = [u \in Installers |->
       [at |-> "new", left |-> {}, targets |-> {}, replaced |-> {}, seen |-> {}, now |-> << >>]]
  /\ mishaps = 0
  /\ history = [i \in Installations |->
                  [programs |-> {OldProgram}, touched |-> FALSE, late |-> {}, raced |-> FALSE]]
-----------------------------------------------------------------------------
Mishap == mishaps < MaxMishaps /\ mishaps' = mishaps + 1

Released(u) == [i \in Installations |-> IF lock[i] = u THEN NoProgram ELSE lock[i]]

\* Every error ends the installer; its locks go with it.
Stops(u, at) ==
  /\ installer' = [installer EXCEPT ![u] = [@ EXCEPT !.at = at, !.left = {}, !.seen = {}]]
  /\ lock' = Released(u)

Continues(u, state) == installer' = [installer EXCEPT ![u] = state]

Begin(u) ==
  /\ installer[u].at = "new"
  /\ Continues(u, [installer[u] EXCEPT !.at = "validating", !.left = Installations])
  /\ UNCHANGED <<disk, lock, mishaps, history>>

\* The journal of an installation has a receipt of the startup task, which must be the
\* very task that is registered now, with the program next to the journal as its only action.
Authorized(i) == disk[i].journal = "none" \/ (disk[i].journal = "owned" /\ disk[i].task)

\* The lock comes first, then what authorizes the program.  A directory without a journal,
\* or with one that nothing was started for, is passed over and its lock dropped again.
Validate(u) ==
  /\ installer[u].at = "validating"
  /\ \E i \in installer[u].left :
       LET me == installer[u] IN
       IF lock[i] # NoProgram \/ ~Authorized(i)
       THEN Stops(u, "failed")
       ELSE /\ Continues(u, [me EXCEPT !.left = @ \ {i},
                              !.targets = IF disk[i].journal = "owned" THEN @ \cup {i} ELSE @])
            /\ lock' = IF disk[i].journal = "owned" THEN [lock EXCEPT ![i] = u] ELSE lock
  /\ UNCHANGED <<disk, mishaps, history>>

\* Mutant: replacing what is valid without waiting for the rest.
EagerlyReplacing(u) ==
  /\ installer[u].at = "validating" /\ installer[u].targets # {}
  /\ Continues(u, [installer[u] EXCEPT !.at = "replacing", !.left = installer[u].targets])
  /\ UNCHANGED <<disk, lock, mishaps, history>>

StartReplacing(u) ==
  /\ installer[u].at = "validating" /\ installer[u].left = {}
  /\ Continues(u, [installer[u] EXCEPT !.at = "replacing", !.left = installer[u].targets])
  /\ UNCHANGED <<disk, lock, mishaps, history>>

\* One target is done; its lock is dropped before the next.
Finished(u, i, replaced) ==
  /\ Continues(u, [installer[u] EXCEPT !.at = "replacing", !.left = @ \ {i}, !.seen = {},
                    !.replaced = IF replaced THEN @ \cup {i} ELSE @])
  /\ lock' = [lock EXCEPT ![i] = NoProgram]

\* replace: the program is read; the same one is left alone, another one is remembered
\* and the new one written in full beside it.
StageProgram(u) ==
  /\ installer[u].at = "replacing"
  /\ \E i \in installer[u].left :
       \/ disk[i].program = NoProgram /\ Stops(u, "failed")
       \/ disk[i].program = u /\ Finished(u, i, FALSE)
       \/ /\ disk[i].program \notin {NoProgram, u}
          /\ Continues(u, [installer[u] EXCEPT !.at = "staged", !.now = i, !.seen = {disk[i].program}])
          /\ UNCHANGED lock
  /\ UNCHANGED <<disk, mishaps, history>>

\* The file to be replaced is still the one that was read.
CompareIdentity(u) ==
  /\ installer[u].at = "staged"
  /\ IF disk[installer[u].now].program \in installer[u].seen
     THEN Continues(u, [installer[u] EXCEPT !.at = "compared"]) /\ UNCHANGED lock
     ELSE Stops(u, "failed")
  /\ UNCHANGED <<disk, mishaps, history>>

Arrives(i, program) ==
  history' = [history EXCEPT ![i].programs = @ \cup ({program} \ {NoProgram})]

\* ReplaceFileW moves the old program to the backup and the new one to its place; it may
\* fail before anything moved, or with the old one moved away.
ReplaceFile(u) ==
  /\ installer[u].at = "compared"
  /\ LET i == installer[u].now
         kept == disk[i].backups \cup ({disk[i].program} \ {NoProgram})
     IN \/ /\ disk[i].program # NoProgram
           /\ disk' = [disk EXCEPT ![i].program = u, ![i].backups = kept]
           /\ Arrives(i, u)
           /\ Continues(u, [installer[u] EXCEPT !.at = "swapped", !.seen = @ \cup {disk[i].program}])
           /\ UNCHANGED <<lock, mishaps>>
        \/ /\ \/ Mishap
              \/ disk[i].program = NoProgram /\ UNCHANGED mishaps
           /\ Stops(u, "failed") /\ UNCHANGED <<disk, history>>
        \/ /\ disk[i].program # NoProgram /\ Mishap
           /\ disk' = [disk EXCEPT ![i].program = NoProgram, ![i].backups = kept]
           /\ Continues(u, [installer[u] EXCEPT !.at = "torn", !.seen = @ \cup {disk[i].program}])
           /\ UNCHANGED <<lock, history>>

\* Mutant: the old program goes back without a look at its place.
RestoreAnyway(u) ==
  /\ installer[u].at = "torn"
  /\ Continues(u, [installer[u] EXCEPT !.at = "restoring"])
  /\ UNCHANGED <<disk, lock, mishaps, history>>

\* Half-way: only the very file that was read goes back, and only to a place that is empty
\* when it is looked at.
CheckRestore(u) ==
  /\ installer[u].at = "torn"
  /\ IF disk[installer[u].now].program = NoProgram /\ Cardinality(installer[u].seen) = 1
     THEN Continues(u, [installer[u] EXCEPT !.at = "restoring"]) /\ UNCHANGED lock
     ELSE Stops(u, "failed")
  /\ UNCHANGED <<disk, mishaps, history>>

\* The rename replaces whatever is in the place by now.
RestoreProgram(u) ==
  /\ installer[u].at = "restoring"
  /\ \E old \in installer[u].seen :
       disk' = [disk EXCEPT ![installer[u].now].program = old,
                            ![installer[u].now].backups = @ \ {old}]
  /\ Stops(u, "failed")
  /\ UNCHANGED <<mishaps, history>>

\* The backup is the file that was read, and the new program is in place.
VerifyReplaced(u) ==
  /\ installer[u].at = "swapped"
  /\ LET i == installer[u].now IN
     IF Cardinality(installer[u].seen) = 1 /\ disk[i].program = u
     THEN Finished(u, i, TRUE)
     ELSE Stops(u, "failed")
  /\ UNCHANGED <<disk, mishaps, history>>

ReportUpdate(u) ==
  /\ installer[u].at = "replacing" /\ installer[u].left = {}
  /\ Stops(u, "done")
  /\ UNCHANGED <<disk, mishaps, history>>
-----------------------------------------------------------------------------
\* The process ends, or a read, a write or a guard of it fails.
InstallerFails(u) ==
  /\ installer[u].at \notin {"new", "done", "failed"}
  /\ Mishap /\ Stops(u, "failed")
  /\ UNCHANGED <<disk, history>>

\* Something else replaces or removes the program; what it overwrites is its own doing.
ForeignChange(i) ==
  /\ Mishap
  /\ \E program \in {Foreign, NoProgram} \ {disk[i].program} :
       /\ disk' = [disk EXCEPT ![i].program = program]
       /\ history' = [history EXCEPT
            ![i].programs = (IF disk[i].program \in disk[i].backups THEN @
                             ELSE @ \ {disk[i].program}) \cup ({program} \ {NoProgram}),
            ![i].touched = TRUE,
            ![i].raced = @ \/ /\ program = Foreign
                              /\ \E u \in Installers : /\ installer[u].at = "restoring"
                                                       /\ installer[u].now = i]
  /\ UNCHANGED <<lock, installer>>

\* Who has looked at an installation.
Passed(i) ==
  {u \in Installers : /\ installer[u].at # "new"
                      /\ installer[u].at = "validating" => i \notin installer[u].left}

\* Setup activates an installation whose program is in place: first its journal has the
\* plan of the task without a receipt, then the receipt of the registered task.
Activates(i) ==
  /\ \/ /\ disk[i].journal = "none"
        /\ disk' = [disk EXCEPT ![i].journal = "pending"]
     \/ /\ disk[i].journal = "pending"
        /\ disk' = [disk EXCEPT ![i].journal = "owned", ![i].task = TRUE]
  /\ history' = [history EXCEPT ![i].touched = TRUE, ![i].late = Passed(i)]
  /\ UNCHANGED <<lock, installer, mishaps>>

\* The user edits or removes the startup task.
TaskChanges(i) ==
  /\ disk[i].journal = "owned" /\ disk[i].task /\ Mishap
  /\ disk' = [disk EXCEPT ![i].task = FALSE]
  /\ history' = [history EXCEPT ![i].late = Passed(i)]
  /\ UNCHANGED <<lock, installer>>

UpdateNext ==
  \/ \E u \in Installers :
       \/ Begin(u) \/ Validate(u) \/ StartReplacing(u) \/ StageProgram(u) \/ CompareIdentity(u)
       \/ ReplaceFile(u) \/ CheckRestore(u) \/ RestoreProgram(u) \/ VerifyReplaced(u)
       \/ ReportUpdate(u) \/ InstallerFails(u)
  \/ \E i \in Installations : ForeignChange(i) \/ Activates(i) \/ TaskChanges(i)
  \/ (\A u \in Installers : installer[u].at \in {"done", "failed"}) /\ UNCHANGED updateVars

UpdateSpec == UpdateInit /\ [][UpdateNext]_updateVars
-----------------------------------------------------------------------------
ProgramsHeld(i) == disk[i].backups \cup {disk[i].program}

Overwritten(i) == IF history[i].raced THEN {Foreign} ELSE {}

\* No update destroys a program: what was ever in place is in place or in a backup, unless
\* somebody else overwrote it.  A restoring installer may overwrite a foreign one, but only
\* one that came between its last look and its rename.
ProgramsAreKept ==
  \A i \in Installations :
    history[i].programs \subseteq ProgramsHeld(i) \cup Overwritten(i)

\* Installers that succeed do so one after the other, though each lock is dropped before
\* the next target: in the end every installation has the program of the same one, unless
\* an installer failed on the way, somebody else touched the file, or the installation was
\* activated meanwhile.
OneVersion ==
  LET untouched == {i \in Installations : disk[i].journal = "owned" /\ ~history[i].touched} IN
  (\A u \in Installers : installer[u].at \in {"new", "done"}) =>
    \A i, j \in untouched : disk[i].program = disk[j].program

\* A program is replaced only by an installer that found all installations in order; a
\* task may be changed, or an installation activated, after it has looked.
AllValidFirst ==
  \A u \in Installers : installer[u].replaced # {} =>
    \A i \in Installations : Authorized(i) \/ u \in history[i].late

UpdateIsSafe == ProgramsAreKept /\ OneVersion /\ AllValidFirst
=============================================================================
