------------------------------ MODULE MCRollouts ------------------------------
(* New versions that take the place of running ones: of a project, of the   *)
(* preview of a pull request, of the panel itself.  They share no state; a  *)
(* behaviour is one of the three.                                           *)
EXTENDS Deploys, TLC

CONSTANTS Client, MaxJobs, MaxDeletes, MaxHosts, Request, Helper, MaxVersion, MaxCrashes

VARIABLES
    part,
    prRow, lastId, box, prSite, lastHost, job, jobs, prOp, epoch, holder, deletes,
    overran, split, partial, cut, strays, lingers,
    latest, staged, writer, prep, prepared, exe, backup, panel, asUnit, helper, exiting, crashes,
    overlapped

prVars == <<prRow, lastId, box, prSite, lastHost, job, jobs, prOp, epoch, holder, deletes,
            overran, split, partial, cut, strays, lingers>>
updaterVars == <<latest, staged, writer, prep, prepared, exe, backup, panel, asUnit, helper,
                 exiting, crashes, overlapped>>

PR == INSTANCE Preview WITH row <- prRow, site <- prSite, op <- prOp
Updates == INSTANCE Updater

ASSUME RolloutsAssumption == PR!PreviewAssumption /\ Updates!UpdaterAssumption

Symmetry == Permutations(Client)

(* The parts that do not move start in one state. *)
MCInit ==
    /\ part \in {"deploys", "previews", "updates"}
    /\ Init /\ (part = "deploys" \/ mode = "docker")
    /\ PR!Init
    /\ Updates!Init /\ (part = "updates" \/ ~asUnit)

MCNext ==
    /\ UNCHANGED part
    /\ \/ part = "deploys" /\ Next /\ UNCHANGED <<prVars, updaterVars>>
       \/ part = "previews" /\ PR!Next /\ UNCHANGED <<vars, updaterVars>>
       \/ part = "updates" /\ Updates!Next /\ UNCHANGED <<vars, prVars>>

MCSpec == MCInit /\ [][MCNext]_<<part, vars, prVars, updaterVars>>

(* At most one goroutine works on a preview.                               *)
OneRunPerPreview == PR!OneRunPerPreview

(* A preview that is said to run is served by what its row names.          *)
RunningIsServed == PR!RunningIsServed

(* No preview waits for a build that nobody makes, unless its last one was *)
(* cut short by the deadline, an error or the panel's death.               *)
NoneIsStranded == PR!NoneIsStranded

(* A deleted preview leaves no container, and no host but one whose id no  *)
(* row could take.                                                         *)
NoOrphans == PR!NoOrphans

(* The panel is not replaced by a part of a binary.                        *)
InstalledIsWhole == Updates!InstalledIsWhole
=============================================================================
