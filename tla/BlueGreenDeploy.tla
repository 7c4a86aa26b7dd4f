---------------------------- MODULE BlueGreenDeploy --------------------------
(***************************************************************************)
(* deploy/deploy-blue-green.sh: one deployment runs an image in the slot    *)
(* that serves nothing, verifies it, points the Nginx link at it, reloads   *)
(* Nginx and stops the slot that served before.  A command that fails runs  *)
(* the ERR trap, rollback().  A signal or a reboot runs nothing: what the   *)
(* next deployment knows is what the disk says.                              *)
(* Docker, systemd and Nginx are external, modelled as the script uses      *)
(* them: --restart unless-stopped brings back what was running at a reboot, *)
(* and Nginx serves the configuration of its last reload, not of the link.  *)
(***************************************************************************)
EXTENDS FiniteSets

CONSTANTS
    Deployments,   \* invocations of the script, one after another or overlapping
    NoOne

Blue == "blue"
Green == "green"
Slots == {Blue, Green}
NoSlot == "none"
Off == "off"
Legacy == "legacy"

ASSUME ConstantsAssumption == IsFiniteSet(Deployments) /\ NoOne \notin Deployments

VARIABLES
    link,       \* disk: the slot that /etc/nginx/conf.d/bidmate-api.conf names
    stateFile,  \* disk: the slot in active-slot
    valid,      \* disk: slots whose installed configuration passes nginx -t
    running,    \* Docker: slots whose container runs
    stopped,    \*         ... exists and was stopped
    nginx,      \* Nginx: the slot it serves; NoSlot: none; Off: it does not run
    legacy,     \* systemd: the old unit, Uvicorn on port 8000, is active
    enabled,    \* systemd: units started at boot
    lock,       \* who holds the lock file
    script,     \* each invocation: its position and its variables
    verified,   \* history: slots whose container passed the checks
    damage      \* history: what went wrong unnoticed; see Lasting and Ignored

disk == <<link, stateFile, valid>>
docker == <<running, stopped, verified>>
units == <<nginx, legacy, enabled>>
vars == <<disk, docker, units, lock, script, damage>>

Trapped == {"prepare", "remove", "run", "verify", "link", "stopLegacy", "enable",
            "reload", "smoke", "record", "drain"}
Untrapped == {"read", "linked", "disable", "undoStart", "undoLink", "undoNginx",
              "undoLegacy", "undoState", "undoRun"}
Over == {"idle", "refused", "done", "failed", "killed"}
Script == [at : Trapped \cup Untrapped \cup Over, active : Slots \cup {NoSlot},
           legacyWas : BOOLEAN, changed : BOOLEAN,
           served : Slots \cup {NoSlot, Legacy}]   \* served: history

(* Nginx was left on a slot that the link does not name; a rollback could   *)
(* not start the old slot, or not restore the link.                          *)
Lasting == {"stray", "unstarted", "unlinked"}

(* rollback runs with set +e: its nginx -t refused the restored link, or    *)
(* its commands for Nginx, the old unit, the state file, the candidate       *)
(* failed.                                                                   *)
Ignored == {"refused", "nginx", "legacy", "state", "candidate"}

TypeOK ==
    /\ {link, stateFile} \subseteq Slots \cup {NoSlot}
    /\ valid \subseteq Slots
    /\ running \cup stopped \subseteq Slots /\ running \cap stopped = {}
    /\ verified \subseteq running \cup stopped
    /\ nginx \in Slots \cup {NoSlot, Off}
    /\ legacy \in BOOLEAN /\ enabled \subseteq {"nginx", Legacy}
    /\ lock \in Deployments \cup {NoOne}
    /\ script \in [Deployments -> Script]
    /\ damage \subseteq Lasting \cup Ignored

Idle == [at |-> "idle", active |-> NoSlot, legacyWas |-> FALSE, changed |-> FALSE,
         served |-> NoSlot]

(* Before the first deployment: the old unit, or a new machine.             *)
Init ==
    /\ link = NoSlot /\ stateFile = NoSlot /\ valid = {}
    /\ running = {} /\ stopped = {} /\ verified = {}
    /\ nginx \in {NoSlot, Off} /\ legacy \in BOOLEAN
    /\ enabled = {u \in {Legacy} : legacy} \cup {u \in {"nginx"} : nginx # Off}
    /\ lock = NoOne
    /\ script = [d \in Deployments |-> Idle]
    /\ damage = {}

(* What answers on port 8000, and whether anything does.                    *)
Served == IF nginx \in Slots THEN nginx ELSE IF legacy THEN Legacy ELSE NoSlot
Up == nginx \in running \/ (nginx \notin Slots /\ legacy)

Candidate(d) == IF script[d].active = Blue THEN Green ELSE Blue
OldSlot(d) == {script[d].active} \ {NoSlot}
At(d, here) == script[d].at = here
Goto(d, there) == script' = [script EXCEPT ![d].at = there] /\ UNCHANGED lock

(* The script is over: the lock goes, and Nginx may be left on a slot that  *)
(* the link does not name.                                                   *)
Leave(d, outcome, failing) ==
    /\ script' = [script EXCEPT ![d] = [Idle EXCEPT !.at = outcome]]
    /\ lock' = NoOne
    /\ damage' = damage \cup failing \cup {w \in {"stray"} : nginx \in Slots \ {link}}

-----------------------------------------------------------------------------
(* Before the trap is set.                                                  *)

TakeNoLock(d) ==   \* mutant
    /\ script[d].at \in Over
    /\ lock' = d
    /\ script' = [script EXCEPT ![d] = [Idle EXCEPT !.at = "read"]]
    /\ UNCHANGED <<disk, docker, units, damage>>

(* flock -n: a second deployment ends at once.                              *)
TakeLock(d) ==
    /\ script[d].at \in Over
    /\ IF lock = NoOne
       THEN /\ lock' = d
            /\ script' = [script EXCEPT ![d] = [Idle EXCEPT !.at = "read"]]
       ELSE /\ script' = [script EXCEPT ![d] = [Idle EXCEPT !.at = "refused"]]
            /\ UNCHANGED lock
    /\ UNCHANGED <<disk, docker, units, damage>>

(* The link tells which slot is active.  A state file without a link, and   *)
(* an active slot that does not run, need an operator; a state file that    *)
(* disagrees with the link is repaired.                                      *)
ReadState(d) ==
    /\ At(d, "read")
    /\ stateFile' = IF link = NoSlot THEN stateFile ELSE link
    /\ IF (link = NoSlot /\ stateFile # NoSlot) \/ link \in Slots \ running
       THEN Leave(d, "refused", {})
       ELSE /\ script' = [script EXCEPT ![d] =
                  [at |-> "prepare", active |-> link, legacyWas |-> legacy,
                   changed |-> FALSE, served |-> Served]]
            /\ damage' = damage \cap {"stray"}
            /\ UNCHANGED lock
    /\ UNCHANGED <<link, valid, docker, units>>

-----------------------------------------------------------------------------
(* The candidate.                                                           *)

(* docker rm --force ... || true: when it fails the container may be killed *)
(* or not.                                                                   *)
Remove(c) ==
    /\ running' = running \ {c}
    /\ stopped' = stopped \ {c}
    /\ verified' = verified \ {c}

RemoveFails(c) ==
    /\ c \in running \cup stopped
    /\ running' \in {running, running \ {c}}
    /\ stopped' = (running \cup stopped) \ running'
    /\ UNCHANGED verified

(* Pull the image, install both configurations, of any quality, migrate.    *)
Prepare(d) ==
    /\ At(d, "prepare")
    /\ valid' \in SUBSET Slots
    /\ Goto(d, "remove")
    /\ UNCHANGED <<link, stateFile, docker, units, damage>>

RemoveCandidate(d) ==
    /\ At(d, "remove")
    /\ Remove(Candidate(d)) \/ RemoveFails(Candidate(d))
    /\ Goto(d, "run")
    /\ UNCHANGED <<disk, units, damage>>

(* Fails on the name of a container that was not removed.                   *)
RunCandidate(d) ==
    /\ At(d, "run")
    /\ Candidate(d) \notin running \cup stopped
    /\ running' = running \cup {Candidate(d)}
    /\ Goto(d, "verify")
    /\ UNCHANGED <<disk, stopped, verified, units, damage>>

(* /health, /ready and the credentials of the role.                         *)
Verify(d) ==
    /\ At(d, "verify")
    /\ verified' = verified \cup {Candidate(d)}
    /\ Goto(d, "link")
    /\ UNCHANGED <<disk, running, stopped, units, damage>>

-----------------------------------------------------------------------------
(* The switch.                                                              *)

(* The rename of the link; link_changed is set by the next statement.       *)
MoveLink(d) ==
    /\ At(d, "link")
    /\ link' = Candidate(d)
    /\ Goto(d, "linked")
    /\ UNCHANGED <<stateFile, valid, docker, units, damage>>

ForgetLink(d) ==   \* mutant
    /\ At(d, "linked")
    /\ script' = [script EXCEPT ![d].at =
          IF Candidate(d) \in valid THEN "stopLegacy" ELSE "undoRun"]
    /\ UNCHANGED <<disk, docker, units, lock, damage>>

(* nginx -t reads the configuration that the link names now.                *)
TestLink(d) ==
    /\ At(d, "linked")
    /\ script' = [script EXCEPT ![d].changed = TRUE, ![d].at =
          IF Candidate(d) \in valid THEN "stopLegacy" ELSE "undoStart"]
    /\ UNCHANGED <<disk, docker, units, lock, damage>>

StopLegacy(d) ==
    /\ At(d, "stopLegacy")
    /\ legacy' = (legacy /\ ~script[d].legacyWas)
    /\ Goto(d, "enable")
    /\ UNCHANGED <<disk, docker, nginx, enabled, damage>>

StartNginx(d) ==   \* mutant
    /\ At(d, "enable")
    /\ nginx' = IF nginx = Off THEN link ELSE nginx
    /\ Goto(d, "reload")
    /\ UNCHANGED <<disk, docker, legacy, enabled, damage>>

(* systemctl enable --now: Nginx may not have run before.                   *)
EnableNginx(d) ==
    /\ At(d, "enable")
    /\ enabled' = enabled \cup {"nginx"}
    /\ nginx' = IF nginx = Off THEN link ELSE nginx
    /\ Goto(d, "reload")
    /\ UNCHANGED <<disk, docker, legacy, damage>>

Reload(d) ==
    /\ At(d, "reload")
    /\ nginx' = link
    /\ damage' = damage \ {"stray"}
    /\ Goto(d, "smoke")
    /\ UNCHANGED <<disk, docker, legacy, enabled>>

RecordEarly(d) ==   \* mutant
    /\ At(d, "smoke")
    /\ stateFile' = Candidate(d)
    /\ Goto(d, "record")
    /\ UNCHANGED <<link, valid, docker, units, damage>>

(* /ready, /version, /bids and /me through Nginx.                           *)
SmokeTest(d) ==
    /\ At(d, "smoke")
    /\ Goto(d, "record")
    /\ UNCHANGED <<disk, docker, units, damage>>

RecordSlot(d) ==
    /\ At(d, "record")
    /\ stateFile' = Candidate(d)
    /\ Goto(d, "disable")
    /\ UNCHANGED <<link, valid, docker, units, damage>>

(* Disabling the old unit may fail unnoticed.                               *)
DisableLegacy(d) ==
    /\ At(d, "disable")
    /\ \/ script[d].legacyWas /\ enabled' = enabled \ {Legacy}
       \/ UNCHANGED enabled
    /\ IF OldSlot(d) = {} THEN Leave(d, "done", {})
       ELSE Goto(d, "drain") /\ UNCHANGED damage
    /\ UNCHANGED <<disk, docker, nginx, legacy>>

(* The last command under the trap.                                         *)
StopOld(d) ==
    /\ At(d, "drain")
    /\ running' = running \ OldSlot(d)
    /\ stopped' = stopped \cup OldSlot(d)
    /\ Leave(d, "done", {})
    /\ UNCHANGED <<disk, verified, units>>

-----------------------------------------------------------------------------
(* Failure of a command: rollback().                                        *)

(* docker run may leave a container that did not start, enable --now a unit *)
(* that did not, docker stop a container that is stopped.                    *)
Fail(d) ==
    /\ script[d].at \in Trapped
    /\ \/ UNCHANGED <<running, stopped, enabled>>
       \/ /\ At(d, "run") /\ Candidate(d) \notin running
          /\ stopped' = stopped \cup {Candidate(d)}
          /\ UNCHANGED <<running, enabled>>
       \/ /\ At(d, "enable")
          /\ enabled' = enabled \cup {"nginx"}
          /\ UNCHANGED <<running, stopped>>
       \/ /\ At(d, "drain")
          /\ running' = running \ OldSlot(d)
          /\ stopped' = stopped \cup OldSlot(d)
          /\ UNCHANGED enabled
    /\ Goto(d, IF script[d].changed THEN "undoStart" ELSE "undoRun")
    /\ UNCHANGED <<disk, verified, nginx, legacy, damage>>

(* Every command of rollback may fail, and the next one runs all the same.  *)
FailsUnnoticed(what) == damage' = damage \cup {what}

(* docker start of the old slot.                                            *)
UndoStart(d) ==
    /\ At(d, "undoStart")
    /\ \/ /\ running' = running \cup OldSlot(d)
          /\ stopped' = stopped \ OldSlot(d)
          /\ UNCHANGED damage
       \/ /\ OldSlot(d) \cap stopped # {}
          /\ FailsUnnoticed("unstarted")
          /\ UNCHANGED <<running, stopped>>
    /\ Goto(d, "undoLink")
    /\ UNCHANGED <<disk, verified, units>>

UndoLink(d) ==
    /\ At(d, "undoLink")
    /\ \/ link' = script[d].active /\ UNCHANGED damage
       \/ UNCHANGED link /\ FailsUnnoticed("unlinked")
    /\ Goto(d, "undoNginx")
    /\ UNCHANGED <<stateFile, valid, docker, units>>

(* Nginx keeps what it serves when nginx -t refuses the restored link or    *)
(* the command after it fails.  It is stopped when the old unit needs its    *)
(* port again; reload does not start it.                                     *)
UndoNginx(d) ==
    /\ At(d, "undoNginx")
    /\ \/ /\ link \in valid \cup {NoSlot}
          /\ nginx' = IF nginx = Off \/ (script[d].active = NoSlot /\ script[d].legacyWas)
                      THEN Off ELSE link
          /\ damage' = damage \ {"stray"}
       \/ /\ UNCHANGED nginx
          /\ FailsUnnoticed(IF link \in valid \cup {NoSlot} THEN "nginx" ELSE "refused")
    /\ Goto(d, "undoLegacy")
    /\ UNCHANGED <<disk, docker, legacy, enabled>>

(* Uvicorn fails to start while Nginx holds port 8000.                      *)
UndoLegacy(d) ==
    /\ At(d, "undoLegacy")
    /\ \/ ~script[d].legacyWas /\ UNCHANGED <<legacy, enabled, damage>>
       \/ /\ script[d].legacyWas
          /\ legacy' = (nginx \notin Slots)
          /\ enabled' = enabled \cup {Legacy}
          /\ UNCHANGED damage
       \/ /\ script[d].legacyWas
          /\ legacy' \in {FALSE, nginx \notin Slots}
          /\ enabled' \in {enabled, enabled \cup {Legacy}}
          /\ FailsUnnoticed("legacy")
    /\ Goto(d, "undoState")
    /\ UNCHANGED <<disk, docker, nginx>>

(* The file is rewritten and renamed, or removed; a write that fails leaves *)
(* an empty one to rename.                                                   *)
UndoState(d) ==
    /\ At(d, "undoState")
    /\ \/ stateFile' = script[d].active /\ UNCHANGED damage
       \/ stateFile' \in {stateFile, NoSlot} /\ FailsUnnoticed("state")
    /\ Goto(d, "undoRun")
    /\ UNCHANGED <<link, valid, docker, units>>

UndoRun(d) ==
    /\ At(d, "undoRun")
    /\ \/ Remove(Candidate(d)) /\ Leave(d, "failed", {})
       \/ RemoveFails(Candidate(d)) /\ Leave(d, "failed", {"candidate"})
    /\ UNCHANGED <<disk, units>>

-----------------------------------------------------------------------------
(* A signal ends the script: ERR does not catch it.                         *)
Kill(d) ==
    /\ script[d].at \in Trapped \cup Untrapped
    /\ Leave(d, "killed", {})
    /\ UNCHANGED <<disk, docker, units>>

(* What a boot can start.  Nginx fails on a configuration that it cannot    *)
(* read, and Nginx and the old unit race for port 8000 when both want it.   *)
Boots ==
    LET starts == "nginx" \in enabled /\ link \in valid \cup {NoSlot}
        alone == [nginx |-> IF starts THEN link ELSE Off, legacy |-> Legacy \in enabled]
    IN  IF alone.nginx \in Slots /\ alone.legacy
        THEN {[alone EXCEPT !.nginx = Off], [alone EXCEPT !.legacy = FALSE]}
        ELSE {alone}

Reboot ==
    /\ \E boot \in Boots : nginx' = boot.nginx /\ legacy' = boot.legacy
    /\ script' = [d \in Deployments |->
          IF script[d].at \in Over THEN script[d] ELSE [Idle EXCEPT !.at = "killed"]]
    /\ lock' = NoOne
    /\ damage' = damage \ {"stray"}
    /\ UNCHANGED <<disk, docker, enabled>>

Deploy(d) ==
    \/ TakeLock(d) \/ ReadState(d) \/ Prepare(d) \/ RemoveCandidate(d)
    \/ RunCandidate(d) \/ Verify(d) \/ MoveLink(d) \/ TestLink(d) \/ StopLegacy(d)
    \/ EnableNginx(d) \/ Reload(d) \/ SmokeTest(d) \/ RecordSlot(d)
    \/ DisableLegacy(d) \/ StopOld(d)

Rollback(d) ==
    \/ Fail(d) \/ UndoStart(d) \/ UndoLink(d) \/ UndoNginx(d) \/ UndoLegacy(d)
    \/ UndoState(d) \/ UndoRun(d)

Next == Reboot \/ \E d \in Deployments : Deploy(d) \/ Rollback(d) \/ Kill(d)

Spec == Init /\ [][Next]_vars

-----------------------------------------------------------------------------
(* Properties.                                                              *)

(* Zero downtime: what Nginx serves is a container that runs and that was   *)
(* verified, at every moment of a deployment, of its rollback and after it  *)
(* was cut short.  Except where a deployment left Nginx on a slot that the  *)
(* link does not name, or a rollback failed to restore slot or link.         *)
StaysUp == damage \cap Lasting = {} /\ nginx \in Slots => nginx \in running \cap verified

(* The link is what a reboot goes by: whenever the service is up, wherever  *)
(* a deployment has got to, a reboot brings it up again, on a verified      *)
(* image, unless a rollback failed to restore the slot or the link.          *)
RebootServes ==
    /\ Up /\ damage \cap {"unstarted", "unlinked"} = {}
    /\ IF link = NoSlot THEN Legacy \in enabled ELSE link \in valid
    => \A boot \in Boots : IF boot.nginx \in Slots
                           THEN boot.nginx \in running \cap verified ELSE boot.legacy

(* A deployment that fails restores what it found, whatever it had done and *)
(* whatever else fails: the link, the state file and the candidate's         *)
(* absence are each lost only with the command that restores it, and what    *)
(* answered on port 8000 answers again unless a command for the link, Nginx, *)
(* the old slot or the old unit failed, nginx -t refused the old            *)
(* configuration, or Nginx was astray before.                                *)
FailureRestores ==
    [][\A d \in Deployments :
         LET found == script[d]
             safe(what) == damage' \cap what = {}
         IN  found.at # "failed" /\ script'[d].at = "failed" =>
               /\ safe({"unlinked"}) => link' = found.active
               /\ safe({"state"}) => stateFile' = found.active
               /\ safe({"candidate"}) => Candidate(d) \notin running' \cup stopped'
               /\ /\ safe({"unlinked", "refused", "nginx", "legacy"})
                  /\ found.served \notin Slots \ OldSlot(d)
                  => /\ Served' \in {found.served} \cup OldSlot(d)
                     /\ found.served # NoSlot /\ safe({"unstarted"}) => Up']_vars

(* No cut-short deployment needs an operator: the next one can start,       *)
(* unless a rollback failed to restore the slot or the link.                 *)
NextCanStart ==
    /\ stateFile # NoSlot => link # NoSlot
    /\ link \in Slots /\ damage \cap {"unstarted", "unlinked"} = {} => link \in running
=============================================================================
