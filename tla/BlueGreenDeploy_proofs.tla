------------------------- MODULE BlueGreenDeploy_proofs -----------------------
(***************************************************************************)
(* Proofs about BlueGreenDeploy, for any set of deployments.  One inductive *)
(* invariant says what the machine looks like at every position of the      *)
(* script; the properties of a deployment follow from it.                    *)
(***************************************************************************)
EXTENDS BlueGreenDeploy, TLAPS

(* Only the holder of the lock runs.                                        *)
LockInv == \A d \in Deployments : lock = d <=> script[d].at \notin Over

(* No rollback has failed to restore the slot or the link.                  *)
Sound == "unstarted" \notin damage /\ "unlinked" \notin damage

(* What the disk, Docker and the units say in every state.                  *)
MachineInv ==
    /\ link \in running \cup stopped => link \in verified
    /\ link \in Slots /\ "unlinked" \notin damage => link \in verified
    /\ link \in Slots /\ Sound => link \in running
    /\ stateFile # NoSlot => link # NoSlot
    /\ nginx # Off => "nginx" \in enabled
    /\ legacy => Legacy \in enabled \/ "nginx" \in enabled
    /\ Sound /\ "stray" \notin damage /\ nginx \in Slots => nginx \in running \cap verified

(* Between two deployments Nginx serves what the link names.                *)
RestInv == lock = NoOne /\ "stray" \notin damage => nginx \notin Slots \ {link}

(* Where a deployment is, by what it has changed.                           *)
Preparing == {"prepare", "remove", "run", "verify", "link"}
Switching == {"linked", "stopLegacy", "enable"}
Switched == {"smoke", "record", "disable", "drain"}
Restored == {"undoNginx", "undoLegacy", "undoState", "undoRun"}

(* Nothing has gone wrong that keeps rollback from handing traffic back.    *)
Restorable(d) ==
    /\ script[d].served \notin Slots \ OldSlot(d)
    /\ "unlinked" \notin damage /\ "refused" \notin damage
    /\ "nginx" \notin damage /\ "legacy" \notin damage

ScriptInv(d) ==
    LET a == script[d]
    IN  /\ a.at = "read" /\ "stray" \notin damage => nginx \notin Slots \ {link}
        /\ a.at \notin Over \cup {"read"} =>
             /\ legacy => a.legacyWas
             /\ a.legacyWas => Legacy \in enabled \/ "nginx" \in enabled
             /\ a.served \in Slots \cup {IF a.legacyWas THEN Legacy ELSE NoSlot}
             /\ OldSlot(d) \subseteq verified
             /\ link \in {a.active, Candidate(d)}
        /\ a.at \in Preparing => link = a.active
        /\ a.at \in Restored /\ "unlinked" \notin damage => link = a.active
        /\ a.at \in Switching \cup {"reload"} \cup Switched \cup {"undoStart", "undoLink"} =>
             link = Candidate(d)
        /\ a.at \in Preparing \cup {"linked"} => ~a.changed
        /\ a.at \in {"stopLegacy", "enable", "reload"} \cup Switched => a.changed
        /\ a.at \in Preparing \cup Switching \cup Switched
                \cup {"reload", "undoLink"} \cup Restored
           /\ "unstarted" \notin damage => OldSlot(d) \subseteq running
        /\ a.at \in {"verify", "link"} \cup Switching \cup Switched
                \cup {"reload", "undoStart", "undoLink"} => Candidate(d) \in running
        /\ a.at \in {"link"} \cup Switching \cup Switched
                \cup {"reload", "undoStart", "undoLink"} => Candidate(d) \in verified
        /\ a.at \in Preparing \cup Switching /\ "stray" \notin damage => nginx # Candidate(d)
        /\ a.at \in {"reload"} \cup Switched => nginx # Off
        /\ a.at \in Switched => nginx = link
        /\ a.at \in {"enable", "reload"} \cup Switched => ~legacy
        /\ a.at \in Preparing => stateFile = a.active
        /\ a.at = "undoRun" /\ "state" \notin damage => stateFile = a.active
        /\ a.active = NoSlot /\ a.at \notin Over \cup {"read", "disable"} => stateFile = NoSlot
        /\ a.active = NoSlot => a.at # "drain"
        /\ a.at \in Preparing \cup {"linked", "stopLegacy"} => Served = a.served
        /\ a.at \in Preparing \cup Switching \cup Switched
                \cup {"reload", "undoStart", "undoLink", "undoNginx"} =>
             (nginx = Off => a.served \notin Slots)
        /\ a.at = "undoLegacy" /\ Restorable(d) =>
             nginx \in OldSlot(d) \/ (nginx \notin Slots /\ a.served \notin Slots)
        /\ a.at \in {"undoState", "undoRun"} /\ Restorable(d) =>
             Served \in {a.served} \cup OldSlot(d)

IInv ==
    /\ TypeOK
    /\ LockInv
    /\ MachineInv
    /\ RestInv
    /\ \A d \in Deployments : ScriptInv(d)

Positions == Trapped \cup Untrapped \cup Over

-----------------------------------------------------------------------------
(* The strings that name slots and states differ.                            *)
LEMMA Names ==
    /\ Blue # Green /\ NoSlot \notin Slots /\ Off \notin Slots /\ NoSlot # Off
    /\ Legacy \notin Slots /\ Legacy # NoSlot
  BY DEF Blue, Green, Slots, NoSlot, Off, Legacy

LEMMA SlotTypes ==
    ASSUME TypeOK, NEW d \in Deployments
    PROVE  /\ script[d] \in Script
           /\ script[d].active \in Slots \cup {NoSlot}
           /\ Candidate(d) \in Slots
           /\ OldSlot(d) \subseteq Slots \ {Candidate(d)}
  <1>1. script[d] \in Script BY DEF TypeOK
  <1>2. script[d].active \in Slots \cup {NoSlot} BY <1>1 DEF Script
  <1> QED BY <1>1, <1>2, Names DEF Candidate, OldSlot, Slots

(* Goto changes the position of one script and nothing else of it.          *)
LEMMA GotoFacts ==
    ASSUME TypeOK, NEW d \in Deployments, NEW there \in Positions, Goto(d, there)
    PROVE  /\ script' \in [Deployments -> Script]
           /\ script'[d].at = there
           /\ script'[d].active = script[d].active
           /\ script'[d].legacyWas = script[d].legacyWas
           /\ script'[d].changed = script[d].changed
           /\ script'[d].served = script[d].served
           /\ \A e \in Deployments \ {d} : script'[e] = script[e]
           /\ lock' = lock
  BY DEF TypeOK, Goto, Script, Positions

(* What goes wrong is one of the things that damage names.                  *)
LEMMA Unnoticed ==
    ASSUME TypeOK
    PROVE  /\ \A what \in Lasting \cup Ignored :
                FailsUnnoticed(what) => damage' \subseteq Lasting \cup Ignored
           /\ UNCHANGED damage => damage' \subseteq Lasting \cup Ignored
           /\ {"unstarted", "unlinked"} \subseteq Lasting \cup Ignored
           /\ Ignored \subseteq Lasting \cup Ignored
  BY DEF TypeOK, FailsUnnoticed, Lasting, Ignored

(* Leaving clears the variables of the script and frees the lock.           *)
LEMMA LeaveFacts ==
    ASSUME TypeOK, NEW d \in Deployments, NEW outcome \in Over,
           NEW failing \in SUBSET Ignored, Leave(d, outcome, failing)
    PROVE  /\ script' \in [Deployments -> Script]
           /\ script'[d].at = outcome
           /\ script'[d].active = NoSlot
           /\ \A e \in Deployments \ {d} : script'[e] = script[e]
           /\ lock' = NoOne
           /\ damage \cup failing \subseteq damage'
           /\ damage' \subseteq Lasting \cup Ignored
           /\ nginx \in Slots \ {link} => "stray" \in damage'
  <1>1. [Idle EXCEPT !.at = outcome] \in Script
    BY DEF Idle, Script, NoSlot, Slots, Legacy
  <1>2. [Idle EXCEPT !.at = outcome].at = outcome
        /\ [Idle EXCEPT !.at = outcome].active = NoSlot
    BY DEF Idle
  <1> HIDE DEF Idle
  <1>3. /\ damage \cup failing \subseteq damage'
        /\ damage' \subseteq Lasting \cup Ignored
        /\ nginx \in Slots \ {link} => "stray" \in damage'
    BY DEF TypeOK, Leave, Lasting
  <1> QED BY <1>1, <1>2, <1>3 DEF TypeOK, Leave

(* A script that is over constrains nothing.                                 *)
LEMMA OverIsFree ==
    ASSUME NEW d \in Deployments, script'[d].at \in Over
    PROVE  ScriptInv(d)'
  BY DEF ScriptInv, Over, Preparing, Switching, Switched, Restored

(* The script that goes on holds the lock, so all others are over: what is  *)
(* left to show of a step is what it does to the machine and to its script. *)
LEMMA StepKeeps ==
    ASSUME IInv, NEW d \in Deployments, script[d].at \notin Over,
           script'[d].at \notin Over, lock' = lock,
           \A e \in Deployments \ {d} : script'[e] = script[e],
           TypeOK', MachineInv', ScriptInv(d)'
    PROVE  IInv'
  <1>1. lock = d /\ d # NoOne /\ \A e \in Deployments \ {d} : script[e].at \in Over
    BY ConstantsAssumption DEF IInv, LockInv
  <1>2. LockInv' /\ RestInv'
    BY <1>1 DEF IInv, LockInv, RestInv
  <1>3. ASSUME NEW e \in Deployments PROVE ScriptInv(e)'
    <2>1. CASE e = d BY <2>1
    <2>2. CASE e # d BY <2>2, <1>1, OverIsFree
    <2> QED BY <2>1, <2>2
  <1> QED BY <1>2, <1>3 DEF IInv

LEMMA LeaveKeeps ==
    ASSUME IInv, NEW d \in Deployments, script[d].at \notin Over,
           NEW outcome \in Over, NEW failing \in SUBSET Ignored, Leave(d, outcome, failing),
           UNCHANGED <<link, nginx>>,
           TypeOK', MachineInv'
    PROVE  IInv'
  <1>1. lock = d /\ d # NoOne /\ \A e \in Deployments \ {d} : script[e].at \in Over
    BY ConstantsAssumption DEF IInv, LockInv
  <1>2. \A e \in Deployments : script'[e].at \in Over
    BY <1>1, LeaveFacts DEF IInv
  <1>3. LockInv'
    BY <1>2, LeaveFacts, ConstantsAssumption DEF IInv, LockInv
  <1>4. RestInv'
    BY LeaveFacts DEF IInv, RestInv
  <1> QED BY <1>2, <1>3, <1>4, OverIsFree DEF IInv

-----------------------------------------------------------------------------
(* One lemma per step of the script: its types, what it leaves of the       *)
(* machine, and what it has established for the position it goes to.        *)

LEMMA PrepareKeeps ==
    ASSUME IInv, NEW d \in Deployments, Prepare(d)
    PROVE  IInv'
  <1>1. script[d].at = "prepare" /\ Goto(d, "remove")
    BY DEF Prepare, At
  <1>2. "remove" \in Positions \ Over /\ script[d].at \notin Over
    BY <1>1 DEF Positions, Trapped, Untrapped, Over
  <1>3. TypeOK'
    BY <1>1, <1>2, GotoFacts, SlotTypes DEF IInv, TypeOK, ScriptInv, Prepare, disk, docker, units
  <1>4. MachineInv'
    BY <1>1, <1>2, Names
    DEF IInv, TypeOK, MachineInv, Sound, ScriptInv, Prepare, disk, docker, units, Candidate,
        OldSlot, Preparing, Switching, Switched, Restored, Over
  <1>5. ScriptInv(d)'
    <2>1. script'[d].at = "remove"
          /\ script'[d].active = script[d].active /\ script'[d].legacyWas = script[d].legacyWas
          /\ script'[d].changed = script[d].changed /\ script'[d].served = script[d].served
      BY <1>1, <1>2, GotoFacts DEF IInv
    <2> QED
      BY <1>1, <2>1, Names
      DEF IInv, TypeOK, MachineInv, ScriptInv, Prepare, disk, docker, units, Candidate,
          OldSlot, Preparing, Switching, Switched, Restored, Restorable, Over, Served, Slots
  <1> QED BY <1>1, <1>2, <1>3, <1>4, <1>5, StepKeeps, GotoFacts DEF IInv

LEMMA RemoveCandidateKeeps ==
    ASSUME IInv, NEW d \in Deployments, RemoveCandidate(d)
    PROVE  IInv'
  <1>1. script[d].at = "remove" /\ Goto(d, "run")
    BY DEF RemoveCandidate, At
  <1>2. "run" \in Positions \ Over /\ script[d].at \notin Over
    BY <1>1 DEF Positions, Trapped, Untrapped, Over
  <1>3. TypeOK'
    BY <1>1, <1>2, GotoFacts, SlotTypes
    DEF IInv, TypeOK, ScriptInv, RemoveCandidate, Remove, RemoveFails, disk, docker, units
  <1>4. MachineInv'
    BY <1>1, <1>2, Names
    DEF IInv, TypeOK, MachineInv, Sound, ScriptInv, RemoveCandidate, Remove, RemoveFails,
        disk, docker, units, Candidate, OldSlot, Preparing, Switching, Switched, Restored,
        Over
  <1>5. ScriptInv(d)'
    <2>1. script'[d].at = "run"
          /\ script'[d].active = script[d].active /\ script'[d].legacyWas = script[d].legacyWas
          /\ script'[d].changed = script[d].changed /\ script'[d].served = script[d].served
      BY <1>1, <1>2, GotoFacts DEF IInv
    <2> QED
      BY <1>1, <2>1, Names
      DEF IInv, TypeOK, MachineInv, ScriptInv, RemoveCandidate, Remove, RemoveFails, disk,
          docker, units, Candidate, OldSlot, Preparing, Switching, Switched, Restored,
          Restorable, Over, Served, Slots
  <1> QED BY <1>1, <1>2, <1>3, <1>4, <1>5, StepKeeps, GotoFacts DEF IInv

LEMMA RunCandidateKeeps ==
    ASSUME IInv, NEW d \in Deployments, RunCandidate(d)
    PROVE  IInv'
  <1>1. script[d].at = "run" /\ Goto(d, "verify")
    BY DEF RunCandidate, At
  <1>2. "verify" \in Positions \ Over /\ script[d].at \notin Over
    BY <1>1 DEF Positions, Trapped, Untrapped, Over
  <1>3. TypeOK'
    BY <1>1, <1>2, GotoFacts, SlotTypes
    DEF IInv, TypeOK, ScriptInv, RunCandidate, disk, docker, units
  <1>4. MachineInv'
    BY <1>1, <1>2, Names
    DEF IInv, TypeOK, MachineInv, Sound, ScriptInv, RunCandidate, disk, docker, units,
        Candidate, OldSlot, Preparing, Switching, Switched, Restored, Over
  <1>5. ScriptInv(d)'
    <2>1. script'[d].at = "verify"
          /\ script'[d].active = script[d].active /\ script'[d].legacyWas = script[d].legacyWas
          /\ script'[d].changed = script[d].changed /\ script'[d].served = script[d].served
      BY <1>1, <1>2, GotoFacts DEF IInv
    <2> QED
      BY <1>1, <2>1, Names
      DEF IInv, TypeOK, MachineInv, ScriptInv, RunCandidate, disk, docker, units, Candidate,
          OldSlot, Preparing, Switching, Switched, Restored, Restorable, Over, Served, Slots
  <1> QED BY <1>1, <1>2, <1>3, <1>4, <1>5, StepKeeps, GotoFacts DEF IInv

LEMMA VerifyKeeps ==
    ASSUME IInv, NEW d \in Deployments, Verify(d)
    PROVE  IInv'
  <1>1. script[d].at = "verify" /\ Goto(d, "link")
    BY DEF Verify, At
  <1>2. "link" \in Positions \ Over /\ script[d].at \notin Over
    BY <1>1 DEF Positions, Trapped, Untrapped, Over
  <1>3. TypeOK'
    BY <1>1, <1>2, GotoFacts, SlotTypes DEF IInv, TypeOK, ScriptInv, Verify, disk, docker, units
  <1>4. MachineInv'
    BY <1>1, <1>2, Names
    DEF IInv, TypeOK, MachineInv, Sound, ScriptInv, Verify, disk, docker, units, Candidate,
        OldSlot, Preparing, Switching, Switched, Restored, Over
  <1>5. ScriptInv(d)'
    <2>1. script'[d].at = "link"
          /\ script'[d].active = script[d].active /\ script'[d].legacyWas = script[d].legacyWas
          /\ script'[d].changed = script[d].changed /\ script'[d].served = script[d].served
      BY <1>1, <1>2, GotoFacts DEF IInv
    <2> QED
      BY <1>1, <2>1, Names
      DEF IInv, TypeOK, MachineInv, ScriptInv, Verify, disk, docker, units, Candidate,
          OldSlot, Preparing, Switching, Switched, Restored, Restorable, Over, Served, Slots
  <1> QED BY <1>1, <1>2, <1>3, <1>4, <1>5, StepKeeps, GotoFacts DEF IInv

LEMMA MoveLinkKeeps ==
    ASSUME IInv, NEW d \in Deployments, MoveLink(d)
    PROVE  IInv'
  <1>1. script[d].at = "link" /\ Goto(d, "linked")
    BY DEF MoveLink, At
  <1>2. "linked" \in Positions \ Over /\ script[d].at \notin Over
    BY <1>1 DEF Positions, Trapped, Untrapped, Over
  <1>3. TypeOK'
    BY <1>1, <1>2, GotoFacts, SlotTypes DEF IInv, TypeOK, ScriptInv, MoveLink, disk, docker, units
  <1>4. MachineInv'
    BY <1>1, <1>2, Names
    DEF IInv, TypeOK, MachineInv, Sound, ScriptInv, MoveLink, disk, docker, units,
        Candidate, OldSlot, Preparing, Switching, Switched, Restored, Over
  <1>5. ScriptInv(d)'
    <2>1. script'[d].at = "linked"
          /\ script'[d].active = script[d].active /\ script'[d].legacyWas = script[d].legacyWas
          /\ script'[d].changed = script[d].changed /\ script'[d].served = script[d].served
      BY <1>1, <1>2, GotoFacts DEF IInv
    <2> QED
      BY <1>1, <2>1, Names
      DEF IInv, TypeOK, MachineInv, ScriptInv, MoveLink, disk, docker, units, Candidate,
          OldSlot, Preparing, Switching, Switched, Restored, Restorable, Over, Served, Slots
  <1> QED BY <1>1, <1>2, <1>3, <1>4, <1>5, StepKeeps, GotoFacts DEF IInv

LEMMA StopLegacyKeeps ==
    ASSUME IInv, NEW d \in Deployments, StopLegacy(d)
    PROVE  IInv'
  <1>1. script[d].at = "stopLegacy" /\ Goto(d, "enable")
    BY DEF StopLegacy, At
  <1>2. "enable" \in Positions \ Over /\ script[d].at \notin Over
    BY <1>1 DEF Positions, Trapped, Untrapped, Over
  <1>3. TypeOK'
    BY <1>1, <1>2, GotoFacts, SlotTypes DEF IInv, TypeOK, ScriptInv, StopLegacy, disk, docker, units
  <1>4. MachineInv'
    BY <1>1, <1>2, Names
    DEF IInv, TypeOK, MachineInv, Sound, ScriptInv, StopLegacy, disk, docker, units,
        Candidate, OldSlot, Preparing, Switching, Switched, Restored, Over
  <1>5. ScriptInv(d)'
    <2>1. script'[d].at = "enable"
          /\ script'[d].active = script[d].active /\ script'[d].legacyWas = script[d].legacyWas
          /\ script'[d].changed = script[d].changed /\ script'[d].served = script[d].served
      BY <1>1, <1>2, GotoFacts DEF IInv
    <2>2. legacy' = FALSE /\ UNCHANGED <<link, stateFile, valid, running, stopped, verified, nginx,
                                         enabled, damage>>
      BY <1>1, <1>2 DEF IInv, TypeOK, ScriptInv, StopLegacy, disk, docker
    <2> QED
      BY <1>1, <2>1, <2>2, Names
      DEF IInv, TypeOK, MachineInv, ScriptInv, Candidate, OldSlot, Preparing, Switching,
          Switched, Restored, Restorable, Over, Served, Slots
  <1> QED BY <1>1, <1>2, <1>3, <1>4, <1>5, StepKeeps, GotoFacts DEF IInv

LEMMA EnableNginxKeeps ==
    ASSUME IInv, NEW d \in Deployments, EnableNginx(d)
    PROVE  IInv'
  <1>1. script[d].at = "enable" /\ Goto(d, "reload")
    BY DEF EnableNginx, At
  <1>2. "reload" \in Positions \ Over /\ script[d].at \notin Over
    BY <1>1 DEF Positions, Trapped, Untrapped, Over
  <1>3. TypeOK'
    BY <1>1, <1>2, GotoFacts, SlotTypes
    DEF IInv, TypeOK, ScriptInv, EnableNginx, disk, docker, units
  <1>4. MachineInv'
    BY <1>1, <1>2, Names
    DEF IInv, TypeOK, MachineInv, Sound, ScriptInv, EnableNginx, disk, docker, units,
        Candidate, OldSlot, Preparing, Switching, Switched, Restored, Over
  <1>5. ScriptInv(d)'
    <2>1. script'[d].at = "reload"
          /\ script'[d].active = script[d].active /\ script'[d].legacyWas = script[d].legacyWas
          /\ script'[d].changed = script[d].changed /\ script'[d].served = script[d].served
      BY <1>1, <1>2, GotoFacts DEF IInv
    <2> QED
      BY <1>1, <2>1, Names
      DEF IInv, TypeOK, MachineInv, ScriptInv, EnableNginx, disk, docker, units, Candidate,
          OldSlot, Preparing, Switching, Switched, Restored, Restorable, Over, Served, Slots
  <1> QED BY <1>1, <1>2, <1>3, <1>4, <1>5, StepKeeps, GotoFacts DEF IInv

LEMMA ReloadKeeps ==
    ASSUME IInv, NEW d \in Deployments, Reload(d)
    PROVE  IInv'
  <1>1. script[d].at = "reload" /\ Goto(d, "smoke")
    BY DEF Reload, At
  <1>2. "smoke" \in Positions \ Over /\ script[d].at \notin Over
    BY <1>1 DEF Positions, Trapped, Untrapped, Over
  <1>3. TypeOK'
    BY <1>1, <1>2, GotoFacts, SlotTypes DEF IInv, TypeOK, ScriptInv, Reload, disk, docker, units
  <1>4. MachineInv'
    BY <1>1, <1>2, Names
    DEF IInv, TypeOK, MachineInv, Sound, ScriptInv, Reload, disk, docker, units, Candidate,
        OldSlot, Preparing, Switching, Switched, Restored, Over
  <1>5. ScriptInv(d)'
    <2>1. script'[d].at = "smoke"
          /\ script'[d].active = script[d].active /\ script'[d].legacyWas = script[d].legacyWas
          /\ script'[d].changed = script[d].changed /\ script'[d].served = script[d].served
      BY <1>1, <1>2, GotoFacts DEF IInv
    <2> QED
      BY <1>1, <2>1, Names
      DEF IInv, TypeOK, MachineInv, ScriptInv, Reload, disk, docker, units, Candidate,
          OldSlot, Preparing, Switching, Switched, Restored, Restorable, Over, Served, Slots
  <1> QED BY <1>1, <1>2, <1>3, <1>4, <1>5, StepKeeps, GotoFacts DEF IInv

LEMMA SmokeTestKeeps ==
    ASSUME IInv, NEW d \in Deployments, SmokeTest(d)
    PROVE  IInv'
  <1>1. script[d].at = "smoke" /\ Goto(d, "record")
    BY DEF SmokeTest, At
  <1>2. "record" \in Positions \ Over /\ script[d].at \notin Over
    BY <1>1 DEF Positions, Trapped, Untrapped, Over
  <1>3. TypeOK'
    BY <1>1, <1>2, GotoFacts, SlotTypes DEF IInv, TypeOK, ScriptInv, SmokeTest, disk, docker, units
  <1>4. MachineInv'
    BY <1>1, <1>2, Names
    DEF IInv, TypeOK, MachineInv, Sound, ScriptInv, SmokeTest, disk, docker, units,
        Candidate, OldSlot, Preparing, Switching, Switched, Restored, Over
  <1>5. ScriptInv(d)'
    <2>1. script'[d].at = "record"
          /\ script'[d].active = script[d].active /\ script'[d].legacyWas = script[d].legacyWas
          /\ script'[d].changed = script[d].changed /\ script'[d].served = script[d].served
      BY <1>1, <1>2, GotoFacts DEF IInv
    <2> QED
      BY <1>1, <2>1, Names
      DEF IInv, TypeOK, MachineInv, ScriptInv, SmokeTest, disk, docker, units, Candidate,
          OldSlot, Preparing, Switching, Switched, Restored, Restorable, Over, Served, Slots
  <1> QED BY <1>1, <1>2, <1>3, <1>4, <1>5, StepKeeps, GotoFacts DEF IInv

LEMMA RecordSlotKeeps ==
    ASSUME IInv, NEW d \in Deployments, RecordSlot(d)
    PROVE  IInv'
  <1>1. script[d].at = "record" /\ Goto(d, "disable")
    BY DEF RecordSlot, At
  <1>2. "disable" \in Positions \ Over /\ script[d].at \notin Over
    BY <1>1 DEF Positions, Trapped, Untrapped, Over
  <1>3. TypeOK'
    BY <1>1, <1>2, GotoFacts, SlotTypes DEF IInv, TypeOK, ScriptInv, RecordSlot, disk, docker, units
  <1>4. MachineInv'
    BY <1>1, <1>2, Names
    DEF IInv, TypeOK, MachineInv, Sound, ScriptInv, RecordSlot, disk, docker, units,
        Candidate, OldSlot, Preparing, Switching, Switched, Restored, Over
  <1>5. ScriptInv(d)'
    <2>1. script'[d].at = "disable"
          /\ script'[d].active = script[d].active /\ script'[d].legacyWas = script[d].legacyWas
          /\ script'[d].changed = script[d].changed /\ script'[d].served = script[d].served
      BY <1>1, <1>2, GotoFacts DEF IInv
    <2> QED
      BY <1>1, <2>1, Names
      DEF IInv, TypeOK, MachineInv, ScriptInv, RecordSlot, disk, docker, units, Candidate,
          OldSlot, Preparing, Switching, Switched, Restored, Restorable, Over, Served, Slots
  <1> QED BY <1>1, <1>2, <1>3, <1>4, <1>5, StepKeeps, GotoFacts DEF IInv

LEMMA UndoStartKeeps ==
    ASSUME IInv, NEW d \in Deployments, UndoStart(d)
    PROVE  IInv'
  <1>1. script[d].at = "undoStart" /\ Goto(d, "undoLink")
    BY DEF UndoStart, At
  <1>2. "undoLink" \in Positions \ Over /\ script[d].at \notin Over
    BY <1>1 DEF Positions, Trapped, Untrapped, Over
  <1>3. TypeOK'
    <2>1. damage' \subseteq Lasting \cup Ignored
      BY Unnoticed DEF IInv, UndoStart, Ignored
    <2> QED
      BY <1>1, <1>2, <2>1, GotoFacts, SlotTypes
      DEF IInv, TypeOK, ScriptInv, UndoStart, disk, docker, units
  <1>4. MachineInv'
    BY <1>1, <1>2, Names
    DEF IInv, TypeOK, MachineInv, Sound, ScriptInv, UndoStart, FailsUnnoticed, disk, docker,
        units, Candidate, OldSlot, Preparing, Switching, Switched, Restored, Over
  <1>5. ScriptInv(d)'
    <2>1. script'[d].at = "undoLink"
          /\ script'[d].active = script[d].active /\ script'[d].legacyWas = script[d].legacyWas
          /\ script'[d].changed = script[d].changed /\ script'[d].served = script[d].served
      BY <1>1, <1>2, GotoFacts DEF IInv
    <2> QED
      BY <1>1, <2>1, Names
      DEF IInv, TypeOK, MachineInv, ScriptInv, UndoStart, FailsUnnoticed, disk, docker,
          units, Candidate, OldSlot, Preparing, Switching, Switched, Restored, Restorable,
          Over, Served, Slots
  <1> QED BY <1>1, <1>2, <1>3, <1>4, <1>5, StepKeeps, GotoFacts DEF IInv

LEMMA UndoLinkKeeps ==
    ASSUME IInv, NEW d \in Deployments, UndoLink(d)
    PROVE  IInv'
  <1>1. script[d].at = "undoLink" /\ Goto(d, "undoNginx")
    BY DEF UndoLink, At
  <1>2. "undoNginx" \in Positions \ Over /\ script[d].at \notin Over
    BY <1>1 DEF Positions, Trapped, Untrapped, Over
  <1>3. TypeOK'
    <2>1. damage' \subseteq Lasting \cup Ignored
      BY Unnoticed DEF IInv, UndoLink, Ignored
    <2> QED
      BY <1>1, <1>2, <2>1, GotoFacts, SlotTypes
      DEF IInv, TypeOK, ScriptInv, UndoLink, disk, docker, units
  <1>4. MachineInv'
    BY <1>1, <1>2, Names
    DEF IInv, TypeOK, MachineInv, Sound, ScriptInv, UndoLink, FailsUnnoticed, disk, docker,
        units, Candidate, OldSlot, Preparing, Switching, Switched, Restored, Over
  <1>5. ScriptInv(d)'
    <2>1. script'[d].at = "undoNginx"
          /\ script'[d].active = script[d].active /\ script'[d].legacyWas = script[d].legacyWas
          /\ script'[d].changed = script[d].changed /\ script'[d].served = script[d].served
      BY <1>1, <1>2, GotoFacts DEF IInv
    <2> QED
      BY <1>1, <2>1, Names
      DEF IInv, TypeOK, MachineInv, ScriptInv, UndoLink, FailsUnnoticed, disk, docker,
          units, Candidate, OldSlot, Preparing, Switching, Switched, Restored, Restorable,
          Over, Served, Slots
  <1> QED BY <1>1, <1>2, <1>3, <1>4, <1>5, StepKeeps, GotoFacts DEF IInv

LEMMA UndoNginxKeeps ==
    ASSUME IInv, NEW d \in Deployments, UndoNginx(d)
    PROVE  IInv'
  <1>1. script[d].at = "undoNginx" /\ Goto(d, "undoLegacy")
    BY DEF UndoNginx, At
  <1>2. "undoLegacy" \in Positions \ Over /\ script[d].at \notin Over
    BY <1>1 DEF Positions, Trapped, Untrapped, Over
  <1>3. TypeOK'
    <2>1. damage' \subseteq Lasting \cup Ignored
      <3>1. CASE damage' = damage \ {"stray"} BY <3>1 DEF IInv, TypeOK
      <3>2. CASE FailsUnnoticed("nginx") \/ FailsUnnoticed("refused")
        BY <3>2, Unnoticed DEF IInv, Ignored
      <3> QED BY <3>1, <3>2 DEF UndoNginx
    <2> QED
      BY <1>1, <1>2, <2>1, GotoFacts, SlotTypes
      DEF IInv, TypeOK, ScriptInv, UndoNginx, disk, docker, units
  <1>4. MachineInv'
    BY <1>1, <1>2, Names
    DEF IInv, TypeOK, MachineInv, Sound, ScriptInv, UndoNginx, FailsUnnoticed, disk, docker,
        units, Candidate, OldSlot, Preparing, Switching, Switched, Restored, Over
  <1>5. ScriptInv(d)'
    <2>1. script'[d].at = "undoLegacy"
          /\ script'[d].active = script[d].active /\ script'[d].legacyWas = script[d].legacyWas
          /\ script'[d].changed = script[d].changed /\ script'[d].served = script[d].served
      BY <1>1, <1>2, GotoFacts DEF IInv
    <2> QED
      BY <1>1, <2>1, Names
      DEF IInv, TypeOK, MachineInv, ScriptInv, UndoNginx, FailsUnnoticed, disk, docker,
          units, Candidate, OldSlot, Preparing, Switching, Switched, Restored, Restorable,
          Over, Served, Slots
  <1> QED BY <1>1, <1>2, <1>3, <1>4, <1>5, StepKeeps, GotoFacts DEF IInv

LEMMA UndoLegacyKeeps ==
    ASSUME IInv, NEW d \in Deployments, UndoLegacy(d)
    PROVE  IInv'
  <1>1. script[d].at = "undoLegacy" /\ Goto(d, "undoState")
    BY DEF UndoLegacy, At
  <1>2. "undoState" \in Positions \ Over /\ script[d].at \notin Over
    BY <1>1 DEF Positions, Trapped, Untrapped, Over
  <1>3. TypeOK'
    <2>1. legacy' \in BOOLEAN
      BY DEF IInv, TypeOK, UndoLegacy
    <2>2. enabled' \subseteq {"nginx", Legacy}
      BY DEF IInv, TypeOK, UndoLegacy
    <2>3. damage' \subseteq Lasting \cup Ignored
      BY Unnoticed DEF IInv, UndoLegacy, Ignored
    <2> QED
      BY <1>1, <1>2, <2>1, <2>2, <2>3, GotoFacts DEF IInv, TypeOK, UndoLegacy, disk, docker
  <1>4. /\ UNCHANGED <<link, stateFile, valid, running, stopped, verified, nginx>>
        /\ damage \subseteq damage' /\ damage' \subseteq damage \cup {"legacy"}
        /\ enabled \subseteq enabled' /\ (legacy' => script[d].legacyWas)
        /\ \/ "legacy" \in damage'
           \/ IF script[d].legacyWas THEN legacy' = (nginx \notin Slots) ELSE legacy' = FALSE
    <2>1. legacy \in BOOLEAN /\ (legacy => script[d].legacyWas)
      BY <1>1, <1>2 DEF IInv, TypeOK, ScriptInv, Over
    <2>2. UNCHANGED <<link, stateFile, valid, running, stopped, verified, nginx>>
          /\ damage \subseteq damage' /\ damage' \subseteq damage \cup {"legacy"}
          /\ enabled \subseteq enabled'
      BY DEF UndoLegacy, FailsUnnoticed, disk, docker
    <2>3. CASE ~script[d].legacyWas
      <3>1. ~legacy BY <2>1, <2>3
      <3>2. legacy' = legacy BY <2>3 DEF UndoLegacy
      <3>3. legacy' = FALSE BY <2>1, <3>1, <3>2
      <3> QED BY <2>2, <2>3, <3>3
    <2>4. CASE script[d].legacyWas
      <3>1. legacy' = (nginx \notin Slots) \/ "legacy" \in damage'
        BY <2>4 DEF UndoLegacy, FailsUnnoticed
      <3> QED BY <2>2, <2>4, <3>1
    <2> QED BY <2>3, <2>4
  <1>5. MachineInv'
    BY <1>1, <1>2, <1>4 DEF IInv, MachineInv, Sound, ScriptInv
  <1>6. ScriptInv(d)'
    <2>1. script'[d].at = "undoState"
          /\ script'[d].active = script[d].active /\ script'[d].legacyWas = script[d].legacyWas
          /\ script'[d].changed = script[d].changed /\ script'[d].served = script[d].served
      BY <1>1, <1>2, GotoFacts DEF IInv
    <2>2. Restorable(d)' => Served' \in {script[d].served} \cup OldSlot(d)
      <3>1. SUFFICES ASSUME Restorable(d)' PROVE Served' \in {script[d].served} \cup OldSlot(d)
        OBVIOUS
      <3>2. Restorable(d)
            /\ IF script[d].legacyWas THEN legacy' = (nginx \notin Slots) ELSE legacy' = FALSE
        BY <1>4, <2>1, <3>1 DEF Restorable, OldSlot
      <3>3. /\ nginx \in OldSlot(d) \/ (nginx \notin Slots /\ script[d].served \notin Slots)
            /\ script[d].served \in Slots \cup {IF script[d].legacyWas THEN Legacy ELSE NoSlot}
            /\ OldSlot(d) \subseteq Slots
        BY <1>1, <1>2, <3>2, SlotTypes DEF IInv, ScriptInv
      <3> QED BY <1>4, <3>2, <3>3 DEF Served
    <2>3. ScriptInv(d) /\ script[d].at = "undoLegacy" /\ script[d].at \notin Over \cup {"read"}
      BY <1>1 DEF IInv, Over
    <2>4. Candidate(d)' = Candidate(d) /\ OldSlot(d)' = OldSlot(d)
      BY <2>1 DEF Candidate, OldSlot
    <2> QED
      BY <1>4, <2>1, <2>2, <2>3, <2>4, Zenon
      DEF ScriptInv, Preparing, Switching, Switched, Restored, Over
  <1> QED BY <1>1, <1>2, <1>3, <1>5, <1>6, StepKeeps, GotoFacts DEF IInv

LEMMA UndoStateKeeps ==
    ASSUME IInv, NEW d \in Deployments, UndoState(d)
    PROVE  IInv'
  <1>1. script[d].at = "undoState" /\ Goto(d, "undoRun")
    BY DEF UndoState, At
  <1>2. "undoRun" \in Positions \ Over /\ script[d].at \notin Over
    BY <1>1 DEF Positions, Trapped, Untrapped, Over
  <1>3. TypeOK'
    <2>1. damage' \subseteq Lasting \cup Ignored
      BY Unnoticed DEF IInv, UndoState, Ignored
    <2> QED
      BY <1>1, <1>2, <2>1, GotoFacts, SlotTypes
      DEF IInv, TypeOK, ScriptInv, UndoState, disk, docker, units
  <1>4. MachineInv'
    BY <1>1, <1>2, Names, SlotTypes
    DEF IInv, TypeOK, MachineInv, Sound, ScriptInv, UndoState, FailsUnnoticed, disk, docker,
        units, Candidate, OldSlot, Preparing, Switching, Switched, Restored, Over
  <1>5. ScriptInv(d)'
    <2>1. script'[d].at = "undoRun"
          /\ script'[d].active = script[d].active /\ script'[d].legacyWas = script[d].legacyWas
          /\ script'[d].changed = script[d].changed /\ script'[d].served = script[d].served
      BY <1>1, <1>2, GotoFacts DEF IInv
    <2> QED
      BY <1>1, <2>1, Names
      DEF IInv, TypeOK, MachineInv, ScriptInv, UndoState, FailsUnnoticed, disk, docker,
          units, Candidate, OldSlot, Preparing, Switching, Switched, Restored, Restorable,
          Over, Served, Slots
  <1> QED BY <1>1, <1>2, <1>3, <1>4, <1>5, StepKeeps, GotoFacts DEF IInv

LEMMA TestLinkKeeps ==
    ASSUME IInv, NEW d \in Deployments, TestLink(d)
    PROVE  IInv'
  <1> DEFINE there == IF Candidate(d) \in valid THEN "stopLegacy" ELSE "undoStart"
             q == [script[d] EXCEPT !.changed = TRUE, !.at = there]
  <1>1. script[d].at = "linked" /\ script[d] \in Script
    BY DEF TestLink, At, IInv, TypeOK
  <1>2. /\ q \in Script /\ q.at = there
        /\ q.active = script[d].active /\ q.legacyWas = script[d].legacyWas
        /\ q.changed /\ q.served = script[d].served
    BY <1>1 DEF Script, Trapped, Untrapped
  <1>3. script' = [script EXCEPT ![d] = q] /\ UNCHANGED <<disk, docker, units, lock, damage>>
    BY DEF TestLink, IInv, TypeOK
  <1> HIDE DEF q
  <1>4. script' \in [Deployments -> Script] /\ script'[d] = q
        /\ \A e \in Deployments \ {d} : script'[e] = script[e]
    BY <1>2, <1>3 DEF IInv, TypeOK
  <1>5. TypeOK'
    BY <1>3, <1>4 DEF IInv, TypeOK, disk, docker, units
  <1>6. MachineInv'
    BY <1>3 DEF IInv, MachineInv, Sound, disk, docker, units
  <1>7. /\ script'[d].at = there /\ script'[d].active = script[d].active
        /\ script'[d].legacyWas = script[d].legacyWas
        /\ script'[d].changed /\ script'[d].served = script[d].served
    BY <1>2, <1>4
  <1>8. ScriptInv(d)'
    BY <1>1, <1>3, <1>7, Names DEF IInv, TypeOK, MachineInv, ScriptInv, disk, docker, units,
       Candidate, OldSlot, Preparing, Switching, Switched, Restored, Restorable, Over, Served, Slots
  <1> QED
    BY <1>1, <1>3, <1>4, <1>5, <1>6, <1>7, <1>8, StepKeeps DEF Over

LEMMA FailKeeps ==
    ASSUME IInv, NEW d \in Deployments, Fail(d)
    PROVE  IInv'
  <1> DEFINE there == IF script[d].changed THEN "undoStart" ELSE "undoRun"
  <1>1. Goto(d, there) /\ script[d].at \in Trapped
    BY DEF Fail
  <1>2. there \in Positions /\ there \notin Over /\ script[d].at \notin Over
    BY <1>1 DEF Positions, Trapped, Untrapped, Over
  <1>3. TypeOK'
    <2>1. running' \cup stopped' \subseteq Slots /\ running' \cap stopped' = {}
          /\ verified' \subseteq running' \cup stopped'
      BY SlotTypes DEF IInv, TypeOK, Fail
    <2>2. enabled' \subseteq {"nginx", Legacy}
      BY DEF IInv, TypeOK, Fail
    <2> QED BY <1>1, <1>2, <2>1, <2>2, GotoFacts DEF IInv, TypeOK, Fail, disk
  <1>4. MachineInv'
    <2>1. CASE UNCHANGED <<running, stopped>>
      BY <1>1, <2>1 DEF IInv, MachineInv, Sound, Fail, disk
    <2>2. CASE At(d, "run") /\ stopped' = stopped \cup {Candidate(d)} /\ running' = running
      BY <1>1, <2>2, SlotTypes, Names DEF IInv, MachineInv, Sound, ScriptInv, Fail, disk, At,
         OldSlot, Preparing
    <2>3. CASE At(d, "drain") /\ running' = running \ OldSlot(d)
               /\ stopped' = stopped \cup OldSlot(d)
      BY <1>1, <2>3, SlotTypes, Names DEF IInv, TypeOK, MachineInv, Sound, ScriptInv, Fail, disk,
         At, Switched, Over
    <2> QED BY <2>1, <2>2, <2>3 DEF Fail
  <1>5. ScriptInv(d)'
    <2>1. script'[d].at = there
          /\ script'[d].active = script[d].active /\ script'[d].legacyWas = script[d].legacyWas
          /\ script'[d].changed = script[d].changed /\ script'[d].served = script[d].served
      BY <1>1, <1>2, GotoFacts DEF IInv
    <2> QED
      BY <1>1, <2>1, Names
      DEF IInv, TypeOK, MachineInv, ScriptInv, Fail, disk, units, At, Trapped, Candidate,
          OldSlot, Preparing, Switching, Switched, Restored, Restorable, Over, Served, Slots
  <1> QED BY <1>1, <1>2, <1>3, <1>4, <1>5, StepKeeps, GotoFacts DEF IInv

-----------------------------------------------------------------------------
(* The ways out, the lock and the boot.                                      *)

LEMMA StopOldKeeps ==
    ASSUME IInv, NEW d \in Deployments, StopOld(d)
    PROVE  IInv'
  <1>1. script[d].at = "drain" /\ Leave(d, "done", {}) /\ "done" \in Over
    BY DEF StopOld, At, Over
  <1>2. TypeOK'
    BY <1>1, LeaveFacts, SlotTypes DEF IInv, TypeOK, StopOld, disk, units
  <1>3. MachineInv'
    BY <1>1, LeaveFacts, Names DEF IInv, TypeOK, MachineInv, Sound, ScriptInv, StopOld, disk, units,
       Candidate, OldSlot, Switched, Over
  <1> QED
    BY <1>1, <1>2, <1>3, LeaveKeeps DEF StopOld, disk, units, Over

LEMMA DisableLegacyKeeps ==
    ASSUME IInv, NEW d \in Deployments, DisableLegacy(d)
    PROVE  IInv'
  <1>1. /\ script[d].at = "disable" /\ "done" \in Over /\ "drain" \in Positions
        /\ UNCHANGED <<link, stateFile, valid, running, stopped, verified, nginx, legacy>>
        /\ \/ enabled' = enabled \ {Legacy}
           \/ enabled' = enabled
    BY DEF DisableLegacy, At, Over, Positions, Trapped, disk, docker
  <1>2. ~legacy \/ enabled' = enabled
    BY <1>1 DEF IInv, ScriptInv, Switched
  <1>3. CASE Leave(d, "done", {})
    <2>1. TypeOK'
      BY <1>1, <1>3, LeaveFacts DEF IInv, TypeOK
    <2>2. MachineInv'
      BY <1>1, <1>2, <1>3, LeaveFacts, Names DEF IInv, TypeOK, MachineInv, Sound, Legacy
    <2> QED BY <1>1, <1>3, <2>1, <2>2, LeaveKeeps DEF Over
  <1>4. CASE Goto(d, "drain") /\ damage' = damage /\ OldSlot(d) # {}
    <2>1. TypeOK'
      BY <1>1, <1>4, GotoFacts DEF IInv, TypeOK
    <2>2. MachineInv'
      BY <1>1, <1>2, <1>4, Names DEF IInv, TypeOK, MachineInv, Sound, Legacy
    <2>3. script'[d].at = "drain"
          /\ script'[d].active = script[d].active /\ script'[d].legacyWas = script[d].legacyWas
          /\ script'[d].changed = script[d].changed /\ script'[d].served = script[d].served
      BY <1>1, <1>4, GotoFacts DEF IInv
    <2>4. ScriptInv(d)'
      BY <1>1, <1>4, <2>3, Names
      DEF IInv, TypeOK, MachineInv, ScriptInv, Candidate, OldSlot, Preparing, Switching,
          Switched, Restored, Restorable, Over, Served, Slots, Legacy
    <2> QED BY <1>1, <1>4, <2>1, <2>2, <2>3, <2>4, StepKeeps, GotoFacts DEF IInv, Over
  <1> QED BY <1>3, <1>4 DEF DisableLegacy

LEMMA UndoRunKeeps ==
    ASSUME IInv, NEW d \in Deployments, UndoRun(d)
    PROVE  IInv'
  <1>1. script[d].at = "undoRun" /\ "failed" \in Over /\ script[d].at \notin Over
        /\ UNCHANGED <<link, stateFile, valid, nginx, legacy, enabled>>
    BY DEF UndoRun, At, Over, disk, units
  <1>2. ASSUME NEW failing \in SUBSET Ignored, Leave(d, "failed", failing),
               Remove(Candidate(d)) \/ RemoveFails(Candidate(d))
        PROVE  IInv'
    <2>1. TypeOK'
      BY <1>1, <1>2, LeaveFacts, SlotTypes
      DEF IInv, TypeOK, Remove, RemoveFails, Lasting, Ignored
    <2>2. MachineInv'
      BY <1>1, <1>2, LeaveFacts, SlotTypes, Names
      DEF IInv, TypeOK, MachineInv, Sound, ScriptInv, Remove, RemoveFails,
          Candidate, OldSlot, Restored, Over
    <2> QED BY <1>1, <1>2, <2>1, <2>2, LeaveKeeps
  <1> QED BY <1>2 DEF UndoRun, Ignored

LEMMA KillKeeps ==
    ASSUME IInv, NEW d \in Deployments, Kill(d)
    PROVE  IInv'
  <1>1. script[d].at \notin Over /\ Leave(d, "killed", {}) /\ "killed" \in Over
    BY DEF Kill, Over, Trapped, Untrapped
  <1>2. UNCHANGED <<link, stateFile, valid, running, stopped, verified, nginx, legacy, enabled>>
    BY DEF Kill, disk, docker, units
  <1>3. TypeOK'
    BY <1>1, <1>2, LeaveFacts DEF IInv, TypeOK
  <1>4. MachineInv'
    BY <1>1, <1>2, LeaveFacts DEF IInv, MachineInv, Sound
  <1> QED BY <1>1, <1>2, <1>3, <1>4, LeaveKeeps

LEMMA ReadStateKeeps ==
    ASSUME IInv, NEW d \in Deployments, ReadState(d)
    PROVE  IInv'
  <1> DEFINE q == [at |-> "prepare", active |-> link, legacyWas |-> legacy,
                   changed |-> FALSE, served |-> Served]
  <1>1. /\ script[d].at = "read" /\ "refused" \in Over
        /\ stateFile' = IF link = NoSlot THEN stateFile ELSE link
        /\ UNCHANGED <<link, valid, running, stopped, verified, nginx, legacy, enabled>>
    BY DEF ReadState, At, Over, docker, units
  <1>2. CASE Leave(d, "refused", {})
    <2>1. TypeOK'
      BY <1>1, <1>2, LeaveFacts DEF IInv, TypeOK
    <2>2. MachineInv'
      BY <1>1, <1>2, LeaveFacts DEF IInv, MachineInv, Sound
    <2> QED BY <1>1, <1>2, <2>1, <2>2, LeaveKeeps DEF Over
  <1>3. CASE /\ ~((link = NoSlot /\ stateFile # NoSlot) \/ link \in Slots \ running)
             /\ script' = [script EXCEPT ![d] = q]
             /\ damage' = damage \cap {"stray"} /\ UNCHANGED lock
    <2>1. q \in Script /\ q.at = "prepare" /\ q.active = link /\ q.legacyWas = legacy
          /\ q.changed = FALSE /\ q.served = Served
      BY DEF IInv, TypeOK, Script, Trapped, Served, Slots
    <2> HIDE DEF q
    <2>2. script' \in [Deployments -> Script] /\ script'[d] = q
          /\ \A e \in Deployments \ {d} : script'[e] = script[e]
      BY <1>3, <2>1 DEF IInv, TypeOK
    <2>3. TypeOK'
      BY <1>1, <1>3, <2>2 DEF IInv, TypeOK
    <2>4. MachineInv'
      BY <1>1, <1>3, Names DEF IInv, TypeOK, MachineInv, Sound, ScriptInv, Over
    <2>5. ScriptInv(d)'
      BY <1>1, <1>3, <2>1, <2>2, Names
      DEF IInv, TypeOK, MachineInv, ScriptInv, Candidate, OldSlot, Preparing, Switching,
          Switched, Restored, Restorable, Over, Served, Slots
    <2> QED BY <1>1, <1>3, <2>1, <2>2, <2>3, <2>4, <2>5, StepKeeps DEF Over
  <1> QED BY <1>2, <1>3 DEF ReadState

LEMMA TakeLockKeeps ==
    ASSUME IInv, NEW d \in Deployments, TakeLock(d)
    PROVE  IInv'
  <1> DEFINE q == [Idle EXCEPT !.at = IF lock = NoOne THEN "read" ELSE "refused"]
  <1>1. /\ q \in Script
        /\ q.at = IF lock = NoOne THEN "read" ELSE "refused"
        /\ q.active = NoSlot
    BY DEF Idle, Script, Untrapped, Over
  <1>2. /\ script[d].at \in Over
        /\ script' = [script EXCEPT ![d] = q]
        /\ lock' = IF lock = NoOne THEN d ELSE lock
        /\ UNCHANGED <<link, stateFile, valid, running, stopped, verified,
                       nginx, legacy, enabled, damage>>
    BY DEF TakeLock, disk, docker, units
  <1> HIDE DEF q
  <1>3. script' \in [Deployments -> Script] /\ script'[d] = q
        /\ \A e \in Deployments \ {d} : script'[e] = script[e]
    BY <1>1, <1>2 DEF IInv, TypeOK
  <1>4. TypeOK'
    BY <1>2, <1>3 DEF IInv, TypeOK
  <1>5. MachineInv' /\ RestInv'
    BY <1>2, ConstantsAssumption DEF IInv, MachineInv, RestInv, Sound
  <1>6. "read" \notin Over /\ "refused" \in Over
    BY DEF Over
  <1>7. LockInv'
    BY <1>1, <1>2, <1>3, <1>6, ConstantsAssumption DEF IInv, LockInv
  <1>8. ASSUME NEW e \in Deployments PROVE ScriptInv(e)'
    <2>1. CASE script'[e].at \in Over BY <2>1, OverIsFree
    <2>2. CASE script'[e].at \notin Over /\ e # d
      BY <1>2, <1>3, <2>2 DEF IInv, ScriptInv, Candidate, OldSlot, Restorable, Served
    <2>3. CASE script'[e].at \notin Over /\ e = d
      <3>1. script'[d].at = "read" /\ script'[d].active = NoSlot /\ lock = NoOne
        BY <1>1, <1>3, <1>6, <2>3
      <3> QED
        BY <1>2, <2>3, <3>1 DEF IInv, RestInv, ScriptInv, Over,
           Preparing, Switching, Switched, Restored
    <2> QED BY <2>1, <2>2, <2>3
  <1> QED BY <1>4, <1>5, <1>7, <1>8 DEF IInv

(* Nginx starts only where it was enabled and on what the link names; so    *)
(* does the old unit.                                                        *)
LEMMA BootFacts ==
    ASSUME NEW boot \in Boots
    PROVE  /\ boot.nginx = Off \/ (boot.nginx = link /\ "nginx" \in enabled)
           /\ boot.legacy \in BOOLEAN /\ (boot.legacy => Legacy \in enabled)
  <1> DEFINE starts == "nginx" \in enabled /\ link \in valid \cup {NoSlot}
             n == IF starts THEN link ELSE Off
             l == Legacy \in enabled
             alone == [nginx |-> n, legacy |-> l]
  <1>1. boot \in {alone, [alone EXCEPT !.nginx = Off], [alone EXCEPT !.legacy = FALSE]}
    BY DEF Boots
  <1> HIDE DEF n, l
  <1>2. boot.nginx \in {n, Off} /\ boot.legacy \in {l, FALSE}
    <2>1. CASE boot = alone BY <2>1
    <2>2. CASE boot = [alone EXCEPT !.nginx = Off] BY <2>2
    <2>3. CASE boot = [alone EXCEPT !.legacy = FALSE] BY <2>3
    <2> QED BY <1>1, <2>1, <2>2, <2>3
  <1>3. boot.nginx = Off \/ (boot.nginx = link /\ "nginx" \in enabled)
    BY <1>2 DEF n
  <1>4. boot.legacy \in BOOLEAN /\ (boot.legacy => Legacy \in enabled)
    <2>1. CASE Legacy \in enabled
      <3>1. l = TRUE BY <2>1 DEF l
      <3> QED BY <1>2, <2>1, <3>1
    <2>2. CASE Legacy \notin enabled
      <3>1. l = FALSE BY <2>2 DEF l
      <3> QED BY <1>2, <3>1
    <2> QED BY <2>1, <2>2
  <1> QED BY <1>3, <1>4

LEMMA RebootKeeps ==
    ASSUME IInv, Reboot
    PROVE  IInv'
  <1>1. [Idle EXCEPT !.at = "killed"] \in Script /\ [Idle EXCEPT !.at = "killed"].at = "killed"
    BY DEF Idle, Script, Over
  <1>2. PICK boot \in Boots : nginx' = boot.nginx /\ legacy' = boot.legacy
    BY DEF Reboot
  <1>3. /\ boot.nginx = Off \/ (boot.nginx = link /\ "nginx" \in enabled)
        /\ boot.legacy \in BOOLEAN /\ (boot.legacy => Legacy \in enabled)
    BY BootFacts
  <1>4. UNCHANGED <<link, stateFile, valid, running, stopped, verified, enabled>>
        /\ damage' = damage \ {"stray"} /\ lock' = NoOne
    BY DEF Reboot, disk, docker
  <1>5. script' \in [Deployments -> Script] /\ \A d \in Deployments : script'[d].at \in Over
    BY <1>1 DEF Reboot, IInv, TypeOK, Over
  <1>6. TypeOK'
    BY <1>2, <1>3, <1>4, <1>5 DEF IInv, TypeOK
  <1>7. MachineInv' /\ RestInv'
    BY <1>2, <1>3, <1>4, Names DEF IInv, TypeOK, MachineInv, RestInv, Sound
  <1>8. LockInv'
    BY <1>4, <1>5, ConstantsAssumption DEF LockInv
  <1> QED BY <1>5, <1>6, <1>7, <1>8, OverIsFree DEF IInv

(* A step of a script leaves the other scripts alone, and only the end of a *)
(* rollback makes it fail.                                                   *)
LEMMA StepOf ==
    ASSUME TypeOK, NEW e \in Deployments, Deploy(e) \/ Rollback(e) \/ Kill(e)
    PROVE  /\ \A d \in Deployments \ {e} : script'[d] = script[d]
           /\ UndoRun(e) \/ script'[e].at # "failed"
  <1> DEFINE Quiet == (\A d \in Deployments \ {e} : script'[d] = script[d])
                      /\ script'[e].at # "failed"
  <1>1. ASSUME NEW there \in Positions \ Over, Goto(e, there) PROVE Quiet
    BY <1>1, GotoFacts DEF Over
  <1>2. ASSUME NEW outcome \in Over, outcome # "failed", Leave(e, outcome, {}) PROVE Quiet
    BY <1>2, LeaveFacts
  <1>3. ASSUME NEW q, script' = [script EXCEPT ![e] = q], q.at # "failed" PROVE Quiet
    BY <1>3 DEF TypeOK
  <1> HIDE DEF Quiet
  <1>4. CASE TakeLock(e)
    <2> DEFINE p == [Idle EXCEPT !.at = "read"]
               q == [Idle EXCEPT !.at = "refused"]
    <2>1. p.at # "failed" /\ q.at # "failed"
      BY DEF Idle
    <2>2. script' = [script EXCEPT ![e] = p] \/ script' = [script EXCEPT ![e] = q]
      BY <1>4 DEF TakeLock
    <2> HIDE DEF p, q
    <2>3. Quiet BY <1>3, <2>1, <2>2
    <2> QED BY <2>3 DEF Quiet
  <1>5. CASE ReadState(e)
    <2> DEFINE q == [at |-> "prepare", active |-> link, legacyWas |-> legacy,
                     changed |-> FALSE, served |-> Served]
    <2>1. q.at # "failed" OBVIOUS
    <2>2. Leave(e, "refused", {}) \/ script' = [script EXCEPT ![e] = q]
      BY <1>5 DEF ReadState
    <2> HIDE DEF q
    <2>3. Quiet BY <1>2, <1>3, <2>1, <2>2 DEF Over
    <2> QED BY <2>3 DEF Quiet
  <1>6. CASE TestLink(e)
    <2> DEFINE there == IF Candidate(e) \in valid THEN "stopLegacy" ELSE "undoStart"
               q == [script[e] EXCEPT !.changed = TRUE, !.at = there]
    <2>1. script[e] \in Script BY DEF TypeOK
    <2>2. q.at = there BY <2>1 DEF Script
    <2>3. script' = [script EXCEPT ![e] = q]
      BY <1>6 DEF TestLink, TypeOK
    <2> HIDE DEF q
    <2>4. Quiet BY <1>3, <2>2, <2>3
    <2> QED BY <2>4 DEF Quiet
  <1>7. CASE UndoRun(e)
    <2>1. PICK failing \in SUBSET Ignored : Leave(e, "failed", failing)
      BY <1>7 DEF UndoRun, Ignored
    <2> QED BY <1>7, <2>1, LeaveFacts DEF Over
  <1>8. CASE StopOld(e) \/ Kill(e) \/ DisableLegacy(e)
    <2>1. Leave(e, "done", {}) \/ Leave(e, "killed", {}) \/ Goto(e, "drain")
      BY <1>8 DEF StopOld, Kill, DisableLegacy
    <2>2. Quiet BY <1>1, <1>2, <2>1 DEF Over, Positions, Trapped
    <2> QED BY <2>2 DEF Quiet
  <1>9. CASE Fail(e)
    <2>1. Goto(e, "undoStart") \/ Goto(e, "undoRun") BY <1>9 DEF Fail
    <2>2. Quiet BY <1>1, <2>1 DEF Over, Positions, Untrapped
    <2> QED BY <2>2 DEF Quiet
  <1>10. CASE \E there \in Positions \ Over : Goto(e, there)
    BY <1>1, <1>10 DEF Quiet
  <1>11. Deploy(e) => \/ TakeLock(e) \/ ReadState(e) \/ TestLink(e) \/ DisableLegacy(e)
                      \/ StopOld(e)
                      \/ \E there \in Positions \ Over : Goto(e, there)
    BY
    DEF Deploy, Prepare, RemoveCandidate, RunCandidate, Verify, MoveLink, StopLegacy,
        EnableNginx, Reload, SmokeTest, RecordSlot, Positions, Trapped, Untrapped, Over
  <1>12. Rollback(e) => Fail(e) \/ UndoRun(e) \/ \E there \in Positions \ Over : Goto(e, there)
    BY DEF Rollback, UndoStart, UndoLink, UndoNginx, UndoLegacy, UndoState,
       Positions, Trapped, Untrapped, Over
  <1> QED BY <1>4, <1>5, <1>6, <1>7, <1>8, <1>9, <1>10, <1>11, <1>12

LEMMA OnlyUndoRunFails ==
    ASSUME IInv, [Next]_vars, NEW d \in Deployments,
           script[d].at # "failed", script'[d].at = "failed"
    PROVE  UndoRun(d)
  <1>1. CASE Reboot
    <2>1. [Idle EXCEPT !.at = "killed"].at = "killed" BY DEF Idle
    <2>2. script'[d].at \in {script[d].at, "killed"}
      BY <1>1, <2>1 DEF Reboot
    <2> QED BY <2>2
  <1>2. CASE UNCHANGED vars
    BY <1>2 DEF vars
  <1>3. ASSUME NEW e \in Deployments, Deploy(e) \/ Rollback(e) \/ Kill(e) PROVE UndoRun(d)
    <2>1. UndoRun(e) \/ script'[e].at # "failed"
      BY <1>3, StepOf DEF IInv
    <2>2. e # d => script'[d] = script[d]
      BY <1>3, StepOf DEF IInv
    <2> QED BY <2>1, <2>2
  <1> QED BY <1>1, <1>2, <1>3 DEF Next

-----------------------------------------------------------------------------
LEMMA InitHolds == Init => IInv
  <1> SUFFICES ASSUME Init PROVE IInv OBVIOUS
  <1>1. Idle \in Script /\ Idle.at = "idle" /\ "idle" \in Over
    BY DEF Idle, Script, Over
  <1>2. script \in [Deployments -> Script]
        /\ \A d \in Deployments : script[d].at = "idle"
    BY <1>1 DEF Init
  <1>3. TypeOK
    BY <1>2, Names DEF Init, TypeOK
  <1>4. LockInv /\ MachineInv /\ RestInv
    BY <1>1, <1>2, Names, ConstantsAssumption DEF Init, LockInv, MachineInv, RestInv, Sound
  <1>5. ASSUME NEW d \in Deployments PROVE ScriptInv(d)
    BY <1>2 DEF ScriptInv, Over, Preparing, Switching, Switched, Restored
  <1> QED BY <1>3, <1>4, <1>5 DEF IInv

LEMMA NextHolds == IInv /\ [Next]_vars => IInv'
  <1> SUFFICES ASSUME IInv, [Next]_vars PROVE IInv' OBVIOUS
  <1>1. CASE Reboot BY <1>1, RebootKeeps
  <1>2. ASSUME NEW d \in Deployments, Deploy(d) PROVE IInv'
    BY <1>2, TakeLockKeeps, ReadStateKeeps, PrepareKeeps, RemoveCandidateKeeps, RunCandidateKeeps,
       VerifyKeeps, MoveLinkKeeps, TestLinkKeeps, StopLegacyKeeps, EnableNginxKeeps, ReloadKeeps,
       SmokeTestKeeps, RecordSlotKeeps, DisableLegacyKeeps, StopOldKeeps DEF Deploy
  <1>3. ASSUME NEW d \in Deployments, Rollback(d) PROVE IInv'
    BY <1>3, FailKeeps, UndoStartKeeps, UndoLinkKeeps, UndoNginxKeeps, UndoLegacyKeeps,
       UndoStateKeeps, UndoRunKeeps DEF Rollback
  <1>4. ASSUME NEW d \in Deployments, Kill(d) PROVE IInv'
    BY <1>4, KillKeeps
  <1>5. CASE UNCHANGED vars
    BY <1>5 DEF vars, disk, docker, units, IInv, TypeOK, LockInv, MachineInv, Sound, RestInv,
       ScriptInv, Candidate, OldSlot, Restorable, Served
  <1> QED BY <1>1, <1>2, <1>3, <1>4, <1>5 DEF Next

LEMMA Inductive == Spec => []IInv
  <1> QED BY InitHolds, NextHolds, PTL DEF Spec

-----------------------------------------------------------------------------
(* Types: link, state file, containers and units keep their values, and a   *)
(* container is not both running and stopped.                                *)
THEOREM TypeCorrect == Spec => []TypeOK
  <1>1. IInv => TypeOK BY DEF IInv
  <1> QED BY <1>1, Inductive, PTL

(* Zero downtime: whatever fails or is killed, and whatever reboots when,   *)
(* Nginx is on a verified container that runs, unless an earlier deployment *)
(* left it on a slot that the link does not name.                            *)
THEOREM UpCorrect == Spec => []StaysUp
  <1>1. IInv => StaysUp BY DEF IInv, MachineInv, Sound, StaysUp, Lasting
  <1> QED BY <1>1, Inductive, PTL

(* Every deployment can start where the one before it ended.                *)
THEOREM StartCorrect == Spec => []NextCanStart
  <1>1. IInv => NextCanStart BY DEF IInv, MachineInv, Sound, NextCanStart
  <1> QED BY <1>1, Inductive, PTL

(* A reboot at any moment brings a service that was up on a configuration   *)
(* that can be read up again.                                                *)
THEOREM RebootCorrect == Spec => []RebootServes
  <1>1. ASSUME IInv PROVE RebootServes
    <2> SUFFICES ASSUME Up, damage \cap {"unstarted", "unlinked"} = {},
                        IF link = NoSlot THEN Legacy \in enabled ELSE link \in valid,
                        NEW boot \in Boots
                 PROVE  IF boot.nginx \in Slots THEN boot.nginx \in running \cap verified
                        ELSE boot.legacy
      BY DEF RebootServes
    <2>1. link \in Slots => link \in running \cap verified
      BY <1>1 DEF IInv, MachineInv, Sound
    <2>2. CASE boot.nginx \in Slots
      BY <2>1, <2>2, BootFacts, Names
    <2>3. CASE boot.nginx \notin Slots
      <3>1. link \in Slots /\ "nginx" \in enabled => Legacy \in enabled /\ boot.legacy
        <4>1. SUFFICES ASSUME link \in Slots, "nginx" \in enabled
                       PROVE  Legacy \in enabled /\ boot.legacy
          OBVIOUS
        <4> DEFINE alone == [nginx |-> link, legacy |-> Legacy \in enabled]
        <4>2. link \in valid
          BY <4>1, Names
        <4>3. CASE Legacy \notin enabled
          <5>1. boot = alone BY <4>1, <4>2, <4>3 DEF Boots
          <5> QED BY <2>3, <4>1, <5>1
        <4>4. CASE Legacy \in enabled
          <5>1. boot \in {[alone EXCEPT !.nginx = Off], [alone EXCEPT !.legacy = FALSE]}
            BY <4>1, <4>2, <4>4 DEF Boots
          <5>2. boot = [nginx |-> Off, legacy |-> TRUE] \/ boot.nginx = link
            BY <4>4, <5>1
          <5> QED BY <2>3, <4>1, <4>4, <5>2
        <4> QED BY <4>3, <4>4
      <3>2. link \in Slots /\ "nginx" \notin enabled => boot.legacy
        <4>1. SUFFICES ASSUME link \in Slots, "nginx" \notin enabled PROVE boot.legacy
          OBVIOUS
        <4>2. nginx = Off /\ legacy /\ Legacy \in enabled
          BY <1>1, <4>1, Names DEF IInv, TypeOK, MachineInv, Up
        <4>3. boot = [nginx |-> Off, legacy |-> TRUE]
          BY <4>1, <4>2, Names DEF Boots
        <4> QED BY <4>3
      <3>3. link \notin Slots => boot.legacy
        <4>1. SUFFICES ASSUME link \notin Slots PROVE boot.legacy
          OBVIOUS
        <4>2. link = NoSlot /\ Legacy \in enabled
          BY <1>1, <4>1 DEF IInv, TypeOK
        <4>3. boot = [nginx |-> IF "nginx" \in enabled THEN NoSlot ELSE Off, legacy |-> TRUE]
          BY <4>2, Names DEF Boots
        <4> QED BY <4>3
      <3> QED BY <2>3, <3>1, <3>2, <3>3
    <2> QED BY <2>2, <2>3
  <1> QED BY <1>1, Inductive, PTL

(* A failed deployment restores what it found: link, state file and the     *)
(* candidate's absence unless the very command for it failed in rollback,   *)
(* and what answers on port 8000 unless a command for the link, Nginx or    *)
(* the old unit failed there, nginx -t refused the old configuration, or    *)
(* Nginx was astray when the deployment began.                               *)
THEOREM RestoreCorrect == Spec => FailureRestores
  <1> DEFINE safe(what) == damage' \cap what = {}
             Restores(d) ==
               /\ safe({"unlinked"}) => link' = script[d].active
               /\ safe({"state"}) => stateFile' = script[d].active
               /\ safe({"candidate"}) => Candidate(d) \notin running' \cup stopped'
               /\ /\ safe({"unlinked", "refused", "nginx", "legacy"})
                  /\ script[d].served \notin Slots \ OldSlot(d)
                  => /\ Served' \in {script[d].served} \cup OldSlot(d)
                     /\ script[d].served # NoSlot /\ safe({"unstarted"}) => Up'
  <1>1. ASSUME IInv, [Next]_vars, NEW d \in Deployments,
               script[d].at # "failed", script'[d].at = "failed"
        PROVE  Restores(d)
    <2>1. UndoRun(d)
      BY <1>1, OnlyUndoRunFails
    <2>2. UNCHANGED <<link, stateFile, nginx, legacy>> /\ script[d].at = "undoRun"
      BY <2>1 DEF UndoRun, At, disk, units
    <2>3. PICK failing \in SUBSET Ignored :
             /\ Leave(d, "failed", failing)
             /\ \/ Remove(Candidate(d))
                \/ RemoveFails(Candidate(d)) /\ "candidate" \in failing
      BY <2>1 DEF UndoRun, Ignored
    <2>4. damage \cup failing \subseteq damage'
      BY <1>1, <2>3, LeaveFacts DEF IInv, Over
    <2>5. /\ safe({"unlinked"}) => link' = script[d].active
          /\ safe({"state"}) => stateFile' = script[d].active
      BY <1>1, <2>2, <2>4 DEF IInv, ScriptInv, Restored
    <2>6. safe({"candidate"}) => Candidate(d) \notin running' \cup stopped'
      BY <2>3, <2>4 DEF Remove
    <2>7. ASSUME safe({"unlinked", "refused", "nginx", "legacy"}),
                 script[d].served \notin Slots \ OldSlot(d)
          PROVE  /\ Served' \in {script[d].served} \cup OldSlot(d)
                 /\ script[d].served # NoSlot /\ safe({"unstarted"}) => Up'
      <3>1. Restorable(d)
        BY <2>4, <2>7 DEF Restorable
      <3>2. Served' \in {script[d].served} \cup OldSlot(d)
        BY <1>1, <2>2, <3>1 DEF IInv, ScriptInv, Served
      <3>3. safe({"unstarted"}) => OldSlot(d) \subseteq running'
        <4>1. safe({"unstarted"}) => OldSlot(d) \subseteq running
          BY <1>1, <2>2, <2>4 DEF IInv, ScriptInv, Restored
        <4> QED BY <1>1, <2>3, <4>1, SlotTypes DEF IInv, Remove, RemoveFails
      <3>4. OldSlot(d) \subseteq Slots
        BY <1>1, SlotTypes DEF IInv
      <3> QED BY <2>7, <3>2, <3>3, <3>4, Names DEF Served, Up
    <2> QED BY <2>5, <2>6, <2>7
  <1>2. IInv /\ [Next]_vars =>
          [\A d \in Deployments :
             script[d].at # "failed" /\ script'[d].at = "failed" => Restores(d)]_vars
    BY <1>1
  <1> QED BY <1>2, Inductive, PTL DEF Spec, FailureRestores
=============================================================================
