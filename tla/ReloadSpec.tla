------------------------------ MODULE ReloadSpec ------------------------------
(***************************************************************************)
(* What the reload coordination of the Thanos ruler promises, without its  *)
(* channels: a request sets a pending flag; an idle reloader with a        *)
(* pending request starts a reload, which snapshots the rule files the    *)
(* patterns name as the disk holds them then, and may leave further        *)
(* requests pending; finishing the reload installs the snapshot if every  *)
(* file of it loads, and records success or failure.  A stopping reloader  *)
(* may exit when idle.  No request is cleared without a reload starting    *)
(* after it, and no reload starts without a request.                       *)
(* RuleReload implements this specification (see MC_RuleReload).          *)
(***************************************************************************)
EXTENDS Naturals

CONSTANTS
    RuleFiles,   \* rule files
    Named        \* the files the --rule-file patterns can name

FileStates == {"absent", "valid", "invalid"}

VARIABLES
    disk,       \* content of each rule file on disk
    pending,    \* a reload request has not been taken up yet
    phase,      \* "idle", "loading" or "stopped"
    snapshot,   \* the files of the reload in progress
    installed,  \* the files whose rules are in force
    success,    \* 1 if the latest finished reload succeeded, else 0
    stopping    \* shutdown has begun

vars == <<disk, pending, phase, snapshot, installed, success, stopping>>

Present == {f \in Named : disk[f] # "absent"}

Init ==
    /\ disk \in [RuleFiles -> FileStates]
    /\ pending = TRUE
    /\ phase = "idle"
    /\ snapshot = {}
    /\ installed = {}
    /\ success = 0
    /\ stopping = FALSE

Request ==
    /\ pending' = TRUE
    /\ UNCHANGED <<disk, phase, snapshot, installed, success, stopping>>

Start ==
    /\ phase = "idle"
    /\ pending
    /\ phase' = "loading"
    /\ snapshot' = Present
    /\ pending' \in BOOLEAN
    /\ UNCHANGED <<disk, installed, success, stopping>>

Finish ==
    /\ phase = "loading"
    /\ phase' = "idle"
    /\ IF \A f \in snapshot : disk[f] = "valid"
          THEN installed' = snapshot /\ success' = 1
          ELSE success' = 0 /\ UNCHANGED installed
    /\ UNCHANGED <<disk, pending, snapshot, stopping>>

Exit ==
    /\ phase = "idle"
    /\ stopping
    /\ phase' = "stopped"
    /\ UNCHANGED <<disk, pending, snapshot, installed, success, stopping>>

Stop ==
    /\ ~stopping
    /\ stopping' = TRUE
    /\ UNCHANGED <<disk, pending, phase, snapshot, installed, success>>

Edit(f, s) ==
    /\ disk' = [disk EXCEPT ![f] = s]
    /\ UNCHANGED <<pending, phase, snapshot, installed, success, stopping>>

Next ==
    \/ Request
    \/ Start
    \/ Finish
    \/ Exit
    \/ Stop
    \/ \E f \in RuleFiles, s \in FileStates : Edit(f, s)

(* A pending request is taken up unless the reloader is stopping, and a   *)
(* reload in progress finishes.                                           *)
Fairness ==
    /\ WF_vars(~stopping /\ Start)
    /\ WF_vars(Finish)

Spec == Init /\ [][Next]_vars /\ Fairness

=============================================================================
