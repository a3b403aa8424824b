----------------------------- MODULE RuleReload -----------------------------
(***************************************************************************)
(* Rule-file reload coordination of the Thanos ruler (cmd/thanos/rule.go). *)
(*                                                                         *)
(* Three actors share the channel `reload` of capacity 1:                  *)
(*   - the reload actor (lines 428-471) receives a token, globs the        *)
(*     --rule-file patterns, calls mgr.Update and sets the gauges;         *)
(*   - the SIGHUP actor (lines 472-492) forwards every signal read from    *)
(*     its channel c with a non-blocking send;                             *)
(*   - the POST /-/reload handler (lines 532-534) does a blocking send.    *)
(* The run.Group interrupts run in the order the actors were added: the   *)
(* context of the rules-manager actor is cancelled first (that actor then *)
(* calls mgr.Stop), then `cancel` of both actors is closed, then the HTTP  *)
(* listener.  Rule files on disk change                                    *)
(* under the ruler; the edit counter is a logical clock that tells how     *)
(* fresh the disk state read by a glob was.                                *)
(* mgr.Update belongs to the Prometheus rules manager, which is not in     *)
(* this repository: it loads every file and installs the groups only if   *)
(* all of them load, otherwise it returns the error and keeps the old set. *)
(***************************************************************************)
EXTENDS Naturals, FiniteSets

CONSTANTS
    RuleFiles,    \* rule files that the patterns can match
    Patterns,     \* values of the --rule-file flag
    Matches,      \* Matches[p]: the files that pattern p names
    BadPatterns,  \* patterns for which filepath.Glob returns ErrBadPattern
    MaxEdits,     \* bound on edits of rule files on disk
    MaxRequests   \* bound on reload requests (SIGHUP and HTTP together)

ASSUME /\ Matches \in [Patterns -> SUBSET RuleFiles]
       /\ BadPatterns \subseteq Patterns
       /\ MaxEdits \in Nat /\ MaxRequests \in Nat

FileStates == {"absent", "valid", "invalid"}

VARIABLES
    disk,           \* content of each rule file on disk
    edits,          \* number of edits of the disk so far
    reload,         \* tokens buffered in the reload channel (capacity 1)
    sigc,           \* signals buffered in the SIGHUP channel c (capacity 1)
    loop,           \* reload actor: "wait" in its select, "update", "done"
    files,          \* files returned by the globs of the current reload
    globbedAt,      \* value of edits when the latest glob ran
    ruleGroups,     \* files whose groups the rules manager has installed
    configSuccess,  \* gauge thanos_rule_config_last_reload_successful
    rulesLoaded,    \* files with a series in gauge thanos_rule_loaded_rules
    sighup,         \* SIGHUP actor: "run" or "done"
    httpBlocked,    \* POST /-/reload handlers blocked in their send
    httpOpen,       \* the HTTP listener still accepts requests
    stopping,       \* the cancel channels of both actors are closed
    requests,       \* reload requests issued so far
    asked,          \* value of edits at the latest reload request
    mgr             \* rules-manager actor: "running", "cancelled", "stopped"

vars == <<disk, edits, reload, sigc, loop, files, globbedAt, ruleGroups,
          configSuccess, rulesLoaded, sighup, httpBlocked, httpOpen,
          stopping, requests, asked, mgr>>

-----------------------------------------------------------------------------
(* filepath.Glob of every pattern; a bad pattern is logged and skipped.    *)
Glob == UNION { {f \in Matches[p] : disk[f] # "absent"} :
                    p \in Patterns \ BadPatterns }

(* mgr.Update loads every file; a missing file or a parse error fails it. *)
LoadSucceeds(fs) == \A f \in fs : disk[f] = "valid"

(* Initially the channel holds the token of the initial reload (l. 431).  *)
Init ==
    /\ disk \in [RuleFiles -> FileStates]
    /\ edits = 0
    /\ reload = 1
    /\ sigc = 0
    /\ loop = "wait"
    /\ files = {}
    /\ globbedAt = 0
    /\ ruleGroups = {}
    /\ configSuccess = 0
    /\ rulesLoaded = {}
    /\ sighup = "run"
    /\ httpBlocked = 0
    /\ httpOpen = TRUE
    /\ stopping = FALSE
    /\ requests = 0
    /\ asked = 0
    /\ mgr = "running"

(* The reload actor takes a token and globs the patterns.  Receiving from *)
(* a full buffered channel with a blocked sender moves that sender's      *)
(* value into the buffer in the same step, as the Go runtime does.        *)
Receive ==
    /\ loop = "wait"
    /\ reload = 1
    /\ IF httpBlocked > 0
          THEN /\ httpBlocked' = httpBlocked - 1
               /\ UNCHANGED reload
          ELSE /\ reload' = 0
               /\ UNCHANGED httpBlocked
    /\ files' = Glob
    /\ globbedAt' = edits
    /\ loop' = "update"
    /\ UNCHANGED <<disk, edits, sigc, ruleGroups, configSuccess, rulesLoaded,
                   sighup, httpOpen, stopping, requests, asked, mgr>>

(* Mutant: a failed reload returns from the actor instead of continuing. *)
UpdateReturnOnError ==
    /\ loop = "update"
    /\ IF LoadSucceeds(files)
          THEN /\ loop' = "wait"
               /\ ruleGroups' = files
               /\ configSuccess' = 1
               /\ rulesLoaded' = files
          ELSE /\ loop' = "done"
               /\ configSuccess' = 0
               /\ UNCHANGED <<ruleGroups, rulesLoaded>>
    /\ UNCHANGED <<disk, edits, reload, sigc, files, globbedAt, sighup,
                   httpBlocked, httpOpen, stopping, requests, asked, mgr>>

(* Mutant: a failed reload leaves the success gauge as it was.          *)
UpdateNoGaugeReset ==
    /\ loop = "update"
    /\ loop' = "wait"
    /\ IF LoadSucceeds(files)
          THEN /\ ruleGroups' = files
               /\ configSuccess' = 1
               /\ rulesLoaded' = files
          ELSE UNCHANGED <<configSuccess, ruleGroups, rulesLoaded>>
    /\ UNCHANGED <<disk, edits, reload, sigc, files, globbedAt, sighup,
                   httpBlocked, httpOpen, stopping, requests, asked, mgr>>

(* mgr.Update and the gauges that follow it; on error `continue`.        *)
Update ==
    /\ loop = "update"
    /\ loop' = "wait"
    /\ IF LoadSucceeds(files)
          THEN /\ ruleGroups' = files
               /\ configSuccess' = 1
               /\ rulesLoaded' = files
          ELSE /\ configSuccess' = 0
               /\ UNCHANGED <<ruleGroups, rulesLoaded>>
    /\ UNCHANGED <<disk, edits, reload, sigc, files, globbedAt, sighup,
                   httpBlocked, httpOpen, stopping, requests, asked, mgr>>

(* The select sees `cancel` closed and returns "canceled".  When a token  *)
(* is also ready, Go picks either case: Receive stays enabled too.        *)
ReloadExit ==
    /\ loop = "wait"
    /\ stopping
    /\ loop' = "done"
    /\ UNCHANGED <<disk, edits, reload, sigc, files, globbedAt, ruleGroups,
                   configSuccess, rulesLoaded, sighup, httpBlocked, httpOpen,
                   stopping, requests, asked, mgr>>

(* The OS delivers SIGHUP; signal.Notify drops it when c is full.         *)
OSSignal ==
    /\ requests < MaxRequests
    /\ requests' = requests + 1
    /\ asked' = edits
    /\ sigc' = 1
    /\ UNCHANGED <<disk, edits, reload, loop, files, globbedAt, ruleGroups,
                   configSuccess, rulesLoaded, sighup, httpBlocked, httpOpen,
                   stopping, mgr>>

(* Mutant: the signal is forwarded only while the reload actor waits.     *)
SighupForwardDropWhenBusy ==
    /\ sighup = "run"
    /\ sigc = 1
    /\ sigc' = 0
    /\ reload' = IF loop = "wait" THEN 1 ELSE reload
    /\ UNCHANGED <<disk, edits, loop, files, globbedAt, ruleGroups,
                   configSuccess, rulesLoaded, sighup, httpBlocked, httpOpen,
                   stopping, requests, asked, mgr>>

(* Mutant: the send ignores the capacity of the channel.                  *)
SighupForwardUnbounded ==
    /\ sighup = "run"
    /\ sigc = 1
    /\ sigc' = 0
    /\ reload' = reload + 1
    /\ UNCHANGED <<disk, edits, loop, files, globbedAt, ruleGroups,
                   configSuccess, rulesLoaded, sighup, httpBlocked, httpOpen,
                   stopping, requests, asked, mgr>>

(* The SIGHUP actor forwards with `select { case reload <- ...: default: }`.*)
SighupForward ==
    /\ sighup = "run"
    /\ sigc = 1
    /\ sigc' = 0
    /\ reload' = 1
    /\ UNCHANGED <<disk, edits, loop, files, globbedAt, ruleGroups,
                   configSuccess, rulesLoaded, sighup, httpBlocked, httpOpen,
                   stopping, requests, asked, mgr>>

SighupExit ==
    /\ sighup = "run"
    /\ stopping
    /\ sighup' = "done"
    /\ UNCHANGED <<disk, edits, reload, sigc, loop, files, globbedAt,
                   ruleGroups, configSuccess, rulesLoaded, httpBlocked,
                   httpOpen, stopping, requests, asked, mgr>>

(* POST /-/reload: `reload <- struct{}{}` blocks while the buffer is full.*)
HttpReload ==
    /\ httpOpen
    /\ requests < MaxRequests
    /\ requests' = requests + 1
    /\ asked' = edits
    /\ IF reload = 0
          THEN /\ reload' = 1
               /\ UNCHANGED httpBlocked
          ELSE /\ httpBlocked' = httpBlocked + 1
               /\ UNCHANGED reload
    /\ UNCHANGED <<disk, edits, sigc, loop, files, globbedAt, ruleGroups,
                   configSuccess, rulesLoaded, sighup, httpOpen, stopping, mgr>>

(* run.Group calls the interrupt functions one after the other, in the   *)
(* order the actors were added.  The first is cancel() of the context of  *)
(* the rules-manager actor (lines 324-331), added before the reload actor. *)
CancelManager ==
    /\ mgr = "running"
    /\ mgr' = "cancelled"
    /\ UNCHANGED <<disk, edits, reload, sigc, loop, files, globbedAt,
                   ruleGroups, configSuccess, rulesLoaded, sighup,
                   httpBlocked, httpOpen, stopping, requests, asked>>

(* The rules-manager actor sees ctx done and calls mgr.Stop().            *)
StopManager ==
    /\ mgr = "cancelled"
    /\ mgr' = "stopped"
    /\ UNCHANGED <<disk, edits, reload, sigc, loop, files, globbedAt,
                   ruleGroups, configSuccess, rulesLoaded, sighup,
                   httpBlocked, httpOpen, stopping, requests, asked>>

(* The later interrupts: close(cancel) of the reload and SIGHUP actors,   *)
(* then, as a later interrupt still, the close of the HTTP listener.      *)
Interrupt ==
    /\ mgr # "running"
    /\ ~stopping
    /\ stopping' = TRUE
    /\ UNCHANGED <<disk, edits, reload, sigc, loop, files, globbedAt,
                   ruleGroups, configSuccess, rulesLoaded, sighup,
                   httpBlocked, httpOpen, requests, asked, mgr>>

CloseHTTP ==
    /\ stopping
    /\ httpOpen
    /\ httpOpen' = FALSE
    /\ UNCHANGED <<disk, edits, reload, sigc, loop, files, globbedAt,
                   ruleGroups, configSuccess, rulesLoaded, sighup,
                   httpBlocked, stopping, requests, asked, mgr>>

(* An operator edits, creates or deletes a rule file.                     *)
EditRuleFile(f, s) ==
    /\ edits < MaxEdits
    /\ disk[f] # s
    /\ disk' = [disk EXCEPT ![f] = s]
    /\ edits' = edits + 1
    /\ UNCHANGED <<reload, sigc, loop, files, globbedAt, ruleGroups,
                   configSuccess, rulesLoaded, sighup, httpBlocked, httpOpen,
                   stopping, requests, asked, mgr>>

Next ==
    \/ Receive
    \/ Update
    \/ ReloadExit
    \/ OSSignal
    \/ SighupForward
    \/ SighupExit
    \/ HttpReload
    \/ CancelManager
    \/ StopManager
    \/ Interrupt
    \/ CloseHTTP
    \/ \E f \in RuleFiles, s \in FileStates : EditRuleFile(f, s)

(* Both actors are goroutines the Go scheduler keeps running.             *)
Fairness ==
    /\ WF_vars(Receive)
    /\ WF_vars(Update)
    /\ WF_vars(SighupForward)

Spec == Init /\ [][Next]_vars /\ Fairness

-----------------------------------------------------------------------------
TypeOK ==
    /\ disk \in [RuleFiles -> FileStates]
    /\ edits \in 0..MaxEdits
    /\ reload \in 0..1
    /\ sigc \in 0..1
    /\ loop \in {"wait", "update", "done"}
    /\ files \subseteq RuleFiles
    /\ globbedAt \in 0..MaxEdits
    /\ ruleGroups \subseteq RuleFiles
    /\ configSuccess \in 0..1
    /\ rulesLoaded \subseteq RuleFiles
    /\ sighup \in {"run", "done"}
    /\ httpBlocked \in 0..MaxRequests
    /\ httpOpen \in BOOLEAN
    /\ stopping \in BOOLEAN
    /\ requests \in 0..MaxRequests
    /\ asked \in 0..MaxEdits
    /\ mgr \in {"running", "cancelled", "stopped"}

(* No reload request is lost: whenever the reload actor is idle with no  *)
(* token in `reload`, no signal in c and no blocked HTTP sender, its last *)
(* glob read the disk no earlier than the latest SIGHUP or POST /-/reload.*)
(* A dropped non-blocking send (rule.go:481-484) is only safe because the *)
(* token it would have added is still buffered and not yet globbed.       *)
NoStaleIdle ==
    (loop = "wait" /\ reload = 0 /\ sigc = 0 /\ httpBlocked = 0)
        => globbedAt >= asked

(* Every reload request made before shutdown is eventually followed by a *)
(* glob of the disk as it was when the request was made.                  *)
RequestServed ==
    \A n \in 1..MaxEdits :
        (asked >= n /\ ~stopping) ~> (globbedAt >= n \/ stopping)

(* The refinement mapping: a request is pending while a token is buffered,*)
(* a signal waits in c or an HTTP handler is blocked in its send; the     *)
(* reload actor is idle in its select, loading between glob and           *)
(* mgr.Update, or returned.                                               *)
PhaseOf == [wait |-> "idle", update |-> "loading", done |-> "stopped"]
Abstract == INSTANCE ReloadSpec
                WITH Named <- UNION {Matches[p] : p \in Patterns \ BadPatterns},
                     pending <- reload = 1 \/ sigc = 1 \/ httpBlocked > 0,
                     phase <- PhaseOf[loop],
                     snapshot <- files,
                     installed <- ruleGroups,
                     success <- configSuccess

(* The three actors and their channels implement ReloadSpec: a request is *)
(* never dropped before a reload starts after it, no reload starts        *)
(* without one, a reload installs what its glob found if mgr.Update       *)
(* succeeds and the success gauge reports the latest outcome, and a       *)
(* pending request is taken up unless the ruler is stopping.              *)
ImplementsReloadSpec == Abstract!Spec

(* Shutdown stops the rules manager before it stops the reload actor      *)
(* (lines 324-331 are added before 433-470), so mgr.Update must never run *)
(* on a stopped manager: the reload actor is never between its glob and   *)
(* mgr.Update once mgr.Stop has been called.                              *)
NoUpdateAfterStop == loop = "update" => mgr # "stopped"

(* Spec sections 6 and 9: SIGHUP and POST /-/reload coalesce into at most *)
(* one pending reload.  The blocking send of the HTTP handler (l. 533)    *)
(* queues a second one behind the buffered token.                         *)
PendingReloadsCoalesced == reload + httpBlocked <= 1

=============================================================================
