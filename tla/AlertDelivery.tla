--------------------------- MODULE AlertDelivery ---------------------------
(***************************************************************************)
(* The alert pipeline of the Thanos ruler (cmd/thanos/rule.go).            *)
(*                                                                         *)
(* notify (lines 293-314), called by the Prometheus rules manager, drops   *)
(* pending alerts, sets EndsAt on resolved ones and pushes the rest on     *)
(* alertQ (capacity 10000, batches of 100).  The sender actor (lines       *)
(* 359-377) pops a batch and sends it to every alertmanager URL that       *)
(* alertmgrs.get returns.  The update actor (lines 378-392) runs           *)
(* alertmanagerSet.update (lines 742-793) every 30s: it resolves every     *)
(* --alertmanagers.url in order into a local result and swaps it into      *)
(* `current` under the mutex, or returns on the first error.               *)
(*                                                                         *)
(* alert.Queue and alert.Sender, and the dns.Resolver, live in the Thanos  *)
(* pkg/ tree, outside this repository; they are modelled from their        *)
(* documented behaviour: Push appends, drops the oldest alerts beyond the  *)
(* capacity and signals the capacity-1 channel morec without blocking;     *)
(* Pop waits for morec or termination, takes up to a batch and re-signals  *)
(* morec if alerts remain; Send counts a batch delivered when one          *)
(* alertmanager accepts it.  An alert is identified by its rule and the    *)
(* notify call that produced it.                                           *)
(***************************************************************************)
EXTENDS Naturals, Sequences, FiniteSets, SequencesExt

CONSTANTS
    Rules,         \* alerting rules
    AMAddrs,       \* --alertmanagers.url values, in flag order
    Kind,          \* Kind[n]: "none", "dns" (A) or "dnssrv", the +-prefix
    HasPort,       \* HasPort[n]: the host of n carries an explicit port
    StaticHost,    \* StaticHost[n]: u.Host of a name without a prefix
    Hosts,         \* alertmanager host:port values
    InitRecords,   \* DNS records at start: name -> non-empty set of hosts
    BadURLs,       \* names that url.Parse rejects
    Capacity,      \* alertQ capacity (10000 in the code)
    MaxBatchSize,  \* alertQ batch size (100 in the code)
    MaxNotify,     \* bound on calls of notify
    MaxChanges     \* bound on changes of DNS records, failures and health

AMNames == {AMAddrs[i] : i \in DOMAIN AMAddrs}
DNSNames == {n \in AMNames : Kind[n] # "none"}
States == {"pending", "firing", "resolved"}
(* An alert as handed to the queue: EndsAt is set iff it is resolved.     *)
Items == [rule : Rules, call : 1..MaxNotify, ends : BOOLEAN]

ASSUME /\ \A n \in AMNames : Kind[n] \in {"none", "dns", "dnssrv"}
       /\ \A n \in AMNames : HasPort[n] \in BOOLEAN
       /\ InitRecords \in [DNSNames -> SUBSET Hosts \ {{}}]
       /\ Capacity \in Nat \ {0} /\ MaxBatchSize \in Nat \ {0}

VARIABLES
    queue,      \* alertQ.queue
    more,       \* alertQ.morec holds a signal
    snd,        \* sender actor: "pop", "take", "send" or "done"
    batch,      \* the batch the sender popped
    delivered,  \* alerts some alertmanager accepted
    failed,     \* alerts of batches no alertmanager accepted
    dropped,    \* alerts Push dropped at capacity
    notified,   \* history: every alert handed to notify, with its state
    calls,      \* notify calls so far
    current,    \* alertmanagerSet.current
    upd,        \* update actor: "loop" (in update), "wait" or "done"
    idx,        \* next index into AMAddrs in the update loop
    result,     \* the local result of the update loop
    updated,    \* history: an update pass has ended
    records,    \* DNS records of every DNS name
    failing,    \* DNS names whose lookup currently fails
    amUp,       \* alertmanagers that accept a POST
    changes,    \* environment changes so far
    stopping    \* the run.Group interrupts have cancelled the contexts

alertVars == <<queue, more, snd, batch, delivered, failed, dropped,
               notified, calls>>
amVars == <<current, upd, idx, result, updated>>
envVars == <<records, failing, amUp, changes, stopping>>
vars == <<alertVars, amVars, envVars>>

-----------------------------------------------------------------------------
(* Alertmanager resolution.                                               *)

(* The hosts of the URL list of name n when its lookup gives `recs`:      *)
(* u.Host for a name without prefix, one URL per resolved address else.   *)
URLsOf(n, recs) ==
    IF Kind[n] = "none" THEN <<StaticHost[n]>> ELSE SetToSeq(recs[n])

(* Mutant: the default port is never appended to an A-record host.       *)
HostPortNoDefault(n) == [qtype |-> Kind[n], port |-> HasPort[n]]

(* The host handed to the resolver: for qtype dns a host without a port  *)
(* gets ":9093" appended (lines 762-769).                                 *)
HostPort(n) == [qtype |-> Kind[n], port |-> HasPort[n] \/ Kind[n] = "dns"]

(* dns.Resolver: an A lookup needs host:port ("missing port" otherwise), *)
(* an SRV lookup takes a bare name.                                       *)
ResolverAccepts(h) == h.qtype = "dnssrv" \/ h.port

(* One iteration of the loop of update succeeds: the URL parses and, for *)
(* a prefixed name, the lookup (with the actor's context) succeeds.      *)
LookupOK(n) ==
    /\ n \notin BadURLs
    /\ Kind[n] # "none" =>
          /\ ResolverAccepts(HostPort(n))
          /\ n \notin failing
          /\ ~stopping

(* Mutant: the error breaks out of the loop and the partial result is    *)
(* still swapped in.                                                      *)
UpdateNameFailPublishPartial ==
    /\ upd = "loop" /\ idx <= Len(AMAddrs)
    /\ ~LookupOK(AMAddrs[idx])
    /\ current' = result
    /\ upd' = "wait" /\ idx' = 1 /\ result' = <<>>
    /\ updated' = TRUE
    /\ UNCHANGED <<alertVars, envVars>>

(* An iteration that succeeds appends the URLs of the name.               *)
UpdateNameOK ==
    /\ upd = "loop" /\ idx <= Len(AMAddrs)
    /\ LookupOK(AMAddrs[idx])
    /\ result' = result \o URLsOf(AMAddrs[idx], records)
    /\ idx' = idx + 1
    /\ UNCHANGED <<alertVars, current, upd, updated, envVars>>

(* An iteration that fails returns the error: current is left alone and  *)
(* Repeat logs it and waits for the next tick.                           *)
UpdateNameFail ==
    /\ upd = "loop" /\ idx <= Len(AMAddrs)
    /\ ~LookupOK(AMAddrs[idx])
    /\ upd' = "wait" /\ idx' = 1 /\ result' = <<>>
    /\ updated' = TRUE
    /\ UNCHANGED <<alertVars, current, envVars>>

(* The end of the loop: s.current = result under s.mtx.                  *)
UpdateCommit ==
    /\ upd = "loop" /\ idx > Len(AMAddrs)
    /\ current' = result
    /\ upd' = "wait" /\ idx' = 1 /\ result' = <<>>
    /\ updated' = TRUE
    /\ UNCHANGED <<alertVars, envVars>>

(* runutil.Repeat: the ticker fires and update runs again with an empty *)
(* local result (reset when the previous call returned).                 *)
UpdateTick ==
    /\ upd = "wait"
    /\ upd' = "loop"
    /\ UNCHANGED <<alertVars, current, idx, result, updated, envVars>>

(* runutil.Repeat: the stop channel is closed.                           *)
UpdateExit ==
    /\ upd = "wait" /\ stopping
    /\ upd' = "done"
    /\ UNCHANGED <<alertVars, current, idx, result, updated, envVars>>

-----------------------------------------------------------------------------
(* Alert queue and sender.                                                *)

(* Mutant: Push never drops, the queue grows past its capacity.          *)
PushNoDrop(res) ==
    IF res = <<>> THEN UNCHANGED <<queue, more, dropped>>
    ELSE /\ queue' = queue \o res
         /\ more' = TRUE
         /\ UNCHANGED dropped

(* alertQ.Push: nothing for an empty slice; else append, drop the oldest *)
(* beyond the capacity and signal morec without blocking.                *)
Push(res) ==
    IF res = <<>> THEN UNCHANGED <<queue, more, dropped>>
    ELSE LET all == queue \o res
             d   == Len(all) - Capacity
         IN /\ queue' = IF d > 0 THEN SubSeq(all, d + 1, Len(all)) ELSE all
            /\ dropped' = IF d > 0 THEN dropped \cup ToSet(SubSeq(all, 1, d))
                                   ELSE dropped
            /\ more' = TRUE

(* The alert.Alert that notify builds from a rules.Alert of call c.      *)
ToItem(a, c) == [rule |-> a.rule, call |-> c, ends |-> a.state = "resolved"]

(* Mutant: pending alerts are not skipped.                               *)
NotifyNoFilter(alerts) ==
    /\ calls < MaxNotify
    /\ calls' = calls + 1
    /\ notified' = notified \cup {[rule |-> a.rule, call |-> calls + 1,
                                   state |-> a.state] : a \in ToSet(alerts)}
    /\ Push([i \in DOMAIN alerts |-> ToItem(alerts[i], calls + 1)])
    /\ UNCHANGED <<snd, batch, delivered, failed, amVars, envVars>>

(* notify: the rules manager hands over the alerts of a rule group;      *)
(* pending ones are skipped, EndsAt is set on resolved ones, the rest    *)
(* is pushed.                                                            *)
Notify(alerts) ==
    /\ calls < MaxNotify
    /\ calls' = calls + 1
    /\ notified' = notified \cup {[rule |-> a.rule, call |-> calls + 1,
                                   state |-> a.state] : a \in ToSet(alerts)}
    /\ LET firing == SelectSeq(alerts, LAMBDA a : a.state # "pending")
       IN Push([i \in DOMAIN firing |-> ToItem(firing[i], calls + 1)])
    /\ UNCHANGED <<snd, batch, delivered, failed, amVars, envVars>>

(* alertQ.Pop: a signal on morec wakes the sender.                       *)
PopWake ==
    /\ snd = "pop" /\ more
    /\ more' = FALSE
    /\ snd' = "take"
    /\ UNCHANGED <<queue, batch, delivered, failed, dropped, notified, calls,
                   amVars, envVars>>

(* alertQ.Pop: termc (ctx.Done()) is closed, Pop returns nil.            *)
PopTerm ==
    /\ snd = "pop" /\ stopping
    /\ batch' = <<>>
    /\ snd' = "send"
    /\ UNCHANGED <<queue, more, delivered, failed, dropped, notified, calls,
                   amVars, envVars>>

(* alertQ.Pop under the mutex: take up to a batch, re-signal morec if    *)
(* alerts remain.                                                        *)
PopTake ==
    /\ snd = "take"
    /\ LET n == IF Len(queue) < MaxBatchSize THEN Len(queue) ELSE MaxBatchSize
       IN /\ batch' = SubSeq(queue, 1, n)
          /\ queue' = SubSeq(queue, n + 1, Len(queue))
          /\ more' = (more \/ Len(queue) > n)
    /\ snd' = "send"
    /\ UNCHANGED <<delivered, failed, dropped, notified, calls,
                   amVars, envVars>>

(* sdr.Send with the alertmanagers of alertmgrs.get: an empty batch is   *)
(* not sent; a batch is delivered if one alertmanager accepts the POST   *)
(* (a cancelled context fails every POST).                               *)
Accepted == ~stopping /\ \E i \in DOMAIN current : current[i] \in amUp

(* Mutant: the sender returns after its first send.                     *)
SendBatchExit ==
    /\ snd = "send"
    /\ delivered' = IF batch # <<>> /\ Accepted
                       THEN delivered \cup ToSet(batch) ELSE delivered
    /\ failed' = IF batch # <<>> /\ ~Accepted
                    THEN failed \cup ToSet(batch) ELSE failed
    /\ batch' = <<>>
    /\ snd' = "done"
    /\ UNCHANGED <<queue, more, dropped, notified, calls, amVars, envVars>>

(* The body of the sender loop after Pop: Send, then return if ctx is    *)
(* done, else pop again.                                                 *)
SendBatch ==
    /\ snd = "send"
    /\ delivered' = IF batch # <<>> /\ Accepted
                       THEN delivered \cup ToSet(batch) ELSE delivered
    /\ failed' = IF batch # <<>> /\ ~Accepted
                    THEN failed \cup ToSet(batch) ELSE failed
    /\ batch' = <<>>
    /\ snd' = IF stopping THEN "done" ELSE "pop"
    /\ UNCHANGED <<queue, more, dropped, notified, calls, amVars, envVars>>

-----------------------------------------------------------------------------
(* The environment: DNS records change, lookups start or stop failing,   *)
(* alertmanagers go up or down, the run.Group is interrupted.            *)
ChangeRecords(n, S) ==
    /\ changes < MaxChanges /\ S # records[n]
    /\ records' = [records EXCEPT ![n] = S]
    /\ changes' = changes + 1
    /\ UNCHANGED <<alertVars, amVars, failing, amUp, stopping>>

ChangeFailing(F) ==
    /\ changes < MaxChanges /\ F # failing
    /\ failing' = F
    /\ changes' = changes + 1
    /\ UNCHANGED <<alertVars, amVars, records, amUp, stopping>>

ChangeUp(U) ==
    /\ changes < MaxChanges /\ U # amUp
    /\ amUp' = U
    /\ changes' = changes + 1
    /\ UNCHANGED <<alertVars, amVars, records, failing, stopping>>

Interrupt ==
    /\ ~stopping
    /\ stopping' = TRUE
    /\ UNCHANGED <<alertVars, amVars, records, failing, amUp, changes>>

(* The alerts a rules manager call can carry: distinct rules, in order. *)
AlertLists ==
    UNION {{[i \in DOMAIN o |-> [rule |-> o[i], state |-> st[o[i]]]] :
              o \in SetToSeqs(S), st \in [S -> States]} : S \in SUBSET Rules}

Init ==
    /\ queue = <<>> /\ more = FALSE /\ snd = "pop" /\ batch = <<>>
    /\ delivered = {} /\ failed = {} /\ dropped = {}
    /\ notified = {} /\ calls = 0
    /\ current = <<>> /\ upd = "loop" /\ idx = 1 /\ result = <<>>
    /\ updated = FALSE
    /\ records = InitRecords
    /\ failing \in SUBSET DNSNames
    /\ amUp \in SUBSET Hosts
    /\ changes = 0
    /\ stopping = FALSE

SenderStep == PopWake \/ PopTerm \/ PopTake \/ SendBatch
UpdateStep ==
    UpdateNameOK \/ UpdateNameFail \/ UpdateCommit \/ UpdateTick \/ UpdateExit

Next ==
    \/ SenderStep
    \/ UpdateStep
    \/ \E a \in AlertLists : Notify(a)
    \/ \E n \in DNSNames, S \in SUBSET Hosts \ {{}} : ChangeRecords(n, S)
    \/ \E F \in SUBSET DNSNames : ChangeFailing(F)
    \/ \E U \in SUBSET Hosts : ChangeUp(U)
    \/ Interrupt

(* The sender and the update actor are goroutines of the run.Group that  *)
(* loop until interrupted; the 30s ticker keeps firing.                  *)
Fairness == WF_vars(SenderStep) /\ WF_vars(UpdateStep)

Spec == Init /\ [][Next]_vars /\ Fairness

-----------------------------------------------------------------------------
(* The URL list a complete pass of update produces for DNS records recs. *)
Resolution(recs) ==
    FlattenSeq([i \in DOMAIN AMAddrs |-> URLsOf(AMAddrs[i], recs)])

TypeOK ==
    /\ queue \in Seq(Items) /\ Len(queue) <= Capacity
    /\ batch \in Seq(Items) /\ Len(batch) <= MaxBatchSize
    /\ more \in BOOLEAN
    /\ snd \in {"pop", "take", "send", "done"}
    /\ delivered \subseteq Items /\ failed \subseteq Items
    /\ dropped \subseteq Items
    /\ calls \in 0..MaxNotify
    /\ current \in Seq(Hosts) /\ result \in Seq(Hosts)
    /\ upd \in {"loop", "wait", "done"}
    /\ idx \in 1..Len(AMAddrs) + 1
    /\ changes \in 0..MaxChanges

(* Every firing or resolved alert handed to notify is in exactly one of  *)
(* the queue, the sender's batch, the delivered, failed or dropped       *)
(* alerts, with EndsAt set iff it was resolved; no pending alert is ever *)
(* queued (spec 8).  Push, Pop and the sender loop must neither lose nor *)
(* duplicate an alert.                                                   *)
AlertsAccounted ==
    LET handed == {ToItem(a, a.call) : a \in {x \in notified : x.state # "pending"}}
        places == <<ToSet(queue), ToSet(batch), delivered, failed, dropped>>
    IN /\ handed = UNION {places[i] : i \in 1..5}
       /\ \A i, j \in 1..5 : i # j => places[i] \cap places[j] = {}
       /\ Len(queue) = Cardinality(ToSet(queue))
       /\ Len(batch) = Cardinality(ToSet(batch))

(* The sender never sees a half-built alertmanager list: current is      *)
(* always empty (no pass has succeeded yet) or the result of a complete  *)
(* pass of update over all names (spec 5: atomic replacement).           *)
AMSetAtomic ==
    current = <<>>
    \/ \E recs \in [DNSNames -> SUBSET Hosts \ {{}}] : current = Resolution(recs)

(* Every alert queued before shutdown eventually leaves the queue: the   *)
(* morec signal is never lost and the sender keeps looping.              *)
QueueDrained ==
    \A x \in Items : x \in ToSet(queue) ~> (x \notin ToSet(queue) \/ stopping)

(* Once lookups stop failing for good, the alertmanager list eventually  *)
(* settles on the resolution of the current records, A names without a   *)
(* port included (spec 8: the default port is appended).                 *)
AMSetConverges ==
    (<>[](failing = {} /\ ~stopping)) => <>[](current = Resolution(records))

(* Spec 4.2 and 7: a failed lookup of one alertmanager name does not stop *)
(* the others from being resolved; after a pass, every name without a     *)
(* prefix is in the list.  update returns on the first error (line 772).  *)
FailureIsolated ==
    updated => \A n \in AMNames \ (DNSNames \cup BadURLs) :
                   StaticHost[n] \in ToSet(current)

=============================================================================
