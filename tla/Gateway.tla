------------------------------- MODULE Gateway -------------------------------
(***************************************************************************)
(* How a configuration travels through the dxgate process: main            *)
(* (crates/app/src/main.rs) loads the static file and applies it, the xDS  *)
(* client sends configurations into a tokio watch channel, a task applies  *)
(* what the channel holds to ProxyState (crates/proxy/src/state.rs), and   *)
(* the admin server (crates/admin/src/lib.rs) reports readiness from it.   *)
(*                                                                         *)
(* ProxyState keeps its three fields behind three separate locks, so every *)
(* access of apply_config and of readiness is a step of its own.           *)
(***************************************************************************)
EXTENDS RuntimeConfig

CONSTANTS StaticConfigs, \* configurations the static file can hold
          XdsConfigs,    \* configurations the control plane can yield
          Readers,       \* concurrent requests for /readyz and /metrics
          MaxPublished   \* bound on the values the channel holds over its life

ASSUME MaxPublishedAssumption == MaxPublished \in Nat

VARIABLES
  config,     \* ProxyState.config
  conflicts,  \* ProxyState.conflicts
  ready,      \* ProxyState.ready
  published,  \* every value the watch channel has held; the last is current
  seen,       \* number of the value the receiver last marked as seen
  sender,     \* the sender exists
  pc,         \* where main and the apply task are
  job,        \* the configuration each of the two is applying, and its number
  xds,        \* the task that runs XdsClient::run
  served,     \* number of the configuration in ProxyState (history variable)
  probe       \* what each readiness request has read so far

proxyState == <<config, conflicts, ready, served>>
channel == <<published, seen, sender>>
vars == <<proxyState, channel, pc, job, xds, probe>>

Configs == StaticConfigs \cup XdsConfigs

Bootstrap == empty("bootstrap")

Appliers == {"main", "task"}
MainPC == {"load", "apply", "clear", "ready", "unready", "send", "spawn", "serve"}
TaskPC == {"changed", "borrow", "apply", "clear", "ready", "unready", "done"}

\* Mutant: both callers continue where main does.
AfterOkShared(p) == "send"

\* Where each of the two goes after apply_config has returned Ok or Err.
AfterOk(p) == IF p = "main" THEN "send" ELSE "changed"
AfterErr(p) == IF p = "main" THEN "spawn" ELSE "changed"

Init ==
  /\ config = Bootstrap
  /\ conflicts = {}
  /\ ready = FALSE
  /\ published = <<Bootstrap>>
  /\ seen = 1
  /\ sender = TRUE
  /\ pc = [p \in Appliers |-> IF p = "main" THEN "load" ELSE "changed"]
  /\ job = [p \in Appliers |-> [cfg |-> Bootstrap, number |-> 1]]
  /\ xds = "absent"
  /\ served = 1
  /\ probe = [r \in Readers |-> [pc |-> "idle", ready |-> FALSE, version |-> 1, conflicts |-> {}]]

Goto(p, label) == pc' = [pc EXCEPT ![p] = label]

-----------------------------------------------------------------------------
(* ProxyState::apply_config, run by main and by the apply task.            *)

\* Mutant: the flag is stored along with the configuration, before the
\* conflicts are cleared.
WriteConfigReadyFirst(p) ==
  /\ pc[p] = "apply"
  /\ Valid(job[p].cfg)
  /\ config' = job[p].cfg
  /\ served' = job[p].number
  /\ ready' = TRUE
  /\ Goto(p, "clear")
  /\ UNCHANGED <<conflicts, channel, job, xds, probe>>

\* Mutant: the configuration is written without being validated.
WriteConfigUnchecked(p) ==
  /\ pc[p] = "apply"
  /\ config' = job[p].cfg
  /\ served' = job[p].number
  /\ Goto(p, "clear")
  /\ UNCHANGED <<conflicts, ready, channel, job, xds, probe>>

WriteConfig(p) ==
  /\ pc[p] = "apply"
  /\ Valid(job[p].cfg)
  /\ config' = job[p].cfg
  /\ served' = job[p].number
  /\ Goto(p, "clear")
  /\ UNCHANGED <<conflicts, ready, channel, job, xds, probe>>

ClearConflicts(p) ==
  /\ pc[p] = "clear"
  /\ conflicts' = {}
  /\ Goto(p, "ready")
  /\ UNCHANGED <<config, ready, served, channel, job, xds, probe>>

\* Mutant: the receiver marks whatever the channel holds as seen once the
\* configuration it has borrowed is applied.
StoreReadyMarkSeen(p) ==
  /\ pc[p] = "ready"
  /\ ready' = TRUE
  /\ seen' = Len(published)
  /\ Goto(p, AfterOk(p))
  /\ UNCHANGED <<config, conflicts, served, published, sender, job, xds, probe>>

StoreReady(p) ==
  /\ pc[p] = "ready"
  /\ ready' = TRUE
  /\ Goto(p, AfterOk(p))
  /\ UNCHANGED <<config, conflicts, served, channel, job, xds, probe>>

WriteConflicts(p) ==
  /\ pc[p] = "apply"
  /\ ~ Valid(job[p].cfg)
  /\ conflicts' = validate(job[p].cfg)
  /\ Goto(p, "unready")
  /\ UNCHANGED <<config, ready, served, channel, job, xds, probe>>

StoreNotReady(p) ==
  /\ pc[p] = "unready"
  /\ ready' = FALSE
  /\ Goto(p, AfterErr(p))
  /\ UNCHANGED <<config, conflicts, served, channel, job, xds, probe>>

-----------------------------------------------------------------------------
(* The watch channel: send replaces the value; the receiver learns that    *)
(* the value changed, not how often.                                       *)

current == published[Len(published)]

\* send fails, and changes nothing, once the receiver is gone.
send(cfg) ==
  /\ published' = IF pc["task"] = "done" THEN published ELSE Append(published, cfg)
  /\ UNCHANGED <<seen, sender>>

-----------------------------------------------------------------------------
(* The apply task.                                                         *)

\* Mutant: off by one in the comparison of versions.
TaskChangedLate ==
  /\ pc["task"] = "changed"
  /\ seen + 1 < Len(published)
  /\ seen' = Len(published)
  /\ Goto("task", "borrow")
  /\ UNCHANGED <<proxyState, published, sender, job, xds, probe>>

\* changed() marks the newest value as seen.
TaskChanged ==
  /\ pc["task"] = "changed"
  /\ seen < Len(published)
  /\ seen' = Len(published)
  /\ Goto("task", "borrow")
  /\ UNCHANGED <<proxyState, published, sender, job, xds, probe>>

\* Mutant: the task stops when it finds nothing new, sender or not.
TaskClosedEarly ==
  /\ pc["task"] = "changed"
  /\ seen = Len(published)
  /\ pc["main"] = "serve"
  /\ Goto("task", "done")
  /\ UNCHANGED <<proxyState, channel, job, xds, probe>>

\* changed() looks for a new value before it looks for the end of the sender.
TaskClosed ==
  /\ pc["task"] = "changed"
  /\ seen = Len(published)
  /\ ~ sender
  /\ Goto("task", "done")
  /\ UNCHANGED <<proxyState, channel, job, xds, probe>>

\* borrow() reads the newest value, which may be newer than the one seen.
TaskBorrow ==
  /\ pc["task"] = "borrow"
  /\ job' = [job EXCEPT !["task"] = [cfg |-> current, number |-> Len(published)]]
  /\ Goto("task", "apply")
  /\ UNCHANGED <<proxyState, channel, xds, probe>>

-----------------------------------------------------------------------------
(* main                                                                    *)

\* No static file is configured, it is absent, or loading it fails.
MainNoStatic ==
  /\ pc["main"] = "load"
  /\ Goto("main", "spawn")
  /\ UNCHANGED <<proxyState, channel, job, xds, probe>>

\* Mutant: the static file is sent before it is applied.
MainLoadSendFirst(cfg) ==
  /\ pc["main"] = "load"
  /\ job' = [job EXCEPT !["main"] = [cfg |-> cfg, number |-> Len(published) + 1]]
  /\ send(cfg)
  /\ Goto("main", "apply")
  /\ UNCHANGED <<proxyState, xds, probe>>

\* The number is that of the value main will send.
MainLoad(cfg) ==
  /\ pc["main"] = "load"
  /\ job' = [job EXCEPT !["main"] = [cfg |-> cfg, number |-> Len(published) + 1]]
  /\ Goto("main", "apply")
  /\ UNCHANGED <<proxyState, channel, xds, probe>>

MainSend ==
  /\ pc["main"] = "send"
  /\ send(job["main"].cfg)
  /\ Goto("main", "spawn")
  /\ UNCHANGED <<proxyState, job, xds, probe>>

\* main hands the sender to the xDS task and starts the two servers.
MainSpawn ==
  /\ pc["main"] = "spawn"
  /\ xds' = "started"
  /\ Goto("main", "serve")
  /\ UNCHANGED <<proxyState, channel, job, probe>>

-----------------------------------------------------------------------------
(* The xDS client as the channel sees it (module AdsClient has its inside). *)

\* Mutant: the client leaves validation to the apply task.
XdsPublishUnchecked(cfg) ==
  /\ xds \in {"started", "streaming"}
  /\ cfg # current
  /\ Len(published) < MaxPublished
  /\ send(cfg)
  /\ xds' = "streaming"
  /\ UNCHANGED <<proxyState, pc, job, probe>>

XdsPublish(cfg) ==
  /\ xds \in {"started", "streaming"}
  /\ Valid(cfg)
  /\ cfg # current
  /\ Len(published) < MaxPublished
  /\ send(cfg)
  /\ xds' = "streaming"
  /\ UNCHANGED <<proxyState, pc, job, probe>>

\* XdsError::InvalidEndpoint, known before the first stream, is the one error
\* that ends run and drops the sender.
XdsInvalidEndpoint ==
  /\ xds = "started"
  /\ xds' = "exited"
  /\ sender' = FALSE
  /\ UNCHANGED <<proxyState, published, seen, pc, job, probe>>

-----------------------------------------------------------------------------
(* ProxyState::readiness, for /readyz and /metrics.  The version that is   *)
(* read is recorded as the number of the configuration it belongs to.      *)

LoadReady(r) ==
  /\ pc["main"] = "serve"
  /\ probe[r].pc \in {"idle", "replied"}
  /\ probe' = [probe EXCEPT ![r].pc = "version", ![r].ready = ready]
  /\ UNCHANGED <<proxyState, channel, pc, job, xds>>

ReadVersion(r) ==
  /\ probe[r].pc = "version"
  /\ probe' = [probe EXCEPT ![r].pc = "conflicts", ![r].version = served]
  /\ UNCHANGED <<proxyState, channel, pc, job, xds>>

ReadConflicts(r) ==
  /\ probe[r].pc = "conflicts"
  /\ probe' = [probe EXCEPT ![r].pc = "replied", ![r].conflicts = conflicts]
  /\ UNCHANGED <<proxyState, channel, pc, job, xds>>

-----------------------------------------------------------------------------
apply_config(p) ==
  \/ WriteConfig(p) \/ ClearConflicts(p) \/ StoreReady(p)
  \/ WriteConflicts(p) \/ StoreNotReady(p)

Task == TaskChanged \/ TaskClosed \/ TaskBorrow \/ apply_config("task")

MainStep ==
  \/ MainNoStatic \/ MainSend \/ MainSpawn \/ apply_config("main")
  \/ \E cfg \in StaticConfigs : MainLoad(cfg)

Xds == XdsInvalidEndpoint \/ \E cfg \in XdsConfigs : XdsPublish(cfg)

readiness(r) == LoadReady(r) \/ ReadVersion(r) \/ ReadConflicts(r)

Next == Task \/ MainStep \/ Xds \/ \E r \in Readers : readiness(r)

\* The runtime polls main and the apply task whenever they can make progress;
\* what the control plane sends and who probes is up to the environment.
Fairness == WF_vars(Task) /\ WF_vars(MainStep)

SafetySpec == Init /\ [][Next]_vars

Spec == SafetySpec /\ Fairness

-----------------------------------------------------------------------------
(* Properties                                                              *)

\* What ProxyState.conflicts can hold.
Rejections == {{}} \cup {validate(cfg) : cfg \in Configs \cup {Bootstrap}}

ProbeState == [pc : {"idle", "version", "conflicts", "replied"},
               ready : BOOLEAN, version : Nat, conflicts : Rejections]

\* Type invariant: every variable keeps its type; configurations come from the
\* static file, the control plane or the bootstrap value.
TypeOK ==
  /\ config \in Configs \cup {Bootstrap}
  /\ conflicts \in Rejections
  /\ ready \in BOOLEAN /\ sender \in BOOLEAN
  /\ published \in Seq(Configs \cup {Bootstrap})
  /\ seen \in Nat /\ served \in Nat
  /\ pc \in [Appliers -> MainPC \cup TaskPC]
  /\ pc["main"] \in MainPC /\ pc["task"] \in TaskPC
  /\ job \in [Appliers -> [cfg : Configs \cup {Bootstrap}, number : Nat]]
  /\ xds \in {"absent", "started", "streaming", "exited"}
  /\ probe \in [Readers -> ProbeState]

\* The apply_config calls of main and of the apply task never overlap, although
\* ProxyState would let them interleave field by field: main is done with the
\* static file before anything can wake the task.
SingleApplier ==
  ~ (pc["main"] \in {"apply", "clear", "ready", "unready"} /\ pc["task"] # "changed")

\* A readiness reply that says ready names an accepted configuration, never the
\* bootstrap one, and lists no conflicts, although readiness reads the flag, the
\* version and the conflicts under three separate locks while apply_config runs.
ReadyReplyCoherent ==
  \A r \in Readers :
    probe[r].pc = "replied" /\ probe[r].ready =>
      probe[r].version > 1 /\ probe[r].conflicts = {}

\* No update is lost: whenever the apply task is about to sleep with nothing
\* left to see, or has ended, the newest configuration sent is the one served.
NoLostUpdate ==
  (pc["task"] = "changed" /\ seen = Len(published)) \/ pc["task"] = "done" =>
    served >= Len(published)

\* Once the gateway is ready it stays ready: no configuration that reaches
\* apply_config after the first accepted one is ever rejected.
ReadyStable == [][ready => ready']_vars

\* Whatever is sent into the channel is in time superseded or served, and the
\* gateway is then ready.
EventuallyServed ==
  \A n \in 2..MaxPublished : Len(published) >= n ~> served >= n /\ ready

\* The offers as the readers of ProxyState see them: a valid static file counts
\* from the moment main has loaded it, although it is sent after it is applied.
Offers ==
  IF pc["main"] \in {"apply", "clear", "ready", "send"} /\ Valid(job["main"].cfg)
  THEN Append(published, job["main"].cfg)
  ELSE published

ValidConfigs == {cfg \in Configs : Valid(cfg)}

Register == INSTANCE ConfigRegister
  WITH Configs <- ValidConfigs, Initial <- Bootstrap,
       log <- Offers, at <- served, value <- config, up <- ready

\* The configuration path implements the configuration register.
ImplementsRegister == Register!Spec

==============================================================================
