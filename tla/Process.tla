------------------------------- MODULE Process -------------------------------
(***************************************************************************)
(* The dxgate process (crates/app/src/main.rs) around the configuration    *)
(* path of module Gateway: arguments and the bootstrap file, the two       *)
(* servers, and how the process ends.                                      *)
(*                                                                         *)
(* An argument's value is a sequence of tokens, so that the node id can be *)
(* put together from them.  A bootstrap file is the function from the      *)
(* fields it gives to their values; listener names count as given when     *)
(* there are any.                                                          *)
(***************************************************************************)
EXTENDS Gateway

CONSTANTS Own,         \* Args::parse: flags, the environment and defaults
          Files        \* the bootstrap files that can be configured

Fields == {"xds_address", "http_addr", "admin_addr", "listener_names", "pod_name",
           "namespace", "pod_ip", "node_name", "cluster_id", "dns_domain"}

\* Set from the Downward API: POD_NAME, POD_NAMESPACE, INSTANCE_IP and
\* KUBE_NODE_NAME.
PodFields == {"pod_name", "namespace", "pod_ip", "node_name"}

Servers == {"proxy", "admin"}

VARIABLES process,   \* "parse", "running", "failed" (an error exit) or "stopped"
          args,      \* Args
          server     \* the two server tasks

processVars == <<process, args, server>>
allVars == <<vars, processVars>>

ProcessInit ==
  /\ Init
  /\ process = "parse"
  /\ args = [f \in Fields |-> Own[f]]
  /\ server = [s \in Servers |-> "absent"]

-----------------------------------------------------------------------------
(* Start-up                                                                *)

NoBootstrap ==
  /\ process = "parse"
  /\ process' = "running"
  /\ UNCHANGED <<vars, args, server>>

\* BootstrapConfig::load fails: the file cannot be read, or is no JSON or YAML.
BootstrapFails ==
  /\ process = "parse"
  /\ process' = "failed"
  /\ UNCHANGED <<vars, args, server>>

\* Mutant: what the file does not give is lost.
apply_bootstrap_only(given) == [f \in DOMAIN given |-> given[f]]

\* What a file gives replaces what was parsed.
apply_bootstrap(given) ==
  [f \in Fields |-> IF f \in DOMAIN given THEN given[f] ELSE args[f]]

Bootstrapped(given) ==
  /\ process = "parse"
  /\ process' = "running"
  /\ args' = apply_bootstrap(given)
  /\ UNCHANGED <<vars, server>>

\* RouterIdentity::node_id
node_id(a) ==
  <<"router", "~">> \o a["pod_ip"] \o <<"~">> \o a["pod_name"] \o <<".">> \o a["namespace"]
    \o <<"~">> \o a["namespace"] \o <<".">> \o a["dns_domain"]

\* XdsClient::node, with RouterIdentity::metadata: what every request carries.
\* An empty node name stands for none.
node(a) ==
  [id |-> node_id(a), cluster |-> a["cluster_id"],
   metadata |-> [f \in {"GENERATOR", "CLUSTER_ID", "NAMESPACE"} \cup
                       (IF a["node_name"] = <<>> THEN {} ELSE {"KUBE_NODE_NAME"}) |->
                   CASE f = "GENERATOR" -> <<"grpc">>
                     [] f = "CLUSTER_ID" -> a["cluster_id"]
                     [] f = "NAMESPACE" -> a["namespace"]
                     [] f = "KUBE_NODE_NAME" -> a["node_name"]]]

-----------------------------------------------------------------------------
(* The servers                                                             *)

Address(s) == args[IF s = "proxy" THEN "http_addr" ELSE "admin_addr"]

\* Mutant: the servers are started before the static file is read.
SpawnFirst ==
  /\ process = "running"
  /\ pc["main"] = "load" /\ server["proxy"] = "absent"
  /\ server' = [s \in Servers |-> "spawned"]
  /\ UNCHANGED <<vars, process, args>>

\* main starts the servers along with the xDS client.
Spawn ==
  /\ process = "running"
  /\ MainSpawn
  /\ server' = [s \in Servers |-> "spawned"]
  /\ UNCHANGED <<process, args>>

Listen(s) ==
  /\ process = "running"
  /\ server[s] = "spawned"
  /\ \A t \in Servers : server[t] = "listening" => Address(t) # Address(s)
  /\ server' = [server EXCEPT ![s] = "listening"]
  /\ UNCHANGED <<vars, process, args>>

\* axum::Server::bind panics when the address cannot be bound, which ends the
\* task; the address may be taken by the other server.
ListenFails(s) ==
  /\ process = "running"
  /\ server[s] = "spawned"
  /\ server' = [server EXCEPT ![s] = "ended"]
  /\ UNCHANGED <<vars, process, args>>

\* serve returns with an error.
ServeFails(s) ==
  /\ process = "running"
  /\ server[s] = "listening"
  /\ server' = [server EXCEPT ![s] = "ended"]
  /\ UNCHANGED <<vars, process, args>>

-----------------------------------------------------------------------------
(* The end of main: its select                                             *)

\* Mutant: only the proxy is waited for.
ServerEndedProxy(s) ==
  /\ process = "running"
  /\ pc["main"] = "serve"
  /\ s = "proxy" /\ server[s] = "ended"
  /\ process' = "failed"
  /\ UNCHANGED <<vars, args, server>>

ServerEnded(s) ==
  /\ process = "running"
  /\ pc["main"] = "serve"
  /\ server[s] = "ended"
  /\ process' = "failed"
  /\ UNCHANGED <<vars, args, server>>

CtrlC ==
  /\ process = "running"
  /\ pc["main"] = "serve"
  /\ process' = "stopped"
  /\ UNCHANGED <<vars, args, server>>

-----------------------------------------------------------------------------
\* The tasks of module Gateway run while the process does.  Who probes readiness
\* is left to that module.
Configure ==
  /\ process = "running"
  /\ \/ Task \/ Xds \/ apply_config("main") \/ MainNoStatic \/ MainSend
     \/ \E cfg \in StaticConfigs : MainLoad(cfg)
  /\ UNCHANGED processVars

Start == NoBootstrap \/ BootstrapFails \/ \E given \in Files : Bootstrapped(given)

Bind(s) == Listen(s) \/ ListenFails(s)

ProcessNext ==
  \/ Start \/ Configure \/ Spawn \/ CtrlC
  \/ \E s \in Servers : Bind(s) \/ ServeFails(s) \/ ServerEnded(s)

\* The runtime polls main, its select and the spawned tasks; binding an address
\* succeeds or fails.
ProcessFairness ==
  /\ WF_allVars(Start) /\ WF_allVars(Spawn)
  /\ WF_allVars(process = "running" /\ (Task \/ (MainStep /\ ~ MainSpawn)) /\ UNCHANGED processVars)
  /\ \A s \in Servers : WF_allVars(Bind(s)) /\ WF_allVars(ServerEnded(s))

ProcessSafety == ProcessInit /\ [][ProcessNext]_allVars

ProcessSpec == ProcessSafety /\ ProcessFairness

-----------------------------------------------------------------------------
(* Properties                                                              *)

\* Type invariant of the process.
ProcessTypeOK ==
  /\ process \in {"parse", "running", "failed", "stopped"}
  /\ DOMAIN args = Fields
  /\ server \in [Servers -> {"absent", "spawned", "listening", "ended"}]

\* There is no half a gateway: whenever one of the two servers is not listening
\* although main has started them, it will be, or the process ends.
BothServersOrNone ==
  \A s \in Servers :
    pc["main"] = "serve" /\ server[s] # "listening" ~> server[s] = "listening" \/ process # "running"

\* A gateway with a valid static file never answers a request from the empty
\* bootstrap configuration: the file is in force before the proxy listens.
StaticBeforeRequests ==
  server["proxy"] = "listening" /\ job["main"].number > 1 /\ Valid(job["main"].cfg) =>
    served > 1 /\ ready

\* The README has it that "pod-specific fields still come from the Downward API
\* environment": a running gateway presents itself to the control plane as the
\* node of its own pod, whatever the bootstrap file holds.
PodFieldsFromEnvironment ==
  process = "running" =>
    node(args) = node([f \in Fields |-> IF f \in PodFields THEN Own[f] ELSE args[f]])

==============================================================================
