------------------------------ MODULE MCProcess ------------------------------
(***************************************************************************)
(* Instance of Process: a bootstrap file with the control plane's fields,  *)
(* one that puts both servers on one address, and one that names the pod.  *)
(***************************************************************************)
EXTENDS Process

MCListener(vhosts) ==
  [name |-> "http", bind |-> [ip |-> "any", port |-> 80], protocol |-> "http",
   tls_secret |-> None, virtual_hosts |-> vhosts]

MCRoute == [matches |-> <<>>, weighted_clusters |-> <<[name |-> "backend", weight |-> 100]>>]

MCHost == [domains |-> <<<<"*">>>>, routes |-> <<MCRoute>>]

MCValid == [version |-> "v1", listeners |-> <<MCListener(<<>>)>>, clusters |-> <<>>]
MCInvalid == [MCValid EXCEPT !.listeners = <<MCListener(<<MCHost>>)>>]

MCConfigs == {MCValid, MCInvalid}

MCOwn == [f \in Fields |-> IF f = "listener_names" THEN <<>> ELSE <<"own", f>>]

MCControlPlane == [f \in {"xds_address", "listener_names", "cluster_id", "dns_domain"} |-> <<"file", f>>]
MCOneAddress == [f \in {"http_addr", "admin_addr"} |-> <<"file", "addr">>]
MCNamed == [f \in {"pod_name", "dns_domain"} |-> <<"file", f>>]

MCFiles == {MCControlPlane, MCOneAddress, MCNamed}

==============================================================================
