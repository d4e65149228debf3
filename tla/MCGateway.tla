------------------------------ MODULE MCGateway ------------------------------
(***************************************************************************)
(* Instance of Gateway: what a control plane yields while it is followed,  *)
(* the listener alone, the listener with its routes and clusters, and a    *)
(* configuration whose route names a cluster that is not there.            *)
(***************************************************************************)
EXTENDS Gateway

MCListener(vhosts) ==
  [name |-> "http", bind |-> [ip |-> "any", port |-> 80], protocol |-> "http",
   tls_secret |-> None, virtual_hosts |-> vhosts]

MCRoute == [matches |-> <<>>, weighted_clusters |-> <<[name |-> "backend", weight |-> 100]>>]

MCHost == [domains |-> <<<<"*">>>>, routes |-> <<MCRoute>>]

MCCluster == [name |-> "backend", endpoints |-> <<[address |-> "e1", port |-> 8080, healthy |-> TRUE]>>,
              tls |-> <<>>]

ListenerOnly == [version |-> "v1", listeners |-> <<MCListener(<<>>)>>, clusters |-> <<>>]
Complete == [version |-> "v1", listeners |-> <<MCListener(<<MCHost>>)>>, clusters |-> <<MCCluster>>]
Incomplete == [Complete EXCEPT !.clusters = <<>>]

MCConfigs == {ListenerOnly, Complete, Incomplete}

==============================================================================
