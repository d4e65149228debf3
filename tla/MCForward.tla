------------------------------ MODULE MCForward ------------------------------
(***************************************************************************)
(* Instance of Forward.  Weights are three bits wide and the counter four, *)
(* so that sums of weights and the counter wrap; the configurations differ *)
(* in the clusters of the one route that matches.                          *)
(***************************************************************************)
EXTENDS Forward, TLC

MCTls(sni, cert, root, alpn) ==
  [sni |-> sni, certificate_provider |-> cert, validation_provider |-> root,
   alpn_protocols |-> <<alpn>>]

MCEndpoint(address, healthy) == [address |-> address, port |-> 8080, healthy |-> healthy]

MCCluster(name, endpoints, tls) == [name |-> name, endpoints |-> endpoints, tls |-> tls]

MCConfig(version, ws, clusterlist) ==
  [version |-> version,
   listeners |-> <<[name |-> "http", bind |-> [ip |-> "any", port |-> 80], protocol |-> "http",
                    tls_secret |-> None,
                    virtual_hosts |-> <<[domains |-> <<<<"a">>>>,
                                         routes |-> <<[matches |-> <<>>,
                                                       weighted_clusters |-> ws]>>]>>]>>,
   clusters |-> clusterlist]

Weighted(name, weight) == [name |-> name, weight |-> weight]

\* Two clusters and a drained one; the weights wrap past 8.
MCPlain == MCConfig("plain",
  <<Weighted("z", 0), Weighted("x", 5), Weighted("y", 6)>>,
  <<MCCluster("x", <<MCEndpoint("x1", FALSE), MCEndpoint("x2", TRUE)>>, None),
    MCCluster("y", <<MCEndpoint("y1", FALSE)>>, None),
    MCCluster("z", <<MCEndpoint("z1", TRUE)>>, None)>>)

\* Two clusters with settings that differ in the server name only.
MCSecure == MCConfig("secure",
  <<Weighted("v", 1), Weighted("w", 2)>>,
  <<MCCluster("v", <<MCEndpoint("v1", TRUE)>>,
              Some(MCTls(Some(<<"v">>), None, None, <<"p", "bar", "h">>))),
    MCCluster("w", <<MCEndpoint("w1", TRUE), MCEndpoint("w2", TRUE)>>,
              Some(MCTls(None, None, None, <<"p", "bar", "h">>)))>>)

\* Weights that add up to zero, and a server name with a bar in it: the key of v is
\* the one that v has in the configuration before.
MCZero == MCConfig("zero",
  <<Weighted("v", 4), Weighted("u", 4)>>,
  <<MCCluster("u", <<>>, None),
    MCCluster("v", <<MCEndpoint("v1", TRUE)>>,
              Some(MCTls(Some(<<"v", "bar", "d">>), Some(<<"d">>), Some(<<"p">>), <<"h">>)))>>)

MCConfigs == {MCPlain, MCSecure, MCZero}

MCInputs == {[host |-> <<"A">>, path |-> <<"/">>, headers |-> {}],
             [host |-> <<"b">>, path |-> <<"/">>, headers |-> {}]}

MCProviders == {<<"d">>, <<"p">>}

MCSymmetry == Permutations(Requests)

==============================================================================
