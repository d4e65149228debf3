------------------------------- MODULE MCShares ------------------------------
(***************************************************************************)
(* Forward with one request at a time and a route that splits its requests *)
(* evenly between two clusters; picks records the clusters picked.         *)
(***************************************************************************)
EXTENDS Forward

VARIABLE picks

MCSplit ==
  [version |-> "split",
   listeners |-> <<[name |-> "http", bind |-> [ip |-> "any", port |-> 80], protocol |-> "http",
                    tls_secret |-> None,
                    virtual_hosts |-> <<[domains |-> <<<<"*">>>>,
                       routes |-> <<[matches |-> <<>>,
                                     weighted_clusters |-> <<[name |-> "a", weight |-> 1],
                                                             [name |-> "b", weight |-> 1]>>]>>]>>]>>,
   clusters |-> <<[name |-> "a", endpoints |-> <<[address |-> "a1", port |-> 8080, healthy |-> TRUE]>>,
                   tls |-> None],
                  [name |-> "b", endpoints |-> <<[address |-> "b1", port |-> 8080, healthy |-> TRUE]>>,
                   tls |-> None]>>]

MCConfigs == {MCSplit}
MCInputs == {[host |-> <<"a">>, path |-> <<"/">>, headers |-> {}]}

MaxPicks == 6

SharesInit == Init /\ picks = <<>>

Picking(q) == req[q].pc = "cluster" /\ req'[q].pc = "endpoint"

SharesNext ==
  /\ Len(picks) < MaxPicks
  /\ Next
  /\ picks' = IF \E q \in Requests : Picking(q)
              THEN Append(picks, req'[CHOOSE q \in Requests : Picking(q)].cluster[1].name)
              ELSE picks

SharesSpec == SharesInit /\ [][SharesNext]_<<vars, picks>>

\* Over as many consecutive requests as the weights of the route add up to, each
\* cluster is picked as often as its weight says, the rotation that the unit
\* test of pick_cluster asserts.
SharesMatchWeights ==
  LET ws == MCSplit.listeners[1].virtual_hosts[1].routes[1].weighted_clusters
      total == TotalWeight(ws)
  IN  Len(picks) >= total =>
        \A i \in DOMAIN ws :
          Cardinality({k \in (Len(picks) - total + 1)..Len(picks) : picks[k] = ws[i].name})
            = ws[i].weight

==============================================================================
