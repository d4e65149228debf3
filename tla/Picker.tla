------------------------------- MODULE Picker --------------------------------
(***************************************************************************)
(* Choice of a cluster by weight and of an endpoint by rotation            *)
(* (ProxyState::pick_cluster and pick_endpoint, crates/proxy/src/state.rs) *)
(* as functions of the value that picker_counter.fetch_add returns.        *)
(*                                                                         *)
(* Arithmetic on weights is u32 and wraps in a release build; the counter  *)
(* is u64.  The two moduli are parameters, 2^32 and 2^64 in the code.      *)
(***************************************************************************)
EXTENDS RuntimeConfig

CONSTANTS WeightModulus, CounterModulus

ASSUME ModuliAssumption ==
  /\ WeightModulus \in Nat \ {0}
  /\ CounterModulus \in Nat \ {0}
  /\ CounterModulus % WeightModulus = 0

\* The running sums of the weights: the one after the first i clusters is that
\* after the first i - 1 and the weight of the i-th.
RunningWeights(ws) ==
  LET sum[i \in 0..Len(ws)] ==
        IF i = 0 THEN 0 ELSE (sum[i - 1] + ws[i].weight) % WeightModulus
  IN  sum

Cursor(ws, i) == RunningWeights(ws)[i]

TotalWeight(ws) == Cursor(ws, Len(ws))

\* Mutant: the comparison admits the upper bound.
PickedInclusive(ws, next) ==
  LET reached == {i \in DOMAIN ws : next <= Cursor(ws, i)}
  IN  IF reached = {} THEN 0 ELSE Min(reached)

\* The first cluster whose running sum exceeds next (0: none).
Picked(ws, next) ==
  LET reached == {i \in DOMAIN ws : next < Cursor(ws, i)}
  IN  IF reached = {} THEN 0 ELSE Min(reached)

\* pick_cluster: the position picked (0: none); a total of zero picks the first
\* cluster and leaves the counter alone.
pick_cluster(ws, count) ==
  IF TotalWeight(ws) = 0 THEN (IF ws = <<>> THEN 0 ELSE 1)
  ELSE Picked(ws, (count % WeightModulus) % TotalWeight(ws))

AfterPickCluster(ws, count) ==
  IF TotalWeight(ws) = 0 THEN count ELSE (count + 1) % CounterModulus

\* Mutant: the rotation forgets to skip unhealthy endpoints.
pick_any_endpoint(eps, count) ==
  IF ~ \E i \in DOMAIN eps : eps[i].healthy THEN <<>>
  ELSE <<eps[(count % Len(eps)) + 1]>>

\* The healthy ones among the first i endpoints, in their order.
HealthyAmong(eps) ==
  LET kept[i \in 0..Len(eps)] ==
        IF i = 0 THEN <<>>
        ELSE IF eps[i].healthy THEN Append(kept[i - 1], eps[i]) ELSE kept[i - 1]
  IN  kept

\* pick_endpoint: the endpoint picked (<<>>: none is healthy).
pick_endpoint(eps, count) ==
  LET healthy == HealthyAmong(eps)[Len(eps)]
  IN  IF healthy = <<>> THEN <<>> ELSE <<healthy[(count % Len(healthy)) + 1]>>

AfterPickEndpoint(eps, count) ==
  IF \E i \in DOMAIN eps : eps[i].healthy THEN (count + 1) % CounterModulus ELSE count

==============================================================================
