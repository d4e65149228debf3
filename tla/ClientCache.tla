----------------------------- MODULE ClientCache -----------------------------
(***************************************************************************)
(* What MtlsClientPool promises to the requests that ask it for a client:  *)
(* an answer is given at one instant, from the cache if there is a client  *)
(* for the key, and otherwise with a new client that is the one for this   *)
(* key from then on, or with an error that is not remembered.  Module      *)
(* Forward takes client_for to be such a single step.                      *)
(***************************************************************************)
CONSTANTS Callers, Keys,
          Built     \* the clients that can come of building one

VARIABLES cache,    \* the clients by key, for the keys that have one
          asked     \* what each caller asks for and has been told

vars == <<cache, asked>>

Asking(pc, key, answer) == [pc |-> pc, key |-> key, answer |-> answer]

Init ==
  /\ cache = [k \in {} |-> <<>>]
  /\ asked = [c \in Callers |-> Asking("idle", "none", <<>>)]

Ask(c, k) ==
  /\ asked[c].pc = "idle"
  /\ asked' = [asked EXCEPT ![c] = Asking("asked", k, <<>>)]
  /\ UNCHANGED cache

Answer(c, answer) ==
  asked' = [asked EXCEPT ![c] = Asking("done", asked[c].key, answer)]

Hit(c) ==
  /\ asked[c].pc = "asked"
  /\ asked[c].key \in DOMAIN cache
  /\ Answer(c, <<cache[asked[c].key]>>)
  /\ UNCHANGED cache

\* Some client that can be built is answered, and kept.
Miss(c) ==
  /\ asked[c].pc = "asked"
  /\ asked[c].key \notin DOMAIN cache
  /\ DOMAIN cache' = DOMAIN cache \cup {asked[c].key}
  /\ \A k \in DOMAIN cache : cache'[k] = cache[k]
  /\ cache'[asked[c].key] \in Built
  /\ Answer(c, <<cache'[asked[c].key]>>)

Fail(c) ==
  /\ asked[c].pc = "asked"
  /\ asked[c].key \notin DOMAIN cache
  /\ Answer(c, <<>>)
  /\ UNCHANGED cache

Next ==
  \E c \in Callers :
    \/ \E k \in Keys : Ask(c, k)
    \/ Hit(c) \/ Miss(c) \/ Fail(c)

Spec == Init /\ [][Next]_vars

==============================================================================
