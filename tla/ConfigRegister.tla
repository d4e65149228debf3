--------------------------- MODULE ConfigRegister ----------------------------
(***************************************************************************)
(* What the configuration path of dxgate promises to the request path: the *)
(* configuration in force is always one that was offered and is valid,     *)
(* offers come into force in the order they were made (some may be         *)
(* skipped, none is taken back), and the gateway reports itself ready only *)
(* after a first offer has come into force, and for good.                  *)
(***************************************************************************)
EXTENDS Naturals, Sequences

CONSTANTS Configs,  \* the valid configurations
          Initial   \* the configuration the gateway starts with

VARIABLES log,    \* every configuration offered so far
          at,     \* which of them is in force
          value,  \* the configuration in force
          up      \* the gateway reports itself ready

vars == <<log, at, value, up>>

Init ==
  /\ log = <<Initial>>
  /\ at = 1
  /\ value = Initial
  /\ up = FALSE

Offer(cfg) ==
  /\ log' = Append(log, cfg)
  /\ UNCHANGED <<at, value, up>>

Serve(i) ==
  /\ at <= i
  /\ at' = i
  /\ value' = log[i]
  /\ UNCHANGED <<log, up>>

Announce ==
  /\ at > 1
  /\ up' = TRUE
  /\ UNCHANGED <<log, at, value>>

Next ==
  \/ \E cfg \in Configs : Offer(cfg)
  \/ \E i \in 1..Len(log) : Serve(i)
  \/ Announce

Spec == Init /\ [][Next]_vars

==============================================================================
