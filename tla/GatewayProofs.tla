---------------------------- MODULE GatewayProofs ----------------------------
(***************************************************************************)
(* Proofs about Gateway, for every set of configurations, any number of    *)
(* readers and any bound on what is published, and about Process: what is  *)
(* proved of the configuration path holds of the process around it, and    *)
(* the static file is in force before the proxy listens.  validate stays   *)
(* opaque: no step below expands Valid.                                    *)
(***************************************************************************)
EXTENDS Process, TLAPS

\* main before it hands over to the xDS task and the servers
Startup == {"load", "apply", "clear", "ready", "unready", "send"}

\* The channel holds the bootstrap value and then valid configurations.
ChannelInv ==
  /\ Len(published) >= 1
  /\ published[1] = Bootstrap
  /\ \A i \in 2..Len(published) : Valid(published[i])
  /\ seen \in 1..Len(published)
  /\ sender <=> xds # "exited"

\* While main is starting up nobody else does anything.
MainInv ==
  /\ pc["main"] # "serve" => xds = "absent"
  /\ pc["main"] \in Startup => Len(published) = 1 /\ pc["task"] = "changed"
  /\ pc["main"] \in {"load", "apply", "unready"} => served = 1 /\ ~ ready
  /\ pc["main"] \in {"apply", "clear", "ready", "send"} => job["main"].number = 2
  /\ pc["main"] \in {"clear", "ready", "send"} => Valid(job["main"].cfg) /\ served = 2
  /\ pc["main"] = "ready" => conflicts = {}

\* What the apply task knows of the channel and of ProxyState.
TaskInv ==
  /\ pc["task"] # "unready"
  /\ pc["task"] = "changed" => served >= seen
  /\ pc["task"] = "borrow" => seen >= 2
  /\ pc["task"] \in {"apply", "clear", "ready"} =>
       /\ job["task"].number \in seen..Len(published)
       /\ job["task"].number >= 2
       /\ job["task"].cfg = published[job["task"].number]
  /\ pc["task"] = "apply" => served <= job["task"].number
  /\ pc["task"] \in {"clear", "ready"} => served = job["task"].number
  /\ pc["task"] = "ready" => conflicts = {}
  /\ pc["task"] = "done" => ~ sender /\ served >= Len(published)

\* What is served is an offer.
ServedInv ==
  /\ served \in 1..Len(Offers)
  /\ config = Offers[served]
  /\ ready => conflicts = {} /\ served > 1

ProbeInv ==
  \A r \in Readers : probe[r].ready =>
    /\ ready
    /\ probe[r].pc \in {"conflicts", "replied"} => probe[r].version > 1
    /\ probe[r].pc = "replied" => probe[r].conflicts = {}

IndInv == TypeOK /\ ChannelInv /\ MainInv /\ TaskInv /\ ServedInv /\ ProbeInv

-----------------------------------------------------------------------------

\* The last value of the channel is the one with the highest number.
LEMMA CurrentIsLast == ASSUME TypeOK, ChannelInv
                       PROVE  current = published[Len(published)]
  BY DEF TypeOK, ChannelInv, current

\* What Append does to the channel.
LEMMA AppendFacts ==
  ASSUME NEW S, NEW s \in Seq(S), NEW x \in S
  PROVE  /\ Append(s, x) \in Seq(S)
         /\ Len(Append(s, x)) = Len(s) + 1
         /\ \A i \in 1..Len(s) : Append(s, x)[i] = s[i]
         /\ Append(s, x)[Len(s) + 1] = x
  OBVIOUS

\* Sending a valid configuration keeps the channel as it should be.
LEMMA SendKeepsChannel ==
  ASSUME TypeOK, ChannelInv,
         NEW cfg \in Configs \cup {Bootstrap}, Valid(cfg),
         published' = Append(published, cfg), seen' = seen,
         sender' = sender, xds # "exited", xds' # "exited"
  PROVE  ChannelInv'
<1>1. published \in Seq(Configs \cup {Bootstrap}) /\ Len(published) \in Nat
  BY DEF TypeOK
<1>2. /\ Len(published') = Len(published) + 1
      /\ \A i \in 1..Len(published) : published'[i] = published[i]
      /\ published'[Len(published) + 1] = cfg
  BY <1>1, AppendFacts
<1>3. \A i \in 2..Len(published') : Valid(published'[i])
  BY <1>1, <1>2 DEF ChannelInv
<1>4. Len(published') >= 1 /\ published'[1] = Bootstrap /\ seen' \in 1..Len(published')
  BY <1>1, <1>2 DEF ChannelInv
<1>5. sender' <=> xds' # "exited"
  BY DEF ChannelInv
<1> QED  BY <1>3, <1>4, <1>5 DEF ChannelInv

\* The invariant holds when the process starts.
LEMMA InitInv == Init => IndInv
<1> SUFFICES ASSUME Init PROVE IndInv
  OBVIOUS
<1> USE DEF Init, Appliers
<1>1. TypeOK
  <2>1. probe \in [Readers -> ProbeState]
    BY DEF ProbeState, Rejections
  <2>2. job \in [Appliers -> [cfg : Configs \cup {Bootstrap}, number : Nat]]
    OBVIOUS
  <2>3. published \in Seq(Configs \cup {Bootstrap})
    OBVIOUS
  <2>4. pc \in [Appliers -> MainPC \cup TaskPC] /\ pc["main"] \in MainPC /\ pc["task"] \in TaskPC
    BY DEF MainPC, TaskPC
  <2>5. /\ config \in Configs \cup {Bootstrap} /\ conflicts \in Rejections
        /\ ready \in BOOLEAN /\ sender \in BOOLEAN
        /\ seen \in Nat /\ served \in Nat
        /\ xds \in {"absent", "started", "streaming", "exited"}
    BY ZenonT(30) DEF Rejections
  <2> QED  BY ONLY ZenonT(30), <2>1, <2>2, <2>3, <2>4, <2>5 DEF TypeOK
<1>2. ChannelInv
  <2>1. Len(published) = 1 /\ published[1] = Bootstrap
    OBVIOUS
  <2>2. \A i \in 2..Len(published) : Valid(published[i])
    BY <2>1
  <2> QED  BY <2>1, <2>2 DEF ChannelInv
<1>3. MainInv /\ TaskInv
  BY DEF MainInv, TaskInv, Startup
<1>4. ServedInv
  <2>1. Offers = published /\ Len(published) = 1 /\ published[1] = Bootstrap
    BY DEF Offers
  <2> QED  BY <2>1 DEF ServedInv
<1>5. ProbeInv
  BY ZenonT(30) DEF ProbeInv
<1> QED  BY Zenon, <1>1, <1>2, <1>3, <1>4, <1>5 DEF IndInv

\* Every step of the configuration path keeps the invariant.
LEMMA NextInv == IndInv /\ [Next]_vars => IndInv'
<1> SUFFICES ASSUME IndInv, [Next]_vars PROVE IndInv'
  OBVIOUS
<1> USE DEF IndInv, Appliers
<1>1. CASE UNCHANGED vars
  BY <1>1 DEF vars, proxyState, channel, TypeOK, ChannelInv, MainInv, TaskInv,
              ServedInv, ProbeInv, Offers
<1>2. ASSUME NEW p \in Appliers, WriteConfig(p) PROVE IndInv'
  <2> USE <1>2 DEF WriteConfig, Goto, channel
  <2>1. TypeOK'
    BY DEF TypeOK, MainPC, TaskPC
  <2>2. ChannelInv' /\ ProbeInv'
    BY DEF ChannelInv, ProbeInv
  <2>3. MainInv' /\ TaskInv'
    BY DEF MainInv, TaskInv, TypeOK, ServedInv, ChannelInv, Startup
  <2>4. ServedInv'
    BY DEF ServedInv, Offers, MainInv, TaskInv, TypeOK, ChannelInv, Startup, MainPC
  <2> QED  BY <2>1, <2>2, <2>3, <2>4
<1>3. ASSUME NEW p \in Appliers, ClearConflicts(p) PROVE IndInv'
  <2> USE <1>3 DEF ClearConflicts, Goto, channel
  <2>1. TypeOK'
    BY DEF TypeOK, MainPC, TaskPC, Rejections
  <2>2. ChannelInv'
    BY DEF ChannelInv, TypeOK
  <2>3. MainInv'
    BY DEF MainInv, TypeOK, ServedInv, ChannelInv, Startup
  <2>4. TaskInv'
    BY DEF TaskInv, MainInv, TypeOK, ServedInv, ChannelInv, Startup
  <2>5. ServedInv'
    BY DEF ServedInv, Offers, MainInv, TaskInv, TypeOK, ChannelInv, Startup, MainPC
  <2>6. ProbeInv'
    BY DEF ProbeInv, ServedInv, TypeOK
  <2> QED  BY ONLY ZenonT(30), <2>1, <2>2, <2>3, <2>4, <2>5, <2>6 DEF IndInv
<1>4. ASSUME NEW p \in Appliers, StoreReady(p) PROVE IndInv'
  <2> USE <1>4 DEF StoreReady, AfterOk, Goto, channel
  <2>1. TypeOK'
    BY DEF TypeOK, MainPC, TaskPC
  <2>2. ChannelInv'
    BY DEF ChannelInv, TypeOK
  <2>3. MainInv'
    BY DEF MainInv, TypeOK, ServedInv, ChannelInv, Startup
  <2>4. TaskInv'
    BY DEF TaskInv, MainInv, TypeOK, ServedInv, ChannelInv, Startup
  <2>5. ServedInv'
    BY DEF ServedInv, Offers, MainInv, TaskInv, TypeOK, ChannelInv, Startup, MainPC
  <2>6. ProbeInv'
    BY DEF ProbeInv, ServedInv, TypeOK
  <2> QED  BY ONLY ZenonT(30), <2>1, <2>2, <2>3, <2>4, <2>5, <2>6 DEF IndInv
<1>5. ASSUME NEW p \in Appliers, WriteConflicts(p) PROVE IndInv'
  <2> USE <1>5 DEF WriteConflicts, Goto, channel
  <2>1. TypeOK'
    BY DEF TypeOK, MainPC, TaskPC, Rejections
  <2>2. ChannelInv'
    BY DEF ChannelInv, TypeOK
  <2>3. MainInv'
    BY DEF MainInv, TypeOK, ServedInv, ChannelInv, Startup
  <2>4. TaskInv'
    BY DEF TaskInv, MainInv, TypeOK, ServedInv, ChannelInv, Startup
  <2>5. ServedInv'
    BY DEF ServedInv, Offers, MainInv, TaskInv, TypeOK, ChannelInv, Startup, MainPC
  <2>6. ProbeInv'
    BY DEF ProbeInv, ServedInv, TypeOK
  <2> QED  BY ONLY ZenonT(30), <2>1, <2>2, <2>3, <2>4, <2>5, <2>6 DEF IndInv
<1>6. ASSUME NEW p \in Appliers, StoreNotReady(p) PROVE IndInv'
  <2> USE <1>6 DEF StoreNotReady, AfterErr, Goto, channel
  <2>1. TypeOK'
    <3>1. ready' \in BOOLEAN
      BY Zenon
    <3>2. pc' \in [Appliers -> MainPC \cup TaskPC] /\ pc'["main"] \in MainPC /\ pc'["task"] \in TaskPC
      BY DEF TypeOK, MainPC, TaskPC
    <3> QED  BY ZenonT(30), <3>1, <3>2 DEF TypeOK
  <2>2. ChannelInv'
    BY DEF ChannelInv, TypeOK
  <2>3. MainInv'
    BY DEF MainInv, TypeOK, ServedInv, ChannelInv, Startup
  <2>4. TaskInv'
    BY DEF TaskInv, MainInv, TypeOK, ServedInv, ChannelInv, Startup
  <2>5. ServedInv'
    BY DEF ServedInv, Offers, MainInv, TaskInv, TypeOK, ChannelInv, Startup, MainPC
  <2>6. ProbeInv'
    BY DEF ProbeInv, MainInv, TaskInv
  <2> QED  BY ONLY ZenonT(30), <2>1, <2>2, <2>3, <2>4, <2>5, <2>6 DEF IndInv
<1>7. CASE TaskChanged
  <2> USE <1>7 DEF TaskChanged, proxyState, Goto, channel
  <2>1. TypeOK'
    BY DEF TypeOK, MainPC, TaskPC
  <2>2. ChannelInv'
    BY DEF ChannelInv, TypeOK
  <2>3. MainInv'
    BY DEF MainInv, TypeOK, ServedInv, ChannelInv, Startup
  <2>4. TaskInv'
    BY DEF TaskInv, MainInv, TypeOK, ServedInv, ChannelInv, Startup
  <2>5. ServedInv'
    BY DEF ServedInv, Offers, MainInv, TaskInv, TypeOK, ChannelInv, Startup, MainPC
  <2>6. ProbeInv'
    BY DEF ProbeInv, ServedInv, TypeOK
  <2> QED  BY ONLY ZenonT(30), <2>1, <2>2, <2>3, <2>4, <2>5, <2>6 DEF IndInv
<1>8. CASE TaskClosed
  <2> USE <1>8 DEF TaskClosed, proxyState, Goto, channel
  <2>1. TypeOK'
    BY DEF TypeOK, MainPC, TaskPC
  <2>2. ChannelInv'
    BY DEF ChannelInv, TypeOK
  <2>3. MainInv'
    BY DEF MainInv, TypeOK, ServedInv, ChannelInv, Startup
  <2>4. TaskInv'
    BY DEF TaskInv, MainInv, TypeOK, ServedInv, ChannelInv, Startup
  <2>5. ServedInv'
    BY DEF ServedInv, Offers, MainInv, TaskInv, TypeOK, ChannelInv, Startup, MainPC
  <2>6. ProbeInv'
    BY DEF ProbeInv, ServedInv, TypeOK
  <2> QED  BY ONLY ZenonT(30), <2>1, <2>2, <2>3, <2>4, <2>5, <2>6 DEF IndInv
<1>9. CASE TaskBorrow
  <2> USE <1>9 DEF TaskBorrow, proxyState, Goto, channel
  <2>1. TypeOK'
    BY CurrentIsLast DEF ChannelInv, TypeOK, MainPC, TaskPC
  <2>2. ChannelInv'
    BY DEF ChannelInv, TypeOK
  <2>3. MainInv'
    BY DEF MainInv, TypeOK, ServedInv, ChannelInv, Startup
  <2>4. TaskInv'
    <3>1. job'["task"] = [cfg |-> published[Len(published)], number |-> Len(published)]
      BY CurrentIsLast DEF TypeOK
    <3>2. served <= Len(published)
      BY DEF ServedInv, MainInv, Offers, Startup, ChannelInv
    <3> QED  BY <3>1, <3>2 DEF TaskInv, TypeOK, ChannelInv
  <2>5. ServedInv'
    BY DEF ServedInv, Offers, MainInv, TaskInv, TypeOK, ChannelInv, Startup, MainPC
  <2>6. ProbeInv'
    BY DEF ProbeInv, ServedInv, TypeOK
  <2> QED  BY ONLY ZenonT(30), <2>1, <2>2, <2>3, <2>4, <2>5, <2>6 DEF IndInv
<1>10. CASE MainNoStatic
  <2> USE <1>10 DEF MainNoStatic, proxyState, Goto, channel
  <2>1. TypeOK'
    BY DEF TypeOK, MainPC, TaskPC
  <2>2. ChannelInv'
    BY DEF ChannelInv, TypeOK
  <2>3. MainInv'
    BY DEF MainInv, TypeOK, ServedInv, ChannelInv, Startup
  <2>4. TaskInv'
    BY DEF TaskInv, MainInv, TypeOK, ServedInv, ChannelInv, Startup
  <2>5. ServedInv'
    BY DEF ServedInv, Offers, MainInv, TaskInv, TypeOK, ChannelInv, Startup, MainPC
  <2>6. ProbeInv'
    BY DEF ProbeInv, ServedInv, TypeOK
  <2> QED  BY ONLY ZenonT(30), <2>1, <2>2, <2>3, <2>4, <2>5, <2>6 DEF IndInv
<1>11. ASSUME NEW cfg \in Configs, MainLoad(cfg) PROVE IndInv'
  <2> USE <1>11 DEF MainLoad, proxyState, Goto, channel
  <2>1. TypeOK'
    BY DEF TypeOK, MainPC, TaskPC
  <2>2. ChannelInv'
    BY DEF ChannelInv, TypeOK
  <2>3. MainInv'
    <3>1. job'["main"].number = 2
      <4>1. Len(published) = 1
        BY DEF MainInv, Startup
      <4>2. job'["main"] = [cfg |-> cfg, number |-> 2]
        BY <4>1 DEF TypeOK
      <4> QED  BY <4>2
    <3> QED  BY <3>1 DEF MainInv, TypeOK, Startup
  <2>4. TaskInv'
    BY DEF TaskInv, MainInv, TypeOK, ServedInv, ChannelInv, Startup
  <2>5. ServedInv'
    BY DEF ServedInv, Offers, MainInv, TaskInv, TypeOK, ChannelInv, Startup, MainPC
  <2>6. ProbeInv'
    BY DEF ProbeInv, ServedInv, TypeOK
  <2> QED  BY ONLY ZenonT(30), <2>1, <2>2, <2>3, <2>4, <2>5, <2>6 DEF IndInv
<1>12. CASE MainSend
  <2> USE <1>12 DEF MainSend, send, proxyState, Goto, channel
  <2>1. TypeOK'
    BY DEF TypeOK, MainPC, TaskPC
  <2>2. ChannelInv'
    <3>1. published' = Append(published, job["main"].cfg) /\ Valid(job["main"].cfg)
      BY DEF MainInv, Startup
    <3>2. job["main"].cfg \in Configs \cup {Bootstrap}
      BY DEF TypeOK
    <3>3. xds # "exited" /\ xds' # "exited"
      BY DEF MainInv
    <3> QED  BY <3>1, <3>2, <3>3, SendKeepsChannel
  <2>3. MainInv'
    BY DEF MainInv, TypeOK, ServedInv, ChannelInv, Startup
  <2>4. TaskInv'
    BY DEF TaskInv, MainInv, TypeOK, ServedInv, ChannelInv, Startup
  <2>5. ServedInv'
    BY DEF ServedInv, Offers, MainInv, TaskInv, TypeOK, ChannelInv, Startup, MainPC
  <2>6. ProbeInv'
    BY DEF ProbeInv, ServedInv, TypeOK
  <2> QED  BY ONLY ZenonT(30), <2>1, <2>2, <2>3, <2>4, <2>5, <2>6 DEF IndInv
<1>13. CASE MainSpawn
  <2> USE <1>13 DEF MainSpawn, proxyState, Goto, channel
  <2>1. TypeOK'
    BY DEF TypeOK, MainPC, TaskPC
  <2>2. ChannelInv'
    BY DEF ChannelInv, MainInv, TypeOK
  <2>3. MainInv'
    BY DEF MainInv, TypeOK, ServedInv, ChannelInv, Startup
  <2>4. TaskInv'
    BY DEF TaskInv, MainInv, TypeOK, ServedInv, ChannelInv, Startup
  <2>5. ServedInv'
    BY DEF ServedInv, Offers, MainInv, TaskInv, TypeOK, ChannelInv, Startup, MainPC
  <2>6. ProbeInv'
    BY DEF ProbeInv, ServedInv, TypeOK
  <2> QED  BY ONLY ZenonT(30), <2>1, <2>2, <2>3, <2>4, <2>5, <2>6 DEF IndInv
<1>14. ASSUME NEW cfg \in Configs, XdsPublish(cfg) PROVE IndInv'
  <2> USE <1>14 DEF XdsPublish, send, proxyState, Goto, channel
  <2>1. TypeOK'
    BY DEF TypeOK, MainPC, TaskPC
  <2>2. ChannelInv'
    <3>1. pc["task"] # "done" /\ xds # "exited" /\ xds' # "exited"
      BY DEF TaskInv, ChannelInv
    <3> QED  BY <3>1, SendKeepsChannel
  <2>3. MainInv'
    BY DEF MainInv, TypeOK, ServedInv, ChannelInv, Startup
  <2>4. TaskInv'
    BY DEF TaskInv, MainInv, TypeOK, ServedInv, ChannelInv, Startup
  <2>5. ServedInv'
    BY DEF ServedInv, Offers, MainInv, TaskInv, TypeOK, ChannelInv, Startup, MainPC
  <2>6. ProbeInv'
    BY DEF ProbeInv, ServedInv, TypeOK
  <2> QED  BY ONLY ZenonT(30), <2>1, <2>2, <2>3, <2>4, <2>5, <2>6 DEF IndInv
<1>15. CASE XdsInvalidEndpoint
  <2> USE <1>15 DEF XdsInvalidEndpoint, proxyState, Goto, channel
  <2>1. TypeOK'
    <3>1. sender' \in BOOLEAN
      BY Zenon
    <3> QED  BY ZenonT(30), <3>1 DEF TypeOK
  <2>2. ChannelInv'
    BY DEF ChannelInv, TypeOK
  <2>3. MainInv'
    BY DEF MainInv, TypeOK, ServedInv, ChannelInv, Startup
  <2>4. TaskInv'
    BY DEF TaskInv, MainInv, TypeOK, ServedInv, ChannelInv, Startup
  <2>5. ServedInv'
    BY DEF ServedInv, Offers, MainInv, TaskInv, TypeOK, ChannelInv, Startup, MainPC
  <2>6. ProbeInv'
    BY DEF ProbeInv, ServedInv, TypeOK
  <2> QED  BY ONLY ZenonT(30), <2>1, <2>2, <2>3, <2>4, <2>5, <2>6 DEF IndInv
<1>16. ASSUME NEW r \in Readers, LoadReady(r) PROVE IndInv'
  <2> USE <1>16 DEF LoadReady, proxyState, Goto, channel
  <2>1. TypeOK'
    <3>1. probe' \in [Readers -> ProbeState]
      BY ZenonT(60) DEF TypeOK, ProbeState
    <3> QED  BY <3>1 DEF TypeOK, ProbeState
  <2>2. ChannelInv'
    BY DEF ChannelInv, TypeOK
  <2>3. MainInv'
    BY DEF MainInv, TypeOK, ServedInv, ChannelInv, Startup
  <2>4. TaskInv'
    BY DEF TaskInv, MainInv, TypeOK, ServedInv, ChannelInv, Startup
  <2>5. ServedInv'
    BY DEF ServedInv, Offers, MainInv, TaskInv, TypeOK, ChannelInv, Startup, MainPC
  <2>6. ProbeInv'
    BY DEF ProbeInv, ServedInv, TypeOK
  <2> QED  BY ONLY ZenonT(30), <2>1, <2>2, <2>3, <2>4, <2>5, <2>6 DEF IndInv
<1>17. ASSUME NEW r \in Readers, ReadVersion(r) PROVE IndInv'
  <2> USE <1>17 DEF ReadVersion, proxyState, Goto, channel
  <2>1. TypeOK'
    <3>1. probe' \in [Readers -> ProbeState]
      BY ZenonT(60) DEF TypeOK, ProbeState
    <3> QED  BY <3>1 DEF TypeOK, ProbeState
  <2>2. ChannelInv'
    BY DEF ChannelInv, TypeOK
  <2>3. MainInv'
    BY DEF MainInv, TypeOK, ServedInv, ChannelInv, Startup
  <2>4. TaskInv'
    BY DEF TaskInv, MainInv, TypeOK, ServedInv, ChannelInv, Startup
  <2>5. ServedInv'
    BY DEF ServedInv, Offers, MainInv, TaskInv, TypeOK, ChannelInv, Startup, MainPC
  <2>6. ProbeInv'
    BY DEF ProbeInv, ServedInv, TypeOK
  <2> QED  BY ONLY ZenonT(30), <2>1, <2>2, <2>3, <2>4, <2>5, <2>6 DEF IndInv
<1>18. ASSUME NEW r \in Readers, ReadConflicts(r) PROVE IndInv'
  <2> USE <1>18 DEF ReadConflicts, proxyState, Goto, channel
  <2>1. TypeOK'
    <3>1. probe' \in [Readers -> ProbeState]
      BY ZenonT(60) DEF TypeOK, ProbeState
    <3> QED  BY <3>1 DEF TypeOK, ProbeState
  <2>2. ChannelInv'
    BY DEF ChannelInv, TypeOK
  <2>3. MainInv'
    BY DEF MainInv, TypeOK, ServedInv, ChannelInv, Startup
  <2>4. TaskInv'
    BY DEF TaskInv, MainInv, TypeOK, ServedInv, ChannelInv, Startup
  <2>5. ServedInv'
    BY DEF ServedInv, Offers, MainInv, TaskInv, TypeOK, ChannelInv, Startup, MainPC
  <2>6. ProbeInv'
    BY DEF ProbeInv, ServedInv, TypeOK
  <2> QED  BY ONLY ZenonT(30), <2>1, <2>2, <2>3, <2>4, <2>5, <2>6 DEF IndInv
<1> QED
  BY ZenonT(30), <1>1, <1>2, <1>3, <1>4, <1>5, <1>6, <1>7, <1>8, <1>9, <1>10, <1>11, <1>12,
     <1>13, <1>14, <1>15, <1>16, <1>17, <1>18
     DEF Next, Task, MainStep, Xds, readiness, apply_config, Configs

\* The inductive invariant holds in every reachable state.
THEOREM Invariance == SafetySpec => []IndInv
  BY InitInv, NextInv, PTL DEF SafetySpec

\* Every variable of the configuration path keeps its type.
THEOREM TypeCorrectness == SafetySpec => []TypeOK
  BY Invariance, PTL DEF IndInv

\* main and the apply task never run apply_config at the same time.
THEOREM OneApplier == SafetySpec => []SingleApplier
<1>1. IndInv => SingleApplier
  BY DEF IndInv, MainInv, SingleApplier, Startup
<1> QED  BY <1>1, Invariance, PTL

\* A readiness reply that says ready reports an accepted configuration and no
\* conflicts, however its three reads interleave with apply_config.
THEOREM CoherentReadiness == SafetySpec => []ReadyReplyCoherent
<1>1. IndInv => ReadyReplyCoherent
  BY DEF IndInv, ProbeInv, ReadyReplyCoherent
<1> QED  BY <1>1, Invariance, PTL

\* The apply task never sleeps, or ends, on an update it has not applied.
THEOREM UpdatesNotLost == SafetySpec => []NoLostUpdate
<1>1. IndInv => NoLostUpdate
  BY DEF IndInv, TaskInv, ChannelInv, NoLostUpdate, TypeOK
<1> QED  BY <1>1, Invariance, PTL

\* No step takes readiness back.
LEMMA ReadyStep == IndInv /\ [Next]_vars => (ready => ready')
<1> SUFFICES ASSUME IndInv, [Next]_vars, ready, ready' # ready PROVE FALSE
  BY DEF IndInv, TypeOK
<1>1. PICK p \in Appliers : StoreReady(p) \/ StoreNotReady(p)
  BY ZenonT(30) DEF vars, proxyState, channel, Next, Task, MainStep, Xds, readiness, apply_config,
         Appliers, WriteConfig, ClearConflicts, WriteConflicts, TaskChanged, TaskClosed,
         TaskBorrow, MainNoStatic, MainLoad, MainSend, MainSpawn, XdsPublish,
         XdsInvalidEndpoint, LoadReady, ReadVersion, ReadConflicts
<1>2. ~ StoreReady(p)
  BY ZenonT(30) DEF StoreReady, IndInv, TypeOK
<1>3. ~ StoreNotReady(p)
  BY DEF StoreNotReady, IndInv, MainInv, TaskInv, Appliers
<1> QED  BY <1>1, <1>2, <1>3

\* Once the gateway is ready it stays ready.
THEOREM ReadyForGood == SafetySpec => ReadyStable
  BY ReadyStep, Invariance, PTL DEF ReadyStable, SafetySpec

-----------------------------------------------------------------------------
(* Refinement: WriteConfig is the register's Serve, StoreReady its         *)
(* Announce, loading a valid static file and XdsPublish its Offer; every   *)
(* other step leaves the register alone.                                   *)

\* The initial states are those of the register.
LEMMA RegisterInit == Init => Register!Init
  BY DEF Init, Register!Init, Offers, Appliers

\* Every step is a step of the register or leaves it alone.
LEMMA RegisterStep == IndInv /\ [Next]_vars => [Register!Next]_(Register!vars)
<1> SUFFICES ASSUME IndInv, [Next]_vars PROVE [Register!Next]_(Register!vars)
  OBVIOUS
<1> USE DEF IndInv, Appliers
<1> DEFINE Quiet == UNCHANGED <<Offers, served, config, ready>>
<1>0. Quiet => UNCHANGED Register!vars
  BY DEF Register!vars
<1>1. CASE UNCHANGED vars
  <2>1. Quiet
    BY <1>1 DEF vars, proxyState, channel, Offers
  <2> QED  BY <1>0, <2>1
<1>2. ASSUME NEW p \in Appliers, WriteConfig(p) PROVE Register!Next
  <2> USE <1>2 DEF WriteConfig, Goto, channel
  <2>1. UNCHANGED <<Offers, ready>>
    BY DEF Offers, TypeOK, MainInv, TaskInv, Startup
  <2>2. job[p].number \in 1..Len(Offers) /\ served <= job[p].number
    BY DEF Offers, TypeOK, MainInv, TaskInv, ChannelInv, Startup, ServedInv
  <2>3. job[p].cfg = Offers[job[p].number]
    BY DEF Offers, TypeOK, MainInv, TaskInv, ChannelInv, Startup
  <2>4. Register!Serve(job[p].number)
    BY <2>1, <2>2, <2>3 DEF Register!Serve
  <2> QED  BY <2>2, <2>4 DEF Register!Next
<1>3. ASSUME NEW p \in Appliers, ClearConflicts(p) PROVE Quiet
  BY <1>3 DEF ClearConflicts, Goto, channel, Offers, TypeOK
<1>4. ASSUME NEW p \in Appliers, StoreReady(p) PROVE Register!Next
  <2> USE <1>4 DEF StoreReady, AfterOk, Goto, channel
  <2>1. UNCHANGED Offers
    BY DEF Offers, TypeOK
  <2>2. served > 1
    BY DEF MainInv, TaskInv, TypeOK
  <2>3. Register!Announce
    BY <2>1, <2>2 DEF Register!Announce
  <2> QED  BY <2>3 DEF Register!Next
<1>5. ASSUME NEW p \in Appliers, WriteConflicts(p) PROVE Quiet
  BY <1>5 DEF WriteConflicts, Goto, channel, Offers, TypeOK
<1>6. ASSUME NEW p \in Appliers, StoreNotReady(p) PROVE Quiet
  <2> USE <1>6 DEF StoreNotReady, AfterErr, Goto, channel
  <2>1. p = "main" /\ ready = FALSE
    BY ZenonT(30) DEF MainInv, TaskInv, TypeOK
  <2>2. UNCHANGED Offers
    BY <2>1 DEF Offers, TypeOK
  <2> QED  BY ZenonT(30), <2>1, <2>2
<1>7. CASE TaskChanged \/ TaskClosed \/ TaskBorrow
  <2>1. Quiet
    BY <1>7 DEF TaskChanged, TaskClosed, TaskBorrow, Goto, channel, proxyState, Offers, TypeOK
  <2> QED  BY <1>0, <2>1
<1>8. CASE MainNoStatic \/ MainSpawn
  <2>1. Quiet
    BY <1>8 DEF MainNoStatic, MainSpawn, Goto, channel, proxyState, Offers, TypeOK
  <2> QED  BY <1>0, <2>1
<1>9. ASSUME NEW cfg \in Configs, MainLoad(cfg) PROVE Register!Next \/ Quiet
  <2> USE <1>9 DEF MainLoad, Goto, channel, proxyState
  <2>1. Offers = published /\ UNCHANGED <<served, config, ready>>
    BY DEF Offers
  <2>2. pc'["main"] = "apply" /\ job'["main"].cfg = cfg
    BY DEF TypeOK
  <2>3. CASE Valid(cfg)
    <3>1. Offers' = Append(Offers, cfg)
      BY <2>1, <2>2, <2>3 DEF Offers
    <3>2. Register!Offer(cfg)
      BY <2>1, <3>1 DEF Register!Offer
    <3> QED  BY <2>3, <3>2 DEF Register!Next, ValidConfigs
  <2>4. CASE ~ Valid(cfg)
    <3>1. Offers' = Offers
      BY SMTT(30), <2>1, <2>2, <2>4 DEF Offers
    <3> QED  BY <2>1, <3>1
  <2> QED  BY <2>3, <2>4
<1>10. CASE MainSend
  <2>1. Quiet
    BY <1>10 DEF MainSend, send, Goto, proxyState, Offers, MainInv, Startup, TypeOK
  <2> QED  BY <1>0, <2>1
<1>11. ASSUME NEW cfg \in Configs, XdsPublish(cfg) PROVE Register!Next
  <2> USE <1>11 DEF XdsPublish, send, proxyState
  <2>1. pc["main"] = "serve" /\ pc["task"] # "done"
    BY DEF MainInv, TaskInv, ChannelInv
  <2>2. Offers' = Append(Offers, cfg) /\ UNCHANGED <<served, config, ready>>
    BY <2>1 DEF Offers
  <2>3. Register!Offer(cfg)
    BY <2>2 DEF Register!Offer
  <2> QED  BY <2>3 DEF Register!Next, ValidConfigs
<1>12. CASE XdsInvalidEndpoint
  <2>1. Quiet
    BY <1>12 DEF XdsInvalidEndpoint, proxyState, Offers
  <2> QED  BY <1>0, <2>1
<1>13. ASSUME NEW r \in Readers, readiness(r) PROVE Quiet
  BY <1>13 DEF readiness, LoadReady, ReadVersion, ReadConflicts, proxyState, channel, Offers
<1> QED
  BY <1>0, <1>1, <1>2, <1>3, <1>4, <1>5, <1>6, <1>7, <1>8, <1>9, <1>10, <1>11, <1>12, <1>13
     DEF Next, Task, MainStep, Xds, apply_config, Configs

\* The configuration path implements the configuration register: what the
\* request path reads is always a valid offer, never one older than the last it
\* could have read, and ready is announced after the first and never withdrawn.
THEOREM Refinement == SafetySpec => ImplementsRegister
  BY RegisterInit, RegisterStep, Invariance, PTL
     DEF ImplementsRegister, Register!Spec, SafetySpec

-----------------------------------------------------------------------------
(* The process around the configuration path                               *)

ServerStates == {"absent", "spawned", "listening", "ended"}

\* The servers exist once main has started them; the static file, if there was
\* a valid one, is in force by the time main has sent it.
StaticInv ==
  /\ server \in [Servers -> ServerStates]
  /\ \A s \in Servers : server[s] # "absent" => pc["main"] = "serve"
  /\ pc["main"] = "load" => job["main"].number = 1
  /\ pc["main"] = "unready" => ~ Valid(job["main"].cfg)
  /\ pc["main"] \in {"send", "spawn", "serve"} =>
       ready \/ ~ job["main"].number > 1 \/ ~ Valid(job["main"].cfg)

\* Whatever the process does, the configuration path takes one of its own steps
\* or none.
LEMMA GatewayStep == [ProcessNext]_allVars => [Next]_vars
<1> SUFFICES ASSUME ProcessNext PROVE Next \/ UNCHANGED vars
  BY DEF allVars
<1>1. CASE Start
  BY <1>1 DEF Start, NoBootstrap, BootstrapFails, Bootstrapped
<1>2. CASE Configure
  <2> USE <1>2 DEF Configure
  <2>1. Task \/ Xds \/ MainStep
    BY DEF MainStep
  <2> QED  BY <2>1 DEF Next
<1>3. CASE Spawn
  BY <1>3 DEF Spawn, Next, MainStep
<1>4. CASE CtrlC
  BY <1>4 DEF CtrlC
<1>5. ASSUME NEW s \in Servers, Bind(s) \/ ServeFails(s) \/ ServerEnded(s)
      PROVE  UNCHANGED vars
  BY <1>5 DEF Bind, Listen, ListenFails, ServeFails, ServerEnded
<1> QED  BY <1>1, <1>2, <1>3, <1>4, <1>5 DEF ProcessNext

\* The invariant holds when the process starts.
LEMMA StaticInit == ProcessInit => StaticInv
  BY DEF ProcessInit, Init, StaticInv, Servers, ServerStates, Appliers

\* A step of the configuration path other than the start of the servers.
LEMMA StaticConfigure ==
  ASSUME IndInv, StaticInv, Configure, ready => ready'
  PROVE  StaticInv'
<1> USE DEF Appliers
<1>1. server' = server /\ pc \in [Appliers -> MainPC \cup TaskPC]
      /\ job \in [Appliers -> [cfg : Configs \cup {Bootstrap}, number : Nat]]
  BY DEF Configure, processVars, IndInv, TypeOK
<1>2. CASE pc'["main"] = pc["main"] /\ job'["main"] = job["main"]
  BY <1>1, <1>2 DEF StaticInv
<1>3. CASE MainNoStatic
  <2>1. pc["main"] = "load" /\ pc'["main"] = "spawn" /\ job' = job
    BY <1>1, <1>3 DEF MainNoStatic, Goto
  <2> QED  BY <1>1, <2>1 DEF StaticInv
<1>4. CASE MainSend
  <2>1. pc["main"] = "send" /\ pc'["main"] = "spawn" /\ job' = job
    BY <1>1, <1>4 DEF MainSend, Goto
  <2> QED  BY <1>1, <2>1 DEF StaticInv
<1>5. ASSUME NEW cfg \in StaticConfigs, MainLoad(cfg) PROVE StaticInv'
  <2>1. pc["main"] = "load" /\ pc'["main"] = "apply"
    BY <1>1, <1>5 DEF MainLoad, Goto
  <2> QED  BY <1>1, <2>1 DEF StaticInv
<1>6. CASE apply_config("main")
  <2>1. job' = job
    BY <1>6 DEF apply_config, WriteConfig, ClearConflicts, StoreReady, WriteConflicts, StoreNotReady
  <2>2. \/ pc["main"] = "apply" /\ pc'["main"] = "clear"
        \/ pc["main"] = "clear" /\ pc'["main"] = "ready"
        \/ pc["main"] = "ready" /\ pc'["main"] = "send" /\ ready'
        \/ pc["main"] = "apply" /\ pc'["main"] = "unready" /\ ~ Valid(job["main"].cfg)
        \/ pc["main"] = "unready" /\ pc'["main"] = "spawn"
    BY <1>1, <1>6 DEF apply_config, WriteConfig, ClearConflicts, StoreReady, WriteConflicts,
       StoreNotReady, Goto, AfterOk, AfterErr
  <2> QED  BY <1>1, <2>1, <2>2 DEF StaticInv
<1>7. CASE Task \/ Xds
  <2>1. pc'["main"] = pc["main"] /\ job'["main"] = job["main"]
    BY <1>1, <1>7 DEF Task, Xds, XdsInvalidEndpoint, XdsPublish, TaskChanged, TaskClosed, TaskBorrow,
       apply_config, WriteConfig, ClearConflicts, StoreReady, WriteConflicts, StoreNotReady, Goto
  <2> QED  BY <2>1, <1>2
<1> QED  BY <1>3, <1>4, <1>5, <1>6, <1>7 DEF Configure

\* Every step of the process keeps the invariant.
LEMMA StaticNext == IndInv /\ StaticInv /\ [ProcessNext]_allVars => StaticInv'
<1> SUFFICES ASSUME IndInv, StaticInv, [ProcessNext]_allVars PROVE StaticInv'
  OBVIOUS
<1>1. ready => ready'
  BY GatewayStep, ReadyStep
<1>2. CASE UNCHANGED vars /\ server' = server
  BY <1>2 DEF StaticInv, vars, proxyState
<1>3. CASE Start \/ CtrlC \/ \E s \in Servers : ServerEnded(s)
  <2>1. UNCHANGED vars /\ server' = server
    BY <1>3 DEF Start, NoBootstrap, BootstrapFails, Bootstrapped, CtrlC, ServerEnded
  <2> QED  BY <2>1, <1>2
<1>4. CASE Configure
  BY <1>1, <1>4, StaticConfigure
<1>5. CASE Spawn
  <2>1. pc["main"] = "spawn" /\ pc'["main"] = "serve" /\ job' = job /\ ready' = ready
    BY <1>5 DEF Spawn, MainSpawn, Goto, proxyState, IndInv, TypeOK, Appliers
  <2>2. server' \in [Servers -> ServerStates]
    BY <1>5 DEF Spawn, ServerStates
  <2> QED  BY <2>1, <2>2 DEF StaticInv
<1>6. ASSUME NEW s \in Servers, Bind(s) \/ ServeFails(s) PROVE StaticInv'
  <2>1. UNCHANGED vars /\ server[s] # "absent"
    BY <1>6 DEF Bind, Listen, ListenFails, ServeFails
  <2>2. \E x \in {"listening", "ended"} : server' = [server EXCEPT ![s] = x]
    BY <1>6 DEF Bind, Listen, ListenFails, ServeFails
  <2> QED  BY <2>1, <2>2 DEF StaticInv, ServerStates, vars, proxyState
<1> QED  BY <1>2, <1>3, <1>4, <1>5, <1>6 DEF ProcessNext, allVars, processVars

\* What is proved of the configuration path holds of the process: every
\* behaviour of the process is one of the configuration path.
THEOREM ProcessIsGateway == ProcessSafety => SafetySpec
<1>1. ProcessInit => Init
  BY DEF ProcessInit
<1> QED  BY <1>1, GatewayStep, PTL DEF ProcessSafety, SafetySpec

\* Every variable of the process keeps its type: a bootstrap file leaves no
\* argument without a value.
THEOREM ProcessTypeCorrectness == ProcessSafety => []ProcessTypeOK
<1>1. ProcessInit => ProcessTypeOK
  BY DEF ProcessInit, ProcessTypeOK
<1>2. ProcessTypeOK /\ [ProcessNext]_allVars => ProcessTypeOK'
  <2> SUFFICES ASSUME ProcessTypeOK, [ProcessNext]_allVars PROVE ProcessTypeOK'
    OBVIOUS
  <2> USE DEF ProcessTypeOK
  <2>1. CASE UNCHANGED processVars
    BY <2>1 DEF processVars
  <2>2. CASE Start
    BY <2>2 DEF Start, NoBootstrap, BootstrapFails, Bootstrapped, apply_bootstrap
  <2>3. CASE Spawn
    BY <2>3 DEF Spawn
  <2>4. CASE CtrlC \/ \E s \in Servers : ServerEnded(s)
    BY <2>4 DEF CtrlC, ServerEnded
  <2>5. ASSUME NEW s \in Servers, Bind(s) \/ ServeFails(s) PROVE ProcessTypeOK'
    BY <2>5 DEF Bind, Listen, ListenFails, ServeFails
  <2>6. Configure => UNCHANGED processVars
    BY DEF Configure
  <2> QED  BY <2>1, <2>2, <2>3, <2>4, <2>5, <2>6 DEF ProcessNext, allVars
<1> QED  BY <1>1, <1>2, PTL DEF ProcessSafety

\* A gateway with a valid static file never answers from the empty configuration.
THEOREM StaticInForce == ProcessSafety => []StaticBeforeRequests
<1>1. ProcessInit => IndInv /\ StaticInv
  BY InitInv, StaticInit DEF ProcessInit
<1>2. IndInv /\ StaticInv /\ [ProcessNext]_allVars => (IndInv /\ StaticInv)'
  BY NextInv, GatewayStep, StaticNext
<1>3. IndInv /\ StaticInv => StaticBeforeRequests
  BY DEF IndInv, ServedInv, StaticInv, StaticBeforeRequests, Servers
<1> QED  BY <1>1, <1>2, <1>3, PTL DEF ProcessSafety

==============================================================================
