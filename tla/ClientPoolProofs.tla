-------------------------- MODULE ClientPoolProofs ---------------------------
(***************************************************************************)
(* Proofs about the client pool, for any callers, keys and providers: all  *)
(* callers share one client per key, a call fails and a client is built    *)
(* only as the files say, and the pool implements module ClientCache.      *)
(***************************************************************************)
EXTENDS ClientPool, TLAPS

Contents == [kind : {"none", "bad", "other", "unsupported", "pem", "pkcs8", "rsa"}, rotation : Nat]

Labels == {"idle", "lock", "lookup", "done"} \cup Working

\* The labels at which the paths are known to be configured.
Reading == {"cert", "pkcs8", "rsa", "roots", "build"}

Results == {<<>>} \cup {<<client>> : client \in Client}

Frames == [pc : Labels, key : Keys \cup {"none"}, read : [Fields -> Contents], result : Results]

TypeInv ==
  /\ files \in [Providers -> [Fields -> Contents]]
  /\ \A p \in Providers, f \in Fields : files[p][f].kind \in Kinds(f) /\ files[p][f].rotation \in Rotations
  /\ call \in [Callers -> Frames]
  /\ \A c \in Callers : call[c].pc # "idle" => call[c].key \in Keys
  /\ DOMAIN clients \subseteq Keys
  /\ clients = [k \in DOMAIN clients |-> clients[k]]
  /\ \A k \in DOMAIN clients : clients[k] \in Client
  /\ lock \subseteq Callers
  /\ calm \in [Callers -> BOOLEAN]

\* Whoever is past lock() holds the mutex alone, and builds a client only for a
\* key that has none: nobody else can have inserted one meanwhile.
LockInv ==
  \A c \in Callers :
    /\ call[c].pc \in {"lookup"} \cup Working => lock = {c}
    /\ call[c].pc \in Working => call[c].key \notin DOMAIN clients
    /\ call[c].pc \in Reading => Configured(call[c].key)
    /\ call[c].pc # "done" => call[c].result = <<>>

\* The labels after a field has been read, and the kinds that let a call go on.
After(f) ==
  IF f = "certificate_file" THEN {"pkcs8", "rsa", "roots", "build"}
  ELSE IF f = "private_key_file" THEN {"roots", "build"} ELSE {"build"}

Usable(f) == IF f = "private_key_file" THEN {"pkcs8", "rsa", "unsupported"} ELSE {"pem"}

\* What a caller has read was usable, and is still in the file if nothing it
\* needs has been replaced; the file it looks into for an RSA key then still is
\* the one without a PKCS8 key.
ReadInv ==
  \A c \in Callers :
    /\ \A f \in Fields : call[c].pc \in After(f) =>
         /\ call[c].read[f].kind \in Usable(f)
         /\ call[c].read[f].rotation \in Rotations
         /\ calm[c] => call[c].read[f] = FileOf(c, f)
    /\ call[c].pc = "rsa" /\ calm[c] => FileOf(c, "private_key_file").kind \in {"rsa", "other"}

\* The inductive invariant.
PoolInv == TypeInv /\ LockInv /\ ReadInv /\ FailsForCause /\ OneClientPerKey

-----------------------------------------------------------------------------
\* The pool starts empty, with nobody in it.
LEMMA InitPool == ASSUME Init PROVE PoolInv
<1>1. \A f \in Fields : NothingRead[f] \in Contents
  BY DEF NothingRead, File, Contents
<1>2. TypeInv
  BY <1>1, PoolAssumption DEF Init, TypeInv, Issued, File, Contents, Kinds, Intact, Frame, Frames, Labels,
     Results, Fields, Rotations, NothingRead
<1>3. LockInv /\ ReadInv /\ FailsForCause /\ OneClientPerKey
  BY DEF Init, LockInv, ReadInv, FailsForCause, OneClientPerKey, Frame, Working, Reading, After, Fields
<1> QED
  BY <1>2, <1>3 DEF PoolInv

\* Call keeps the invariant.
LEMMA CallStep == ASSUME PoolInv, NEW c \in Callers, NEW k \in Keys, Call(c, k) PROVE PoolInv'
<1> USE DEF PoolInv
<1> DEFINE fr == Frame("lock", k, NothingRead, <<>>)
<1>1. NothingRead \in [Fields -> Contents]
  BY DEF NothingRead, File, Contents
<1>2. fr \in Frames /\ call' = [call EXCEPT ![c] = fr]
  BY <1>1 DEF Call, Frame, Frames, Labels, Results
<1>3. fr.pc = "lock" /\ fr.key = k /\ fr.result = <<>>
  BY DEF Frame
<1>4. call'[c] = fr /\ \A d \in Callers : d # c => call'[d] = call[d]
  BY <1>2 DEF TypeInv
<1>5. UNCHANGED <<files, lock, clients, calm>>
  BY DEF Call
<1> HIDE DEF fr
<1>6. TypeInv'
  BY <1>2, <1>3, <1>4, <1>5 DEF TypeInv
<1>7. LockInv'
  BY <1>3, <1>4, <1>5 DEF LockInv, Configured, Working, Reading
<1>8. ReadInv'
  BY <1>3, <1>4, <1>5 DEF ReadInv, FileOf, After
<1>9. FailsForCause'
  BY <1>3, <1>4, <1>5 DEF FailsForCause, Loadable, Configured
<1>10. OneClientPerKey'
  BY <1>3, <1>4, <1>5 DEF OneClientPerKey
<1> QED
  BY <1>6, <1>7, <1>8, <1>9, <1>10

\* Lock keeps the invariant: nobody else is past it.
LEMMA LockStep == ASSUME PoolInv, NEW c \in Callers, Lock(c) PROVE PoolInv'
<1> USE DEF PoolInv
<1> DEFINE fr == Frame("lookup", call[c].key, call[c].read, <<>>)
<1>1. fr \in Frames /\ call' = [call EXCEPT ![c] = fr]
  BY DEF Lock, Goto, TypeInv, Frame, Frames, Labels, Results
<1>2. fr.pc = "lookup" /\ fr.key = call[c].key /\ fr.result = <<>>
  BY DEF Frame
<1>3. call'[c] = fr /\ \A d \in Callers : d # c => call'[d] = call[d]
  BY <1>1 DEF TypeInv
<1>4. lock' = {c} /\ UNCHANGED <<files, clients, calm>> /\ call[c].pc = "lock"
  BY DEF Lock
<1>5. \A d \in Callers : call[d].pc \notin {"lookup"} \cup Working
  BY DEF Lock, LockInv
<1> HIDE DEF fr
<1>6. TypeInv'
  BY <1>1, <1>2, <1>3, <1>4 DEF TypeInv
<1>7. LockInv'
  BY <1>2, <1>3, <1>4, <1>5 DEF LockInv, Configured, Working, Reading
<1>8. ReadInv'
  BY <1>2, <1>3, <1>4 DEF ReadInv, FileOf, After
<1>9. FailsForCause'
  BY <1>2, <1>3, <1>4 DEF FailsForCause, Loadable, Configured
<1>10. OneClientPerKey'
  BY <1>2, <1>3, <1>4 DEF OneClientPerKey
<1> QED
  BY <1>6, <1>7, <1>8, <1>9, <1>10

\* LookupHit keeps the invariant.
LEMMA LookupHitStep == ASSUME PoolInv, NEW c \in Callers, LookupHit(c) PROVE PoolInv'
<1> USE DEF PoolInv
<1> DEFINE client == clients[call[c].key]
           fr == Frame("done", call[c].key, NothingRead, <<client>>)
<1>1. call[c].pc = "lookup" /\ call[c].key \in DOMAIN clients /\ UNCHANGED <<files, clients, calm>>
      /\ call' = [call EXCEPT ![c] = fr] /\ lock' = lock \ {c}
  BY DEF LookupHit, Return
<1>2. client \in Client /\ NothingRead \in [Fields -> Contents] /\ call[c].key \in Keys
  BY <1>1 DEF TypeInv, NothingRead, File, Contents
<1>3. lock = {c} /\ lock' = {}
  BY <1>1 DEF LockInv
<1>4. <<client>> # <<>> /\ <<client>> \in Results
  <2> HIDE DEF client
  <2> QED
    BY <1>2 DEF Results
<1>5. fr \in Frames
  <2> HIDE DEF client
  <2> QED
    BY <1>2, <1>4 DEF Frame, Frames, Labels
<1>6. fr.pc = "done" /\ fr.key = call[c].key /\ fr.result = <<client>>
  BY DEF Frame
<1>7. call'[c] = fr /\ \A d \in Callers : d # c => call'[d] = call[d]
  BY <1>1 DEF TypeInv
<1>8. fr.result = <<clients'[fr.key]>> /\ fr.key \in DOMAIN clients'
  BY <1>1, <1>6
<1> HIDE DEF fr, client
<1>9. TypeInv'
  BY <1>1, <1>2, <1>3, <1>5, <1>6, <1>7 DEF TypeInv
<1>10. LockInv'
  BY <1>1, <1>3, <1>6, <1>7 DEF LockInv, Configured, Working, Reading
<1>11. ReadInv'
  BY <1>1, <1>6, <1>7 DEF ReadInv, FileOf, After
<1>12. FailsForCause'
  BY <1>1, <1>4, <1>6, <1>7 DEF FailsForCause, Loadable, Configured
<1>13. OneClientPerKey'
  BY <1>1, <1>7, <1>8 DEF OneClientPerKey
<1> QED
  BY <1>9, <1>10, <1>11, <1>12, <1>13

\* LookupMiss keeps the invariant.
LEMMA LookupMissStep == ASSUME PoolInv, NEW c \in Callers, LookupMiss(c) PROVE PoolInv'
<1> USE DEF PoolInv
<1> DEFINE fr == Frame("paths", call[c].key, call[c].read, <<>>)
<1>1. fr \in Frames /\ call' = [call EXCEPT ![c] = fr]
  BY DEF LookupMiss, Goto, TypeInv, Frame, Frames, Labels, Results, Working
<1>2. fr.pc = "paths" /\ fr.key = call[c].key /\ fr.result = <<>>
  BY DEF Frame
<1>3. call'[c] = fr /\ \A d \in Callers : d # c => call'[d] = call[d]
  BY <1>1 DEF TypeInv
<1>4. call[c].pc = "lookup" /\ call[c].key \notin DOMAIN clients /\ lock = {c}
      /\ UNCHANGED <<files, lock, clients, calm>>
  BY DEF LookupMiss, LockInv
<1> HIDE DEF fr
<1>5. TypeInv'
  BY <1>1, <1>2, <1>3, <1>4 DEF TypeInv
<1>6. LockInv'
  BY <1>2, <1>3, <1>4 DEF LockInv, Configured, Reading
<1>7. ReadInv'
  BY <1>2, <1>3, <1>4 DEF ReadInv, FileOf, After
<1>8. FailsForCause'
  BY <1>2, <1>3, <1>4 DEF FailsForCause, Loadable, Configured
<1>9. OneClientPerKey'
  BY <1>2, <1>3, <1>4 DEF OneClientPerKey
<1> QED
  BY <1>5, <1>6, <1>7, <1>8, <1>9

-----------------------------------------------------------------------------
(* Inside tls_config a call does one of three things: it goes on, it takes *)
(* over what is in a file, or it fails.                                    *)

\* The files of a configured key have their types.
LEMMA FileFacts ==
  ASSUME TypeInv, NEW c \in Callers, NEW f \in Fields, Configured(call[c].key)
  PROVE  FileOf(c, f) \in Contents /\ FileOf(c, f).kind \in Kinds(f) /\ FileOf(c, f).rotation \in Rotations
BY DEF TypeInv, FileOf, Configured, Providers

\* A call that goes on to a label where nothing more has been read.
LEMMA GotoStep ==
  ASSUME PoolInv, NEW c \in Callers, NEW pc \in Working, Goto(c, pc), UNCHANGED <<files, lock, clients, calm>>,
         call[c].pc \in Working, pc \in Reading => Configured(call[c].key),
         \A f \in Fields : pc \in After(f) => call[c].pc \in After(f),
         pc = "rsa" /\ calm[c] => FileOf(c, "private_key_file").kind \in {"rsa", "other"}
  PROVE  PoolInv'
<1> USE DEF PoolInv
<1> DEFINE fr == Frame(pc, call[c].key, call[c].read, <<>>)
<1>1. fr \in Frames /\ call' = [call EXCEPT ![c] = fr]
  BY DEF Goto, TypeInv, Frame, Frames, Labels, Results
<1>2. fr.pc = pc /\ fr.key = call[c].key /\ fr.read = call[c].read /\ fr.result = <<>>
  BY DEF Frame
<1>3. call'[c] = fr /\ \A d \in Callers : d # c => call'[d] = call[d]
  BY <1>1 DEF TypeInv
<1>4. pc # "idle" /\ pc # "done" /\ call[c].pc # "idle"
  BY DEF Working
<1> HIDE DEF fr
<1>5. TypeInv'
  BY <1>1, <1>2, <1>3, <1>4 DEF TypeInv
<1>6. LockInv'
  BY <1>2, <1>3 DEF LockInv, Configured
<1>7. ReadInv'
  BY <1>2, <1>3 DEF ReadInv, FileOf
<1>8. FailsForCause'
  BY <1>2, <1>3, <1>4 DEF FailsForCause, Loadable, Configured
<1>9. OneClientPerKey'
  BY <1>2, <1>3, <1>4 DEF OneClientPerKey
<1> QED
  BY <1>5, <1>6, <1>7, <1>8, <1>9

\* A call that takes over what is in a file.
LEMMA LoadedStep ==
  ASSUME PoolInv, NEW c \in Callers, NEW f \in Fields, NEW pc \in {"pkcs8", "roots", "build"},
         Loaded(c, f, pc), UNCHANGED <<files, clients, calm>>,
         call[c].pc \in Reading, FileOf(c, f).kind \in Usable(f),
         \A g \in Fields : pc \in After(g) => g = f \/ call[c].pc \in After(g)
  PROVE  PoolInv'
<1> USE DEF PoolInv
<1> DEFINE read == [call[c].read EXCEPT ![f] = FileOf(c, f)]
           fr == Frame(pc, call[c].key, read, <<>>)
<1>1. Configured(call[c].key) /\ lock = {c} /\ call[c].key \notin DOMAIN clients
  BY DEF LockInv, Reading, Working
<1>2. FileOf(c, f) \in Contents /\ FileOf(c, f).rotation \in Rotations
  BY <1>1, FileFacts
<1>3. read \in [Fields -> Contents] /\ read[f] = FileOf(c, f)
      /\ \A g \in Fields : g # f => read[g] = call[c].read[g]
  BY <1>2 DEF TypeInv, Frames
<1>4. fr \in Frames /\ call' = [call EXCEPT ![c] = fr] /\ lock' = lock
  BY <1>3 DEF Loaded, TypeInv, Frame, Frames, Labels, Results, Working
<1>5. fr.pc = pc /\ fr.key = call[c].key /\ fr.read = read /\ fr.result = <<>>
  BY DEF Frame
<1>6. call'[c] = fr /\ \A d \in Callers : d # c => call'[d] = call[d]
  BY <1>4 DEF TypeInv
<1>7. pc # "idle" /\ pc # "done" /\ pc # "rsa" /\ call[c].pc # "idle"
  BY DEF Reading
<1> HIDE DEF fr, read
<1>8. TypeInv'
  BY <1>4, <1>5, <1>6, <1>7 DEF TypeInv
<1>9. LockInv'
  BY <1>1, <1>4, <1>5, <1>6, <1>7 DEF LockInv, Configured
<1>10. ReadInv'
  <2>1. ASSUME NEW d \in Callers, d # c
        PROVE  /\ \A g \in Fields : call'[d].pc \in After(g) =>
                    /\ call'[d].read[g].kind \in Usable(g)
                    /\ call'[d].read[g].rotation \in Rotations
                    /\ calm[d] => call'[d].read[g] = FileOf(d, g)'
               /\ call'[d].pc = "rsa" /\ calm[d] => FileOf(d, "private_key_file")'.kind \in {"rsa", "other"}
    BY <2>1, <1>6 DEF ReadInv, FileOf
  <2>2. ASSUME NEW g \in Fields, call'[c].pc \in After(g)
        PROVE  /\ call'[c].read[g].kind \in Usable(g)
               /\ call'[c].read[g].rotation \in Rotations
               /\ calm[c] => call'[c].read[g] = FileOf(c, g)'
    <3>1. FileOf(c, g)' = FileOf(c, g) /\ call'[c].read = read
      BY <1>5, <1>6 DEF FileOf
    <3>2. CASE g = f
      BY <3>1, <3>2, <1>2, <1>3
    <3>3. CASE g # f
      BY <3>1, <3>3, <2>2, <1>3, <1>5, <1>6 DEF ReadInv
    <3> QED
      BY <3>2, <3>3
  <2> QED
    BY <2>1, <2>2, <1>5, <1>6, <1>7 DEF ReadInv
<1>11. FailsForCause'
  BY <1>5, <1>6, <1>7 DEF FailsForCause, Loadable, Configured
<1>12. OneClientPerKey'
  BY <1>5, <1>6, <1>7 DEF OneClientPerKey
<1> QED
  BY <1>8, <1>9, <1>10, <1>11, <1>12

\* A call that fails: it must have had cause to.
LEMMA FailStep ==
  ASSUME PoolInv, NEW c \in Callers, Return(c, <<>>), UNCHANGED <<files, clients, calm>>,
         call[c].pc \in Working, calm[c] => ~ Loadable(call[c].key)
  PROVE  PoolInv'
<1> USE DEF PoolInv
<1> DEFINE fr == Frame("done", call[c].key, NothingRead, <<>>)
<1>1. lock = {c} /\ lock' = {}
  BY DEF LockInv, Return
<1>2. NothingRead \in [Fields -> Contents]
  BY DEF NothingRead, File, Contents
<1>3. fr \in Frames /\ call' = [call EXCEPT ![c] = fr]
  BY <1>2 DEF Return, TypeInv, Frame, Frames, Labels, Results
<1>4. fr.pc = "done" /\ fr.key = call[c].key /\ fr.result = <<>>
  BY DEF Frame
<1>5. call'[c] = fr /\ \A d \in Callers : d # c => call'[d] = call[d]
  BY <1>3 DEF TypeInv
<1>6. call[c].pc # "idle"
  BY DEF Working
<1> HIDE DEF fr
<1>7. TypeInv'
  BY <1>1, <1>3, <1>4, <1>5, <1>6 DEF TypeInv
<1>8. LockInv'
  BY <1>1, <1>4, <1>5 DEF LockInv, Configured, Working, Reading
<1>9. ReadInv'
  BY <1>4, <1>5 DEF ReadInv, FileOf, After
<1>10. FailsForCause'
  BY <1>4, <1>5 DEF FailsForCause, Loadable, Configured
<1>11. OneClientPerKey'
  BY <1>4, <1>5 DEF OneClientPerKey
<1> QED
  BY <1>7, <1>8, <1>9, <1>10, <1>11

\* A file that is not in order makes its key unloadable.
LEMMA Unloadable ==
  ASSUME NEW c \in Callers, NEW f \in Fields, FileOf(c, f).kind \notin Intact(f)
  PROVE  ~ Loadable(call[c].key)
BY DEF FileOf, Loadable

\* Paths keeps the invariant.
LEMMA PathsStep == ASSUME PoolInv, NEW c \in Callers, Paths(c) PROVE PoolInv'
<1>1. CASE Configured(call[c].key) /\ Goto(c, "cert") /\ UNCHANGED lock
  BY <1>1, GotoStep DEF Paths, Working, Reading, After, Fields
<1>2. CASE ~ Configured(call[c].key) /\ Return(c, <<>>)
  BY <1>2, FailStep DEF Paths, Working, Loadable
<1> QED
  BY <1>1, <1>2 DEF Paths

\* LoadCerts keeps the invariant.
LEMMA LoadCertsStep == ASSUME PoolInv, NEW c \in Callers, LoadCerts(c) PROVE PoolInv'
<1> DEFINE f == "certificate_file"
<1>1. call[c].pc = "cert" /\ f \in Fields /\ UNCHANGED <<files, clients, calm>>
  BY DEF LoadCerts, Fields
<1>2. CASE FileOf(c, f).kind = "pem" /\ Loaded(c, f, "pkcs8")
  <2>1. \A g \in Fields : "pkcs8" \in After(g) => g = f \/ call[c].pc \in After(g)
    BY DEF After, Fields
  <2>2. FileOf(c, f).kind \in Usable(f) /\ call[c].pc \in Reading
    BY <1>1, <1>2 DEF Usable, Reading
  <2> QED
    BY <1>1, <1>2, <2>1, <2>2, LoadedStep
<1>3. CASE FileOf(c, f).kind = "bad" /\ Return(c, <<>>)
  <2>1. FileOf(c, f).kind \notin Intact(f)
    BY <1>3 DEF Intact
  <2> QED
    BY <1>1, <1>3, <2>1, Unloadable, FailStep DEF Working
<1> QED
  BY <1>2, <1>3 DEF LoadCerts

\* LoadPkcs8 keeps the invariant.
LEMMA LoadPkcs8Step == ASSUME PoolInv, NEW c \in Callers, LoadPkcs8(c) PROVE PoolInv'
<1> DEFINE f == "private_key_file"
<1>1. call[c].pc = "pkcs8" /\ f \in Fields /\ UNCHANGED <<files, clients, calm>>
  BY DEF LoadPkcs8, Fields
<1>2. Configured(call[c].key)
  BY <1>1 DEF PoolInv, LockInv, Reading
<1>3. CASE FileOf(c, f).kind \in {"pkcs8", "unsupported"} /\ Loaded(c, f, "roots")
  <2>1. \A g \in Fields : "roots" \in After(g) => g = f \/ call[c].pc \in After(g)
    BY <1>1 DEF After, Fields
  <2>2. FileOf(c, f).kind \in Usable(f) /\ call[c].pc \in Reading
    BY <1>1, <1>3 DEF Usable, Reading
  <2> QED
    BY <1>1, <1>3, <2>1, <2>2, LoadedStep
<1>4. CASE FileOf(c, f).kind \in {"rsa", "other"} /\ Goto(c, "rsa") /\ UNCHANGED lock
  <2>1. \A g \in Fields : "rsa" \in After(g) => call[c].pc \in After(g)
    BY <1>1 DEF After, Fields
  <2> QED
    BY <1>1, <1>2, <1>4, <2>1, GotoStep DEF Working
<1>5. CASE FileOf(c, f).kind = "bad" /\ Return(c, <<>>)
  <2>1. FileOf(c, f).kind \notin Intact(f)
    BY <1>5 DEF Intact
  <2> QED
    BY <1>1, <1>5, <2>1, Unloadable, FailStep DEF Working
<1> QED
  BY <1>3, <1>4, <1>5 DEF LoadPkcs8

\* LoadRsa keeps the invariant.
LEMMA LoadRsaStep == ASSUME PoolInv, NEW c \in Callers, LoadRsa(c) PROVE PoolInv'
<1> DEFINE f == "private_key_file"
<1>1. call[c].pc = "rsa" /\ f \in Fields /\ UNCHANGED <<files, clients, calm>>
  BY DEF LoadRsa, Fields
<1>2. CASE FileOf(c, f).kind = "rsa" /\ Loaded(c, f, "roots")
  <2>1. \A g \in Fields : "roots" \in After(g) => g = f \/ call[c].pc \in After(g)
    BY <1>1 DEF After, Fields
  <2>2. FileOf(c, f).kind \in Usable(f) /\ call[c].pc \in Reading
    BY <1>1, <1>2 DEF Usable, Reading
  <2> QED
    BY <1>1, <1>2, <2>1, <2>2, LoadedStep
<1>3. CASE FileOf(c, f).kind # "rsa" /\ Return(c, <<>>)
  <2>1. calm[c] => FileOf(c, f).kind = "other"
    BY <1>1, <1>3 DEF PoolInv, ReadInv
  <2>2. calm[c] => FileOf(c, f).kind \notin Intact(f)
    BY <2>1 DEF Intact
  <2> QED
    BY <1>1, <1>3, <2>2, Unloadable, FailStep DEF Working
<1> QED
  BY <1>2, <1>3 DEF LoadRsa

\* LoadRoots keeps the invariant.
LEMMA LoadRootsStep == ASSUME PoolInv, NEW c \in Callers, LoadRoots(c) PROVE PoolInv'
<1> DEFINE f == "ca_certificate_file"
<1>1. call[c].pc = "roots" /\ f \in Fields /\ UNCHANGED <<files, clients, calm>>
  BY DEF LoadRoots, Fields
<1>2. CASE FileOf(c, f).kind = "pem" /\ Loaded(c, f, "build")
  <2>1. \A g \in Fields : "build" \in After(g) => g = f \/ call[c].pc \in After(g)
    BY <1>1 DEF After, Fields
  <2>2. FileOf(c, f).kind \in Usable(f) /\ call[c].pc \in Reading
    BY <1>1, <1>2 DEF Usable, Reading
  <2> QED
    BY <1>1, <1>2, <2>1, <2>2, LoadedStep
<1>3. CASE FileOf(c, f).kind = "bad" /\ Return(c, <<>>)
  <2>1. FileOf(c, f).kind \notin Intact(f)
    BY <1>3 DEF Intact
  <2> QED
    BY <1>1, <1>3, <2>1, Unloadable, FailStep DEF Working
<1> QED
  BY <1>2, <1>3 DEF LoadRoots

\* BuildFails keeps the invariant: in a calm call the key it cannot use is the
\* one in the file.
LEMMA BuildFailsStep == ASSUME PoolInv, NEW c \in Callers, BuildFails(c) PROVE PoolInv'
<1> DEFINE f == "private_key_file"
<1>1. f \in Fields /\ call[c].pc \in After(f) /\ call[c].pc \in Working
  BY DEF BuildFails, Fields, After, Working
<1>2. calm[c] => FileOf(c, f).kind = "unsupported"
  BY <1>1 DEF BuildFails, PoolInv, ReadInv
<1>3. calm[c] => FileOf(c, f).kind \notin Intact(f)
  BY <1>2 DEF Intact
<1> QED
  BY <1>1, <1>3, Unloadable, FailStep DEF BuildFails

\* Build keeps the invariant: the key had no client, so nobody has been given
\* another one.
LEMMA BuildStep == ASSUME PoolInv, NEW c \in Callers, Build(c) PROVE PoolInv'
<1> USE DEF PoolInv
<1> DEFINE client == call[c].read
           fr == Frame("done", call[c].key, NothingRead, <<client>>)
<1>1. lock = {c} /\ lock' = {} /\ call[c].key \notin DOMAIN clients /\ call[c].key \in Keys
  BY DEF Build, LockInv, Return, Working, TypeInv
<1>2. client \in Client
  <2>1. client \in [Fields -> Contents]
    BY DEF TypeInv, Frames
  <2>2. \A f \in Fields : client[f].kind \in Usable(f) /\ client[f].rotation \in Rotations
    BY DEF Build, ReadInv, After, Fields
  <2>3. \A f \in Fields : client[f].kind \in Intact(f)
    BY <2>2 DEF Build, Usable, Intact
  <2>4. \A f \in Fields : client[f] \in [kind : UNION {Intact(g) : g \in Fields}, rotation : Rotations]
    BY <2>1, <2>2, <2>3 DEF Contents
  <2> QED
    BY <2>1, <2>3, <2>4 DEF Client
<1>3. /\ DOMAIN clients' = DOMAIN clients \cup {call[c].key}
      /\ clients' = [k \in DOMAIN clients' |-> clients'[k]]
      /\ clients'[call[c].key] = client
      /\ \A k \in DOMAIN clients : clients'[k] = clients[k]
  BY <1>1 DEF Build
<1>4. NothingRead \in [Fields -> Contents]
  BY DEF NothingRead, File, Contents
<1>5. <<client>> \in Results
  BY <1>2 DEF Results
<1>6. fr \in Frames /\ call' = [call EXCEPT ![c] = fr] /\ UNCHANGED <<files, calm>>
  BY <1>4, <1>5 DEF Build, Return, TypeInv, Frame, Frames, Labels
<1>7. fr.pc = "done" /\ fr.key = call[c].key /\ fr.result = <<client>> /\ fr.result # <<>>
  BY DEF Frame
<1>8. call'[c] = fr /\ \A d \in Callers : d # c => call'[d] = call[d]
  BY <1>6 DEF TypeInv
<1> HIDE DEF fr, client
<1>9. TypeInv'
  BY <1>1, <1>2, <1>3, <1>6, <1>7, <1>8 DEF TypeInv
<1>10. LockInv'
  BY <1>1, <1>6, <1>7, <1>8 DEF LockInv, Configured, Working, Reading
<1>11. ReadInv'
  BY <1>6, <1>7, <1>8 DEF ReadInv, FileOf, After
<1>12. FailsForCause'
  BY <1>6, <1>7, <1>8 DEF FailsForCause, Loadable, Configured
<1>13. OneClientPerKey'
  BY <1>3, <1>7, <1>8 DEF OneClientPerKey
<1> QED
  BY <1>9, <1>10, <1>11, <1>12, <1>13

\* Replace keeps the invariant: whoever needs the file is calm no longer.
LEMMA ReplaceStep ==
  ASSUME PoolInv, NEW p \in Providers, NEW f \in Fields, NEW kind \in Kinds(f), Replace(p, f, kind)
  PROVE  PoolInv'
<1> USE DEF PoolInv
<1> DEFINE new == File(kind, files[p][f].rotation + 1)
<1>1. files[p][f].rotation \in Rotations /\ files[p][f].rotation < MaxRotations
  BY DEF TypeInv, Replace
<1>2. new.rotation \in Rotations /\ new.rotation \in Nat
  BY <1>1, PoolAssumption DEF Rotations, File
<1>3. new \in Contents /\ new.kind \in Kinds(f)
  BY <1>2 DEF Contents, File, Kinds
<1>4. files' = [files EXCEPT ![p] = [files[p] EXCEPT ![f] = new]] /\ UNCHANGED <<lock, clients, call>>
  BY DEF Replace
<1> HIDE DEF new
<1>5. files' \in [Providers -> [Fields -> Contents]]
      /\ \A q \in Providers, g \in Fields :
           files'[q][g] = IF q = p /\ g = f THEN new ELSE files[q][g]
  BY <1>3, <1>4 DEF TypeInv
<1>6. calm' \in [Callers -> BOOLEAN] /\ \A c \in Callers : calm'[c] => calm[c] /\ ~ Needs(c, p, f)
  BY DEF Replace, TypeInv
<1>7. TypeInv'
  BY <1>2, <1>3, <1>4, <1>5, <1>6 DEF TypeInv
<1>8. ASSUME NEW c \in Callers, calm'[c], call[c].pc # "idle", NEW g \in Fields, Source(call[c].key, g) \in Providers
      PROVE  files'[Source(call[c].key, g)][g] = files[Source(call[c].key, g)][g]
  BY <1>5, <1>6, <1>8 DEF Needs
<1>9. LockInv'
  BY <1>4 DEF LockInv, Configured
<1>10. ReadInv'
  <2> SUFFICES ASSUME NEW c \in Callers
               PROVE  /\ \A g \in Fields : call[c].pc \in After(g) =>
                           /\ call[c].read[g].kind \in Usable(g)
                           /\ call[c].read[g].rotation \in Rotations
                           /\ calm'[c] => call[c].read[g] = FileOf(c, g)'
                      /\ call[c].pc = "rsa" /\ calm'[c] =>
                           FileOf(c, "private_key_file")'.kind \in {"rsa", "other"}
    BY <1>4 DEF ReadInv
  <2>1. ASSUME NEW g \in Fields, call[c].pc \in Reading, calm'[c] PROVE FileOf(c, g)' = FileOf(c, g)
    <3>1. Source(call[c].key, g) \in Providers /\ call[c].pc # "idle"
      BY <2>1 DEF LockInv, Configured, Reading
    <3> QED
      BY <2>1, <3>1, <1>4, <1>8 DEF FileOf
  <2>2. \A g \in Fields : call[c].pc \in After(g) => call[c].pc \in Reading
    BY DEF After, Reading
  <2>3. "private_key_file" \in Fields /\ "rsa" \in Reading
    BY DEF Fields, Reading
  <2> QED
    BY <2>1, <2>2, <2>3, <1>6 DEF ReadInv
<1>11. FailsForCause'
  <2> SUFFICES ASSUME NEW c \in Callers, call[c].pc = "done", call[c].result = <<>>, calm'[c],
                      Loadable(call[c].key)'
               PROVE  FALSE
    BY <1>4 DEF FailsForCause, Loadable, Configured
  <2>1. \A g \in Fields : files'[Source(call[c].key, g)][g] = files[Source(call[c].key, g)][g]
    BY <1>4, <1>8 DEF Loadable, Configured
  <2>2. Loadable(call[c].key)
    BY <2>1, <1>4 DEF Loadable, Configured
  <2> QED
    BY <2>2, <1>6 DEF FailsForCause
<1>12. OneClientPerKey'
  BY <1>4 DEF OneClientPerKey
<1> QED
  BY <1>7, <1>9, <1>10, <1>11, <1>12

\* Every step keeps the invariant.
LEMMA NextPool == ASSUME PoolInv, [Next]_vars PROVE PoolInv'
<1>1. CASE UNCHANGED vars
  <2> USE <1>1 DEF vars, PoolInv
  <2>1. TypeInv'
    BY DEF TypeInv
  <2>2. LockInv'
    BY DEF LockInv, Configured
  <2>3. ReadInv'
    BY DEF ReadInv, FileOf
  <2>4. FailsForCause' /\ OneClientPerKey'
    BY DEF FailsForCause, Loadable, Configured, OneClientPerKey
  <2> QED
    BY <2>1, <2>2, <2>3, <2>4
<1>2. ASSUME NEW c \in Callers, client_for(c) PROVE PoolInv'
  BY <1>2, LockStep, LookupHitStep, LookupMissStep, PathsStep, LoadCertsStep, LoadPkcs8Step, LoadRsaStep,
     LoadRootsStep, BuildFailsStep, BuildStep DEF client_for
<1>3. ASSUME NEW c \in Callers, NEW k \in Keys, Call(c, k) PROVE PoolInv'
  BY <1>3, CallStep
<1>4. ASSUME NEW p \in Providers, NEW f \in Provider[p], NEW kind \in Kinds(f), Replace(p, f, kind) PROVE PoolInv'
  <2>1. f \in Fields
    BY PoolAssumption
  <2> QED
    BY <1>4, <2>1, ReplaceStep
<1> QED
  BY <1>1, <1>2, <1>3, <1>4 DEF Next

\* The inductive invariant holds throughout.
THEOREM PoolInvariance == SafetySpec => []PoolInv
<1>1. Init => PoolInv
  BY InitPool
<1>2. PoolInv /\ [Next]_vars => PoolInv'
  BY NextPool
<1> QED
  BY <1>1, <1>2, PTL DEF SafetySpec

\* The pool keeps its types, and every cached client is made of files that were
\* in order.
THEOREM PoolTypeCorrect == SafetySpec => []TypeOK
<1>1. PoolInv => TypeOK
  BY DEF PoolInv, TypeInv, TypeOK, Frames, Labels
<1> QED
  BY <1>1, PoolInvariance, PTL

\* client_for never gives two clients for one key.
THEOREM SharedClients == SafetySpec => []OneClientPerKey
<1>1. PoolInv => OneClientPerKey
  BY DEF PoolInv
<1> QED
  BY <1>1, PoolInvariance, PTL

\* client_for fails only because of its paths and files.
THEOREM FailuresHaveCause == SafetySpec => []FailsForCause
<1>1. PoolInv => FailsForCause
  BY DEF PoolInv
<1> QED
  BY <1>1, PoolInvariance, PTL

\* A client that is built in a calm moment is made of the files as they are.
THEOREM BuiltFromOwnFiles == SafetySpec => []ReadsOwnFiles
<1>1. PoolInv => ReadsOwnFiles
  BY DEF PoolInv, ReadInv, ReadsOwnFiles, After
<1> QED
  BY <1>1, PoolInvariance, PTL

-----------------------------------------------------------------------------
(* The pool implements ClientCache: a call is answered when it returns.    *)

\* What a caller has asked for, as ClientCache sees it.
View(c) == [pc |-> IF call[c].pc \in {"idle", "done"} THEN call[c].pc ELSE "asked",
            key |-> call[c].key, answer |-> call[c].result]

\* A step of one caller changes its view only.
LEMMA ViewStep ==
  ASSUME TypeInv, NEW c \in Callers, NEW fr, call' = [call EXCEPT ![c] = fr]
  PROVE  /\ View(c)' = [pc |-> IF fr.pc \in {"idle", "done"} THEN fr.pc ELSE "asked",
                        key |-> fr.key, answer |-> fr.result]
         /\ [d \in Callers |-> View(d)]' = [[d \in Callers |-> View(d)] EXCEPT ![c] = View(c)']
BY DEF TypeInv, View

\* What all callers have asked for.
Views == [d \in Callers |-> View(d)]

\* A call that goes on inside client_for is a stuttering step.
LEMMA Inside ==
  ASSUME TypeInv, NEW c \in Callers, NEW fr, call' = [call EXCEPT ![c] = fr], UNCHANGED clients,
         call[c].pc \notin {"idle", "done"}, fr.pc \notin {"idle", "done"},
         fr.key = call[c].key, fr.result = call[c].result
  PROVE  UNCHANGED Cache!vars
<1>1. View(c)' = View(c)
  <2>1. call'[c] = fr
    BY DEF TypeInv
  <2> QED
    BY <2>1 DEF View
<1>2. Views' = [Views EXCEPT ![c] = View(c)]
  BY <1>1, ViewStep DEF Views
<1>3. Views' = Views
  BY <1>2 DEF Views
<1> QED
  BY <1>3 DEF Cache!vars, Views, View

\* A call that returns is answered then.
LEMMA Returning ==
  ASSUME TypeInv, NEW c \in Callers, NEW result, Return(c, result), call[c].pc \notin {"idle", "done"}
  PROVE  /\ Views[c].pc = "asked" /\ Views[c].key = call[c].key
         /\ Views' = [Views EXCEPT ![c] = Cache!Asking("done", Views[c].key, result)]
<1> DEFINE fr == Frame("done", call[c].key, NothingRead, result)
<1>0. call' = [call EXCEPT ![c] = fr] /\ fr.pc = "done" /\ fr.key = call[c].key /\ fr.result = result
  BY DEF Return, Frame
<1> HIDE DEF fr
<1>1. View(c)' = [pc |-> "done", key |-> call[c].key, answer |-> result]
  BY <1>0, ViewStep
<1>2. Views' = [Views EXCEPT ![c] = View(c)']
  BY <1>0, ViewStep DEF Views
<1>3. Views[c] = [pc |-> "asked", key |-> call[c].key, answer |-> call[c].result]
  BY DEF Views, View
<1> QED
  BY <1>1, <1>2, <1>3 DEF Cache!Asking

\* A failing call is a Fail step.
LEMMA Failing ==
  ASSUME PoolInv, NEW c \in Callers, Return(c, <<>>), UNCHANGED clients, call[c].pc \in Working
  PROVE  Cache!Fail(c)
<1>1. call[c].pc \notin {"idle", "done"} /\ call[c].key \notin DOMAIN clients
  BY DEF PoolInv, LockInv, Working
<1>2. /\ Views[c].pc = "asked" /\ Views[c].key = call[c].key
      /\ Views' = [Views EXCEPT ![c] = Cache!Asking("done", Views[c].key, <<>>)]
  BY <1>1, Returning DEF PoolInv
<1> QED
  BY <1>1, <1>2 DEF Cache!Fail, Cache!Answer, Views, View

\* Every step of client_for maps to a step of the cache or to none.
LEMMA ClientForSimulates ==
  ASSUME PoolInv, NEW c \in Callers, client_for(c)
  PROVE  UNCHANGED Cache!vars \/ Cache!Hit(c) \/ Cache!Miss(c) \/ Cache!Fail(c)
<1> DEFINE goal == UNCHANGED Cache!vars \/ Cache!Hit(c) \/ Cache!Miss(c) \/ Cache!Fail(c)
<1> SUFFICES goal
  OBVIOUS
<1>1. TypeInv /\ (call[c].pc # "done" => call[c].result = <<>>)
  BY DEF PoolInv, LockInv
<1>2. ASSUME NEW pc \in Working \cup {"lookup"}, NEW read, UNCHANGED clients,
             call' = [call EXCEPT ![c] = Frame(pc, call[c].key, read, <<>>)],
             call[c].pc \in Working \cup {"lock", "lookup"}
      PROVE  UNCHANGED Cache!vars
  <2> DEFINE fr == Frame(pc, call[c].key, read, <<>>)
  <2>1. fr.pc = pc /\ fr.key = call[c].key /\ fr.result = <<>>
    BY DEF Frame
  <2>2. pc \notin {"idle", "done"} /\ call[c].pc \notin {"idle", "done"}
    BY <1>2 DEF Working
  <2>3. call' = [call EXCEPT ![c] = fr]
    BY <1>2
  <2> HIDE DEF fr
  <2> QED
    BY <1>1, <1>2, <2>1, <2>2, <2>3, Inside
<1> HIDE DEF goal
<1>3. CASE Lock(c)
  <2>1. UNCHANGED Cache!vars
    BY <1>2, <1>3 DEF Lock, Goto
  <2> QED
    BY <2>1 DEF goal
<1>4. CASE LookupMiss(c)
  <2>1. UNCHANGED Cache!vars
    BY <1>2, <1>4 DEF LookupMiss, Goto, Working
  <2> QED
    BY <2>1 DEF goal
<1>5. CASE LookupHit(c)
  <2>1. /\ Views[c].pc = "asked" /\ Views[c].key = call[c].key
        /\ Views' = [Views EXCEPT ![c] = Cache!Asking("done", Views[c].key, <<clients[call[c].key]>>)]
    BY <1>1, <1>5, Returning DEF LookupHit
  <2>2. Cache!Hit(c)
    BY <1>5, <2>1 DEF LookupHit, Cache!Hit, Cache!Answer, Views, View
  <2> QED
    BY <2>2 DEF goal
<1>6. ASSUME call[c].pc \in Working, Return(c, <<>>), UNCHANGED clients PROVE goal
  BY <1>6, Failing DEF goal
<1>7. ASSUME call[c].pc \in Working, NEW f, NEW pc \in Working, Loaded(c, f, pc), UNCHANGED clients PROVE goal
  <2>1. UNCHANGED Cache!vars
    BY <1>2, <1>7 DEF Loaded
  <2> QED
    BY <2>1 DEF goal
<1>8. ASSUME call[c].pc \in Working, NEW pc \in Working, Goto(c, pc), UNCHANGED clients PROVE goal
  <2>1. UNCHANGED Cache!vars
    BY <1>2, <1>8 DEF Goto
  <2> QED
    BY <2>1 DEF goal
<1>9. CASE Paths(c)
  BY <1>6, <1>8, <1>9 DEF Paths, Working
<1>10. CASE LoadCerts(c)
  BY <1>6, <1>7, <1>10 DEF LoadCerts, Working
<1>11. CASE LoadPkcs8(c)
  BY <1>6, <1>7, <1>8, <1>11 DEF LoadPkcs8, Working
<1>12. CASE LoadRsa(c)
  BY <1>6, <1>7, <1>12 DEF LoadRsa, Working
<1>13. CASE LoadRoots(c)
  BY <1>6, <1>7, <1>13 DEF LoadRoots, Working
<1>14. CASE BuildFails(c)
  BY <1>6, <1>14 DEF BuildFails, Working
<1>15. CASE Build(c)
  <2>1. call[c].pc \in Working /\ call[c].pc \notin {"idle", "done"}
    BY <1>15 DEF Build, Working
  <2>2. call[c].key \notin DOMAIN clients
    BY <2>1 DEF PoolInv, LockInv
  <2>3. /\ Views[c].pc = "asked" /\ Views[c].key = call[c].key
        /\ Views' = [Views EXCEPT ![c] = Cache!Asking("done", Views[c].key, <<call[c].read>>)]
    BY <1>1, <1>15, <2>1, Returning DEF Build
  <2>4. /\ DOMAIN clients' = DOMAIN clients \cup {call[c].key}
        /\ \A k \in DOMAIN clients : clients'[k] = clients[k]
        /\ clients'[call[c].key] = call[c].read
    BY <1>15, <2>2 DEF Build
  <2>5. call[c].read \in Client
    <3>1. PoolInv'
      BY <1>15, BuildStep
    <3> QED
      BY <2>4, <3>1 DEF PoolInv, TypeInv
  <2>6. Cache!Miss(c)
    BY <2>2, <2>3, <2>4, <2>5 DEF Cache!Miss, Cache!Answer, Views, View
  <2> QED
    BY <2>6 DEF goal
<1> QED
  BY <1>3, <1>4, <1>5, <1>9, <1>10, <1>11, <1>12, <1>13, <1>14, <1>15 DEF client_for

\* The pool implements the client cache: its callers cannot tell it from one
\* that answers each call at one instant.
THEOREM PoolRefinement == SafetySpec => ImplementsCache
<1>1. Init => Cache!Init
  BY DEF Init, Cache!Init, Cache!Asking, Frame
<1>2. PoolInv /\ [Next]_vars => [Cache!Next]_(Cache!vars)
  <2> SUFFICES ASSUME PoolInv, [Next]_vars PROVE Cache!Next \/ UNCHANGED Cache!vars
    OBVIOUS
  <2>1. CASE UNCHANGED vars
    BY <2>1 DEF vars, Cache!vars
  <2>2. ASSUME NEW c \in Callers, client_for(c) PROVE Cache!Next \/ UNCHANGED Cache!vars
    BY <2>2, ClientForSimulates DEF Cache!Next
  <2>3. ASSUME NEW c \in Callers, NEW k \in Keys, Call(c, k) PROVE Cache!Next
    <3> DEFINE fr == Frame("lock", k, NothingRead, <<>>)
    <3>0. call' = [call EXCEPT ![c] = fr] /\ fr.pc = "lock" /\ fr.key = k /\ fr.result = <<>> /\ TypeInv
      BY <2>3 DEF Call, Frame, PoolInv
    <3> HIDE DEF fr
    <3>1. View(c)' = [pc |-> "asked", key |-> k, answer |-> <<>>]
      BY <3>0, ViewStep
    <3>2. Views' = [Views EXCEPT ![c] = View(c)']
      BY <3>0, ViewStep DEF Views
    <3>3. Views[c].pc = "idle"
      BY <2>3 DEF Call, Views, View
    <3>4. Cache!Ask(c, k)
      BY <2>3, <3>1, <3>2, <3>3 DEF Call, Cache!Ask, Cache!Asking, Views, View
    <3> QED
      BY <3>4 DEF Cache!Next
  <2>4. ASSUME NEW p \in Providers, NEW f \in Provider[p], NEW kind \in Kinds(f), Replace(p, f, kind)
        PROVE  UNCHANGED Cache!vars
    BY <2>4 DEF Replace, Cache!vars
  <2> QED
    BY <2>1, <2>2, <2>3, <2>4 DEF Next
<1> QED
  BY <1>1, <1>2, PoolInvariance, PTL DEF SafetySpec, ImplementsCache, Cache!Spec

==============================================================================
