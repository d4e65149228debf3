----------------------------- MODULE ClientPool ------------------------------
(***************************************************************************)
(* MtlsClientPool::client_for (crates/proxy/src/server.rs), step by step:  *)
(* one lock is held from the lookup to the insertion, over four reads of   *)
(* certificate files that whoever issues the certificates replaces one by  *)
(* one at any time.                                                        *)
(*                                                                         *)
(* A file is [kind, rotation], where rotation counts the replacements of   *)
(* the file.  Kinds: "bad" (it does not open or parse, or is one of        *)
(* certificates without any), "pem" (certificates), "pkcs8" and "rsa" (a   *)
(* private key in that format), "other" (no key in either format), and     *)
(* "unsupported" (a PKCS8 key that rustls cannot sign with).               *)
(***************************************************************************)
EXTENDS Integers, Sequences

CONSTANTS
  Callers,        \* requests that need a client
  Keys,           \* cache keys (module Forward has how they are made)
  Provider,       \* GrpcBootstrap: the fields each listed provider configures
  CertProvider,   \* the certificate provider behind each key
  RootProvider,   \* the validation provider behind each key
  MaxRotations    \* bound on how often a file is replaced

Fields == {"certificate_file", "private_key_file", "ca_certificate_file"}
Providers == DOMAIN Provider
Rotations == 0..MaxRotations

ASSUME PoolAssumption ==
  /\ MaxRotations \in Nat
  /\ \A p \in Providers : Provider[p] \subseteq Fields

VARIABLES
  files,    \* the certificate files of every provider
  lock,     \* the callers that hold the mutex of clients
  clients,  \* MtlsClientPool.clients
  call,     \* where each caller is in client_for, and what it has read
  calm      \* no file that the caller needs has been replaced since it
            \* called (history variable)

vars == <<files, lock, clients, call, calm>>

File(kind, rotation) == [kind |-> kind, rotation |-> rotation]

\* What a field's file can hold.
Kinds(f) ==
  IF f = "private_key_file" THEN {"bad", "other", "unsupported", "pkcs8", "rsa"} ELSE {"bad", "pem"}
Intact(f) == IF f = "private_key_file" THEN {"pkcs8", "rsa"} ELSE {"pem"}

\* The frame of a call: read is what it has read so far, by field.  A client is
\* what was read when it was built.
Frame(pc, key, read, result) == [pc |-> pc, key |-> key, read |-> read, result |-> result]

NothingRead == [f \in Fields |-> File("none", 0)]

\* Files in order, with a private key of a kind.
Issued(kind) == [f \in Fields |-> File(IF f = "private_key_file" THEN kind ELSE "pem", 0)]

Working == {"paths", "cert", "pkcs8", "rsa", "roots", "build"}

Init ==
  /\ \E kind \in Intact("private_key_file") : files = [p \in Providers |-> Issued(kind)]
  /\ lock = {}
  /\ clients = [k \in {} |-> NothingRead]
  /\ call = [c \in Callers |-> Frame("idle", "none", NothingRead, <<>>)]
  /\ calm = [c \in Callers |-> TRUE]

Goto(c, pc) == call' = [call EXCEPT ![c] = Frame(pc, call[c].key, call[c].read, <<>>)]

\* The provider that a field is read from: the certificate and its key of the
\* one, the roots of the other.
Source(k, f) == IF f = "ca_certificate_file" THEN RootProvider[k] ELSE CertProvider[k]

\* client_for returns, and drops the guard of the mutex.
Return(c, result) ==
  /\ call' = [call EXCEPT ![c] = Frame("done", call[c].key, NothingRead, result)]
  /\ lock' = lock \ {c}

-----------------------------------------------------------------------------
(* client_for                                                              *)

Call(c, k) ==
  /\ call[c].pc = "idle"
  /\ call' = [call EXCEPT ![c] = Frame("lock", k, NothingRead, <<>>)]
  /\ UNCHANGED <<files, lock, clients, calm>>

\* Nothing panics while it holds the lock, so it is never poisoned.
Lock(c) ==
  /\ call[c].pc = "lock"
  /\ lock = {}
  /\ lock' = {c}
  /\ Goto(c, "lookup")
  /\ UNCHANGED <<files, clients, calm>>

LookupHit(c) ==
  /\ call[c].pc = "lookup"
  /\ call[c].key \in DOMAIN clients
  /\ Return(c, <<clients[call[c].key]>>)
  /\ UNCHANGED <<files, clients, calm>>

\* Mutant: the lock is not held while the files are read.
LookupMissUnlocking(c) ==
  /\ call[c].pc = "lookup"
  /\ call[c].key \notin DOMAIN clients
  /\ lock' = lock \ {c}
  /\ Goto(c, "paths")
  /\ UNCHANGED <<files, clients, calm>>

\* Mutant: the cache is not asked.
LookupNothing(c) ==
  /\ call[c].pc = "lookup"
  /\ Goto(c, "paths")
  /\ UNCHANGED <<files, lock, clients, calm>>

LookupMiss(c) ==
  /\ call[c].pc = "lookup"
  /\ call[c].key \notin DOMAIN clients
  /\ Goto(c, "paths")
  /\ UNCHANGED <<files, lock, clients, calm>>

\* GrpcBootstrap::provider and FileWatcherConfig::required_path, for the three
\* paths that tls_config needs.
Configured(k) == \A f \in Fields : Source(k, f) \in Providers /\ f \in Provider[Source(k, f)]

Paths(c) ==
  /\ call[c].pc = "paths"
  /\ \/ Configured(call[c].key) /\ Goto(c, "cert") /\ UNCHANGED lock
     \/ ~ Configured(call[c].key) /\ Return(c, <<>>)
  /\ UNCHANGED <<files, clients, calm>>

FileOf(c, f) == files[Source(call[c].key, f)][f]

\* A file is read, and the call goes on with what is in it.
Loaded(c, f, pc) ==
  /\ call' = [call EXCEPT ![c] =
       Frame(pc, call[c].key, [call[c].read EXCEPT ![f] = FileOf(c, f)], <<>>)]
  /\ UNCHANGED lock

\* Mutant: a file that does not load is tried again.
LoadCertsRetrying(c) ==
  /\ call[c].pc = "cert"
  /\ FileOf(c, "certificate_file").kind = "pem"
  /\ Loaded(c, "certificate_file", "pkcs8")
  /\ UNCHANGED <<files, clients, calm>>

LoadCerts(c) ==
  /\ call[c].pc = "cert"
  /\ \/ FileOf(c, "certificate_file").kind = "pem" /\ Loaded(c, "certificate_file", "pkcs8")
     \/ FileOf(c, "certificate_file").kind = "bad" /\ Return(c, <<>>)
  /\ UNCHANGED <<files, clients, calm>>

\* Mutant: keys are looked for in PKCS8 form only.
LoadPkcs8Only(c) ==
  /\ call[c].pc = "pkcs8"
  /\ LET kind == FileOf(c, "private_key_file").kind IN
       \/ kind \in {"pkcs8", "unsupported"} /\ Loaded(c, "private_key_file", "roots")
       \/ kind \in {"rsa", "other", "bad"} /\ Return(c, <<>>)
  /\ UNCHANGED <<files, clients, calm>>

\* load_private_key opens the file for PKCS8 keys, and again for RSA keys when
\* it has found none.
LoadPkcs8(c) ==
  /\ call[c].pc = "pkcs8"
  /\ LET kind == FileOf(c, "private_key_file").kind IN
       \/ kind \in {"pkcs8", "unsupported"} /\ Loaded(c, "private_key_file", "roots")
       \/ kind \in {"rsa", "other"} /\ Goto(c, "rsa") /\ UNCHANGED lock
       \/ kind = "bad" /\ Return(c, <<>>)
  /\ UNCHANGED <<files, clients, calm>>

\* Mutant: the key found is not taken over.
LoadRsaForgetting(c) ==
  /\ call[c].pc = "rsa"
  /\ Goto(c, "roots")
  /\ UNCHANGED <<files, lock, clients, calm>>

LoadRsa(c) ==
  /\ call[c].pc = "rsa"
  /\ LET kind == FileOf(c, "private_key_file").kind IN
       \/ kind = "rsa" /\ Loaded(c, "private_key_file", "roots")
       \/ kind # "rsa" /\ Return(c, <<>>)
  /\ UNCHANGED <<files, clients, calm>>

\* Mutant: the roots are taken from the certificate provider.
LoadRootsOfCertificate(c) ==
  /\ call[c].pc = "roots"
  /\ LET ca == files[CertProvider[call[c].key]]["ca_certificate_file"] IN
       \/ /\ ca.kind = "pem"
          /\ call' = [call EXCEPT ![c] = Frame("build", call[c].key,
               [call[c].read EXCEPT !["ca_certificate_file"] = ca], <<>>)]
          /\ UNCHANGED lock
       \/ ca.kind = "bad" /\ Return(c, <<>>)
  /\ UNCHANGED <<files, clients, calm>>

LoadRoots(c) ==
  /\ call[c].pc = "roots"
  /\ \/ FileOf(c, "ca_certificate_file").kind = "pem" /\ Loaded(c, "ca_certificate_file", "build")
     \/ FileOf(c, "ca_certificate_file").kind = "bad" /\ Return(c, <<>>)
  /\ UNCHANGED <<files, clients, calm>>

\* with_client_auth_cert rejects a key it cannot sign with; it does not compare
\* the key with the certificate.
BuildFails(c) ==
  /\ call[c].pc = "build"
  /\ call[c].read["private_key_file"].kind = "unsupported"
  /\ Return(c, <<>>)
  /\ UNCHANGED <<files, clients, calm>>

Build(c) ==
  /\ call[c].pc = "build"
  /\ call[c].read["private_key_file"].kind # "unsupported"
  /\ clients' = [k \in DOMAIN clients \cup {call[c].key} |->
                   IF k = call[c].key THEN call[c].read ELSE clients[k]]
  /\ Return(c, <<call[c].read>>)
  /\ UNCHANGED <<files, calm>>

client_for(c) ==
  \/ Lock(c) \/ LookupHit(c) \/ LookupMiss(c) \/ Paths(c)
  \/ LoadCerts(c) \/ LoadPkcs8(c) \/ LoadRsa(c) \/ LoadRoots(c)
  \/ BuildFails(c) \/ Build(c)

-----------------------------------------------------------------------------
(* The environment: files are replaced one at a time.                      *)

Needs(c, p, f) == call[c].pc # "idle" /\ Source(call[c].key, f) = p

Replace(p, f, kind) ==
  /\ files[p][f].rotation < MaxRotations
  /\ files' = [files EXCEPT ![p] =
       [files[p] EXCEPT ![f] = File(kind, files[p][f].rotation + 1)]]
  /\ calm' = [c \in Callers |-> calm[c] /\ ~ Needs(c, p, f)]
  /\ UNCHANGED <<lock, clients, call>>

Next ==
  \/ \E c \in Callers : client_for(c) \/ \E k \in Keys : Call(c, k)
  \/ \E p \in Providers : \E f \in Provider[p] : \E kind \in Kinds(f) : Replace(p, f, kind)

SafetySpec == Init /\ [][Next]_vars

\* A thread that holds the lock, or could take it, runs on.  Callers call once:
\* the mutex promises no order among callers that come back again and again.
Spec == SafetySpec /\ \A c \in Callers : WF_vars(client_for(c))

-----------------------------------------------------------------------------
(* Properties                                                              *)

\* The clients that can be built: from files in order.
Client == {client \in [Fields -> [kind : UNION {Intact(f) : f \in Fields}, rotation : Rotations]] :
             \A f \in Fields : client[f].kind \in Intact(f)}

\* Type invariant of the client pool; a cached client is made of files that were
\* in order when they were read.
TypeOK ==
  /\ lock \subseteq Callers
  /\ DOMAIN clients \subseteq Keys
  /\ \A k \in DOMAIN clients : clients[k] \in Client
  /\ \A c \in Callers :
       /\ call[c].pc \in {"idle", "lock", "lookup", "done"} \cup Working
       /\ call[c].pc # "idle" => call[c].key \in Keys
  /\ calm \in [Callers -> BOOLEAN]

\* All requests that ever get a client for a key get the same one, the cached
\* one: no two callers of client_for build a client for a key, so there is one
\* connection pool for each.
OneClientPerKey ==
  \A c \in Callers : call[c].pc = "done" /\ call[c].result # <<>> =>
    /\ call[c].key \in DOMAIN clients
    /\ call[c].result = <<clients[call[c].key]>>

Loadable(k) ==
  Configured(k) /\ \A f \in Fields : files[Source(k, f)][f].kind \in Intact(f)

\* client_for fails only for cause: when the providers lack a path, when a file
\* it needs is not in order, or when one is replaced during the call.  In
\* particular no earlier failure, of this or another caller, is held against it.
FailsForCause ==
  \A c \in Callers : call[c].pc = "done" /\ call[c].result = <<>> /\ calm[c] =>
    ~ Loadable(call[c].key)

\* A client never mixes files of the two providers up, nor two rotations of
\* them unless one is replaced while it is built: a client that is built while
\* the files stay as they are holds exactly what is in them.
ReadsOwnFiles ==
  \A c \in Callers : call[c].pc = "build" /\ calm[c] =>
    \A f \in Fields : call[c].read[f] = FileOf(c, f)

\* Every call returns: no error path keeps the lock, and no caller waits inside.
EveryCallReturns ==
  \A c \in Callers : call[c].pc # "idle" ~> call[c].pc = "done"

Cache == INSTANCE ClientCache
  WITH Built <- Client, cache <- clients,
       asked <- [c \in Callers |->
         [pc |-> IF call[c].pc \in {"idle", "done"} THEN call[c].pc ELSE "asked",
          key |-> call[c].key, answer |-> call[c].result]]

\* To its callers the pool looks as if each call happened at one instant, as
\* module Forward takes it.
ImplementsCache == Cache!Spec

==============================================================================
