---------------------------- MODULE MCClientPool -----------------------------
(***************************************************************************)
(* Instance of ClientPool: a key whose files are all of one provider, one  *)
(* that takes its roots from another, and one whose certificate provider   *)
(* configures no certificate.                                              *)
(***************************************************************************)
EXTENDS ClientPool

MCProvider == [default |-> Fields, roots |-> {"ca_certificate_file"}]

MCCertProvider == [own |-> "default", split |-> "default", unset |-> "roots"]
MCRootProvider == [own |-> "default", split |-> "roots", unset |-> "default"]

==============================================================================
