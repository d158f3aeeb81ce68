------------------------------- MODULE MCSignIn -------------------------------
(***************************************************************************)
(* An instance of SignIn for TLC: every client with every store.           *)
(***************************************************************************)
EXTENDS SignIn

AllClients == ClientKinds
AllSecretStores == SecretStoreKinds

=============================================================================
