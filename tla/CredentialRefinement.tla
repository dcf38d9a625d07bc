------------------------ MODULE CredentialRefinement ------------------------
(* The commands on the vault file and the rows implement the store.        *)
EXTENDS CredentialVault

Store == INSTANCE CredentialStore WITH
           secrets <- file.secrets,
           mixed   <- IF met # {} THEN Refs ELSE contested

(***************************************************************************)
(* To a reader, commands that read, rewrite and replace the whole vault    *)
(* and then commit their row, beside others and whatever dies or fails,    *)
(* are changes of one credential at a time: the secret first, the row only *)
(* when the secret is there, and no value that was replaced before.        *)
(***************************************************************************)
KeepsStore == Store!Spec
=============================================================================
