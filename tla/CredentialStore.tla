--------------------------- MODULE CredentialStore ---------------------------
(***************************************************************************)
(* What the admin commands promise to those who look up credentials, with  *)
(* nothing said of processes, files, transactions or faults: a store of    *)
(* secrets and a table of credentials, changed one credential at a time.   *)
(* Of a credential that is mixed, that is, whose commands met, less is     *)
(* promised; when all are, nothing is promised of the secrets.             *)
(***************************************************************************)
EXTENDS Integers

CONSTANTS Refs, Accounts, AccountOf, Values

VARIABLES
    accounts,   \* the accounts there are
    rows,       \* the credentials that are listed
    secrets,    \* what the store serves for each
    mixed       \* the credentials whose commands met

vars == <<accounts, rows, secrets, mixed>>

NoEntry == 0

Init ==
    /\ accounts = Accounts
    /\ rows = {}
    /\ secrets = [r \in Refs |-> NoEntry]
    /\ mixed = {}

(* A later value than the one there: no old value ever comes back.         *)
Put(r, v) ==
    /\ v > secrets[r] \/ (r \in mixed /\ v # NoEntry)
    /\ secrets' = [secrets EXCEPT ![r] = v]
    /\ UNCHANGED <<accounts, rows, mixed>>

Remove(r) ==
    /\ secrets' = [secrets EXCEPT ![r] = NoEntry]
    /\ UNCHANGED <<accounts, rows, mixed>>

(* Only what can be looked up is listed.                                   *)
List(r) ==
    /\ AccountOf[r] \in accounts
    /\ secrets[r] # NoEntry \/ r \in mixed
    /\ rows' = rows \cup {r}
    /\ UNCHANGED <<accounts, secrets, mixed>>

Unlist(r) ==
    /\ rows' = rows \ {r}
    /\ UNCHANGED <<accounts, secrets, mixed>>

Close(a) ==
    /\ accounts' = accounts \ {a}
    /\ rows' = {r \in rows : AccountOf[r] # a}
    /\ UNCHANGED <<secrets, mixed>>

Mix ==
    /\ mixed' \in SUBSET Refs /\ mixed \subseteq mixed'
    /\ UNCHANGED <<accounts, rows, secrets>>

Garble ==
    /\ mixed = Refs
    /\ secrets' \in [Refs -> Values]
    /\ UNCHANGED <<accounts, rows, mixed>>

Next ==
    \/ \E r \in Refs : Remove(r) \/ List(r) \/ Unlist(r)
    \/ \E r \in Refs, v \in Values : Put(r, v)
    \/ \E a \in Accounts : Close(a)
    \/ Mix \/ Garble

Spec == Init /\ [][Next]_vars
=============================================================================
