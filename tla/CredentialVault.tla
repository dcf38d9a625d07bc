--------------------------- MODULE CredentialVault ---------------------------
(***************************************************************************)
(* The local secrets backend and the admin commands that write credentials:*)
(* the encrypted vault file, and the rows of vendor_credentials that refer *)
(* to its entries.                                                         *)
(*                                                                         *)
(* Every command is a process of its own, so the asyncio.Lock of the       *)
(* backend keeps nobody out: two commands share the vault file and its one *)
(* temporary file.  A step is one call on a file or one transaction.       *)
(***************************************************************************)
EXTENDS Integers

CONSTANTS
    Refs,           \* the credentials: an account and a key, or their secret_ref
    Accounts,
    AccountOf,      \* AccountOf[r]: the account of credential r
    Procs,          \* command processes that may run at the same time
    MaxCommands,    \* bound on the commands started
    MaxFaults       \* bound on deaths of a process and failures of the backend

ASSUME RefsAssumption == Refs # {} /\ AccountOf \in [Refs -> Accounts]
ASSUME BoundsAssumption == MaxCommands \in Nat /\ MaxFaults \in Nat

VARIABLES
    accounts,   \* the rows of accounts
    rows,       \* the rows of vendor_credentials
    file, tmp,  \* vault.enc and vault.enc.tmp
    proc,       \* the command each process carries out
    started,    \* how many commands have been started
    faults,     \* how many faults have struck
    met,        \* history: whose commands were in the vault beside another
    contested,  \* history: two commands for the credential overlapped
    cut,        \* history: the last delete got as far as the vault, not the row
    truth       \* history: what the commands have written, one by one

store   == <<file, tmp, truth>>
history == <<met, contested, cut>>
vars    == <<accounts, rows, file, tmp, proc, started, faults,
             met, contested, cut, truth>>

(* The value a command writes is named by its number, 0 is no entry.       *)
Values    == 0..MaxCommands
NoEntry   == 0
NoSecrets == [r \in Refs |-> NoEntry]

(* A file: not there, truncated, a part or a mixture of tokens, or one     *)
(* token behind its salt, which holds the secrets.                         *)
Contents == [is : {"absent", "empty", "torn", "token"}, secrets : [Refs -> Values]]

Absent     == [is |-> "absent", secrets |-> NoSecrets]
Empty      == [is |-> "empty", secrets |-> NoSecrets]
Torn       == [is |-> "torn", secrets |-> NoSecrets]
Token(s)   == [is |-> "token", secrets |-> s]

Commands == {"set", "rotate", "delete"}
Points   == {"idle", "look", "read", "open", "fill", "replace", "row"}

Command ==
    [at : Points, op : Commands, ref : Refs, val : Values,
     blob : [Refs -> Values],                       \* the secrets it read, edited
     handle : {"none", "tmp", "file", "unlinked"}]  \* where its open file is now

NoCommand ==
    [at |-> "idle", op |-> "set", ref |-> CHOOSE r \in Refs : TRUE, val |-> 0,
     blob |-> NoSecrets, handle |-> "none"]

-----------------------------------------------------------------------------

Running  == {p \in Procs : proc[p].at # "idle"}

(* Between reading the vault and replacing it.                             *)
InVault(p) == proc[p].at \in {"open", "fill", "replace"}

To(p, point) == proc' = [proc EXCEPT ![p].at = point]

(* A process that ends; its open file, if any, is closed.                  *)
Ends(p) == proc' = [proc EXCEPT ![p] = NoCommand]

Strikes == faults < MaxFaults /\ faults' = faults + 1

-----------------------------------------------------------------------------
(* The commands: cred set, rotate and delete up to the backend.            *)

Start(p) ==
    /\ proc[p].at = "idle"
    /\ started < MaxCommands
    /\ started' = started + 1
    /\ \E op \in Commands, r \in Refs :
         /\ proc' = [proc EXCEPT ![p] =
                [at |-> "look", op |-> op, ref |-> r, val |-> started + 1,
                 blob |-> NoSecrets, handle |-> "none"]]
         /\ contested' = IF \E q \in Running : proc[q].ref = r
                         THEN contested \cup {r} ELSE contested
    /\ UNCHANGED <<accounts, rows, store, faults, met, cut>>

(* set looks for its account, rotate and delete look for their row.        *)
Found(p) ==
    IF proc[p].op = "set" THEN AccountOf[proc[p].ref] \in accounts
    ELSE proc[p].ref \in rows

Look(p) ==
    /\ proc[p].at = "look"
    /\ IF Found(p) THEN To(p, "read") ELSE Ends(p)
    /\ UNCHANGED <<accounts, rows, store, started, faults, history>>

-----------------------------------------------------------------------------
(* LocalEncryptedBackend.                                                  *)

Readable == file.is \in {"absent", "token"}

Edited_ForgetsOthers(p, secrets) ==     \* mutant: the blob is made anew
    [r \in Refs |-> IF r = proc[p].ref /\ proc[p].op # "delete"
                    THEN proc[p].val ELSE NoEntry]

Edited_KeepsOldValue(p, secrets) ==     \* mutant: an entry there is left alone
    [secrets EXCEPT ![proc[p].ref] = IF proc[p].op = "delete" THEN NoEntry
                                     ELSE IF @ # NoEntry THEN @ ELSE proc[p].val]

(* put and rotate set the entry, delete removes it.                        *)
Edited(p, secrets) ==
    [secrets EXCEPT ![proc[p].ref] =
        IF proc[p].op = "delete" THEN NoEntry ELSE proc[p].val]

(* delete writes nothing when there is no entry.                           *)
Superfluous(p) == proc[p].op = "delete" /\ file.secrets[proc[p].ref] = NoEntry

(* Those p finds in the vault, and p with them: it will write back what it *)
(* has read, whatever they write meanwhile.                                *)
Meets(p) ==
    LET others == {q \in Procs : InVault(q)}
    IN  IF others = {} THEN {} ELSE {proc[q].ref : q \in others \cup {p}}

ReadVault(p) ==
    /\ proc[p].at = "read"
    /\ Readable
    /\ proc' = [proc EXCEPT ![p] =
                   [proc[p] EXCEPT !.at = IF Superfluous(p) THEN "row" ELSE "open",
                                   !.blob = Edited(p, file.secrets)]]
    /\ met' = IF Superfluous(p) THEN met ELSE met \cup Meets(p)
    /\ UNCHANGED <<accounts, rows, store, started, faults, contested, cut>>

OpenTmp_InPlace(p) ==       \* mutant: the vault file itself is opened
    /\ proc[p].at = "open"
    /\ file' = Empty
    /\ proc' = [proc EXCEPT ![p] =
                   [proc[p] EXCEPT !.at = "fill", !.handle = "file"]]
    /\ UNCHANGED <<accounts, rows, tmp, truth, started, faults, history>>

(* Opening for writing creates the file or truncates the one that is there,*)
(* be it another command's.                                                *)
OpenTmp(p) ==
    /\ proc[p].at = "open"
    /\ tmp' = Empty
    /\ proc' = [proc EXCEPT ![p] =
                   [proc[p] EXCEPT !.at = "fill", !.handle = "tmp"]]
    /\ UNCHANGED <<accounts, rows, file, truth, started, faults, history>>

(* Writing over what another command has written meanwhile may leave the   *)
(* end of the longer token behind the shorter one.                         *)
Written(old, new) ==
    IF old.is = "empty" THEN {Token(new)} ELSE {Token(new), Torn}

FillTmp(p) ==
    /\ proc[p].at = "fill"
    /\ \/ /\ proc[p].handle = "tmp"
          /\ tmp' \in Written(tmp, proc[p].blob) /\ file' = file
       \/ /\ proc[p].handle = "file"
          /\ file' \in Written(file, proc[p].blob) /\ tmp' = tmp
       \/ /\ proc[p].handle = "unlinked"
          /\ UNCHANGED <<file, tmp>>
    /\ proc' = [proc EXCEPT ![p] =
                   [proc[p] EXCEPT !.at = "replace", !.handle = "none"]]
    /\ UNCHANGED <<accounts, rows, truth, started, faults, history>>

(* What becomes of the others' open files when tmp takes the vault's name. *)
Moved(handle) ==
    IF handle = "tmp" THEN "file"
    ELSE IF handle = "file" THEN "unlinked" ELSE handle

(* os.replace.                                                             *)
ReplaceVault(p) ==
    /\ proc[p].at = "replace"
    /\ tmp.is # "absent"
    /\ file' = tmp /\ tmp' = Absent
    /\ truth' = [truth EXCEPT ![proc[p].ref] =
                   IF proc[p].op = "delete" THEN NoEntry ELSE proc[p].val]
    /\ proc' = [q \in Procs |->
                  IF q = p THEN [proc[p] EXCEPT !.at = "row"]
                  ELSE [proc[q] EXCEPT !.handle = Moved(proc[q].handle)]]
    /\ cut' = IF proc[p].op = "delete" THEN cut ELSE cut \ {proc[p].ref}
    /\ UNCHANGED <<accounts, rows, started, faults, met, contested>>

-----------------------------------------------------------------------------
(* The row, in a transaction of its own, and the end of the command.       *)

(* The upsert of set and rotate fails when the account is gone (foreign    *)
(* key); the command is then over as well.                                 *)
UpsertCredential(ref) ==
    IF AccountOf[ref] \in accounts THEN rows \cup {ref} ELSE rows

DeleteCredential(ref) == rows \ {ref}

CommitRow(p) ==
    /\ proc[p].at = "row"
    /\ rows' = IF proc[p].op = "delete" THEN DeleteCredential(proc[p].ref)
               ELSE UpsertCredential(proc[p].ref)
    /\ cut' = IF proc[p].op = "delete" THEN cut \ {proc[p].ref} ELSE cut
    /\ Ends(p)
    /\ UNCHANGED <<accounts, store, started, faults, met, contested>>

RemoveAccount_NoCascade(a) ==    \* mutant: the rows stay
    /\ a \in accounts
    /\ accounts' = accounts \ {a}
    /\ UNCHANGED <<rows, store, proc, started, faults, history>>

(* ON DELETE CASCADE.                                                      *)
RowsWithout(a) == {r \in rows : AccountOf[r] # a}

(* account remove; the credentials' rows go with it, their secrets stay.   *)
RemoveAccount(a) ==
    /\ a \in accounts
    /\ accounts' = accounts \ {a}
    /\ rows' = RowsWithout(a)
    /\ UNCHANGED <<store, proc, started, faults, history>>

-----------------------------------------------------------------------------
(* Failures.                                                               *)

ToRow(p) ==
    proc' = [proc EXCEPT ![p] = [proc[p] EXCEPT !.at = "row", !.handle = "none"]]

AfterBackendFailure_GoesOn(p) == ToRow(p)   \* mutant: every command goes on

(* delete reports a failing backend and goes on to its row, set and rotate *)
(* end.                                                                    *)
AfterBackendFailure(p) ==
    IF proc[p].op = "delete" THEN ToRow(p) ELSE Ends(p)

(* The vault cannot be decrypted, or its temporary file has been taken     *)
(* away by another command's replace.                                      *)
VaultFails(p) ==
    /\ \/ proc[p].at = "read" /\ ~Readable
       \/ proc[p].at = "replace" /\ tmp.is = "absent"
    /\ AfterBackendFailure(p)
    /\ UNCHANGED <<accounts, rows, store, started, faults, history>>

(* Half-way through writing, a part of the token may be in the file.       *)
CutOff(p) ==
    \/ UNCHANGED <<file, tmp>>
    \/ proc[p].at = "fill" /\ proc[p].handle = "tmp" /\ tmp' = Torn /\ file' = file
    \/ proc[p].at = "fill" /\ proc[p].handle = "file" /\ file' = Torn /\ tmp' = tmp

(* A wrong or missing master key, a full disk, a directory without access. *)
VaultRaises(p) ==
    /\ Strikes
    /\ proc[p].at \in {"read", "open", "fill", "replace"}
    /\ CutOff(p)
    /\ AfterBackendFailure(p)
    /\ UNCHANGED <<accounts, rows, truth, started, history>>

(* The process is killed, or a transaction of its own fails.               *)
Dies(p) ==
    /\ Strikes
    /\ p \in Running
    /\ CutOff(p)
    /\ Ends(p)
    /\ cut' = IF proc[p].at = "row" /\ proc[p].op = "delete"
              THEN cut \cup {proc[p].ref} ELSE cut
    /\ UNCHANGED <<accounts, rows, truth, started, met, contested>>

-----------------------------------------------------------------------------

Init ==
    /\ accounts = Accounts /\ rows = {}
    /\ file = Absent /\ tmp = Absent
    /\ proc = [p \in Procs |-> NoCommand]
    /\ started = 0 /\ faults = 0
    /\ met = {} /\ contested = {} /\ cut = {}
    /\ truth = NoSecrets

Step(p) ==
    \/ Look(p) \/ ReadVault(p) \/ OpenTmp(p) \/ FillTmp(p) \/ ReplaceVault(p)
    \/ CommitRow(p) \/ VaultFails(p)

Next ==
    \/ \E p \in Procs : Start(p) \/ Step(p) \/ VaultRaises(p) \/ Dies(p)
    \/ \E a \in Accounts : RemoveAccount(a)

Spec == Init /\ [][Next]_vars

-----------------------------------------------------------------------------
(* Properties.  The lock of the backend does not reach across processes,   *)
(* and the code loses and tears what two of them write at the same time.   *)
(* What it still keeps is stated for each credential: the others' commands *)
(* may have met in the vault, its own not.                                 *)

Undisturbed(r) == Readable /\ r \notin met \cup contested

(* Among the types: no row of vendor_credentials outlives its account      *)
(* (the foreign key and its cascade, against a set that began before).     *)
TypeOK ==
    /\ accounts \subseteq Accounts
    /\ rows \subseteq {r \in Refs : AccountOf[r] \in accounts}
    /\ file \in Contents /\ tmp \in Contents
    /\ proc \in [Procs -> Command]
    /\ started \in 0..MaxCommands /\ faults \in 0..MaxFaults
    /\ met \subseteq Refs /\ contested \subseteq Refs /\ cut \subseteq Refs
    /\ truth \in [Refs -> Values]

(* Until two commands meet in it, the vault file is always one whole token,*)
(* or not there yet: a process that dies half-way through writing, and the *)
(* temporary file it leaves to the next command, never show (local.py:10,  *)
(* _write_blob).                                                           *)
VaultIsWhole == met = {} => Readable

(* Whatever dies, fails or meets in the vault, only the credentials whose  *)
(* own commands met another there can lose an update: any other reads back *)
(* what was last written, however the commands that did meet write back    *)
(* what they read of it, share the temporary file and take it from each    *)
(* other (put, rotate, delete).  Should the file have been torn by them,   *)
(* the same holds once it can be read again.                               *)
NoUpdateIsLost ==
    Readable => \A r \in Refs \ met : file.secrets[r] = truth[r]

(* A committed row refers to a secret that is there, whatever died, failed *)
(* or removed the account in between: set and rotate write the vault first,*)
(* delete the row last.  It may be gone only while a delete is on its way  *)
(* from the vault to the row, or when it died there.                       *)
RowsHaveSecrets ==
    \A r \in rows :
        \/ ~Undisturbed(r) \/ r \in cut
        \/ \E p \in Procs :
             proc[p].at = "row" /\ proc[p].op = "delete" /\ proc[p].ref = r
        \/ file.secrets[r] # NoEntry

(* When set or rotate reports success, a vault that can be read serves the *)
(* value it was given, also if commands for other credentials ran beside   *)
(* it, and met each other in the vault.                                    *)
ReportedIsServed ==
    [][\A p \in Procs :
         CommitRow(p) /\ proc[p].op # "delete" /\ proc[p].ref \in rows'
            /\ Undisturbed(proc[p].ref)
         => file.secrets[proc[p].ref] = proc[p].val]_vars
=============================================================================
