------------------------ MODULE CredentialVaultProofs ------------------------
(* For any number of credentials, accounts, processes and faults: what the *)
(* vault and the rows keep, whole as long as commands do not meet in the   *)
(* vault, and for those that met nobody afterwards.                        *)
EXTENDS CredentialRefinement, TLAPS

USE RefsAssumption, BoundsAssumption

-----------------------------------------------------------------------------
(* The pieces a step writes are of their types.                            *)

LEMMA NoCommandType == NoCommand \in Command
<1>1. NoSecrets \in [Refs -> Values] /\ (CHOOSE r \in Refs : TRUE) \in Refs
  BY DEF NoSecrets, Values, NoEntry
<1> QED
  BY <1>1 DEF NoCommand, Command, Points, Commands, Values

LEMMA ContentsTypes ==
    /\ Absent \in Contents /\ Empty \in Contents /\ Torn \in Contents
    /\ \A s \in [Refs -> Values] : Token(s) \in Contents
<1>1. NoSecrets \in [Refs -> Values]
  BY DEF NoSecrets, Values, NoEntry
<1> QED
  BY <1>1 DEF Absent, Empty, Torn, Token, Contents

LEMMA EditedType ==
    ASSUME NEW p \in Procs, proc[p] \in Command, NEW secrets \in [Refs -> Values]
    PROVE  Edited(p, secrets) \in [Refs -> Values]
BY DEF Edited, Command, Values, NoEntry

(* A command that takes a step of its own stays a command.                 *)
LEMMA ProcType ==
    ASSUME proc \in [Procs -> Command], NEW p \in Procs, NEW c \in Command,
           proc' = [proc EXCEPT ![p] = c]
    PROVE  proc' \in [Procs -> Command]
OBVIOUS

LEMMA EndsType ==
    ASSUME proc \in [Procs -> Command], NEW p \in Procs, Ends(p)
    PROVE  proc' \in [Procs -> Command]
BY NoCommandType DEF Ends

LEMMA ToType ==
    ASSUME proc \in [Procs -> Command], NEW p \in Procs, NEW point \in Points,
           To(p, point)
    PROVE  proc' \in [Procs -> Command]
BY DEF To, Command

LEMMA AfterBackendFailureType ==
    ASSUME proc \in [Procs -> Command], NEW p \in Procs, AfterBackendFailure(p)
    PROVE  proc' \in [Procs -> Command]
<1>1. [proc[p] EXCEPT !.at = "row", !.handle = "none"] \in Command
  BY DEF Command, Points
<1> QED
  BY <1>1, EndsType DEF AfterBackendFailure, ToRow

LEMMA CutOffType ==
    ASSUME TypeOK, NEW p \in Procs, CutOff(p)
    PROVE  file' \in Contents /\ tmp' \in Contents
BY ContentsTypes DEF CutOff, TypeOK

-----------------------------------------------------------------------------
(* The type invariant.                                                     *)

LEMMA TypeInit == Init => TypeOK
<1>1. NoSecrets \in [Refs -> Values]
  BY DEF NoSecrets, Values, NoEntry
<1>3. Init => proc \in [Procs -> Command]
  BY NoCommandType DEF Init
<1>4. Init => file \in Contents /\ tmp \in Contents
  BY ContentsTypes DEF Init
<1> QED
  BY <1>1, <1>3, <1>4 DEF Init, TypeOK

LEMMA TypeStart ==
    ASSUME TypeOK, NEW p \in Procs, Start(p)
    PROVE  TypeOK'
<1>1. started + 1 \in Values /\ started + 1 \in 0..MaxCommands
  BY DEF TypeOK, Start, Values
<1>2. PICK op \in Commands, r \in Refs :
        /\ proc' = [proc EXCEPT ![p] =
             [at |-> "look", op |-> op, ref |-> r, val |-> started + 1,
              blob |-> NoSecrets, handle |-> "none"]]
        /\ contested' = IF \E q \in Running : proc[q].ref = r
                        THEN contested \cup {r} ELSE contested
  BY DEF Start
<1>3. [at |-> "look", op |-> op, ref |-> r, val |-> started + 1,
       blob |-> NoSecrets, handle |-> "none"] \in Command
  <2>1. NoSecrets \in [Refs -> Values]
    BY DEF NoSecrets, Values, NoEntry
  <2> QED
    BY <1>1, <2>1 DEF Command, Points
<1>4. proc' \in [Procs -> Command]
  BY <1>2, <1>3 DEF TypeOK
<1>5. contested' \subseteq Refs
  BY <1>2 DEF TypeOK
<1> QED
  BY <1>1, <1>4, <1>5 DEF TypeOK, Start, store

LEMMA TypeStep ==
    ASSUME TypeOK, NEW p \in Procs, Step(p)
    PROVE  TypeOK'
<1>0. /\ proc \in [Procs -> Command] /\ proc[p] \in Command
      /\ file \in Contents /\ tmp \in Contents /\ file.secrets \in [Refs -> Values]
      /\ proc[p].blob \in [Refs -> Values] /\ proc[p].ref \in Refs
      /\ proc[p].val \in Values
  BY DEF TypeOK, Command, Contents
<1>1. CASE Look(p)
  <2>1. proc' \in [Procs -> Command]
    BY <1>0, <1>1, ToType, EndsType DEF Look, Points
  <2> QED
    BY <1>1, <2>1 DEF Look, TypeOK, store, history
<1>2. CASE ReadVault(p)
  <2>1. Edited(p, file.secrets) \in [Refs -> Values]
    BY <1>0, EditedType
  <2>2. [proc[p] EXCEPT !.at = IF Superfluous(p) THEN "row" ELSE "open",
                        !.blob = Edited(p, file.secrets)] \in Command
    BY <1>0, <2>1 DEF Command, Points
  <2>3. proc' \in [Procs -> Command]
    BY <1>0, <1>2, <2>2 DEF ReadVault
  <2>4. met' \subseteq Refs
    BY <1>0, <1>2 DEF ReadVault, Meets, TypeOK, Command
  <2> QED
    BY <1>2, <2>3, <2>4 DEF ReadVault, TypeOK, store
<1>3. CASE OpenTmp(p)
  <2>1. [proc[p] EXCEPT !.at = "fill", !.handle = "tmp"] \in Command
    BY <1>0 DEF Command, Points
  <2>2. proc' \in [Procs -> Command]
    BY <1>0, <1>3, <2>1 DEF OpenTmp
  <2> QED
    BY <1>3, <2>2, ContentsTypes DEF OpenTmp, TypeOK, history
<1>4. CASE FillTmp(p)
  <2>1. [proc[p] EXCEPT !.at = "replace", !.handle = "none"] \in Command
    BY <1>0 DEF Command, Points
  <2>2. proc' \in [Procs -> Command]
    BY <1>0, <1>4, <2>1 DEF FillTmp
  <2>3. Written(tmp, proc[p].blob) \subseteq Contents
        /\ Written(file, proc[p].blob) \subseteq Contents
    BY <1>0, ContentsTypes DEF Written
  <2>4. tmp' \in Contents /\ file' \in Contents
    BY <1>0, <1>4, <2>3 DEF FillTmp
  <2> QED
    BY <1>4, <2>2, <2>4 DEF FillTmp, TypeOK, history
<1>5. CASE ReplaceVault(p)
  <2>1. ASSUME NEW q \in Procs
        PROVE  (IF q = p THEN [proc[p] EXCEPT !.at = "row"]
                ELSE [proc[q] EXCEPT !.handle = Moved(proc[q].handle)]) \in Command
    <3>1. proc[q] \in Command
      BY <1>0
    <3>2. Moved(proc[q].handle) \in {"none", "tmp", "file", "unlinked"}
      BY <3>1 DEF Moved, Command
    <3> QED
      BY <1>0, <3>1, <3>2 DEF Command, Points
  <2>2. proc' \in [Procs -> Command]
    BY <1>5, <2>1 DEF ReplaceVault
  <2>3. truth' \in [Refs -> Values]
    BY <1>0, <1>5 DEF ReplaceVault, TypeOK, Values, NoEntry
  <2>4. cut' \subseteq Refs
    BY <1>5 DEF ReplaceVault, TypeOK
  <2> QED
    BY <1>0, <1>5, <2>2, <2>3, <2>4, ContentsTypes DEF ReplaceVault, TypeOK
<1>6. CASE CommitRow(p)
  <2>1. proc' \in [Procs -> Command]
    BY <1>0, <1>6, EndsType DEF CommitRow
  <2>2. rows' \subseteq {r \in Refs : AccountOf[r] \in accounts}
    BY <1>0, <1>6 DEF CommitRow, DeleteCredential, UpsertCredential, TypeOK
  <2>3. cut' \subseteq Refs
    BY <1>6 DEF CommitRow, TypeOK
  <2> QED
    BY <1>6, <2>1, <2>2, <2>3 DEF CommitRow, TypeOK, store
<1>7. CASE VaultFails(p)
  <2>1. proc' \in [Procs -> Command]
    BY <1>0, <1>7, AfterBackendFailureType DEF VaultFails
  <2> QED
    BY <1>7, <2>1 DEF VaultFails, TypeOK, store, history
<1> QED
  BY <1>1, <1>2, <1>3, <1>4, <1>5, <1>6, <1>7 DEF Step

LEMMA TypeNext == TypeOK /\ [Next]_vars => TypeOK'
<1> SUFFICES ASSUME TypeOK, [Next]_vars PROVE TypeOK'
  OBVIOUS
<1>0. proc \in [Procs -> Command] /\ faults \in Nat
  BY DEF TypeOK
<1>1. CASE \E p \in Procs : Start(p) \/ Step(p)
  BY <1>1, TypeStart, TypeStep
<1>2. ASSUME NEW p \in Procs, VaultRaises(p) PROVE TypeOK'
  <2>1. proc' \in [Procs -> Command]
    BY <1>0, <1>2, AfterBackendFailureType DEF VaultRaises
  <2>2. faults' \in 0..MaxFaults
    BY <1>0, <1>2 DEF VaultRaises, Strikes
  <2> QED
    BY <1>2, <2>1, <2>2, CutOffType DEF VaultRaises, TypeOK, history
<1>3. ASSUME NEW p \in Procs, Dies(p) PROVE TypeOK'
  <2>1. proc' \in [Procs -> Command]
    BY <1>0, <1>3, EndsType DEF Dies
  <2>2. faults' \in 0..MaxFaults
    BY <1>0, <1>3 DEF Dies, Strikes
  <2>3. cut' \subseteq Refs
    BY <1>0, <1>3 DEF Dies, TypeOK, Command
  <2> QED
    BY <1>3, <2>1, <2>2, <2>3, CutOffType DEF Dies, TypeOK
<1>4. ASSUME NEW a \in Accounts, RemoveAccount(a) PROVE TypeOK'
  BY <1>4 DEF RemoveAccount, RowsWithout, TypeOK, store, history
<1>5. CASE UNCHANGED vars
  BY <1>5 DEF vars, store, history, TypeOK
<1> QED
  BY <1>1, <1>2, <1>3, <1>4, <1>5 DEF Next

(* The commands keep to the types, and no row outlives its account.        *)
THEOREM VaultTypeCorrect == Spec => []TypeOK
  BY TypeInit, TypeNext, PTL DEF Spec

-----------------------------------------------------------------------------
(* Who touches what.                                                       *)

(* All of q's command but where its open file is.                          *)
Same(q) ==
    /\ proc'[q].at = proc[q].at /\ proc'[q].op = proc[q].op
    /\ proc'[q].ref = proc[q].ref /\ proc'[q].val = proc[q].val
    /\ proc'[q].blob = proc[q].blob

Fault(p) == VaultRaises(p) \/ Dies(p)

(* A step of one process leaves the commands of the others where they are. *)
LEMMA OthersStay ==
    ASSUME TypeOK, NEW p \in Procs, NEW q \in Procs, q # p,
           Step(p) \/ Fault(p) \/ Start(p)
    PROVE  Same(q)
<1>1. CASE ReplaceVault(p)
  BY <1>1 DEF ReplaceVault, Same, TypeOK, Command
<1>2. CASE ~ ReplaceVault(p)
  <2>1. proc'[q] = proc[q]
    BY <1>2 DEF Step, Fault, Look, ReadVault, OpenTmp, FillTmp, CommitRow, Start,
       VaultFails, VaultRaises, Dies, AfterBackendFailure, ToRow, Ends, To, TypeOK
  <2> QED
    BY <2>1 DEF Same
<1> QED
  BY <1>1, <1>2

(* A command keeps what it is for until it ends.                           *)
LEMMA CommandStays ==
    ASSUME TypeOK, NEW p \in Procs, Step(p) \/ Fault(p), proc'[p].at # "idle"
    PROVE  /\ proc'[p].op = proc[p].op /\ proc'[p].ref = proc[p].ref
           /\ proc'[p].val = proc[p].val /\ proc[p].at # "idle"
<1>1. proc[p] \in Command /\ proc \in [Procs -> Command] /\ NoCommand.at = "idle"
  BY DEF TypeOK, NoCommand
<1>2. CASE ReplaceVault(p)
  BY <1>1, <1>2 DEF ReplaceVault, Command
<1>3. CASE Look(p) \/ CommitRow(p) \/ Dies(p)
  BY <1>1, <1>3 DEF Look, CommitRow, Dies, Ends, To, Command, Running
<1>4. CASE ReadVault(p)
  BY <1>1, <1>4 DEF ReadVault, Command
<1>6. CASE OpenTmp(p)
  BY <1>1, <1>6 DEF OpenTmp, Command
<1>7. CASE FillTmp(p)
  BY <1>1, <1>7 DEF FillTmp, Command
<1>5. CASE VaultFails(p) \/ VaultRaises(p)
  BY <1>1, <1>5 DEF VaultFails, VaultRaises, AfterBackendFailure, ToRow, Ends, Command
<1> QED
  BY <1>2, <1>3, <1>4, <1>5, <1>6, <1>7 DEF Step, Fault

(* What is remembered as disturbed stays so.                               *)
LEMMA DisturbedStays ==
    ASSUME TypeOK, [Next]_vars
    PROVE  met \subseteq met' /\ contested \subseteq contested'
<1>1. ASSUME NEW p \in Procs, Start(p)
      PROVE  met \subseteq met' /\ contested \subseteq contested'
  BY <1>1 DEF Start
<1>2. ASSUME NEW p \in Procs, Step(p) \/ Fault(p)
      PROVE  met \subseteq met' /\ contested \subseteq contested'
  <2>1. CASE ReadVault(p)
    BY <2>1 DEF ReadVault
  <2>2. CASE ~ ReadVault(p)
    BY <1>2, <2>2 DEF Step, Fault, Look, OpenTmp, FillTmp, CommitRow,
     ReplaceVault, VaultFails, VaultRaises, Dies, history
  <2> QED
    BY <2>1, <2>2
<1>3. ASSUME NEW a \in Accounts, RemoveAccount(a)
      PROVE  met \subseteq met' /\ contested \subseteq contested'
  BY <1>3 DEF RemoveAccount, history
<1>4. CASE UNCHANGED vars
  BY <1>4 DEF vars, history
<1> QED
  BY <1>1, <1>2, <1>3, <1>4 DEF Next, Fault

-----------------------------------------------------------------------------
(* The vault file.                                                         *)

(* Two in the vault at the same time are known to have met.                *)
MeetingsAreSeen ==
    \A p, q \in Procs :
      InVault(p) /\ InVault(q) /\ p # q => proc[p].ref \in met

(* What a process in the vault carries, and what is in the temporary file  *)
(* from its opening on, is the truth but for its own edit and for those    *)
(* who have met.                                                           *)
BlobIsCurrent(p) ==
    InVault(p) =>
      \A r \in Refs \ met : proc[p].blob[r] = Edited(p, truth)[r]

TmpIsCurrent(p) ==
    proc[p].at \in {"fill", "replace"} /\ tmp.is = "token" =>
      \A r \in Refs \ met : r # proc[p].ref => tmp.secrets[r] = truth[r]

(* One who has met nobody has the temporary file to itself.                *)
TmpIsOwn(p) ==
    InVault(p) /\ proc[p].ref \notin met =>
      /\ proc[p].at = "fill" => proc[p].handle = "tmp" /\ tmp = Empty
      /\ proc[p].at = "replace" => tmp = Token(proc[p].blob)

VaultInvariant ==
    /\ MeetingsAreSeen
    /\ \A p \in Procs : BlobIsCurrent(p) /\ TmpIsCurrent(p) /\ TmpIsOwn(p)
    /\ VaultIsWhole
    /\ NoUpdateIsLost

(* Outside the vault nobody disturbs it.                                   *)
LEMMA QuietKeepsVault ==
    ASSUME VaultInvariant, UNCHANGED <<file, tmp, truth, met>>,
           \A q \in Procs : InVault(q)' => proc'[q] = proc[q]
    PROVE  VaultInvariant'
<1>1. \A q \in Procs : InVault(q)' => InVault(q) /\ proc'[q] = proc[q]
  BY DEF InVault
<1>2. MeetingsAreSeen'
  BY <1>1 DEF VaultInvariant, MeetingsAreSeen
<1>3. ASSUME NEW q \in Procs
      PROVE  BlobIsCurrent(q)' /\ TmpIsCurrent(q)' /\ TmpIsOwn(q)'
  <2>1. BlobIsCurrent(q)'
    BY <1>1 DEF VaultInvariant, BlobIsCurrent, Edited
  <2>2. TmpIsCurrent(q)'
    BY <1>1 DEF VaultInvariant, TmpIsCurrent, InVault
  <2>3. TmpIsOwn(q)'
    BY <1>1 DEF VaultInvariant, TmpIsOwn
  <2> QED
    BY <2>1, <2>2, <2>3
<1>4. VaultIsWhole' /\ NoUpdateIsLost'
  BY DEF VaultInvariant, VaultIsWhole, NoUpdateIsLost, Readable
<1> QED
  BY <1>2, <1>3, <1>4 DEF VaultInvariant

LEMMA ReadKeepsVault ==
    ASSUME TypeOK, VaultInvariant, NEW p \in Procs, ReadVault(p)
    PROVE  VaultInvariant'
<1>0. /\ proc \in [Procs -> Command] /\ proc[p] \in Command
      /\ proc[p].ref \in Refs
  BY DEF TypeOK, Command
<1>1. CASE Superfluous(p)
  <2>1. \A q \in Procs : InVault(q)' => proc'[q] = proc[q]
    BY <1>0, <1>1 DEF ReadVault, InVault, Command
  <2> QED
    BY <1>1, <2>1, QuietKeepsVault DEF ReadVault, store
<1>2. CASE ~Superfluous(p)
  <2>1. /\ Readable /\ UNCHANGED <<file, tmp, truth>> /\ ~InVault(p)
        /\ met' = met \cup Meets(p)
    BY <1>2 DEF ReadVault, store, InVault
  <2>2. /\ proc'[p].at = "open" /\ proc'[p].blob = Edited(p, file.secrets)
        /\ proc'[p].op = proc[p].op /\ proc'[p].ref = proc[p].ref
        /\ proc'[p].val = proc[p].val
        /\ \A q \in Procs : q # p => proc'[q] = proc[q]
    BY <1>0, <1>2 DEF ReadVault, Command
  <2>3. \A q \in Procs : q # p /\ InVault(q)
          => proc[q].ref \in met' /\ proc[p].ref \in met'
    BY <2>1 DEF Meets
  <2>4. MeetingsAreSeen'
    BY <2>2, <2>3 DEF MeetingsAreSeen, InVault
  <2>5. BlobIsCurrent(p)'
    <3>1. \A r \in Refs \ met' : file.secrets[r] = truth[r]
      BY <2>1 DEF VaultInvariant, NoUpdateIsLost
    <3>2. file.secrets \in [Refs -> Values] /\ truth \in [Refs -> Values]
      BY DEF TypeOK, Contents
    <3> QED
      BY <2>1, <2>2, <3>1, <3>2 DEF BlobIsCurrent, Edited
  <2>6. TmpIsCurrent(p)' /\ TmpIsOwn(p)'
    BY <2>2 DEF TmpIsCurrent, TmpIsOwn
  <2>7. ASSUME NEW q \in Procs, q # p
        PROVE  BlobIsCurrent(q)' /\ TmpIsCurrent(q)' /\ TmpIsOwn(q)'
    <3>1. proc'[q] = proc[q] /\ (InVault(q)' <=> InVault(q)) /\ met \subseteq met'
      BY <2>1, <2>2, <2>7 DEF InVault
    <3>2. BlobIsCurrent(q)'
      BY <2>1, <3>1 DEF VaultInvariant, BlobIsCurrent, Edited
    <3>3. TmpIsCurrent(q)'
      BY <2>1, <3>1 DEF VaultInvariant, TmpIsCurrent
    <3>4. TmpIsOwn(q)'
      BY <2>1, <3>1 DEF VaultInvariant, TmpIsOwn
    <3> QED
      BY <3>2, <3>3, <3>4
  <2>8. VaultIsWhole' /\ NoUpdateIsLost'
    BY <2>1 DEF VaultInvariant, VaultIsWhole, NoUpdateIsLost, Readable
  <2> QED
    BY <2>4, <2>5, <2>6, <2>7, <2>8 DEF VaultInvariant
<1> QED
  BY <1>1, <1>2

(* What the commands carry stays current while nothing is replaced.        *)
LEMMA CarriedStays ==
    ASSUME VaultInvariant, UNCHANGED <<truth, met>>,
           \A q \in Procs : InVault(q)' =>
             /\ InVault(q) /\ proc'[q].op = proc[q].op /\ proc'[q].ref = proc[q].ref
             /\ proc'[q].val = proc[q].val /\ proc'[q].blob = proc[q].blob
    PROVE  MeetingsAreSeen' /\ \A q \in Procs : BlobIsCurrent(q)'
<1>1. MeetingsAreSeen'
  BY DEF VaultInvariant, MeetingsAreSeen
<1>2. ASSUME NEW q \in Procs PROVE BlobIsCurrent(q)'
  BY DEF VaultInvariant, BlobIsCurrent, Edited
<1> QED
  BY <1>1, <1>2

LEMMA OpenKeepsVault ==
    ASSUME TypeOK, VaultInvariant, NEW p \in Procs, OpenTmp(p)
    PROVE  VaultInvariant'
<1>0. proc \in [Procs -> Command] /\ proc[p] \in Command
  BY DEF TypeOK
<1>1. /\ InVault(p) /\ UNCHANGED <<file, truth, met>> /\ tmp' = Empty
      /\ \A q \in Procs : q # p => proc'[q] = proc[q]
  BY <1>0 DEF OpenTmp, InVault, history
<1>2. /\ proc'[p].at = "fill" /\ proc'[p].handle = "tmp"
      /\ proc'[p].blob = proc[p].blob /\ proc'[p].op = proc[p].op
      /\ proc'[p].ref = proc[p].ref /\ proc'[p].val = proc[p].val
  BY <1>0 DEF OpenTmp, Command
<1>3. MeetingsAreSeen' /\ \A q \in Procs : BlobIsCurrent(q)'
  <2>1. \A q \in Procs : InVault(q)' =>
          /\ InVault(q) /\ proc'[q].op = proc[q].op /\ proc'[q].ref = proc[q].ref
          /\ proc'[q].val = proc[q].val /\ proc'[q].blob = proc[q].blob
    BY <1>1, <1>2 DEF InVault
  <2> QED
    BY <1>1, <2>1, CarriedStays
<1>4. ASSUME NEW q \in Procs PROVE TmpIsCurrent(q)' /\ TmpIsOwn(q)'
  <2>1. TmpIsCurrent(q)'
    BY <1>1 DEF TmpIsCurrent, Empty
  <2>2. q # p /\ InVault(q)' => proc'[q].ref \in met'
    BY <1>1 DEF VaultInvariant, MeetingsAreSeen, InVault
  <2>3. TmpIsOwn(q)'
    BY <1>1, <1>2, <2>2 DEF TmpIsOwn
  <2> QED
    BY <2>1, <2>3
<1>5. VaultIsWhole' /\ NoUpdateIsLost'
  BY <1>1 DEF VaultInvariant, VaultIsWhole, NoUpdateIsLost, Readable
<1> QED
  BY <1>3, <1>4, <1>5 DEF VaultInvariant

LEMMA FillKeepsVault ==
    ASSUME TypeOK, VaultInvariant, NEW p \in Procs, FillTmp(p)
    PROVE  VaultInvariant'
<1>0. /\ proc \in [Procs -> Command] /\ proc[p] \in Command
      /\ truth \in [Refs -> Values]
  BY DEF TypeOK
<1>1. /\ InVault(p) /\ proc[p].at = "fill" /\ UNCHANGED <<truth, met>>
      /\ \A q \in Procs : q # p => proc'[q] = proc[q]
  BY <1>0 DEF FillTmp, InVault, history
<1>2. /\ proc'[p].at = "replace"
      /\ proc'[p].blob = proc[p].blob /\ proc'[p].op = proc[p].op
      /\ proc'[p].ref = proc[p].ref /\ proc'[p].val = proc[p].val
  BY <1>0 DEF FillTmp, Command
<1>3. MeetingsAreSeen' /\ \A q \in Procs : BlobIsCurrent(q)'
  <2>1. \A q \in Procs : InVault(q)' =>
          /\ InVault(q) /\ proc'[q].op = proc[q].op /\ proc'[q].ref = proc[q].ref
          /\ proc'[q].val = proc[q].val /\ proc'[q].blob = proc[q].blob
    BY <1>1, <1>2 DEF InVault
  <2> QED
    BY <1>1, <2>1, CarriedStays
<1>4. \A r \in Refs \ met : r # proc[p].ref => proc[p].blob[r] = truth[r]
  BY <1>0, <1>1 DEF VaultInvariant, BlobIsCurrent, Edited
<1>5. \A q \in Procs : q # p /\ InVault(q)
        => proc[q].ref \in met /\ proc[p].ref \in met
  BY <1>1 DEF VaultInvariant, MeetingsAreSeen
<1>6. /\ tmp' = tmp \/ tmp' = Token(proc[p].blob) \/ tmp' = Torn
      /\ file' = file \/ file' = Token(proc[p].blob) \/ file' = Torn
  BY DEF FillTmp, Written
<1>7. ASSUME NEW q \in Procs PROVE TmpIsCurrent(q)'
  <2>1. proc'[q].at \in {"fill", "replace"} => proc[q].at \in {"fill", "replace"}
        /\ proc'[q].ref = proc[q].ref
    BY <1>1, <1>2
  <2>2. CASE tmp' = tmp
    BY <1>1, <2>1, <2>2 DEF VaultInvariant, TmpIsCurrent
  <2>3. CASE tmp' = Token(proc[p].blob)
    <3>1. proc'[q].at \in {"fill", "replace"} =>
            \A r \in Refs \ met : r # proc'[q].ref => proc[p].blob[r] = truth[r]
      BY <1>4, <1>5, <2>1 DEF InVault
    <3> QED
      BY <1>1, <2>3, <3>1 DEF TmpIsCurrent, Token
  <2>4. CASE tmp' = Torn
    BY <2>4 DEF TmpIsCurrent, Torn
  <2> QED
    BY <1>6, <2>2, <2>3, <2>4
<1>8. ASSUME NEW q \in Procs PROVE TmpIsOwn(q)'
  <2>1. CASE q = p
    <3>1. proc[p].ref \notin met => tmp' = Token(proc[p].blob)
      BY <1>1 DEF FillTmp, VaultInvariant, TmpIsOwn, Written, Empty
    <3> QED
      BY <1>1, <1>2, <2>1, <3>1 DEF TmpIsOwn
  <2>2. CASE q # p
    BY <1>1, <1>5, <2>2 DEF TmpIsOwn, InVault
  <2> QED
    BY <2>1, <2>2
<1>9. VaultIsWhole' /\ NoUpdateIsLost'
  <2>1. CASE proc[p].ref \notin met
    <3>1. file' = file
      BY <1>1, <2>1 DEF FillTmp, VaultInvariant, TmpIsOwn
    <3> QED
      BY <1>1, <3>1 DEF VaultInvariant, VaultIsWhole, NoUpdateIsLost, Readable
  <2>2. CASE proc[p].ref \in met
    <3>1. VaultIsWhole'
      BY <1>1, <2>2 DEF VaultIsWhole
    <3>2. CASE file' = file
      BY <1>1, <3>1, <3>2 DEF VaultInvariant, NoUpdateIsLost, Readable
    <3>3. CASE file' = Token(proc[p].blob)
      BY <1>1, <1>4, <2>2, <3>1, <3>3 DEF NoUpdateIsLost, Token
    <3>4. CASE file' = Torn
      BY <3>1, <3>4 DEF NoUpdateIsLost, Readable, Torn
    <3> QED
      BY <1>6, <3>2, <3>3, <3>4
  <2> QED
    BY <2>1, <2>2
<1> QED
  BY <1>3, <1>7, <1>8, <1>9 DEF VaultInvariant

LEMMA ReplaceKeepsVault ==
    ASSUME TypeOK, VaultInvariant, NEW p \in Procs, ReplaceVault(p)
    PROVE  VaultInvariant'
<1>0. /\ proc \in [Procs -> Command] /\ proc[p] \in Command
      /\ truth \in [Refs -> Values] /\ proc[p].ref \in Refs
  BY DEF TypeOK, Command
<1>1. /\ proc[p].at = "replace" /\ InVault(p) /\ tmp.is # "absent"
      /\ file' = tmp /\ tmp' = Absent /\ met' = met
      /\ truth' = Edited(p, truth)
  BY DEF ReplaceVault, InVault, Edited
<1>2. /\ ~InVault(p)'
      /\ \A q \in Procs : q # p => Same(q)
  BY <1>0, OthersStay DEF ReplaceVault, InVault, Command, Step
<1>3. \A q \in Procs : q # p /\ InVault(q)
        => proc[q].ref \in met /\ proc[p].ref \in met
  BY <1>1 DEF VaultInvariant, MeetingsAreSeen
<1>4. \A r \in Refs : r # proc[p].ref => truth'[r] = truth[r]
  BY <1>0, <1>1 DEF Edited
<1>5. MeetingsAreSeen'
  BY <1>1, <1>2 DEF VaultInvariant, MeetingsAreSeen, InVault, Same
<1>6. ASSUME NEW q \in Procs
      PROVE  BlobIsCurrent(q)' /\ TmpIsCurrent(q)' /\ TmpIsOwn(q)'
  <2>1. TmpIsCurrent(q)'
    BY <1>1 DEF TmpIsCurrent, Absent
  <2>2. CASE q = p
    BY <1>2, <2>1, <2>2 DEF BlobIsCurrent, TmpIsOwn
  <2>3. CASE q # p
    <3>1. Same(q) /\ (InVault(q)' <=> InVault(q))
      BY <1>2, <2>3 DEF Same, InVault
    <3>2. InVault(q) => proc'[q].ref \in met'
      BY <1>1, <1>3, <2>3, <3>1 DEF Same
    <3>3. TmpIsOwn(q)'
      BY <3>1, <3>2 DEF TmpIsOwn
    <3>4. BlobIsCurrent(q)'
      <4> SUFFICES ASSUME InVault(q), NEW r \in Refs \ met
                   PROVE  proc'[q].blob[r] = Edited(q, truth)'[r]
        BY <1>1, <3>1 DEF BlobIsCurrent
      <4>1. r # proc[q].ref /\ r # proc[p].ref
        BY <1>3, <2>3
      <4>2. proc[q].blob[r] = truth[r]
        BY <1>0, <4>1 DEF VaultInvariant, BlobIsCurrent, Edited
      <4>3. truth' \in [Refs -> Values] /\ truth'[r] = truth[r]
        BY <1>0, <1>1, <1>4, <4>1, EditedType
      <4>4. Edited(q, truth)'[r] = truth'[r]
        BY <3>1, <4>1, <4>3 DEF Edited, Same
      <4> QED
        BY <3>1, <4>2, <4>3, <4>4 DEF Same
    <3> QED
      BY <2>1, <3>3, <3>4
  <2> QED
    BY <2>2, <2>3
<1>7. VaultIsWhole'
  BY <1>1 DEF VaultInvariant, TmpIsOwn, VaultIsWhole, Readable, Token
<1>8. NoUpdateIsLost'
  <2> SUFFICES ASSUME Readable', NEW r \in Refs \ met
               PROVE  tmp.secrets[r] = truth'[r]
    BY <1>1 DEF NoUpdateIsLost
  <2>1. tmp.is = "token"
    BY <1>1 DEF Readable
  <2>2. CASE r = proc[p].ref
    <3>1. tmp.secrets = proc[p].blob
      BY <1>1, <2>2 DEF VaultInvariant, TmpIsOwn, Token
    <3> QED
      BY <1>1, <3>1 DEF VaultInvariant, BlobIsCurrent
  <2>3. CASE r # proc[p].ref
    BY <1>1, <1>4, <2>1, <2>3 DEF VaultInvariant, TmpIsCurrent
  <2> QED
    BY <2>2, <2>3
<1> QED
  BY <1>5, <1>6, <1>7, <1>8 DEF VaultInvariant

(* A write cut off spoils the file of one who leaves the vault.            *)
LEMMA FaultKeepsVault ==
    ASSUME TypeOK, VaultInvariant, NEW p \in Procs, CutOff(p),
           UNCHANGED <<truth, met>>, ~InVault(p)',
           \A q \in Procs : q # p => proc'[q] = proc[q]
    PROVE  VaultInvariant'
<1>0. \A q \in Procs : InVault(q)' => q # p /\ InVault(q) /\ proc'[q] = proc[q]
  BY DEF InVault
<1>1. CASE UNCHANGED <<file, tmp>>
  BY <1>0, <1>1, QuietKeepsVault
<1>2. CASE ~ UNCHANGED <<file, tmp>>
  <2>1. /\ proc[p].at = "fill" /\ InVault(p)
        /\ \/ proc[p].handle = "tmp" /\ tmp' = Torn /\ file' = file
           \/ proc[p].handle = "file" /\ file' = Torn /\ tmp' = tmp
    BY <1>2 DEF CutOff, InVault
  <2>2. MeetingsAreSeen' /\ \A q \in Procs : BlobIsCurrent(q)'
    BY <1>0, CarriedStays
  <2>3. ASSUME NEW q \in Procs PROVE TmpIsCurrent(q)' /\ TmpIsOwn(q)'
    <3>1. InVault(q)' => proc'[q].ref \in met'
      BY <1>0, <2>1 DEF VaultInvariant, MeetingsAreSeen
    <3>2. TmpIsCurrent(q)'
      <4>1. proc'[q].at \in {"fill", "replace"} => proc'[q] = proc[q]
        BY <1>0 DEF InVault
      <4> QED
        BY <2>1, <4>1 DEF VaultInvariant, TmpIsCurrent, Torn
    <3> QED
      BY <3>1, <3>2 DEF TmpIsOwn
  <2>4. VaultIsWhole' /\ NoUpdateIsLost'
    <3>1. CASE file' = file
      BY <3>1 DEF VaultInvariant, VaultIsWhole, NoUpdateIsLost, Readable
    <3>2. CASE file' = Torn /\ proc[p].handle = "file"
      <4>1. met # {}
        BY <2>1, <3>2 DEF VaultInvariant, TmpIsOwn
      <4> QED
        BY <3>2, <4>1 DEF VaultIsWhole, NoUpdateIsLost, Readable, Torn
    <3> QED
      BY <2>1, <3>1, <3>2
  <2> QED
    BY <2>2, <2>3, <2>4 DEF VaultInvariant
<1> QED
  BY <1>1, <1>2

LEMMA VaultNext == TypeOK /\ VaultInvariant /\ [Next]_vars => VaultInvariant'
<1> SUFFICES ASSUME TypeOK, VaultInvariant, [Next]_vars PROVE VaultInvariant'
  OBVIOUS
<1>0. proc \in [Procs -> Command] /\ NoCommand.at = "idle"
  BY DEF TypeOK, NoCommand
<1>1. ASSUME NEW p \in Procs, Start(p) PROVE VaultInvariant'
  <2>1. \A q \in Procs : InVault(q)' => proc'[q] = proc[q]
    BY <1>0, <1>1 DEF Start, InVault
  <2> QED
    BY <1>1, <2>1, QuietKeepsVault DEF Start, store
<1>2. ASSUME NEW p \in Procs, Look(p) \/ CommitRow(p) \/ VaultFails(p)
      PROVE  VaultInvariant'
  <2>0. proc[p] \in Command
    BY <1>0
  <2>1. \A q \in Procs : InVault(q)' => proc'[q] = proc[q]
    <3>1. CASE Look(p)
      BY <1>0, <2>0, <3>1 DEF Look, To, Ends, InVault, Command
    <3>2. CASE CommitRow(p)
      BY <1>0, <2>0, <3>2 DEF CommitRow, Ends, InVault
    <3>3. CASE VaultFails(p)
      BY <1>0, <2>0, <3>3
         DEF VaultFails, AfterBackendFailure, ToRow, Ends, InVault, Command
    <3> QED
      BY <1>2, <3>1, <3>2, <3>3
  <2>2. UNCHANGED <<file, tmp, truth, met>>
    BY <1>2 DEF Look, CommitRow, VaultFails, store, history
  <2> QED
    BY <2>1, <2>2, QuietKeepsVault
<1>3. ASSUME NEW p \in Procs, VaultRaises(p) \/ Dies(p) PROVE VaultInvariant'
  <2>0. proc[p] \in Command
    BY <1>0
  <2>1. ~InVault(p)' /\ \A q \in Procs : q # p => proc'[q] = proc[q]
    <3>1. CASE VaultRaises(p)
      BY <1>0, <2>0, <3>1
         DEF VaultRaises, AfterBackendFailure, ToRow, Ends, InVault, Command
    <3>2. CASE Dies(p)
      BY <1>0, <3>2 DEF Dies, Ends, InVault
    <3> QED
      BY <1>3, <3>1, <3>2
  <2>2. CutOff(p) /\ UNCHANGED <<truth, met>>
    BY <1>3 DEF VaultRaises, Dies, history
  <2> QED
    BY <2>1, <2>2, FaultKeepsVault
<1>4. ASSUME NEW a \in Accounts, RemoveAccount(a) PROVE VaultInvariant'
  BY <1>4, QuietKeepsVault DEF RemoveAccount, store, history
<1>5. CASE UNCHANGED vars
  BY <1>5, QuietKeepsVault DEF vars, store, history
<1> QED
  BY <1>1, <1>2, <1>3, <1>4, <1>5, ReadKeepsVault, OpenKeepsVault,
     FillKeepsVault, ReplaceKeepsVault DEF Next, Step

LEMMA VaultInit == Init => VaultInvariant
<1> SUFFICES ASSUME Init PROVE VaultInvariant
  OBVIOUS
<1>1. \A p \in Procs : ~InVault(p)
  BY DEF Init, InVault, NoCommand
<1>2. Readable /\ file.secrets = truth
  BY DEF Init, Readable, Absent
<1> QED
  BY <1>1, <1>2 DEF VaultInvariant, MeetingsAreSeen, BlobIsCurrent, TmpIsCurrent,
     TmpIsOwn, InVault, VaultIsWhole, NoUpdateIsLost

(* What is known of the vault in every reachable state.                    *)
LEMMA VaultInductive == Spec => [](TypeOK /\ VaultInvariant)
  BY TypeInit, TypeNext, VaultInit, VaultNext, PTL DEF Spec

(***************************************************************************)
(* Until two commands meet in the vault, its file is whole, whatever died  *)
(* or failed half-way through writing.                                     *)
(***************************************************************************)
THEOREM VaultStaysWhole == Spec => []VaultIsWhole
<1>1. VaultInvariant => VaultIsWhole
  BY DEF VaultInvariant
<1> QED
  BY <1>1, VaultInductive, PTL

(***************************************************************************)
(* Commands that meet in the vault may undo each other's work and tear the *)
(* file, but whenever it can be read, every credential whose own commands  *)
(* met nobody has the value that was last written.                         *)
(***************************************************************************)
THEOREM UpdatesAreKept == Spec => []NoUpdateIsLost
<1>1. VaultInvariant => NoUpdateIsLost
  BY DEF VaultInvariant
<1> QED
  BY <1>1, VaultInductive, PTL

-----------------------------------------------------------------------------
(* The rows.                                                               *)

OverlapsAreSeen ==
    \A p, q \in Procs :
      p # q /\ proc[p].at # "idle" /\ proc[q].at # "idle"
            /\ proc[p].ref = proc[q].ref => proc[p].ref \in contested

RunningHaveValues == \A p \in Procs : proc[p].at # "idle" => proc[p].val # NoEntry

(* Between set's or rotate's replace and their commit, the last that was   *)
(* written is the value they were given.                                   *)
LandedAreWritten ==
    \A p \in Procs :
      proc[p].at = "row" /\ proc[p].op # "delete" /\ proc[p].ref \notin contested
        => truth[proc[p].ref] = proc[p].val

Deleting(p, r) ==
    proc[p].at = "row" /\ proc[p].op = "delete" /\ proc[p].ref = r

(* The rows against what was written, whether the vault can be read or not.*)
RowsAreWritten ==
    \A r \in rows :
      r \notin met \cup contested \cup cut /\ (\A p \in Procs : ~ Deleting(p, r))
        => truth[r] # NoEntry

RowsInvariant ==
    OverlapsAreSeen /\ RunningHaveValues /\ LandedAreWritten /\ RowsAreWritten

LEMMA RowsInit == Init => RowsInvariant
<1> SUFFICES ASSUME Init PROVE RowsInvariant
  OBVIOUS
<1>1. \A p \in Procs : proc[p].at = "idle"
  BY DEF Init, NoCommand
<1>2. rows = {}
  BY DEF Init
<1> QED
  BY <1>1, <1>2 DEF RowsInvariant, OverlapsAreSeen, RunningHaveValues,
     LandedAreWritten, RowsAreWritten

(* Only a replace counts as written.                                       *)
LEMMA OnlyReplaceWrites ==
    ASSUME NEW p \in Procs, Step(p) \/ Fault(p) \/ Start(p), ~ ReplaceVault(p)
    PROVE  truth' = truth
BY DEF Step, Fault, Start, Look, ReadVault, OpenTmp, FillTmp, CommitRow,
   VaultFails, VaultRaises, Dies, store

(* What a replace writes.                                                  *)
LEMMA ReplaceEffect ==
    ASSUME TypeOK, NEW p \in Procs, ReplaceVault(p)
    PROVE  /\ proc[p].op # "delete" => truth'[proc[p].ref] = proc[p].val
           /\ \A r \in Refs : r # proc[p].ref => truth'[r] = truth[r]
<1>1. proc[p].ref \in Refs /\ truth \in [Refs -> Values]
  BY DEF TypeOK, Command
<1> QED
  BY <1>1 DEF ReplaceVault

(* Nobody but a replacing set or rotate gets to the row with a value.      *)
LEMMA OnlyReplaceLands ==
    ASSUME TypeOK, NEW p \in Procs, Step(p) \/ Fault(p),
           proc'[p].at = "row", proc'[p].op # "delete"
    PROVE  ReplaceVault(p)
<1>1. proc[p] \in Command /\ proc \in [Procs -> Command] /\ NoCommand.at = "idle"
  BY DEF TypeOK, NoCommand
<1>2. ~Look(p) /\ ~CommitRow(p) /\ ~Dies(p)
  BY <1>1 DEF Look, CommitRow, Dies, Ends, To, Command
<1>3. ~ReadVault(p)
  BY <1>1 DEF ReadVault, Superfluous, Command
<1>4. ~OpenTmp(p)
  BY <1>1 DEF OpenTmp, Command
<1>5. ~FillTmp(p)
  BY <1>1 DEF FillTmp, Command
<1>6. ~VaultFails(p) /\ ~VaultRaises(p)
  BY <1>1 DEF VaultFails, VaultRaises, AfterBackendFailure, ToRow, Ends, Command
<1> QED
  BY <1>2, <1>3, <1>4, <1>5, <1>6 DEF Step, Fault

LEMMA LandedStep ==
    ASSUME TypeOK, RowsInvariant, [Next]_vars, NEW p \in Procs, Step(p) \/ Fault(p)
    PROVE  LandedAreWritten'
<1> SUFFICES ASSUME NEW q \in Procs, proc'[q].at = "row", proc'[q].op # "delete",
                    proc'[q].ref \notin contested'
             PROVE  truth'[proc'[q].ref] = proc'[q].val
  BY DEF LandedAreWritten
<1>1. proc'[q].ref \notin contested
  BY DisturbedStays
<1>2. CASE q # p
  <2>1. Same(q)
    BY <1>2, OthersStay
  <2>2. truth[proc[q].ref] = proc[q].val
    BY <1>1, <2>1 DEF RowsInvariant, LandedAreWritten, Same
  <2>3. CASE ReplaceVault(p)
    <3>1. proc[q].ref # proc[p].ref
      BY <1>1, <1>2, <2>1, <2>3
         DEF RowsInvariant, OverlapsAreSeen, ReplaceVault, Same
    <3>2. proc[q].ref \in Refs
      BY DEF TypeOK, Command
    <3> QED
      BY <2>1, <2>2, <2>3, <3>1, <3>2, ReplaceEffect DEF Same
  <2>4. CASE ~ ReplaceVault(p)
    BY <2>1, <2>2, <2>4, OnlyReplaceWrites DEF Same
  <2> QED
    BY <2>3, <2>4
<1>3. CASE q = p
  <2>1. ReplaceVault(p)
    BY <1>3, OnlyReplaceLands
  <2>2. /\ proc'[p].op = proc[p].op /\ proc'[p].ref = proc[p].ref
        /\ proc'[p].val = proc[p].val
    BY <1>3, CommandStays
  <2> QED
    BY <1>3, <2>1, <2>2, ReplaceEffect
<1> QED
  BY <1>2, <1>3

LEMMA RowsAreWrittenStep ==
    ASSUME TypeOK, RowsInvariant, [Next]_vars, NEW p \in Procs, Step(p) \/ Fault(p)
    PROVE  RowsAreWritten'
<1> SUFFICES ASSUME NEW r \in rows', r \notin met', r \notin contested',
                    r \notin cut', \A q \in Procs : ~ Deleting(q, r)'
             PROVE  truth'[r] # NoEntry
  BY DEF RowsAreWritten
<1>1. r \notin met /\ r \notin contested
  BY DisturbedStays
<1>2. r \in rows /\ r \notin cut /\ (\A q \in Procs : ~ Deleting(q, r))
        => truth[r] # NoEntry
  BY <1>1 DEF RowsInvariant, RowsAreWritten
<1>3. \A q \in Procs : q # p => ~ Deleting(q, r)
  BY OthersStay DEF Same, Deleting
<1>4. /\ proc[p].ref \in Refs /\ rows \subseteq Refs /\ proc[p] \in Command
      /\ truth \in [Refs -> Values]
  BY DEF TypeOK, Command
<1>5. CASE ReplaceVault(p)
  <2>1. rows' = rows /\ r \in Refs /\ proc[p].at = "replace"
    BY <1>4, <1>5 DEF ReplaceVault
  <2>2. CASE proc[p].ref = r
    <3>1. proc'[p].at = "row" /\ proc'[p].op = proc[p].op /\ proc'[p].ref = r
      BY <1>4, <1>5, <2>2 DEF ReplaceVault, Command, TypeOK
    <3>2. proc[p].op # "delete"
      BY <3>1 DEF Deleting
    <3>3. truth'[r] = proc[p].val /\ proc[p].val # NoEntry
      BY <1>5, <2>1, <2>2, <3>2, ReplaceEffect
         DEF RowsInvariant, RunningHaveValues
    <3> QED
      BY <3>3
  <2>3. CASE proc[p].ref # r
    <3>1. r \notin cut
      BY <1>5, <2>3 DEF ReplaceVault
    <3>2. truth[r] # NoEntry
      BY <1>2, <1>3, <2>1, <2>3, <3>1 DEF Deleting
    <3> QED
      BY <1>5, <2>1, <2>3, <3>2, ReplaceEffect
  <2> QED
    BY <2>2, <2>3
<1>6. CASE ~ ReplaceVault(p)
  <2>1. truth' = truth
    BY <1>6, OnlyReplaceWrites
  <2>2. CASE CommitRow(p) /\ proc[p].op = "delete"
    <3>1. r \in rows /\ r # proc[p].ref /\ r \notin cut
      BY <2>2 DEF CommitRow, DeleteCredential
    <3> QED
      BY <1>2, <1>3, <2>1, <3>1 DEF Deleting
  <2>3. CASE CommitRow(p) /\ proc[p].op # "delete"
    <3>1. r \notin cut
      BY <2>3 DEF CommitRow
    <3>2. CASE r = proc[p].ref
      <4>1. proc[p].at = "row"
        BY <2>3 DEF CommitRow
      <4>2. truth[r] = proc[p].val /\ proc[p].val # NoEntry
        BY <1>1, <2>3, <3>2, <4>1
           DEF RowsInvariant, RunningHaveValues, LandedAreWritten
      <4> QED
        BY <2>1, <4>2
    <3>3. CASE r # proc[p].ref
      <4>1. r \in rows
        BY <2>3, <3>3 DEF CommitRow, UpsertCredential
      <4> QED
        BY <1>2, <1>3, <2>1, <2>3, <3>1, <4>1 DEF Deleting
    <3> QED
      BY <3>2, <3>3
  <2>4. CASE Dies(p)
    <3>1. r \in rows /\ r \notin cut /\ ~ Deleting(p, r)
      BY <2>4 DEF Dies, Deleting
    <3> QED
      BY <1>2, <1>3, <2>1, <3>1
  <2>5. CASE ~ CommitRow(p) /\ ~ Dies(p)
    <3>1. r \in rows /\ r \notin cut /\ proc[p].at # "row"
      BY <1>6, <2>5 DEF Step, Fault, Look, ReadVault, OpenTmp, FillTmp,
         VaultFails, VaultRaises, history
    <3> QED
      BY <1>2, <1>3, <2>1, <3>1 DEF Deleting
  <2> QED
    BY <2>2, <2>3, <2>4, <2>5
<1> QED
  BY <1>5, <1>6

LEMMA RowsStart ==
    ASSUME TypeOK, RowsInvariant, [Next]_vars, NEW p \in Procs, Start(p)
    PROVE  RowsInvariant'
<1>1. PICK op \in Commands, r \in Refs :
        /\ proc' = [proc EXCEPT ![p] =
             [at |-> "look", op |-> op, ref |-> r, val |-> started + 1,
              blob |-> NoSecrets, handle |-> "none"]]
        /\ contested' = IF \E q \in Running : proc[q].ref = r
                        THEN contested \cup {r} ELSE contested
  BY DEF Start
<1>2. /\ proc'[p].at = "look" /\ proc'[p].ref = r /\ proc'[p].val = started + 1
      /\ \A q \in Procs : q # p => proc'[q] = proc[q]
  BY <1>1 DEF TypeOK
<1>3. \A q \in Procs : q # p /\ proc[q].at # "idle" /\ proc[q].ref = r
                         => r \in contested'
  BY <1>1 DEF Running
<1>4. contested \subseteq contested'
      /\ UNCHANGED <<truth, rows, met, cut>> /\ proc[p].at = "idle"
  BY DisturbedStays DEF Start, store
<1>5. OverlapsAreSeen'
  BY <1>2, <1>3, <1>4 DEF RowsInvariant, OverlapsAreSeen
<1>6. RunningHaveValues'
  BY <1>2 DEF RowsInvariant, RunningHaveValues, TypeOK, NoEntry
<1>7. LandedAreWritten'
  BY <1>2, <1>4 DEF RowsInvariant, LandedAreWritten
<1>8. RowsAreWritten'
  BY <1>2, <1>4 DEF RowsInvariant, RowsAreWritten, Deleting
<1> QED
  BY <1>5, <1>6, <1>7, <1>8 DEF RowsInvariant

LEMMA RowsNext == TypeOK /\ RowsInvariant /\ [Next]_vars => RowsInvariant'
<1> SUFFICES ASSUME TypeOK, RowsInvariant, [Next]_vars PROVE RowsInvariant'
  OBVIOUS
<1>1. ASSUME NEW p \in Procs, Step(p) \/ Fault(p) PROVE RowsInvariant'
  <2>1. \A q \in Procs : proc'[q].at # "idle" =>
          /\ proc[q].at # "idle" /\ proc'[q].ref = proc[q].ref
          /\ proc'[q].val = proc[q].val
    BY <1>1, OthersStay, CommandStays DEF Same
  <2>2. contested \subseteq contested'
    BY DisturbedStays
  <2>3. OverlapsAreSeen' /\ RunningHaveValues'
    BY <2>1, <2>2 DEF RowsInvariant, OverlapsAreSeen, RunningHaveValues
  <2> QED
    BY <1>1, <2>3, LandedStep, RowsAreWrittenStep DEF RowsInvariant
<1>2. ASSUME NEW a \in Accounts, RemoveAccount(a) PROVE RowsInvariant'
  BY <1>2 DEF RemoveAccount, RowsWithout, store, history, RowsInvariant, OverlapsAreSeen,
     RunningHaveValues, LandedAreWritten, RowsAreWritten, Deleting
<1>3. CASE UNCHANGED vars
  BY <1>3 DEF vars, store, history, RowsInvariant, OverlapsAreSeen,
     RunningHaveValues, LandedAreWritten, RowsAreWritten, Deleting
<1> QED
  BY <1>1, <1>2, <1>3, RowsStart DEF Next, Fault

(***************************************************************************)
(* Whatever dies, fails, meets in the vault or removes an account in       *)
(* between: a committed row has its secret in a vault that can be read,    *)
(* unless its own commands overlapped or met another in the vault, or a    *)
(* delete is, or was cut, between the vault and the row.                   *)
(***************************************************************************)
THEOREM RowsKeepTheirSecrets == Spec => []RowsHaveSecrets
<1>1. TypeOK /\ VaultInvariant /\ RowsInvariant => RowsHaveSecrets
  BY DEF TypeOK, VaultInvariant, NoUpdateIsLost, RowsInvariant, RowsAreWritten,
     Deleting, RowsHaveSecrets, Undisturbed
<1> QED
  BY <1>1, TypeInit, TypeNext, VaultInit, VaultNext, RowsInit, RowsNext, PTL
     DEF Spec

(***************************************************************************)
(* A value reported as stored is the one the vault serves.                 *)
(***************************************************************************)
THEOREM ReportedValuesAreServed == Spec => ReportedIsServed
<1>1. TypeOK /\ VaultInvariant /\ RowsInvariant =>
        \A p \in Procs :
          CommitRow(p) /\ proc[p].op # "delete" /\ proc[p].ref \in rows'
            /\ Undisturbed(proc[p].ref)
          => file.secrets[proc[p].ref] = proc[p].val
  BY DEF TypeOK, Command, RowsInvariant, LandedAreWritten, CommitRow,
     VaultInvariant, NoUpdateIsLost, Undisturbed
<1> QED
  BY <1>1, TypeInit, TypeNext, VaultInit, VaultNext, RowsInit, RowsNext, PTL
     DEF Spec, ReportedIsServed

-----------------------------------------------------------------------------
(* The commands implement the store.                                       *)

(* A value on its way to the vault is newer than the one that is there.    *)
PutsAreNewer ==
    /\ \A p \in Procs : proc[p].at # "idle" => proc[p].val <= started
    /\ \A r \in Refs : truth[r] <= started
    /\ \A p \in Procs :
         proc[p].at \notin {"idle", "row"} /\ proc[p].ref \notin contested
           => truth[proc[p].ref] < proc[p].val

LEMMA PutsInit == Init => PutsAreNewer
<1> SUFFICES ASSUME Init PROVE PutsAreNewer
  OBVIOUS
<1>1. \A p \in Procs : proc[p].at = "idle"
  BY DEF Init, NoCommand
<1>2. started = 0 /\ \A r \in Refs : truth[r] = 0
  BY DEF Init, NoSecrets, NoEntry
<1> QED
  BY <1>1, <1>2 DEF PutsAreNewer

LEMMA PutsStart ==
    ASSUME TypeOK, PutsAreNewer, [Next]_vars, NEW p \in Procs, Start(p)
    PROVE  PutsAreNewer'
<1>1. PICK op \in Commands, r \in Refs :
        proc' = [proc EXCEPT ![p] =
                   [at |-> "look", op |-> op, ref |-> r, val |-> started + 1,
                    blob |-> NoSecrets, handle |-> "none"]]
  BY DEF Start
<1>2. /\ proc'[p].at = "look" /\ proc'[p].ref = r /\ proc'[p].val = started + 1
      /\ \A q \in Procs : q # p => proc'[q] = proc[q]
  BY <1>1 DEF TypeOK
<1>3. /\ started' = started + 1 /\ started \in Nat /\ truth' = truth
      /\ contested \subseteq contested'
  BY DisturbedStays DEF Start, store, TypeOK
<1>4. /\ \A q \in Procs : proc[q].val \in Nat
      /\ \A s \in Refs : truth[s] \in Nat
  BY DEF TypeOK, Command, Values
<1> QED
  BY <1>2, <1>3, <1>4 DEF PutsAreNewer

LEMMA PutsStep ==
    ASSUME TypeOK, RowsInvariant, PutsAreNewer, [Next]_vars,
           NEW p \in Procs, Step(p) \/ Fault(p)
    PROVE  PutsAreNewer'
<1>1. \A q \in Procs : proc'[q].at # "idle" =>
        /\ proc[q].at # "idle" /\ proc'[q].ref = proc[q].ref
        /\ proc'[q].val = proc[q].val
  BY OthersStay, CommandStays DEF Same
<1>2. started' = started /\ contested \subseteq contested'
  BY DisturbedStays
     DEF Step, Fault, Look, ReadVault, OpenTmp, FillTmp, ReplaceVault,
         CommitRow, VaultFails, VaultRaises, Dies
<1>3. ~ ReplaceVault(p) => truth' = truth
  BY DEF Step, Fault, Look, ReadVault, OpenTmp, FillTmp, CommitRow,
         VaultFails, VaultRaises, Dies, store
<1>4. /\ truth \in [Refs -> Values] /\ proc[p].ref \in Refs
      /\ proc[p] \in Command /\ started \in Nat
  BY DEF TypeOK, Command
<1>5. \A r \in Refs : truth'[r] <= started
  <2>1. CASE ReplaceVault(p)
    <3>1. proc[p].at # "idle"
      BY <2>1 DEF ReplaceVault
    <3> QED
      BY <1>4, <2>1, <3>1 DEF ReplaceVault, PutsAreNewer, NoEntry
  <2> QED
    BY <1>3, <2>1 DEF PutsAreNewer
<1>6. ASSUME NEW q \in Procs, proc'[q].at \notin {"idle", "row"},
             proc'[q].ref \notin contested'
      PROVE  truth'[proc'[q].ref] < proc'[q].val
  <2>1. /\ proc[q].at # "idle" /\ proc'[q].ref = proc[q].ref
        /\ proc'[q].val = proc[q].val /\ proc[q].ref \notin contested
    BY <1>1, <1>2, <1>6
  <2>2. CASE q # p
    <3>1. proc[q].at \notin {"idle", "row"}
      BY <1>6, <2>2, OthersStay DEF Same
    <3>2. truth[proc[q].ref] < proc[q].val
      BY <2>1, <3>1 DEF PutsAreNewer
    <3>3. CASE ReplaceVault(p)
      <4>1. proc[q].ref # proc[p].ref /\ proc[q].ref \in Refs
        BY <2>1, <2>2, <3>3
           DEF RowsInvariant, OverlapsAreSeen, ReplaceVault, TypeOK, Command
      <4> QED
        BY <1>4, <2>1, <3>2, <3>3, <4>1 DEF ReplaceVault
    <3> QED
      BY <1>3, <2>1, <3>2, <3>3
  <2>3. CASE q = p
    <3>1. ~ ReplaceVault(p)
      BY <1>4, <1>6, <2>3 DEF ReplaceVault, TypeOK, Command
    <3>2. proc[p].at # "row"
      <4>1. NoCommand.at = "idle" /\ proc \in [Procs -> Command]
        BY DEF NoCommand, TypeOK
      <4>2. ~ CommitRow(p) /\ ~ Dies(p)
        BY <1>6, <2>3, <4>1 DEF CommitRow, Dies, Ends
      <4> QED
        BY <3>1, <4>2 DEF Step, Fault, Look, ReadVault, OpenTmp, FillTmp,
           VaultFails, VaultRaises
    <3> QED
      BY <1>3, <2>1, <2>3, <3>1, <3>2 DEF PutsAreNewer
  <2> QED
    BY <2>2, <2>3
<1> QED
  BY <1>1, <1>2, <1>5, <1>6 DEF PutsAreNewer

LEMMA PutsNext ==
    TypeOK /\ RowsInvariant /\ PutsAreNewer /\ [Next]_vars => PutsAreNewer'
<1> SUFFICES ASSUME TypeOK, RowsInvariant, PutsAreNewer, [Next]_vars
             PROVE  PutsAreNewer'
  OBVIOUS
<1>1. ASSUME NEW a \in Accounts, RemoveAccount(a) PROVE PutsAreNewer'
  BY <1>1 DEF RemoveAccount, store, history, PutsAreNewer
<1>2. CASE UNCHANGED vars
  BY <1>2 DEF vars, store, history, PutsAreNewer
<1> QED
  BY <1>1, <1>2, PutsStart, PutsStep DEF Next, Fault

(* Once all credentials are mixed, any file is as good as another.         *)
LEMMA MetIsGarble ==
    ASSUME TypeOK', met # {}, met' # {}, UNCHANGED <<accounts, rows>>
    PROVE  Store!Next
<1>1. file'.secrets \in [Refs -> Values]
  BY DEF TypeOK, Contents
<1> QED
  BY <1>1 DEF Store!Next, Store!Garble

(* As long as nobody met in the vault, its secrets are what was written.   *)
LEMMA SecretsAreTruth ==
    ASSUME TypeOK, VaultInvariant, met = {}
    PROVE  file.secrets = truth
<1>1. file.secrets \in [Refs -> Values] /\ truth \in [Refs -> Values]
  BY DEF TypeOK, Contents
<1>2. \A r \in Refs : file.secrets[r] = truth[r]
  BY DEF VaultInvariant, VaultIsWhole, NoUpdateIsLost
<1> QED
  BY <1>1, <1>2

(* Then only a replace writes to the vault file, ...                       *)
LEMMA OthersKeepFile ==
    ASSUME VaultInvariant, met = {}, NEW p \in Procs, FillTmp(p) \/ Fault(p)
    PROVE  file' = file
<1>1. proc[p].at = "fill" => proc[p].handle = "tmp"
  BY DEF VaultInvariant, TmpIsOwn, InVault
<1>2. CASE FillTmp(p)
  BY <1>1, <1>2 DEF FillTmp
<1>3. CASE Fault(p)
  BY <1>1, <1>3 DEF Fault, VaultRaises, Dies, CutOff
<1> QED
  BY <1>2, <1>3

(* ... and what it leaves there differs by the command's own edit.         *)
LEMMA ReplaceIsPut ==
    ASSUME TypeOK, TypeOK', VaultInvariant, VaultInvariant', RowsInvariant,
           PutsAreNewer, met = {}, NEW p \in Procs, ReplaceVault(p)
    PROVE  Store!Next
<1> DEFINE r == proc[p].ref
<1>1. /\ r \in Refs /\ proc[p].val \in Values /\ proc[p].at = "replace"
      /\ UNCHANGED <<accounts, rows, met, contested>>
  BY DEF TypeOK, Command, ReplaceVault
<1>2. met' = {}
  BY <1>1
<1>3. file.secrets = truth
  BY SecretsAreTruth
<1>4. file'.secrets = truth'
  <2>1. /\ file'.secrets \in [Refs -> Values] /\ truth' \in [Refs -> Values]
    BY DEF TypeOK, Contents
  <2>2. \A c \in Refs : file'.secrets[c] = truth'[c]
    BY <1>2 DEF VaultInvariant, VaultIsWhole, NoUpdateIsLost
  <2> QED
    BY <2>1, <2>2
<1>5. CASE proc[p].op = "delete"
  BY <1>1, <1>3, <1>4, <1>5
     DEF Store!Next, Store!Remove, Store!NoEntry, ReplaceVault, NoEntry
<1>6. CASE proc[p].op # "delete"
  <2>1. proc[p].val > truth[r] \/ (r \in contested /\ proc[p].val # NoEntry)
    <3>1. proc[p].val # NoEntry
      BY <1>1 DEF RowsInvariant, RunningHaveValues
    <3>2. r \notin contested => truth[r] < proc[p].val
      BY <1>1 DEF PutsAreNewer
    <3>3. truth[r] \in Int /\ proc[p].val \in Int
      BY <1>1 DEF TypeOK, Values
    <3> QED
      BY <3>1, <3>2, <3>3
  <2>2. Store!Put(r, proc[p].val)
    BY <1>1, <1>2, <1>3, <1>4, <1>6, <2>1
       DEF Store!Put, Store!NoEntry, ReplaceVault, NoEntry
  <2> QED
    BY <1>1, <2>2 DEF Store!Next
<1> QED
  BY <1>5, <1>6

(* A row is committed behind its secret.                                   *)
LEMMA CommitIsList ==
    ASSUME TypeOK, VaultInvariant, RowsInvariant, NEW p \in Procs, CommitRow(p)
    PROVE  Store!Next \/ UNCHANGED Store!vars
<1> DEFINE r == proc[p].ref
<1>1. /\ r \in Refs /\ proc[p].at = "row"
      /\ UNCHANGED <<accounts, file, met, contested>>
  BY DEF TypeOK, Command, CommitRow, store
<1>2. CASE proc[p].op = "delete"
  BY <1>1, <1>2 DEF CommitRow, DeleteCredential, Store!Next, Store!Unlist
<1>3. CASE proc[p].op # "delete" /\ AccountOf[r] \in accounts
  <2>1. met = {} /\ r \notin contested => file.secrets[r] # NoEntry
    BY <1>1, <1>3, SecretsAreTruth
       DEF RowsInvariant, LandedAreWritten, RunningHaveValues
  <2>2. Store!List(r)
    BY <1>1, <1>3, <2>1
       DEF CommitRow, UpsertCredential, Store!List, Store!NoEntry, NoEntry
  <2> QED
    BY <1>1, <2>2 DEF Store!Next
<1>4. CASE proc[p].op # "delete" /\ AccountOf[r] \notin accounts
  BY <1>1, <1>4 DEF CommitRow, UpsertCredential, Store!vars
<1> QED
  BY <1>2, <1>3, <1>4

LEMMA StoreStep ==
    ASSUME TypeOK, TypeOK', VaultInvariant, VaultInvariant', RowsInvariant,
           PutsAreNewer, [Next]_vars
    PROVE  Store!Next \/ UNCHANGED Store!vars
<1>1. ASSUME NEW p \in Procs, Start(p) \/ ReadVault(p) PROVE Store!Next
  <2>1. UNCHANGED <<accounts, rows, file>>
    BY <1>1 DEF Start, ReadVault, store
  <2>2. (met # {} => met' # {}) /\ contested \subseteq contested'
        /\ contested' \subseteq Refs /\ contested \subseteq Refs
    BY DisturbedStays DEF TypeOK
  <2> QED
    BY <2>1, <2>2 DEF Store!Next, Store!Mix
<1>2. ASSUME NEW p \in Procs, Look(p) \/ OpenTmp(p) \/ VaultFails(p)
      PROVE  UNCHANGED Store!vars
  BY <1>2 DEF Look, OpenTmp, VaultFails, store, history, Store!vars
<1>3. ASSUME NEW p \in Procs, FillTmp(p) \/ Fault(p)
      PROVE  Store!Next \/ UNCHANGED Store!vars
  <2>1. UNCHANGED <<accounts, rows, met, contested>>
    BY <1>3 DEF FillTmp, Fault, VaultRaises, Dies, history
  <2>2. CASE met # {}
    BY <2>1, <2>2, MetIsGarble
  <2>3. CASE met = {}
    <3>1. file' = file
      BY <1>3, <2>3, OthersKeepFile
    <3> QED
      BY <2>1, <3>1 DEF Store!vars
  <2> QED
    BY <2>2, <2>3
<1>4. ASSUME NEW p \in Procs, ReplaceVault(p) PROVE Store!Next
  <2>1. CASE met # {}
    BY <1>4, <2>1, MetIsGarble DEF ReplaceVault
  <2> QED
    BY <1>4, <2>1, ReplaceIsPut
<1>5. ASSUME NEW a \in Accounts, RemoveAccount(a) PROVE Store!Next
  BY <1>5 DEF RemoveAccount, RowsWithout, store, history, Store!Next, Store!Close
<1>6. CASE UNCHANGED vars
  BY <1>6 DEF vars, store, history, Store!vars
<1> QED
  BY <1>1, <1>2, <1>3, <1>4, <1>5, <1>6, CommitIsList DEF Next, Step, Fault

(***************************************************************************)
(* CredentialVault implements CredentialStore: whatever reads, rewrites    *)
(* and dies in the vault, a reader sees one credential change at a time.   *)
(***************************************************************************)
THEOREM VaultKeepsStore == Spec => KeepsStore
<1>1. Init => Store!Init
  BY DEF Init, Store!Init, Absent, NoSecrets, NoEntry, Store!NoEntry
<1>2. TypeOK /\ TypeOK' /\ VaultInvariant /\ VaultInvariant' /\ RowsInvariant
        /\ PutsAreNewer /\ [Next]_vars => [Store!Next]_(Store!vars)
  BY StoreStep
<1> QED
  BY <1>1, <1>2, TypeInit, TypeNext, VaultInit, VaultNext, RowsInit, RowsNext,
     PutsInit, PutsNext, PTL DEF Spec, KeepsStore, Store!Spec

-----------------------------------------------------------------------------
(* One command at a time.                                                  *)

LEMMA NobodyMeets ==
    ASSUME \A p, q \in Procs : p = q
    PROVE  Spec => [](met = {} /\ contested = {})
<1> DEFINE Inv == met = {} /\ contested = {}
<1>1. Init => Inv
  BY DEF Init
<1>2. TypeOK /\ Inv /\ [Next]_vars => Inv'
  <2> SUFFICES ASSUME TypeOK, met = {}, contested = {}, [Next]_vars
               PROVE  met' = {} /\ contested' = {}
    OBVIOUS
  <2>1. ASSUME NEW p \in Procs, Start(p)
        PROVE  met' = {} /\ contested' = {}
    <3>1. Running = {}
      BY <2>1 DEF Running, Start
    <3>2. contested' = contested
      BY <2>1, <3>1 DEF Start
    <3> QED
      BY <2>1, <3>2 DEF Start
  <2>2. ASSUME NEW p \in Procs, ReadVault(p)
        PROVE  met' = {} /\ contested' = {}
    <3>1. \A q \in Procs : ~InVault(q)
      BY <2>2 DEF ReadVault, InVault
    <3>2. met' = {}
      BY <2>2, <3>1 DEF ReadVault, Meets
    <3> QED
      BY <2>2, <3>2 DEF ReadVault
  <2>3. ASSUME NEW p \in Procs, Step(p) \/ Fault(p), ~ReadVault(p)
        PROVE  met' = {} /\ contested' = {}
    BY <2>3 DEF Step, Fault, Look, OpenTmp, FillTmp, CommitRow, ReplaceVault,
       VaultFails, VaultRaises, Dies, history
  <2>4. ASSUME NEW a \in Accounts, RemoveAccount(a)
        PROVE  met' = {} /\ contested' = {}
    BY <2>4 DEF RemoveAccount, history
  <2>5. CASE UNCHANGED vars
    BY <2>5 DEF vars, history
  <2> QED
    BY <2>1, <2>2, <2>3, <2>4, <2>5 DEF Next, Fault
<1> QED
  BY <1>1, <1>2, TypeInit, TypeNext, PTL DEF Spec

(***************************************************************************)
(* Without a second process at work the conditions are not needed: through *)
(* every death and failure the vault is whole, holds what was written, and *)
(* every row has its secret, but for a delete between vault and row.       *)
(***************************************************************************)
THEOREM OneCommandAtATime ==
    ASSUME \A p, q \in Procs : p = q
    PROVE  Spec => [](/\ Readable /\ file.secrets = truth
                      /\ \A r \in rows :
                           \/ r \in cut \/ file.secrets[r] # NoEntry
                           \/ \E p \in Procs :
                                proc[p].at = "row" /\ proc[p].op = "delete"
                                  /\ proc[p].ref = r)
<1>1. TypeOK /\ VaultInvariant /\ RowsHaveSecrets /\ met = {} /\ contested = {} =>
        /\ Readable /\ file.secrets = truth
        /\ \A r \in rows :
             \/ r \in cut \/ file.secrets[r] # NoEntry
             \/ \E p \in Procs :
                  proc[p].at = "row" /\ proc[p].op = "delete" /\ proc[p].ref = r
  BY SecretsAreTruth DEF VaultInvariant, VaultIsWhole, RowsHaveSecrets, Undisturbed
<1> QED
  BY <1>1, NobodyMeets, VaultInductive, RowsKeepTheirSecrets, PTL
=============================================================================
