-------------------------- MODULE KeyTransferProofs --------------------------
(***************************************************************************)
(* What an export or a backup tells the user, for lists of any length and  *)
(* searches of any size.                                                   *)
(*                                                                         *)
(* MessagesAreTrue is not inductive.  That the helper is believed only     *)
(* when it has succeeded rests on the status being the one of the helper   *)
(* once wait took it (StatusFits), and that a message told before stays    *)
(* true on no helper running outside the phase of the helper               *)
(* (PhaseFits): a child that wait takes later cannot be the one that       *)
(* counted.                                                                *)
(***************************************************************************)
EXTENDS KeyTransfer, SequenceTheorems, TLAPS

\* do_spawn runs exactly while the operation waits for the helper; only then are there
\* temporary files.  Something is told when the operation is over.
PhaseFits ==
  /\ helper.stage = "none" <=> op.phase # "helper"
  /\ op.phase # "helper" => files = {}
  /\ op.told => op.phase \in {"message", "completed"}
  /\ op.phase = "helper" => op.kind # "backup"
  /\ op.phase = "backing up" => op.kind = "backup"

\* What wait returned for the helper is how the helper ended.
StatusFits ==
  /\ helper.whose = "helper" => helper.child = "reaped" /\ helper.status = helper.exit
  /\ helper.stage \in {"reading", "checked"} => helper.whose # "none"

\* One key is sent to a server.
OneKeySent == op.kind = "export server" => op.keys = <<"OpenPGP">>

IInv ==
  /\ MessagesAreTrue
  /\ PhaseFits
  /\ StatusFits
  /\ OneKeySent

-----------------------------------------------------------------------------
(* The operators.                                                          *)

\* What the idle callbacks make of an operation: they tell nothing and leave it
\* running, warning or completed.
Continued(o, n) ==
  /\ n \in OpType
  /\ n.kind = o.kind /\ n.keys = o.keys /\ n.told = o.told /\ n.done = o.done
  /\ n.runs = o.runs
  /\ n.phase \in {"running", "warning", "completed"}

LEMMA CompletedType ==
  ASSUME NEW o \in OpType, NEW err \in Errors
  PROVE  Continued(o, Completed(o, err))
BY DEF Continued, Completed, OpType, Errors

LEMMA GotType ==
  ASSUME NEW o \in OpType, NEW got \in BOOLEAN, NEW n \in Got(o, got)
  PROVE  Continued(o, n)
<1>1. Continued(o, [o EXCEPT !.phase = "running"]) /\ Continued(o, Warn(o, "GENERAL"))
  BY DEF Continued, Warn, OpType, Errors
<1>2. /\ Continued(o, Completed(o, "none"))
      /\ Continued(o, Completed(o, "CANCELED"))
  BY CompletedType DEF Errors
<1> QED BY <1>1, <1>2 DEF Got, import_idle_cb, export_idle_cb

\* An array of one key holds it.
LEMMA OneKeyIsSent ==
  ASSUME NEW o, o.keys = <<"OpenPGP">>
  PROVE  SentKeys(Len(o.keys)) = DOMAIN o.keys
<1>1. Len(o.keys) = 1 /\ DOMAIN o.keys = {1}
  OBVIOUS
<1>2. Slot(1) = 0
  BY DEF Slot
<1>3. \A i \in 1 .. 1 : i = 1
  OBVIOUS
<1>4. \A k \in 0 .. Slot(1) : \E j \in 1 .. 1 : Slot(j) = k
  BY <1>2
<1> QED BY <1>1, <1>3, <1>4 DEF SentKeys

\* A helper that check_errors accepts by the status of its own has not failed.
LEMMA AcceptedHelper ==
  ASSUME NEW h \in HelperType, h.status = h.exit, NEW v \in BOOLEAN, check_errors(h, v)
  PROVE  h.exit # "failed"
BY DEF check_errors

LEMMA CheckErrorsType ==
  ASSUME NEW h, NEW v
  PROVE  check_errors(h, v) \in BOOLEAN
BY Zenon DEF check_errors

-----------------------------------------------------------------------------
(* The invariant.                                                          *)

LEMMA InitIInv == Init => IInv
<1> SUFFICES ASSUME Init PROVE IInv
  OBVIOUS
<1>1. PICK kind \in Kinds, keys \in UNION {[1 .. n -> {"OpenPGP", "CMS"}] : n \in 0 .. MaxKeys} :
        /\ kind = "export server" => keys = <<"OpenPGP">>
        /\ op = [kind |-> kind, keys |-> keys, phase |-> "idle", source |-> "none",
                 runs |-> 0, refused |-> 0, result |-> NoResult, signals |-> {}, err |-> "none",
                 told |-> FALSE, done |-> FALSE]
  BY DEF Init
<1>2. PICK n \in 0 .. MaxKeys : keys \in [1 .. n -> {"OpenPGP", "CMS"}]
  OBVIOUS
<1>3. keys \in Seq({"OpenPGP", "CMS"}) /\ Len(keys) <= MaxKeys
  BY <1>2, KeyTransferAssumption
<1>4. op \in OpType
  <2>1. NoResult \in ImportResult /\ {} \subseteq {"imported_keys", "imported_secret_keys"}
    BY DEF NoResult, ImportResult
  <2>2. 0 \in 0 .. MaxRefused
    BY KeyTransferAssumption
  <2>3. 0 \in 0 .. BackupRuns
    BY DEF BackupRuns
  <2> QED BY <1>1, <1>3, <2>1, <2>2, <2>3 DEF OpType, Errors
<1>5. /\ op.keys = keys /\ op.kind = kind /\ op.phase = "idle" /\ op.told = FALSE
  BY <1>1
<1>6. /\ helper \in HelperType /\ helper.stage = "none" /\ helper.whose = "none"
      /\ files = {} /\ other \in {"none", "running"}
      /\ config \in [gpg_21 : BOOLEAN, valid_server : BOOLEAN, version_0 : BOOLEAN,
                     talkative : BOOLEAN]
  BY DEF Init, NoHelper, HelperType
<1>7. TypeOK
  BY <1>3, <1>4, <1>5, <1>6 DEF TypeOK
<1>8. PhaseFits /\ StatusFits /\ OneKeySent
  BY <1>1, <1>5, <1>6 DEF PhaseFits, StatusFits, OneKeySent
<1> QED BY <1>5, <1>7, <1>8 DEF IInv, MessagesAreTrue

\* A step that leaves the helper alone, does not enter or leave its phase, and
\* tells nothing that is not so.
LEMMA QuietStep ==
  ASSUME IInv, UNCHANGED <<helper, files, config>>, other' = other,
         op.phase # "helper", op' \in OpType, op'.kind = op.kind, op'.keys = op.keys,
         op'.phase # "helper", op'.phase = "backing up" => op'.kind = "backup",
         op'.told => /\ op'.phase \in {"message", "completed"}
                     /\ op'.kind # "backup" /\ helper.whose # "other" => op'.done
                     /\ op'.kind = "backup" => op'.runs = BackupRuns
  PROVE  IInv'
<1>1. TypeOK'
  BY DEF IInv, MessagesAreTrue, TypeOK, PhaseFits
<1>2. PhaseFits' /\ StatusFits' /\ OneKeySent'
  BY DEF IInv, PhaseFits, StatusFits, OneKeySent
<1> QED BY <1>1, <1>2 DEF IInv, MessagesAreTrue

\* The helper is started.
LEMMA HelperStarts ==
  ASSUME IInv, op.phase \in {"idle", "dialog", "running"}, op.kind # "backup",
         op' = [op EXCEPT !.phase = "helper"],
         files' = {"command", "output"}, UNCHANGED <<other, config>>,
         helper' = [NoHelper EXCEPT !.stage = "spawned", !.child = "running"]
  PROVE  IInv'
<1>1. op \in OpType /\ ~ op.told
  BY DEF IInv, MessagesAreTrue, TypeOK, PhaseFits
<1>2. op' \in OpType /\ helper' \in HelperType
  BY <1>1 DEF OpType, HelperType, NoHelper
<1>3. op'.kind = op.kind /\ op'.keys = op.keys /\ op'.phase = "helper" /\ op'.told = op.told
  BY <1>1 DEF OpType
<1>4. helper'.stage = "spawned" /\ helper'.whose = "none"
  BY DEF NoHelper
<1>5. TypeOK'
  BY <1>2, <1>3 DEF IInv, MessagesAreTrue, TypeOK
<1> QED BY <1>1, <1>3, <1>4, <1>5
        DEF IInv, MessagesAreTrue, PhaseFits, StatusFits, OneKeySent

\* An idle callback whose source or destination is there or is not.
LEMMA GotStep ==
  ASSUME IInv, UNCHANGED <<helper, files, other, config>>,
         op.phase \in {"idle", "dialog", "searching"},
         NEW source \in {"none", "data", "array"}, NEW got \in BOOLEAN,
         op' \in Got(op, got) \cup Got([op EXCEPT !.source = source], got)
  PROVE  IInv'
<1>1. op \in OpType /\ ~ op.told
  BY DEF IInv, MessagesAreTrue, TypeOK, PhaseFits
<1>2. [op EXCEPT !.source = source] \in OpType
  BY <1>1 DEF OpType
<1>3. \/ Continued(op, op')
      \/ Continued([op EXCEPT !.source = source], op')
  BY <1>1, <1>2, GotType
<1>4. op' \in OpType /\ op'.kind = op.kind /\ op'.keys = op.keys /\ op'.told = op.told
      /\ op'.phase \notin {"helper", "backing up"}
  BY <1>1, <1>3 DEF Continued, OpType
<1> QED BY <1>1, <1>4, QuietStep

\* The operation ends by itself, with an error or without.
LEMMA CompletesStep ==
  ASSUME IInv, UNCHANGED <<helper, files, other, config>>, op.phase # "helper",
         NEW err \in Errors, op' = Completed(op, err)
  PROVE  IInv'
<1>1. op \in OpType /\ Continued(op, op')
  BY CompletedType DEF IInv, MessagesAreTrue, TypeOK
<1>2. op'.phase = "completed"
  BY <1>1 DEF Completed, OpType
<1>3. op'.told => /\ op'.kind # "backup" /\ helper.whose # "other" => op'.done
                  /\ op'.kind = "backup" => op'.runs = BackupRuns
  BY <1>1 DEF Continued, IInv, MessagesAreTrue
<1> QED BY <1>1, <1>2, <1>3, QuietStep DEF Continued

\* The helper goes on, or ends.
LEMMA HelperGoesOn ==
  ASSUME IInv, UNCHANGED <<op, files, config>>,
         other' \in {"none", "running", "ended", "reaped"}, helper' \in HelperType,
         helper'.stage = "none" <=> helper.stage = "none",
         helper.stage = "none" => helper'.whose = helper.whose,
         StatusFits'
  PROVE  IInv'
<1>1. TypeOK'
  BY DEF IInv, MessagesAreTrue, TypeOK
<1>2. PhaseFits' /\ OneKeySent'
  BY DEF IInv, PhaseFits, OneKeySent
<1>3. /\ op.told /\ op.kind # "backup" /\ helper'.whose # "other" => op.done
      /\ op.told /\ op.kind = "backup" => op.runs = BackupRuns
  <2>1. op.told => helper.stage = "none"
    BY DEF IInv, PhaseFits
  <2> QED BY <2>1 DEF IInv, MessagesAreTrue
<1> QED BY <1>1, <1>2, <1>3 DEF IInv, MessagesAreTrue

-----------------------------------------------------------------------------
(* The steps of the helper.                                                *)

LEMMA HelperEndsStep ==
  ASSUME IInv, HelperEnds
  PROVE  IInv'
<1>1. PICK exit \in {"ok", "benign", "failed"} :
        helper' = [CloseDialog(helper) EXCEPT !.child = "ended", !.exit = exit]
  BY DEF HelperEnds
<1>2. helper \in HelperType /\ helper.child = "running"
  BY DEF HelperEnds, IInv, MessagesAreTrue, TypeOK
<1>3. /\ helper' \in HelperType
      /\ helper'.whose = helper.whose
      /\ helper'.stage = IF helper.stage = "dialog" THEN "wait" ELSE helper.stage
  BY <1>1, <1>2 DEF CloseDialog, HelperType
<1>4. StatusFits'
  BY <1>2, <1>3 DEF IInv, StatusFits
<1>5. UNCHANGED <<op, files, config>> /\ other' \in {"none", "running", "ended", "reaped"}
  BY DEF HelperEnds, IInv, MessagesAreTrue, TypeOK
<1> QED BY <1>3, <1>4, <1>5, HelperGoesOn

LEMMA HelperBlocksStep ==
  ASSUME IInv, HelperBlocks
  PROVE  IInv'
<1>1. helper \in HelperType /\ helper.child = "running"
  BY DEF HelperBlocks, IInv, MessagesAreTrue, TypeOK
<1>2. /\ helper' \in HelperType
      /\ helper'.whose = helper.whose /\ helper'.stage = helper.stage
  BY <1>1 DEF HelperBlocks, HelperType
<1>3. StatusFits'
  BY <1>1, <1>2 DEF IInv, StatusFits
<1>4. UNCHANGED <<op, files, config>> /\ other' \in {"none", "running", "ended", "reaped"}
  BY DEF HelperBlocks, IInv, MessagesAreTrue, TypeOK
<1> QED BY <1>2, <1>3, <1>4, HelperGoesOn

\* The wait for the helper: the loop of the dialog starts, or somebody closes it.
LEMMA DialogStep ==
  ASSUME IInv, OtherChildEnds \/ SetHandler \/ RunWaitDialog \/ UserClosesWaitDialog
  PROVE  IInv'
<1>1. helper \in HelperType
  BY DEF IInv, MessagesAreTrue, TypeOK
<1>2. \/ helper' = CloseDialog(helper)
      \/ helper.stage \in {"spawned", "handler set"}
         /\ \E s \in {"handler set", "dialog"} : helper' = [helper EXCEPT !.stage = s]
  BY DEF OtherChildEnds, SetHandler, RunWaitDialog, UserClosesWaitDialog
<1>3. /\ helper' \in HelperType
      /\ helper'.whose = helper.whose /\ helper'.child = helper.child
      /\ helper'.status = helper.status /\ helper'.exit = helper.exit
      /\ helper'.stage = "none" <=> helper.stage = "none"
      /\ helper'.stage \in {"reading", "checked"} => helper.stage = helper'.stage
  BY <1>1, <1>2 DEF CloseDialog, HelperType
<1>4. StatusFits'
  BY <1>3 DEF IInv, StatusFits
<1>5. UNCHANGED <<op, files, config>> /\ other' \in {"none", "running", "ended", "reaped"}
  BY DEF OtherChildEnds, SetHandler, RunWaitDialog, UserClosesWaitDialog,
         IInv, MessagesAreTrue, TypeOK
<1> QED BY <1>3, <1>4, <1>5, HelperGoesOn

LEMMA WaitReturnsStep ==
  ASSUME IInv, WaitReturns
  PROVE  IInv'
<1>1. helper \in HelperType /\ helper.stage = "wait"
      /\ other \in {"none", "running", "ended", "reaped"}
  BY DEF WaitReturns, IInv, MessagesAreTrue, TypeOK
<1>2. helper' \in HelperType /\ helper'.stage = "reading" /\ StatusFits'
      /\ other' \in {"none", "running", "ended", "reaped"}
  <2>1. CASE /\ helper' = [helper EXCEPT !.stage = "reading", !.child = "reaped",
                                         !.status = helper.exit, !.whose = "helper"]
             /\ UNCHANGED other
    BY <1>1, <2>1 DEF HelperType, StatusFits
  <2>2. CASE /\ other' = "reaped"
             /\ \E exit \in {"ok", "failed"} :
                  helper' = [helper EXCEPT !.stage = "reading", !.status = exit,
                                           !.whose = "other"]
    BY <1>1, <2>2 DEF HelperType, StatusFits
  <2> QED BY <2>1, <2>2 DEF WaitReturns
<1>3. UNCHANGED <<op, files, config>>
  BY DEF WaitReturns
<1> QED BY <1>1, <1>2, <1>3, HelperGoesOn

LEMMA ReadErrorOutputStep ==
  ASSUME IInv, ReadErrorOutput
  PROVE  IInv'
<1>1. helper \in HelperType /\ helper.stage = "reading"
      /\ other \in {"none", "running", "ended", "reaped"}
  BY DEF ReadErrorOutput, IInv, MessagesAreTrue, TypeOK
<1>2. helper' \in HelperType /\ helper'.stage # "none" /\ StatusFits'
  <2>1. CASE helper.child = "blocked" /\ helper' = [helper EXCEPT !.child = "running"]
    BY <1>1, <2>1 DEF HelperType, StatusFits, IInv
  <2>2. CASE helper' = [helper EXCEPT !.stage = "checked"]
    BY <1>1, <2>2 DEF HelperType, StatusFits, IInv
  <2> QED BY <2>1, <2>2 DEF ReadErrorOutput
<1>3. UNCHANGED <<op, other, files, config>>
  BY DEF ReadErrorOutput
<1> QED BY <1>1, <1>2, <1>3, HelperGoesOn

\* The helper is over: it is believed if it has succeeded.
LEMMA HelperDoneStep ==
  ASSUME IInv, HelperDone
  PROVE  IInv'
<1> DEFINE okay == check_errors(helper, config.version_0)
<1>1. /\ op \in OpType /\ helper \in HelperType /\ config.version_0 \in BOOLEAN
      /\ op.phase = "helper" /\ op.kind # "backup" /\ ~ op.told /\ helper.whose # "none"
  <2>1. op \in OpType /\ helper \in HelperType
        /\ config \in [gpg_21 : BOOLEAN, valid_server : BOOLEAN, version_0 : BOOLEAN,
                       talkative : BOOLEAN]
    BY DEF IInv, MessagesAreTrue, TypeOK
  <2>2. helper.stage = "checked"
    BY DEF HelperDone
  <2> QED BY <2>1, <2>2 DEF IInv, PhaseFits, StatusFits
<1>2. okay \in BOOLEAN
  BY CheckErrorsType
<1>3. okay => helper.whose = "other" \/ helper.exit # "failed"
  <2>1. CASE helper.whose = "helper"
    BY <1>1, <2>1, AcceptedHelper DEF IInv, StatusFits
  <2>2. CASE helper.whose = "other"
    BY <2>2
  <2> QED BY <1>1, <2>1, <2>2 DEF HelperType
<1>4. /\ op' \in OpType /\ op'.kind = op.kind /\ op'.keys = op.keys
      /\ op'.phase \notin {"helper", "backing up"}
      /\ op'.told => op'.phase \in {"message", "completed"} /\ (helper.whose # "other" => op'.done)
  <2>1. CASE op' \in Got([op EXCEPT !.source = "data"], okay)
    <3>1. [op EXCEPT !.source = "data"] \in OpType
      BY <1>1 DEF OpType
    <3>2. Continued([op EXCEPT !.source = "data"], op')
      BY <1>2, <2>1, <3>1, GotType
    <3> QED BY <1>1, <3>2 DEF Continued, OpType
  <2>2. CASE okay /\ op' = [op EXCEPT !.phase = "message", !.told = TRUE,
                                      !.done = helper.exit # "failed"]
    <3>1. op' \in OpType
      <4>1. (helper.exit # "failed") \in BOOLEAN
        OBVIOUS
      <4> HIDE DEF okay
      <4> QED BY <1>1, <2>2, <4>1 DEF OpType
    <3> HIDE DEF okay
    <3> QED BY <1>1, <1>3, <2>2, <3>1 DEF OpType
  <2>3. CASE op' = Completed(op, "none")
    <3>1. Continued(op, op')
      BY <1>1, <2>3, CompletedType DEF Errors
    <3> QED BY <1>1, <3>1 DEF Continued
  <2> QED BY <2>1, <2>2, <2>3 DEF HelperDone
<1>5. /\ helper' \in HelperType /\ helper'.stage = "none" /\ helper'.whose = helper.whose
      /\ helper'.child = helper.child /\ helper'.status = helper.status
      /\ helper'.exit = helper.exit
  BY <1>1 DEF HelperDone, HelperType
<1>6. files' = {} /\ UNCHANGED <<other, config>>
  BY DEF HelperDone
<1>7. TypeOK'
  BY <1>4, <1>5, <1>6 DEF IInv, MessagesAreTrue, TypeOK
<1>8. PhaseFits' /\ StatusFits' /\ OneKeySent'
  BY <1>4, <1>5, <1>6 DEF IInv, PhaseFits, StatusFits, OneKeySent
<1> QED BY <1>1, <1>4, <1>5, <1>7, <1>8 DEF IInv, MessagesAreTrue

-----------------------------------------------------------------------------
(* The steps of the operation.                                             *)

\* server_get_key and server_send_keys.
LEMMA StartHelperStep ==
  ASSUME IInv, NEW after, StartHelper(op, after), op.phase \in {"idle", "dialog", "running"},
         op.kind # "backup",
         UNCHANGED <<other, config>>
  PROVE  IInv' \/ (op' \in after /\ UNCHANGED <<helper, files, other, config>>)
<1>1. CASE op' \in after /\ UNCHANGED <<helper, files>>
  BY <1>1
<1>2. CASE /\ op' = [op EXCEPT !.phase = "helper"]
           /\ files' = {"command", "output"}
           /\ helper' = [NoHelper EXCEPT !.stage = "spawned", !.child = "running"]
  BY <1>2, HelperStarts
<1> QED BY <1>1, <1>2 DEF StartHelper

LEMMA GetKeyStep ==
  ASSUME IInv, server_get_key, op.phase \in {"idle", "dialog"}, op.kind # "backup",
         UNCHANGED <<other, config>>
  PROVE  IInv'
<1>1. IInv' \/ (op' \in Got(op, FALSE) /\ UNCHANGED <<helper, files, other, config>>)
  BY StartHelperStep DEF server_get_key
<1>2. CASE op' \in Got(op, FALSE) /\ UNCHANGED <<helper, files, other, config>>
  BY <1>2, GotStep
<1> QED BY <1>1, <1>2

\* The phase changes, and nothing else.
LEMMA PhaseStep ==
  ASSUME IInv, UNCHANGED <<helper, files, other, config>>,
         op.phase \in {"idle", "dialog", "backing up", "running"},
         NEW phase \in {"dialog", "searching", "backing up", "box", "message"}, NEW err \in Errors,
         phase = "backing up" => op.kind = "backup",
         op' = [op EXCEPT !.phase = phase] \/ op' = [op EXCEPT !.phase = phase, !.err = err]
  PROVE  IInv'
<1>1. op \in OpType /\ ~ op.told
  BY DEF IInv, MessagesAreTrue, TypeOK, PhaseFits
<1>2. op' \in OpType /\ op'.kind = op.kind /\ op'.keys = op.keys /\ ~ op'.told
      /\ op'.phase = phase
  BY <1>1 DEF OpType
<1> QED BY <1>1, <1>2, QuietStep

\* The user is told something.
LEMMA TellStep ==
  ASSUME IInv, UNCHANGED <<helper, files, other, config>>,
         op.phase \in {"idle", "dialog", "running"},
         op.kind # "backup",
         op' = [op EXCEPT !.phase = "message", !.told = TRUE, !.done = TRUE]
  PROVE  IInv'
<1>1. op \in OpType
  BY DEF IInv, MessagesAreTrue, TypeOK
<1>2. op' \in OpType /\ op'.kind = op.kind /\ op'.keys = op.keys /\ op'.done
      /\ op'.phase = "message"
  BY <1>1 DEF OpType
<1> QED BY <1>2, QuietStep

LEMMA IdleStep ==
  ASSUME IInv, IdleCb
  PROVE  IInv'
<1>1. op.phase = "idle" /\ UNCHANGED <<other, config>>
  BY DEF IdleCb
<1>2. CASE clipboard_get_source
  BY <1>1, <1>2, GotStep DEF clipboard_get_source
<1>3. CASE clipboard_get_destination
  BY <1>1, <1>3, GotStep DEF clipboard_get_destination
<1>4. CASE bykeyid_get_source
  <2>1. CASE op' \in Got([op EXCEPT !.source = "array"], TRUE) /\ UNCHANGED <<helper, files>>
    BY <1>1, <2>1, GotStep
  <2>2. CASE server_get_key
    BY <1>1, <1>4, <2>2, GetKeyStep DEF bykeyid_get_source
  <2> QED BY <1>4, <2>1, <2>2 DEF bykeyid_get_source
<1>5. CASE op' = [op EXCEPT !.phase = "dialog"] /\ UNCHANGED <<helper, files>>
  BY <1>1, <1>5, PhaseStep DEF Errors
<1> QED BY <1>2, <1>3, <1>4, <1>5 DEF IdleCb

LEMMA DialogOkStep ==
  ASSUME IInv, DialogOk
  PROVE  IInv'
<1>1. op.phase = "dialog" /\ UNCHANGED <<other, config>>
  BY DEF DialogOk
<1>2. CASE file_get_source
  BY <1>1, <1>2, GotStep DEF file_get_source
<1>3. CASE file_get_destination
  BY <1>1, <1>3, GotStep DEF file_get_destination
<1>4. CASE server_get_source
  <2>1. CASE op' = [op EXCEPT !.phase = "searching"] /\ UNCHANGED <<helper, files>>
    BY <1>1, <2>1, PhaseStep DEF Errors
  <2>2. CASE server_get_key
    BY <1>1, <1>4, <2>2, GetKeyStep DEF server_get_source
  <2> QED BY <1>4, <2>1, <2>2 DEF server_get_source
<1>5. CASE server_get_destination
  BY <1>1, <1>5, GotStep DEF server_get_destination
<1>6. CASE backup_idle_cb
  <2>1. \E phase \in {"backing up", "message"} : op' = [op EXCEPT !.phase = phase]
    BY <1>6 DEF backup_idle_cb
  <2> QED BY <1>1, <1>6, <2>1, PhaseStep DEF Errors, backup_idle_cb
<1> QED BY <1>2, <1>3, <1>4, <1>5, <1>6 DEF DialogOk

\* A run of gpg for a backup: the user is told of the copy after the last one.
LEMMA BackupStep ==
  ASSUME IInv, gpa_backup_key
  PROVE  IInv'
<1>1. op \in OpType /\ op.phase = "backing up" /\ ~ op.told
      /\ UNCHANGED <<helper, files, other, config>>
  BY DEF gpa_backup_key, IInv, MessagesAreTrue, TypeOK, PhaseFits
<1>2. CASE op' = [op EXCEPT !.phase = "message"]
  BY <1>1, <1>2, PhaseStep DEF Errors
<1>3. CASE op' # [op EXCEPT !.phase = "message"]
  <2> DEFINE last == op.runs + 1 = BackupRuns
  <2>1. PICK written \in BOOLEAN :
          /\ op.runs < BackupRuns
          /\ op' = [op EXCEPT !.runs = op.runs + 1,
                              !.phase = IF last THEN "message" ELSE "backing up",
                              !.told = last,
                              !.done = written /\ (op.runs > 0 => op.done)]
    BY <1>1, <1>3 DEF gpa_backup_key
  <2>2. op.runs + 1 \in 0 .. BackupRuns
    <3>1. op.runs \in 0 .. BackupRuns
      BY <1>1 DEF OpType
    <3> QED BY <2>1, <3>1 DEF BackupRuns
  <2>3. /\ op' \in OpType /\ op'.kind = op.kind /\ op'.keys = op.keys
        /\ op'.runs = op.runs + 1 /\ op'.told = last
        /\ op'.phase = IF last THEN "message" ELSE "backing up"
    BY <1>1, <2>1, <2>2 DEF OpType
  <2>4. op.kind = "backup"
    BY <1>1 DEF IInv, PhaseFits
  <2>5. op'.told => /\ op'.phase = "message" /\ op'.runs = BackupRuns
                    /\ op'.kind = "backup"
    BY <2>3, <2>4 DEF BackupRuns
  <2>6. op'.phase # "helper"
    BY <2>3
  <2>7. op'.phase = "backing up" => op'.kind = "backup"
    BY <2>3, <2>4
  <2> HIDE DEF last
  <2> QED BY <1>1, <2>3, <2>5, <2>6, <2>7, QuietStep DEF BackupRuns
<1> QED BY <1>2, <1>3

LEMMA DialogCancelledStep ==
  ASSUME IInv, DialogCancelled
  PROVE  IInv'
<1>1. op.phase = "dialog" /\ UNCHANGED <<helper, files, other, config>>
  BY DEF DialogCancelled
<1>2. CASE op' = Completed(op, "none")
  BY <1>1, <1>2, CompletesStep DEF Errors
<1>3. CASE op' \in Got(op, FALSE)
  BY <1>1, <1>3, GotStep
<1> QED BY <1>2, <1>3 DEF DialogCancelled

LEMMA FileRefusedStep ==
  ASSUME IInv, FileRefused
  PROVE  IInv'
<1>1. op \in OpType /\ op.phase = "dialog" /\ ~ op.told /\ op.refused < MaxRefused
  BY DEF FileRefused, IInv, MessagesAreTrue, TypeOK, PhaseFits
<1>2. op.refused + 1 \in 0 .. MaxRefused
  <2>1. op.refused \in 0 .. MaxRefused
    BY <1>1 DEF OpType
  <2> QED BY <1>1, <2>1, KeyTransferAssumption
<1>3. op' = [op EXCEPT !.refused = op.refused + 1]
  BY DEF FileRefused
<1>4. op' \in OpType /\ op'.kind = op.kind /\ op'.keys = op.keys /\ ~ op'.told
      /\ op'.phase = "dialog"
  BY <1>1, <1>2, <1>3 DEF OpType
<1> QED BY <1>1, <1>4, QuietStep DEF FileRefused

LEMMA SearchStep ==
  ASSUME IInv, search_keys
  PROVE  IInv'
<1>1. op.phase = "searching" /\ UNCHANGED <<helper, files, other, config>>
  BY DEF search_keys
<1>2. PICK n \in 0 .. MaxResults + 1, failed \in BOOLEAN :
        LET found == ~failed /\ n \in 1 .. MaxResults
        IN op' \in Got(IF found THEN [op EXCEPT !.source = "array"] ELSE op, found)
  BY DEF search_keys
<1> DEFINE found == ~failed /\ n \in 1 .. MaxResults
<1>3. op' \in Got(op, found) \cup Got([op EXCEPT !.source = "array"], found)
  BY <1>2
<1>4. found \in BOOLEAN
  OBVIOUS
<1> HIDE DEF found
<1> QED BY <1>1, <1>3, <1>4, GotStep

LEMMA DoneStep ==
  ASSUME IInv, Done
  PROVE  IInv'
<1>1. op \in OpType /\ op.phase = "running" /\ ~ op.told /\ UNCHANGED <<other, config>>
  BY DEF Done, IInv, MessagesAreTrue, TypeOK, PhaseFits
<1>2. CASE (\E r \in Results(op.kind) : op' = import_done_cb(op, r)) /\ UNCHANGED <<helper, files>>
  <2>1. PICK r \in ImportResult : op' = import_done_cb(op, r)
    BY <1>2 DEF Results
  <2>2. op' \in OpType /\ op'.kind = op.kind /\ op'.keys = op.keys /\ ~ op'.told
        /\ op'.phase = "message"
    BY <1>1, <2>1 DEF import_done_cb, OpType
  <2> QED BY <1>1, <1>2, <2>2, QuietStep
<1>3. CASE op.kind # "backup" /\ op' = Exported(op) /\ UNCHANGED <<helper, files>>
  BY <1>1, <1>3, TellStep DEF Exported
<1>4. CASE op.kind = "export server" /\ server_complete_export(op)
  <2>1. CASE op' \in send_keys(op) /\ UNCHANGED <<helper, files>>
    <3>1. CASE op' = Completed(op, "none")
      BY <1>1, <2>1, <3>1, CompletesStep DEF Errors
    <3>2. CASE op' = [op EXCEPT !.phase = "message", !.told = TRUE,
                                !.done = SentKeys(Len(op.keys)) = DOMAIN op.keys]
      <4>1. SentKeys(Len(op.keys)) = DOMAIN op.keys
        BY <1>4, OneKeyIsSent DEF IInv, OneKeySent
      <4>2. op' = [op EXCEPT !.phase = "message", !.told = TRUE, !.done = TRUE]
        BY <3>2, <4>1
      <4> QED BY <1>1, <1>4, <2>1, <4>2, TellStep
    <3> QED BY <2>1, <3>1, <3>2 DEF send_keys
  <2>2. CASE server_send_keys(op)
    <3>1. IInv' \/ (op' \in {Completed(op, "none")} /\ UNCHANGED <<helper, files, other, config>>)
      BY <1>1, <1>4, <2>2, StartHelperStep DEF server_send_keys
    <3>2. CASE op' = Completed(op, "none") /\ UNCHANGED <<helper, files, other, config>>
      BY <1>1, <3>2, CompletesStep DEF Errors
    <3> QED BY <3>1, <3>2
  <2> QED BY <1>4, <2>1, <2>2 DEF server_complete_export
<1> QED BY <1>2, <1>3, <1>4 DEF Done

LEMMA DoneWithErrorStep ==
  ASSUME IInv, DoneWithError
  PROVE  IInv'
<1>1. PICK err \in Errors : op' = [op EXCEPT !.phase = "box", !.err = err]
  BY DEF DoneWithError
<1> QED BY <1>1, PhaseStep DEF DoneWithError

LEMMA CloseStep ==
  ASSUME IInv, CloseWarning \/ CloseBox
  PROVE  IInv'
<1>1. op.err \in Errors
  BY DEF IInv, MessagesAreTrue, TypeOK, OpType
<1> QED BY <1>1, CompletesStep DEF CloseWarning, CloseBox

LEMMA NextIInv == IInv /\ [Next]_vars => IInv'
<1> SUFFICES ASSUME IInv, [Next]_vars PROVE IInv'
  OBVIOUS
<1>1. CASE IdleCb \/ DialogOk \/ DialogCancelled \/ FileRefused \/ CloseWarning \/ CloseBox
  BY <1>1, IdleStep, DialogOkStep, DialogCancelledStep, FileRefusedStep, CloseStep
<1>2. CASE search_keys \/ gpa_backup_key \/ Done \/ DoneWithError
  BY <1>2, SearchStep, BackupStep, DoneStep, DoneWithErrorStep
<1>3. CASE \/ HelperEnds \/ HelperBlocks \/ OtherChildEnds \/ SetHandler \/ RunWaitDialog
           \/ UserClosesWaitDialog
  BY <1>3, HelperEndsStep, HelperBlocksStep, DialogStep
<1>4. CASE WaitReturns \/ ReadErrorOutput \/ HelperDone
  BY <1>4, WaitReturnsStep, ReadErrorOutputStep, HelperDoneStep
<1>5. CASE UNCHANGED vars
  <2>1. UNCHANGED <<op, helper, other, files, config>>
    BY <1>5 DEF vars
  <2>2. TypeOK'
    BY <2>1 DEF IInv, MessagesAreTrue, TypeOK
  <2>3. PhaseFits' /\ StatusFits' /\ OneKeySent'
    BY <2>1 DEF IInv, PhaseFits, StatusFits, OneKeySent
  <2> QED BY <2>1, <2>2, <2>3 DEF IInv, MessagesAreTrue, BackupRuns
<1> QED BY <1>1, <1>2, <1>3, <1>4, <1>5 DEF Next

-----------------------------------------------------------------------------
\* The user is told that exported keys have arrived only if they have, unless wait
\* took another child for the helper (do_spawn, server_send_keys, complete_export);
\* of a backup only after every run of gpg was started (gpa_backup_key).
THEOREM ToldIsTrue == Spec => []MessagesAreTrue
<1>1. IInv => MessagesAreTrue
  BY DEF IInv
<1> QED BY <1>1, InitIInv, NextIInv, PTL DEF Spec

=============================================================================
