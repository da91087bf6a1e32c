---------------------------- MODULE KeyTransfer ----------------------------
(***************************************************************************)
(* Importing, exporting and backing up keys (src/src/gpaimport*op.c,       *)
(* gpaexport*op.c, gpabackupop.c) and the keyserver helpers they use with  *)
(* a gpg older than 2.1 (server-access.c).                                 *)
(*                                                                         *)
(* A behaviour is the life of one operation.  Its idle callback asks for   *)
(* the source or the destination, which differs between the operations,    *)
(* then starts GPGME; the handlers of "done" show an error, complete the   *)
(* operation and emit its signals.                                         *)
(*                                                                         *)
(* A helper is a child process.  It is awaited in the loop of a dialog     *)
(* that the handler of SIGCHLD closes, then with wait, which blocks the    *)
(* program and takes any child; its error output is read after that.       *)
(***************************************************************************)
EXTENDS Naturals, Sequences, FiniteSets

CONSTANTS
  MaxKeys,       \* bound: keys of an export
  MaxResults,    \* MAX_KEYSEARCH_RESULTS
  MaxRefused     \* bound: files that cannot be opened, one after the other

ASSUME KeyTransferAssumption == MaxKeys \in Nat \ {0} /\ MaxResults \in Nat /\ MaxRefused \in Nat

VARIABLES
  op,            \* the operation
  helper,        \* the keyserver helper and what do_spawn is doing with it
  other,         \* another child of the program
  files,         \* temporary files
  config         \* the installed gpg and the keyserver

vars == <<op, helper, other, files, config>>

ImportKinds == {"import file", "import clipboard", "import server", "import bykeyid"}
ExportKinds == {"export file", "export clipboard", "export server"}
Kinds == ImportKinds \cup ExportKinds \cup {"backup"}
Errors == {"none", "CANCELED", "GENERAL"}

(***************************************************************************)
(* Data.                                                                   *)
(***************************************************************************)
\* source: nothing, a data object, or an array of keys to receive.  result is GPGME's
\* import result: whether it added a key, changed one, added a secret key.
\* told: what the user was told; done: the keys really are where they should be.
\* runs: how often a backup has started gpg, for the fingerprint, the public and the
\* secret key.
BackupRuns == 3
ImportResult == [imported : BOOLEAN, updated : BOOLEAN, secret : BOOLEAN]
NoResult == [imported |-> FALSE, updated |-> FALSE, secret |-> FALSE]

OpType ==
  [kind : Kinds, keys : Seq({"OpenPGP", "CMS"}),
   phase : {"idle", "dialog", "searching", "helper", "backing up", "warning", "running",
            "box", "message", "completed"}, runs : 0 .. BackupRuns,
   source : {"none", "data", "array"}, refused : 0 .. MaxRefused, result : ImportResult,
   signals : SUBSET {"imported_keys", "imported_secret_keys"}, err : Errors,
   told : BOOLEAN, done : BOOLEAN]

\* stage: where do_spawn is; child: the helper; exit: its status once it has ended;
\* status: what wait returned; whose: which child that was.
HelperType ==
  [stage : {"none", "spawned", "handler set", "dialog", "wait", "reading", "checked"},
   child : {"none", "running", "blocked", "ended", "reaped"},
   exit : {"ok", "benign", "failed"}, status : {"ok", "benign", "failed"},
   whose : {"none", "helper", "other"}]

NoHelper == [stage |-> "none", child |-> "none", exit |-> "failed", status |-> "failed",
             whose |-> "none"]

TypeOK ==
  /\ op \in OpType /\ Len(op.keys) <= MaxKeys
  /\ helper \in HelperType
  /\ other \in {"none", "running", "ended", "reaped"}
  /\ files \subseteq {"command", "output"}
  /\ helper.stage # "none" => files = {"command", "output"}
  /\ op.phase = "completed" => files = {}
  /\ config \in [gpg_21 : BOOLEAN, valid_server : BOOLEAN, version_0 : BOOLEAN,
                 talkative : BOOLEAN]

\* The constructors.  A list of several keys comes from the export to a file or the
\* clipboard.  talkative: the helper writes more to its error output than a pipe holds.
Init ==
  /\ \E kind \in Kinds, keys \in UNION {[1 .. n -> {"OpenPGP", "CMS"}] : n \in 0 .. MaxKeys} :
       /\ (kind \in ExportKinds) = (Len(keys) > 0)
       /\ kind = "export server" => keys = <<"OpenPGP">>
       /\ op = [kind |-> kind, keys |-> keys, phase |-> "idle", source |-> "none",
                runs |-> 0, refused |-> 0, result |-> NoResult, signals |-> {}, err |-> "none",
                told |-> FALSE, done |-> FALSE]
  /\ helper = NoHelper
  /\ other \in {"none", "running"}
  /\ files = {}
  /\ config \in [gpg_21 : BOOLEAN, valid_server : BOOLEAN, version_0 : BOOLEAN,
                 talkative : BOOLEAN]

(***************************************************************************)
(* Operators on the operation.                                             *)
(***************************************************************************)
Completed(o, err) == [o EXCEPT !.phase = "completed", !.err = err]
Warn(o, err) == [o EXCEPT !.phase = "warning", !.err = err]

\* The source or destination is there, or not: then the operation is cancelled.
MixedKeys(o) == Cardinality({o.keys[i] : i \in DOMAIN o.keys}) > 1

\* Mutant: without a source the operation just ends.
ImportStops(o, got) ==
  IF got THEN {[o EXCEPT !.phase = "running"], Warn(o, "GENERAL")} ELSE {o}

import_idle_cb(o, got) ==
  IF got THEN {[o EXCEPT !.phase = "running"], Warn(o, "GENERAL")}
  ELSE {Completed(o, "CANCELED")}

export_idle_cb(o, got) ==
  IF ~got THEN {Completed(o, "CANCELED")}
  ELSE IF MixedKeys(o) THEN {Completed(o, "none")}
  ELSE {[o EXCEPT !.phase = "running"], Warn(o, "GENERAL")}

Got(o, got) == IF o.kind \in ImportKinds THEN import_idle_cb(o, got) ELSE export_idle_cb(o, got)

(***************************************************************************)
(* The idle callbacks: getting the source or the destination.              *)
(***************************************************************************)
\* The clipboard needs no dialog; making the data object may fail.
clipboard_get_source ==
  /\ op.kind = "import clipboard"
  /\ op' \in Got([op EXCEPT !.source = "data"], TRUE) \cup Got(op, FALSE)
  /\ UNCHANGED <<helper, files>>

clipboard_get_destination ==
  /\ op.kind = "export clipboard"
  /\ op' \in Got(op, TRUE) \cup Got(op, FALSE)
  /\ UNCHANGED <<helper, files>>

(***************************************************************************)
(* The keyserver helper.                                                   *)
(***************************************************************************)
\* server_get_key and server_send_keys up to the spawn: the command file is written,
\* the dialog made, the output file opened and the helper started, if there is one
\* for the protocol of the server.  after is what becomes of the operation if not.
StartHelper(o, after) ==
  \/ /\ config.valid_server
     /\ op' = [o EXCEPT !.phase = "helper"]
     /\ files' = {"command", "output"}
     /\ helper' = [NoHelper EXCEPT !.stage = "spawned", !.child = "running"]
  \/ /\ op' \in after /\ UNCHANGED <<helper, files>>

server_get_key == StartHelper(op, Got(op, FALSE))
server_send_keys(o) == StartHelper(o, {Completed(o, "none")})

\* A child ends.  Its SIGCHLD closes the dialog if do_spawn is in it; before that
\* there is no handler, or the dialog does not listen yet.
CloseDialog(h) == IF h.stage = "dialog" THEN [h EXCEPT !.stage = "wait"] ELSE h

HelperEnds ==
  /\ helper.child = "running"
  /\ config.talkative => helper.stage = "reading"
  /\ \E exit \in {"ok", "benign", "failed"} :
       helper' = [CloseDialog(helper) EXCEPT !.child = "ended", !.exit = exit]
  /\ UNCHANGED <<op, other, files, config>>

\* The pipe is full and the helper waits for its reader.
HelperBlocks ==
  /\ helper.child = "running" /\ config.talkative /\ helper.stage # "reading"
  /\ helper' = [helper EXCEPT !.child = "blocked"]
  /\ UNCHANGED <<op, other, files, config>>

OtherChildEnds ==
  /\ other = "running"
  /\ other' = "ended"
  /\ helper' = CloseDialog(helper)
  /\ UNCHANGED <<op, files, config>>

SetHandler ==
  /\ helper.stage = "spawned"
  /\ helper' = [helper EXCEPT !.stage = "handler set"]
  /\ UNCHANGED <<op, other, files, config>>

RunWaitDialog ==
  /\ helper.stage = "handler set"
  /\ helper' = [helper EXCEPT !.stage = "dialog"]
  /\ UNCHANGED <<op, other, files, config>>

\* The user closes the dialog, which has no button, by its window.
UserClosesWaitDialog ==
  /\ helper.stage = "dialog"
  /\ helper' = CloseDialog(helper)
  /\ UNCHANGED <<op, other, files, config>>

\* wait takes any child that has ended.
WaitReturns ==
  /\ helper.stage = "wait"
  /\ \/ /\ helper.child = "ended"
        /\ helper' = [helper EXCEPT !.stage = "reading", !.child = "reaped",
                                    !.status = helper.exit, !.whose = "helper"]
        /\ UNCHANGED other
     \/ /\ other = "ended"
        /\ other' = "reaped"
        /\ \E exit \in {"ok", "failed"} :
             helper' = [helper EXCEPT !.stage = "reading", !.status = exit, !.whose = "other"]
  /\ UNCHANGED <<op, files, config>>

\* Reading empties the pipe, and ends when the helper has.
ReadErrorOutput ==
  /\ helper.stage = "reading"
  /\ \/ /\ helper.child = "blocked"
        /\ helper' = [helper EXCEPT !.child = "running"]
     \/ /\ helper.child \in {"ended", "reaped"}
        /\ helper' = [helper EXCEPT !.stage = "checked"]
  /\ UNCHANGED <<op, other, files, config>>

\* Mutant: the exit status counts only if the helper tells no error code.
LenientCheck(h, version_0) == ~version_0 \/ h.status = "ok"

\* A status other than 0 is no error if the helper speaks of a key that is not there or
\* there already.  The first version of the protocol has no codes.
check_errors(h, version_0) ==
  h.status = "ok" \/ (~version_0 /\ (h.status = "benign" \/ h.exit = "benign"))

\* invoke_helper ends and the temporary files are removed.
HelperDone ==
  /\ helper.stage = "checked"
  /\ LET okay == check_errors(helper, config.version_0)
     IN /\ op' \in IF op.kind \in ImportKinds
                THEN Got([op EXCEPT !.source = "data"], okay)
                ELSE {IF okay THEN [op EXCEPT !.phase = "message", !.told = TRUE,
                                              !.done = helper.exit # "failed"]
                      ELSE Completed(op, "none")}
        /\ files' = {}
  /\ helper' = [helper EXCEPT !.stage = "none"]
  /\ UNCHANGED <<other, config>>

(***************************************************************************)
(* The keyserver with a gpg from 2.1 on.                                   *)
(***************************************************************************)
\* The search for keys blocks; too many results, none, or an error are shown in a box.
search_keys ==
  /\ op.phase = "searching"
  /\ \E n \in 0 .. MaxResults + 1, failed \in BOOLEAN :
       LET found == ~failed /\ n \in 1 .. MaxResults
       IN op' \in Got(IF found THEN [op EXCEPT !.source = "array"] ELSE op, found)
  /\ UNCHANGED <<helper, other, files, config>>

\* The array of the keys to send: the loop counts every key twice, so that the second
\* one is put behind the end mark.
Slot(i) == 2 * (i - 1)
SentKeys(n) == {i \in 1 .. n : \A k \in 0 .. Slot(i) : \E j \in 1 .. n : Slot(j) = k}

send_keys(o) ==
  {Completed(o, "none"),
   [o EXCEPT !.phase = "message", !.told = TRUE, !.done = SentKeys(Len(o.keys)) = DOMAIN o.keys]}

(***************************************************************************)
(* Getting the source or destination, continued.                           *)
(***************************************************************************)
\* A key that is already there is received again.
bykeyid_get_source ==
  /\ op.kind = "import bykeyid"
  /\ IF config.gpg_21
     THEN op' \in Got([op EXCEPT !.source = "array"], TRUE) /\ UNCHANGED <<helper, files>>
     ELSE server_get_key

\* The others ask in a dialog.
AsksFirst == {"import file", "export file", "import server", "export server", "backup"}

IdleCb ==
  /\ op.phase = "idle"
  /\ \/ clipboard_get_source \/ clipboard_get_destination \/ bykeyid_get_source
     \/ /\ op.kind \in AsksFirst
        /\ op' = [op EXCEPT !.phase = "dialog"]
        /\ UNCHANGED <<helper, files>>
  /\ UNCHANGED <<other, config>>

\* Files: the dialog runs until there is one that can be opened, or it is cancelled.
file_get_source ==
  /\ op.kind = "import file" /\ op' \in Got([op EXCEPT !.source = "data"], TRUE)
  /\ UNCHANGED <<helper, files>>
file_get_destination ==
  /\ op.kind = "export file" /\ op' \in Got(op, TRUE)
  /\ UNCHANGED <<helper, files>>

FileRefused ==
  /\ op.phase = "dialog" /\ op.kind \in {"import file", "export file"}
  /\ op.refused < MaxRefused
  /\ op' = [op EXCEPT !.refused = @ + 1]
  /\ UNCHANGED <<helper, other, files, config>>

\* The keyserver: for an import the keys are searched now, or the helper is run.
server_get_source ==
  /\ op.kind = "import server"
  /\ IF config.gpg_21
     THEN op' = [op EXCEPT !.phase = "searching"] /\ UNCHANGED <<helper, files>>
     ELSE server_get_key
server_get_destination ==
  /\ op.kind = "export server" /\ op' \in Got(op, TRUE)
  /\ UNCHANGED <<helper, files>>

\* The backup is written into a file, if it can be opened: else the user is told of
\* the error.
backup_idle_cb ==
  /\ op.kind = "backup"
  /\ \E opened \in BOOLEAN :
       op' = [op EXCEPT !.phase = IF opened THEN "backing up" ELSE "message"]
  /\ UNCHANGED <<helper, files>>

\* Three runs of gpg write into it, one after the other; the first that cannot be
\* started is the last, and an error for the user.  What gpg makes of a run is not
\* asked: after the third the user is told that the copy has been made.
gpa_backup_key ==
  /\ op.phase = "backing up"
  /\ \/ op' = [op EXCEPT !.phase = "message"]
     \/ /\ op.runs < BackupRuns
        /\ \E written \in BOOLEAN :
             LET last == op.runs + 1 = BackupRuns
             IN op' = [op EXCEPT !.runs = @ + 1,
                                 !.phase = IF last THEN "message" ELSE @,
                                 !.told = last,
                                 !.done = written /\ (op.runs > 0 => op.done)]
  /\ UNCHANGED <<helper, other, files, config>>

DialogOk ==
  /\ op.phase = "dialog"
  /\ \/ file_get_source \/ file_get_destination
     \/ server_get_source \/ server_get_destination \/ backup_idle_cb
  /\ UNCHANGED <<other, config>>

DialogCancelled ==
  /\ op.phase = "dialog"
  /\ op' \in IF op.kind = "backup" THEN {Completed(op, "none")} ELSE Got(op, FALSE)
  /\ UNCHANGED <<helper, other, files, config>>

CloseWarning ==
  /\ op.phase = "warning"
  /\ op' = Completed(op, op.err)
  /\ UNCHANGED <<helper, other, files, config>>

(***************************************************************************)
(* The handlers of "done".                                                 *)
(***************************************************************************)
\* What GPGME may have imported: a key that is there is not new.
Results(kind) ==
  {r \in ImportResult : /\ kind = "import bykeyid" => ~r.imported
                        /\ kind \in {"import server", "import bykeyid"} => ~r.secret}

\* The results are shown after the signals.
import_done_cb(o, r) ==
  [o EXCEPT !.phase = "message", !.result = r,
            !.signals = IF r.imported /\ r.secret THEN {"imported_secret_keys"}
                        ELSE IF r.imported THEN {"imported_keys"} ELSE {}]

\* complete_export tells the user, and for the server sends the keys first.
Exported(o) == [o EXCEPT !.phase = "message", !.told = TRUE, !.done = TRUE]

server_complete_export(o) ==
  IF config.gpg_21 THEN op' \in send_keys(o) /\ UNCHANGED <<helper, files>>
  ELSE server_send_keys(o)

Done ==
  /\ op.phase = "running"
  /\ \/ /\ op.kind \in ImportKinds
        /\ \E r \in Results(op.kind) : op' = import_done_cb(op, r)
        /\ UNCHANGED <<helper, files>>
     \/ /\ op.kind \in {"export file", "export clipboard"}
        /\ op' = Exported(op)
        /\ UNCHANGED <<helper, files>>
     \/ op.kind = "export server" /\ server_complete_export(op)
  /\ UNCHANGED <<other, config>>

\* Also a cancelled operation shows a box.
DoneWithError ==
  /\ op.phase = "running"
  /\ \E err \in Errors \ {"none"} : op' = [op EXCEPT !.phase = "box", !.err = err]
  /\ UNCHANGED <<helper, other, files, config>>

CloseBox ==
  /\ op.phase \in {"box", "message"}
  /\ op' = Completed(op, op.err)
  /\ UNCHANGED <<helper, other, files, config>>

Next ==
  \/ IdleCb \/ DialogOk \/ DialogCancelled \/ FileRefused \/ CloseWarning \/ search_keys
  \/ HelperEnds \/ HelperBlocks \/ OtherChildEnds \/ SetHandler \/ RunWaitDialog
  \/ UserClosesWaitDialog \/ WaitReturns \/ ReadErrorOutput \/ HelperDone
  \/ gpa_backup_key \/ Done \/ DoneWithError \/ CloseBox

Spec == Init /\ [][Next]_vars

\* The main loop, GPGME and the children get on; the user answers the dialogs and in
\* the end also closes the one that waits for the helper.
FairSpec ==
  /\ Spec
  /\ WF_vars(IdleCb) /\ WF_vars(DialogOk \/ DialogCancelled) /\ WF_vars(CloseWarning)
  /\ WF_vars(search_keys) /\ WF_vars(HelperEnds) /\ WF_vars(SetHandler)
  /\ WF_vars(RunWaitDialog) /\ WF_vars(UserClosesWaitDialog) /\ WF_vars(WaitReturns)
  /\ WF_vars(ReadErrorOutput) /\ WF_vars(HelperDone) /\ WF_vars(Done \/ DoneWithError)
  /\ WF_vars(gpa_backup_key) /\ WF_vars(CloseBox)

(***************************************************************************)
(* Properties.                                                             *)
(***************************************************************************)
\* The user is told that the keys are on the server, in the file or in the clipboard
\* only if they are, unless wait took another child for the helper: do_spawn reads
\* that child's status, and the claim stops there.  Of a backup the code cannot know:
\* gpa_backup_key does not ask how gpg ended, so that the user may be told of a copy
\* that is not there.  What holds is that he is told of one only after all three
\* runs could be started, and of an error else.  TypeOK is a part of it.
MessagesAreTrue ==
  /\ TypeOK
  /\ op.told /\ op.kind # "backup" /\ helper.whose # "other" => op.done
  /\ op.told /\ op.kind = "backup" => op.runs = BackupRuns

\* An operation completes, although another child may end first, unless the helper
\* waits for its error output to be read.  A SIGCHLD that comes before the dialog is
\* lost, and then the dialog stays until the user closes it, which FairSpec assumes.
TransfersComplete == config.talkative \/ <>(op.phase = "completed")

=============================================================================
