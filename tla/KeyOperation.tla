---------------------------- MODULE KeyOperation ----------------------------
(***************************************************************************)
(* The operations on keys: sign, set the owner trust, change the expiry    *)
(* date or the passphrase, delete (src/src/gpakey*op.c), and generate a    *)
(* key, with all parameters, with the wizard or on a card (gpagenkey*op.c). *)
(*                                                                         *)
(* A behaviour is the life of one operation.  It begins with an idle       *)
(* callback, or with the wizard.  For each of its keys it runs a dialog,   *)
(* starts gpg and waits for "done" of its context, whose handlers show an  *)
(* error in a box, move on to the next key and release the parameters of   *)
(* the edit, in this order.  In the end it emits "completed".              *)
(*                                                                         *)
(* An edit is a dialogue with gpg: gpg sends a burst of statuses, of which *)
(* the last may be a prompt, edit_fnc is called for each, and gpg reads    *)
(* the line that was typed.  A callback that returns an error makes GPGME  *)
(* give up the edit with this error, sooner or later.                      *)
(***************************************************************************)
EXTENDS KeyEdit, FiniteSets

CONSTANTS
  MaxKeys,       \* bound: keys of an operation
  MaxFailures    \* bound: starts that fail and programs that die

ASSUME KeyOperationAssumption == MaxKeys \in Nat \ {0} /\ MaxFailures \in Nat

VARIABLES
  op,            \* the operation
  edit,          \* the parameters of the running edit
  gpg,           \* the gpg of the running edit or GPGME operation
  keys,          \* what has happened to each key
  settings,      \* gpg.conf and the card
  failures

vars == <<op, edit, gpg, keys, settings, failures>>

GenKeyKinds == {"advanced", "simple", "card"}
KeyKinds == {"sign", "trust", "expire", "passwd", "delete"}
Kinds == KeyKinds \cup GenKeyKinds
Keys == 1 .. MaxKeys
Errors == EditErrors \ {"EAGAIN"}

(***************************************************************************)
(* Data.                                                                   *)
(***************************************************************************)
\* current: the key at work, n + 1 after the last; modified counts the keys done
\* (signed_keys, modified_keys); err: what the box shows or "completed" carried.
OpType ==
  [kind : Kinds, n : Keys, current : 1 .. MaxKeys + 1, modified : 0 .. MaxKeys,
   phase : {"idle", "dialog", "wizard", "running", "box", "warning", "backup",
            "confirm", "completed", "abandoned"},
   signer : BOOLEAN, do_backup : BOOLEAN,
   signals : SUBSET {"changed_wot", "new_expiration", "generated_key"}, err : Errors]

NoEdit == [kind |-> "none", data |-> "", state |-> "START", post |-> "START", err |-> "none"]

\* at: the prompt gpg is to wait at when its burst is out; input: lines typed and not
\* read; with: the user's lines it has read.
GpgType ==
  [runs : BOOLEAN, ended : BOOLEAN, at : Prompts \cup {"none"}, burst : Seq(Statuses),
   input : Seq(Lines), changed : BOOLEAN, with : SUBSET Lines]

NoGpg == [runs |-> FALSE, ended |-> FALSE, at |-> "none", burst |-> <<>>,
          input |-> <<>>, changed |-> FALSE, with |-> {}]

\* told: what the operation was told in "done"; saved: gpg has made and saved the
\* change, with the data the user gave; declined: gpg went on without a word.
KeyRecord ==
  [told : {"nothing", "ok", "error"}, saved : BOOLEAN, declined : BOOLEAN]

Untouched == [told |-> "nothing", saved |-> FALSE, declined |-> FALSE]

TypeOK ==
  /\ op \in OpType
  /\ edit \in ParmsType \cup {NoEdit}
  /\ gpg \in GpgType
  /\ keys \in [Keys -> KeyRecord]
  /\ settings \in SettingsType
  /\ failures \in 0 .. MaxFailures

\* The constructors: the handlers are connected and an idle callback is added, or
\* the wizard is shown.  Lists of more than one key come from sign and delete.
Init ==
  /\ \E kind \in Kinds, n \in Keys, signer, backup \in BOOLEAN :
       /\ n > 1 => kind \in {"sign", "delete"}
       /\ ~signer => kind = "sign"
       /\ backup => kind = "simple"
       /\ op = [kind |-> kind, n |-> n, current |-> 1, modified |-> 0,
                phase |-> IF kind = "simple" THEN "wizard" ELSE "idle",
                signer |-> signer, do_backup |-> backup, signals |-> {}, err |-> "none"]
  /\ edit = NoEdit /\ gpg = NoGpg
  /\ keys = [k \in Keys |-> Untouched]
  /\ settings \in SettingsType
  /\ failures = 0

(***************************************************************************)
(* The life of an operation, as operators from one state of it to the next. *)
(***************************************************************************)
Completed(o, signals, err) ==
  [o EXCEPT !.phase = "completed", !.err = err, !.signals = @ \cup signals]

\* A start is over without gpg running: the idle callback tells the end at once,
\* next tells first whether the keys before have changed.
Announce(announces) == IF announces THEN {"changed_wot"} ELSE {}

\* Mutant: after an error the keys done before it are forgotten.
SignNextForgets(o, err) == Completed(o, Announce(o.modified > 0 /\ err = "none"), err)

sign_next(o, err) == Completed(o, Announce(o.modified > 0), err)
trust_next(o, err) == Completed(o, Announce(o.modified > 0), err)
expire_next(o, err) == Completed(o, Announce(o.modified > 0), err)
passwd_next(o, err) == Completed(o, {}, err)
delete_next(o, err) == Completed(o, {"changed_wot"}, err)

Finish(o, err) ==
  CASE o.kind = "sign" -> sign_next(o, err) [] o.kind = "trust" -> trust_next(o, err)
    [] o.kind = "expire" -> expire_next(o, err) [] o.kind = "passwd" -> passwd_next(o, err)
    [] o.kind = "delete" -> delete_next(o, err) [] OTHER -> Completed(o, {}, err)

\* start has returned this error.  Only the first start is called from the idle
\* callback, the others from next.
NotStarted(o, err) ==
  IF o.current = 1 THEN Completed(o, {}, err) ELSE Finish(o, err)

\* The handlers of "done" that count the key and show errors.
Count(o, err) == IF err = "none" THEN [o EXCEPT !.modified = @ + 1] ELSE o
sign_done_error_cb(o, err) == Count(o, err)
trust_done_error_cb(o, err) == Count(o, err)
expire_done_error_cb(o, err) == Count(o, err)
passwd_done_error_cb(o, err) == o
delete_done_error_cb(o, err) == o
advanced_done_error_cb(o, err) == o
simple_done_error_cb(o, err) == o
card_done_error_cb(o, err) == o

DoneError(o, err) ==
  CASE o.kind = "sign" -> sign_done_error_cb(o, err)
    [] o.kind = "trust" -> trust_done_error_cb(o, err)
    [] o.kind = "expire" -> expire_done_error_cb(o, err)
    [] o.kind = "passwd" -> passwd_done_error_cb(o, err)
    [] o.kind = "delete" -> delete_done_error_cb(o, err)
    [] o.kind = "advanced" -> advanced_done_error_cb(o, err)
    [] o.kind = "simple" -> simple_done_error_cb(o, err)
    [] OTHER -> card_done_error_cb(o, err)

\* All of them show a box, unless there is no error or the user cancelled.
ShowsBox(err) == err \notin {"none", "CANCELED"}

\* The handlers of "done" that go on.  NextKey: to the next key, whose start begins
\* with its dialog.
NextKey(o) ==
  LET next == [o EXCEPT !.current = @ + 1]
  IN IF next.current > next.n THEN Finish(next, "none") ELSE [next EXCEPT !.phase = "dialog"]

\* Mutant: an edit that failed is not followed by anything.
TrustDoneStops(o, err) == IF err = "none" THEN NextKey(o) ELSE o

sign_done_cb(o, err) == NextKey(o)
trust_done_cb(o, err) == NextKey(o)
passwd_done_cb(o, err) == NextKey(o)
delete_done_cb(o, err) == NextKey(o)
expire_done_cb(o, err) ==
  NextKey(IF err = "none" THEN [o EXCEPT !.signals = @ \cup {"new_expiration"}] ELSE o)

Generated(o, err) == Completed(o, IF err = "none" THEN {"generated_key"} ELSE {}, err)
advanced_done_cb(o, err) == Generated(o, err)
card_done_cb(o, err) == Generated(o, err)
simple_done_cb(o, err) ==
  IF err = "none" /\ o.do_backup THEN [o EXCEPT !.phase = "backup"] ELSE Generated(o, err)

DoneCb(o, err) ==
  CASE o.kind = "sign" -> sign_done_cb(o, err) [] o.kind = "trust" -> trust_done_cb(o, err)
    [] o.kind = "expire" -> expire_done_cb(o, err) [] o.kind = "passwd" -> passwd_done_cb(o, err)
    [] o.kind = "delete" -> delete_done_cb(o, err)
    [] o.kind = "advanced" -> advanced_done_cb(o, err)
    [] o.kind = "simple" -> simple_done_cb(o, err) [] OTHER -> card_done_cb(o, err)

EmitDone(o, err) ==
  LET counted == DoneError(o, err)
  IN IF ShowsBox(err) THEN [counted EXCEPT !.phase = "box", !.err = err]
     ELSE DoneCb(counted, err)

(***************************************************************************)
(* The idle callbacks, the dialogs and the starts.                         *)
(***************************************************************************)
sign_idle_cb ==
  /\ op.kind = "sign"
  /\ op' = IF op.signer THEN [op EXCEPT !.phase = "dialog"] ELSE Completed(op, {}, "none")

dialog_idle_cb ==
  /\ op.kind \in {"trust", "expire", "delete", "advanced", "card"}
  /\ op' = [op EXCEPT !.phase = "dialog"]

IdleCb ==
  /\ op.phase = "idle"
  /\ sign_idle_cb \/ dialog_idle_cb
  /\ UNCHANGED <<edit, gpg, keys, settings, failures>>

\* What the user may answer in the dialogs.  The dialog for a new key stays until
\* its values are valid.
key_sign_run_dialog == {"sign", "lsign"}
ownertrust_run_dialog == {"value", "5"}
expiry_dialog_run == {"0", "date"}
key_gen_run_dialog == {"Y", "N"}

\* The parameters of the edit are made, its release is connected to "done", and gpg
\* is started.  A failure is shown in a warning.
sign_start == op.kind = "sign" /\ \E c \in key_sign_run_dialog : edit' = sign_parms_new(c)
trust_start == op.kind = "trust" /\ \E t \in ownertrust_run_dialog : edit' = trust_parms_new(t)
expire_start == op.kind = "expire" /\ \E d \in expiry_dialog_run : edit' = expire_parms_new(d)
passwd_start == op.kind = "passwd" /\ edit' = passwd_parms_new
card_start == op.kind = "card" /\ \E b \in key_gen_run_dialog : edit' = card_parms_new(b)
delete_start == op.kind = "delete" /\ edit' = NoEdit
generate_start == op.kind \in {"advanced", "simple"} /\ edit' = NoEdit

Waits(prompts) == IF prompts # <<>> /\ AsksForLine(Last(prompts)) THEN Last(prompts).arg ELSE "none"

StartEdit ==
  /\ \E r \in GpgStarts(op.kind) :
       gpg' = [NoGpg EXCEPT !.runs = TRUE, !.at = Waits(r.burst), !.burst = r.burst]
  /\ sign_start \/ trust_start \/ expire_start \/ passwd_start \/ card_start

StartOperation ==
  /\ gpg' = [NoGpg EXCEPT !.runs = TRUE]
  /\ delete_start \/ generate_start

\* The user has agreed in the dialog, or there is none.
Starting ==
  \/ op.phase \in {"dialog", "wizard", "confirm"}
  \/ op.phase = "idle" /\ op.kind = "passwd"

Start ==
  /\ Starting
  /\ op' = [op EXCEPT !.phase = "running"]
  /\ StartEdit \/ StartOperation
  /\ UNCHANGED <<keys, settings, failures>>

StartFails ==
  /\ failures < MaxFailures
  /\ Starting
  /\ failures' = failures + 1
  /\ op' = [op EXCEPT !.phase = "warning", !.err = "GENERAL"]
  /\ UNCHANGED <<edit, gpg, keys, settings>>

\* Before a secret key is deleted there is a second dialog.
delete_dialog_confirm ==
  /\ op.kind = "delete" /\ op.phase = "dialog"
  /\ op' = [op EXCEPT !.phase = "confirm"]
  /\ UNCHANGED <<edit, gpg, keys, settings, failures>>

DialogCancelled ==
  /\ op.phase \in {"dialog", "confirm"}
  /\ op' = NotStarted(op, "CANCELED")
  /\ UNCHANGED <<edit, gpg, keys, settings, failures>>

\* The wizard's window is destroyed and nobody tells the operation.
WizardCancelled ==
  /\ op.phase = "wizard"
  /\ op' = [op EXCEPT !.phase = "abandoned"]
  /\ UNCHANGED <<edit, gpg, keys, settings, failures>>

CloseWarning ==
  /\ op.phase = "warning"
  /\ op' = NotStarted(op, op.err)
  /\ UNCHANGED <<edit, gpg, keys, settings, failures>>

(***************************************************************************)
(* The dialogue.                                                           *)
(***************************************************************************)
Editing == op.phase = "running" /\ gpg.runs /\ edit # NoEdit

\* GPGME hands the next status to edit_fnc, which types the answer.
DeliverStatus ==
  /\ Editing /\ gpg.burst # <<>>
  /\ \E r \in edit_fnc(edit, Head(gpg.burst)) :
       /\ edit' = r.parms
       /\ gpg' = [gpg EXCEPT !.burst = Tail(@), !.input = @ \o r.typed]
  /\ UNCHANGED <<op, keys, settings, failures>>

\* What a reaction of gpg makes of the key; complete: with all the user has given.
Reacted(k, r, complete) ==
  [k EXCEPT !.declined = @ \/ r.declines, !.saved = @ \/ (r.saves /\ complete)]

\* gpg reads a line, acts on it and reports.
GpgReads ==
  /\ Editing /\ gpg.burst = <<>> /\ gpg.at # "none" /\ gpg.input # <<>>
  /\ LET line == Head(gpg.input)
     IN \E r \in GpgReacts(op.kind, gpg.at, line, gpg.changed, settings) :
          /\ gpg' = [gpg EXCEPT !.input = Tail(@), !.burst = r.burst, !.at = Waits(r.burst),
                                !.ended = r.ends, !.changed = @ \/ r.changes,
                                !.with = @ \cup {line}]
          /\ keys' = [keys EXCEPT ![op.current] =
                        Reacted(@, r, Essential(edit) \subseteq gpg'.with)]
  /\ UNCHANGED <<op, edit, settings, failures>>

\* GPGME reports the end to the context, which emits "done" (see GpaContext): the
\* handlers of the operation, then the one that releases the parameters.
Done(err) ==
  /\ op' = EmitDone(op, err)
  /\ edit' = NoEdit
  /\ gpg' = NoGpg
  /\ keys' = [keys EXCEPT ![op.current].told = IF err = "none" THEN "ok" ELSE "error"]
  /\ UNCHANGED settings

\* gpg has ended, before or after its last statuses are read, and there is no error
\* in the way.
EditEnds ==
  /\ Editing /\ gpg.burst = <<>> /\ edit.err = "none"
  /\ gpg.ended \/ (gpg.at = "none" /\ gpg.input = <<>>)
  /\ Done("none")
  /\ UNCHANGED failures

EditGivenUp ==
  /\ Editing /\ edit.err # "none"
  /\ Done(edit.err)
  /\ UNCHANGED failures

\* gpg dies.
EditDies ==
  /\ Editing /\ ~gpg.ended /\ failures < MaxFailures
  /\ failures' = failures + 1
  /\ Done("GENERAL")

\* The operations without an edit: gpgme_op_delete, gpgme_op_genkey.
OperationEnds ==
  /\ op.phase = "running" /\ gpg.runs /\ edit = NoEdit
  /\ \E ok \in BOOLEAN :
       \E err \in IF ok THEN {"none"} ELSE {"GENERAL", "CANCELED"} :
         /\ op' = EmitDone(op, err)
         /\ keys' = [keys EXCEPT ![op.current] = [@ EXCEPT !.told = IF ok THEN "ok" ELSE "error",
                                                         !.saved = ok]]
  /\ gpg' = NoGpg
  /\ UNCHANGED <<edit, settings, failures>>

CloseBox ==
  /\ op.phase = "box"
  /\ op' = DoneCb(op, op.err)
  /\ UNCHANGED <<edit, gpg, keys, settings, failures>>

\* The backup operation of the wizard (GpaBackupOperation) has completed, whatever
\* became of it.
simple_backup_complete ==
  /\ op.phase = "backup"
  /\ op' = Completed(op, {"generated_key"}, "none")
  /\ UNCHANGED <<edit, gpg, keys, settings, failures>>

Next ==
  \/ IdleCb \/ Start \/ StartFails \/ delete_dialog_confirm \/ DialogCancelled \/ WizardCancelled \/ CloseWarning
  \/ DeliverStatus \/ GpgReads \/ EditEnds \/ EditGivenUp \/ EditDies \/ OperationEnds
  \/ CloseBox \/ simple_backup_complete

Spec == Init /\ [][Next]_vars

\* The main loop runs pending callbacks, gpg answers, GPGME reports what it did, and
\* the user attends to boxes, dialogs and the wizard.
Users == Start \/ delete_dialog_confirm \/ StartFails \/ DialogCancelled \/ WizardCancelled

FairSpec ==
  /\ Spec
  /\ WF_vars(IdleCb) /\ WF_vars(CloseWarning) /\ WF_vars(CloseBox) /\ WF_vars(Users)
  /\ WF_vars(DeliverStatus) /\ WF_vars(GpgReads) /\ WF_vars(EditEnds)
  /\ WF_vars(EditGivenUp) /\ WF_vars(OperationEnds) /\ WF_vars(simple_backup_complete)

(***************************************************************************)
(* Properties.                                                             *)
(***************************************************************************)
\* What edit_fnc types always answers the prompt gpg waits at: nothing is typed
\* ahead, a report gets no answer, and neither a command nor the user's data ends up
\* at a prompt for something else.  TypeOK is a part of it.
AnswersFitTheirPrompts ==
  /\ TypeOK
  /\ Len(gpg.input) <= 1
  /\ gpg.input # <<>> => /\ gpg.at # "none"
                         /\ Head(gpg.input) \in Fits(gpg.at) \cup {""}

\* When an edit is reported as done without an error, gpg has made the change and
\* saved it, with the data the user gave, or it declined without a word.
SuccessMeansSaved ==
  \A k \in Keys : keys[k].told = "ok" /\ ~keys[k].declined =>
    keys[k].saved

\* At the end of an operation the windows have been told of every change it knows
\* of, also of those made before a later key failed or was cancelled.
Announcement ==
  CASE op.kind \in {"sign", "trust", "expire", "delete"} -> {"changed_wot"}
    [] op.kind \in GenKeyKinds -> {"generated_key"} [] OTHER -> {}

ChangesAreAnnounced ==
  op.phase = "completed" /\ (\E k \in Keys : keys[k].told = "ok") => Announcement \subseteq op.signals

\* Every operation completes, unless gpg asks for the expiry of a signature and not
\* for its check level, which the machine for signing does not foresee, the card
\* does not ask about the backup, or the wizard is closed.
OperationsComplete ==
  \/ op.kind = "sign" /\ settings.ask_cert_expire /\ ~settings.ask_cert_level
  \/ op.kind = "card" /\ ~settings.card_imports
  \/ <>(op.phase \in {"completed", "abandoned"})
=============================================================================
