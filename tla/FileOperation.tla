--------------------------- MODULE FileOperation ----------------------------
(***************************************************************************)
(* The file operations of GPA (src/src/gpafile*op.c): encrypt, sign,       *)
(* decrypt, decrypt and verify, verify, and import a list of files, or one *)
(* text of the clipboard (a direct item).  An operation handles its files  *)
(* one by one: it opens the input and the output, starts GPGME, and goes   *)
(* on when its GpaContext emits "done".  At the end it emits "completed",  *)
(* upon which its owner releases it.                                       *)
(*                                                                         *)
(* The six operations are near copies of each other.  They differ in how   *)
(* they begin, in what they leave behind when something fails, and in how  *)
(* they report; these differences are kept.                                *)
(***************************************************************************)
EXTENDS GpaContext

CONSTANT MaxFiles     \* bound: the length of the list

ASSUME MaxFilesAssumption == MaxFiles \in Nat \ {0}

VARIABLES
  batch,              \* what the operation was created for; never changes
  op,                 \* struct _GpaFileOperation and its descendants
  box                 \* the message box of done_error_cb

vars == <<context, asking, batch, op, box>>

-----------------------------------------------------------------------------
(* Data *)

Decrypting == {"decrypt", "decrypt_verify"}
Kinds == {"encrypt", "sign", "verify", "import"} \cup Decrypting

\* The operations that make a file of their own for each file they are given.
Making == {"encrypt", "sign"} \cup Decrypting

\* The clipboard makes one direct item; the file manager, the UI server and
\* the command line make lists of file names.
Batch ==
  {b \in [kind : Kinds, direct : BOOLEAN, length : 1..MaxFiles] :
     b.direct => b.length = 1}

\* verify makes nothing but the text inside a direct item.
EmitsCreatedFile ==
  batch.kind \in Making \/ (batch.kind = "verify" /\ batch.direct)

Codes == {"OK", "ERR", "CANCELED"}

Streams == {"source", "target", "text"}

\* dialog: the selection dialog is open     idle:    the idle callback is queued
\* running: GPGME is at work                done:    in the handlers of "done"
\* results: the results are shown           ended:   nothing more will happen
Phases == {"dialog", "idle", "running", "done", "results", "ended"}

\* current is the position of the current file; signed_files and err are used
\* by decrypt_verify.  The output of a file is there in part as soon as it is
\* opened; created_file counts the signals of that name.
Op == [current      : 1..(MaxFiles + 1),
       phase        : Phases,
       streams      : SUBSET Streams,
       output       : [1..MaxFiles -> {"none", "partial", "complete"}],
       created_file : 0..MaxFiles,
       signed_files : BOOLEAN,
       err          : {"OK", "ERR"},
       completed    : {"none", "OK", "ERR"}]

NewOp(kind) ==
  [current |-> 1,
   phase |-> IF kind \in {"encrypt", "sign"} THEN "dialog" ELSE "idle",
   streams |-> {}, output |-> [i \in 1..MaxFiles |-> "none"],
   created_file |-> 0, signed_files |-> FALSE, err |-> "OK",
   completed |-> "none"]

-----------------------------------------------------------------------------
(* Reporting *)

completed(o, code) ==
  [o EXCEPT !.phase = "ended",
            !.completed = IF code = "OK" THEN "OK" ELSE "ERR"]

\* Mutant: a file that cannot be started ends the list with success.
report_success(o, code) ==
  IF batch.kind \in {"verify", "import"}
  THEN [o EXCEPT !.phase = "results", !.err = code]
  ELSE completed(o, "OK")

\* The list is at its end, or (code is an error) a file could not be started.
\* decrypt_verify shows what it has verified and reports later; verify and
\* import do not tell the two cases apart.
report(o, code) ==
  IF \/ batch.kind \in {"verify", "import"}
     \/ batch.kind = "decrypt_verify" /\ o.signed_files
  THEN [o EXCEPT !.phase = "results", !.err = code]
  ELSE completed(o, code)

-----------------------------------------------------------------------------
(* Starting a file *)

\* The streams of a started file: a detached signature comes with its text.
\* The data of an import is never released, so that it is there already.
Opened(o) ==
  IF batch.kind = "verify"
  THEN {{"source", "target"}} \cup (IF batch.direct THEN {} ELSE {{"source", "text"}})
  ELSE IF batch.kind = "import" THEN {{"source"}} ELSE {{"source", "target"}}

\* Opening a file for output makes it, or truncates it.
OutputOpened(o) ==
  IF batch.kind \in Making /\ ~batch.direct
  THEN [o.output EXCEPT ![o.current] = "partial"]
  ELSE o.output

\* The input, or the output, cannot be opened or made: what has been opened is
\* closed again, and an output that has been made stays (gpa_open_output_direct).
open_fails(o) == {o, [o EXCEPT !.output = OutputOpened(o)]}

\* GPGME refuses to start: encrypt and decrypt close their streams, the others
\* leave them open.  All of them leave the output they have opened.
start_fails(o, streams) ==
  [o EXCEPT !.streams = IF batch.kind \in {"encrypt"} \cup Decrypting THEN {} ELSE streams,
            !.output = OutputOpened(o)]

started(o, streams) ==
  [o EXCEPT !.phase = "running", !.streams = streams, !.output = OutputOpened(o)]

\* gpa_file_..._operation_next, called in state o on context x.
next(o, x) ==
  \/ /\ o.current > batch.length
     /\ op' = report(o, "OK")
     /\ context' = x
     /\ UNCHANGED asking
  \/ /\ o.current <= batch.length
     /\ op' \in {report(failed, "ERR") :
                   failed \in open_fails(o) \cup {start_fails(o, s) : s \in Opened(o)}}
     /\ context' = x
     /\ UNCHANGED asking
  \/ /\ o.current <= batch.length
     /\ op' \in {started(o, s) : s \in Opened(o)}
     /\ gpgme_op_start(x)

-----------------------------------------------------------------------------
(* The handlers of "done" *)

\* Mutant: the output stays when encryption or decryption fails.
file_failed_keeping_output(o) == [o EXCEPT !.streams = {}]

\* The clean up after a failure.  sign unlinks op->sig_filename, which is never
\* set: its output stays.
file_failed(o) ==
  [o EXCEPT !.streams = {},
            !.output[o.current] = IF batch.kind = "sign" THEN @ ELSE "none"]

\* A file has been handled: clean up, tell the owner, go to the next one.
file_handled(o, signed) ==
  [o EXCEPT !.current = @ + 1,
            !.streams = IF batch.kind = "import" THEN @ ELSE {},
            !.output[o.current] = IF batch.kind \in Making THEN "complete" ELSE @,
            !.created_file = IF EmitsCreatedFile THEN @ + 1 ELSE @,
            !.signed_files = @ \/ signed]

\* done_cb, called with code and on context x.  encrypt, sign and decrypt stop
\* at the first failure and report it; verify stops without a report; import
\* goes on to the next file, and stops without a report when cancelled.
done_cb(o, x, code) ==
  \/ /\ code = "OK"
     /\ \E signed \in {FALSE, batch.kind = "decrypt_verify"} : next(file_handled(o, signed), x)
  \/ /\ code # "OK" /\ batch.kind \in Making
     /\ op' = completed(file_failed(o), code)
     /\ context' = x
     /\ UNCHANGED asking
  \/ /\ code # "OK" /\ batch.kind = "verify"
     /\ op' = [o EXCEPT !.phase = "ended", !.streams = {}]
     /\ context' = x
     /\ UNCHANGED asking
  \/ /\ code = "ERR" /\ batch.kind = "import"
     /\ next([o EXCEPT !.current = @ + 1], x)
  \/ /\ code = "CANCELED" /\ batch.kind = "import"
     /\ op' = [o EXCEPT !.phase = "ended"]
     /\ context' = x
     /\ UNCHANGED asking

-----------------------------------------------------------------------------
(* Actions *)

\* The encryption or signing dialog is cancelled, its choice is refused
\* (set_signers, set_recipients), or the first file is started.
response_cb ==
  /\ op.phase = "dialog"
  /\ \/ /\ op' = completed(op, "ERR")
        /\ UNCHANGED contextVars
     \/ next(op, context)
  /\ UNCHANGED <<batch, box>>

idle_cb ==
  /\ op.phase = "idle"
  /\ next(op, context)
  /\ UNCHANGED <<batch, box>>

\* GPGME goes on, or asks for the passphrase.
GpgmeGoesOn ==
  /\ \/ \E fd \in Fds : gpa_io_cb(fd)
     \/ gpa_context_passphrase_cb
     \/ passphrase_entered
  /\ UNCHANGED <<batch, op, box>>

\* The signal "done": done_error_cb opens a message box, except for success
\* and for a cancellation, and done_cb runs after it.
done ==
  /\ context.registered # {}
  /\ \E code \in Codes :
       IF code = "ERR"
       THEN /\ context' = gpgme_done(context)
            /\ op' = [op EXCEPT !.phase = "done"]
            /\ box' = "warning"
            /\ UNCHANGED asking
       ELSE /\ done_cb(op, gpgme_done(context), code)
            /\ UNCHANGED box
  /\ UNCHANGED batch

\* The user asks for the details of the error: gpa_context_get_diag.
get_diag ==
  /\ box = "warning"
  /\ box' = "diag"
  /\ context' = diag_begins(context)
  /\ UNCHANGED <<asking, batch, op>>

\* While it fetches the audit log GPGME reports DONE, as for any operation.
diag_event ==
  /\ box = "diag"
  /\ IF EventsReachTheOperation
     THEN done_cb(op, gpgme_done(context), "OK")
     ELSE UNCHANGED <<context, asking, op>>
  /\ UNCHANGED <<batch, box>>

diag_shown ==
  /\ box = "diag"
  /\ box' = "details"
  /\ context' = diag_ends(context)
  /\ UNCHANGED <<asking, batch, op>>

box_closed ==
  /\ box \in {"warning", "details"}
  /\ box' = "none"
  /\ done_cb(op, context, "ERR")
  /\ UNCHANGED batch

\* Mutant: closing the results reports nothing.
results_response_cb_silent ==
  /\ op.phase = "results"
  /\ op' = [op EXCEPT !.phase = "ended"]
  /\ UNCHANGED <<context, asking, batch, box>>

\* The results are closed.  decrypt_verify now reports what it has kept in
\* op->err, verify reports success whatever happened, import does not report.
results_response_cb ==
  /\ op.phase = "results"
  /\ op' = IF batch.kind = "import"
           THEN [op EXCEPT !.phase = "ended"]
           ELSE completed(op, IF batch.kind = "verify" THEN "OK" ELSE op.err)
  /\ UNCHANGED <<context, asking, batch, box>>

Init ==
  /\ batch \in Batch
  /\ op = NewOp(batch.kind)
  /\ box = "none"
  /\ context = gpa_context_init
  /\ asking = FALSE

Next ==
  \/ response_cb \/ idle_cb \/ GpgmeGoesOn \/ done
  \/ get_diag \/ diag_event \/ diag_shown \/ box_closed
  \/ results_response_cb

Spec == Init /\ [][Next]_vars

\* The user answers every dialog, the main loop runs the idle callback, and
\* GPGME ends if it is served again and again (strong: it may ask for the
\* passphrase in between).
Fairness ==
  /\ WF_vars(response_cb) /\ WF_vars(idle_cb)
  /\ WF_vars(passphrase_entered /\ UNCHANGED <<batch, op, box>>)
  /\ SF_vars(done)
  /\ WF_vars(diag_shown) /\ WF_vars(box_closed) /\ WF_vars(results_response_cb)

FairSpec == Spec /\ Fairness

-----------------------------------------------------------------------------
(* Correctness *)

\* Every variable keeps its type.
TypeOK ==
  /\ context \in GpaContextType
  /\ asking \in BOOLEAN
  /\ batch \in Batch
  /\ op \in Op
  /\ box \in {"none", "warning", "diag", "details"}

\* GPGME works for one file at a time, on open streams, and for an operation
\* that has not reported; the handlers of "done" find the context at rest and
\* the file they are called for (op->current->data).  No callback is left with
\* the main loop, or in the list, when nothing runs.
GpgmeWorksOnTheCurrentFile ==
  /\ context.busy = (op.phase = "running")
  /\ op.phase \in {"running", "done"}
       => /\ op.current <= batch.length
          /\ op.completed = "none"
          /\ "source" \in op.streams
          /\ batch.kind \in Making => "target" \in op.streams
  /\ (op.phase = "done") = (box # "none")
  /\ context.registered \subseteq context.cbs
  /\ (context.cbs = {}) = ~context.busy

\* While the passphrase dialog is open the operation waits for it: GPGME has
\* not been entered a second time and is still at work on the file.
WaitsForThePassphrase ==
  asking => /\ op.phase = "running"
            /\ context.cbs # {}

\* Every file handled has its output and its owner knows of it, in the order
\* of the list; no file behind the current one has been touched.
OutputsAreReported ==
  batch.kind \in Making =>
    /\ op.created_file = op.current - 1
    /\ \A i \in 1..batch.length :
         /\ i < op.current => op.output[i] = "complete"
         /\ i > op.current => op.output[i] = "none"

\* "If an error happened, (or the user canceled) delete the created file and
\* abort" (done_cb of encrypt and decrypt; sign has the comment, too).
FailureDeletesOutput ==
  /\ op.phase \in {"running", "done"}
  /\ op'.completed = "ERR"
  /\ op'.current = op.current
  => op'.output[op.current] = "none"

FailedOutputsAreDeleted ==
  [][batch.kind \in {"encrypt"} \cup Decrypting => FailureDeletesOutput]_vars

\* encrypt and decrypt hold streams only while a file is being handled, however
\* the handling ends.
StreamsAreClosed ==
  batch.kind \in {"encrypt"} \cup Decrypting /\ op.phase \notin {"running", "done"}
    => op.streams = {}

\* An operation on files keeps the promise of a batch.  verify reports success
\* whatever happened ("FIXME: Error handling."), so its outcome is the one the
\* user has seen in the results.
Outcome ==
  IF batch.kind = "verify" /\ op.completed = "OK" /\ op.current <= batch.length
  THEN "ERR" ELSE op.completed

Promise == INSTANCE AbstractBatch WITH
  length <- batch.length, handled <- op.current - 1, result <- Outcome

KeepsItsPromise == Promise!Spec

\* Every operation that makes files reports in the end, so that its owner can
\* release it.
OperationsReport == batch.kind \in Making ~> op.completed # "none"

=============================================================================
