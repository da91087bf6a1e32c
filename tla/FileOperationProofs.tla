------------------------ MODULE FileOperationProofs -------------------------
(***************************************************************************)
(* Proofs about FileOperation, for any MaxFiles and any set Fds: the       *)
(* inductive invariant, the safety properties that follow from it, and the *)
(* refinement of AbstractBatch.                                            *)
(*                                                                         *)
(* The argument: every callback ends in one of three ways.  It starts      *)
(* GPGME on the current file, it shows or reports the end of the batch, or *)
(* it waits in the message box of done_error_cb.  Ready(o) and AtRest(x)   *)
(* say what holds of the operation and of its context between two files;   *)
(* from there each way leads to IInv (ReportStep, StartStep), and the      *)
(* handlers of "done" come back to it (HandledIsReady).                    *)
(***************************************************************************)
EXTENDS FileOperation, TLAPS

Tidy == {"encrypt"} \cup Decrypting

\* OutputsAreReported, of a state o of the operation.
OutputsFit(o) ==
  batch.kind \in Making =>
    /\ o.created_file = o.current - 1
    /\ \A i \in 1..batch.length :
         /\ i < o.current => o.output[i] = "complete"
         /\ i > o.current => o.output[i] = "none"

\* The operation is between two files, or before the first one.
Ready(o) ==
  /\ o \in Op
  /\ o.completed = "none"
  /\ o.current <= batch.length + 1
  /\ o.created_file <= o.current - 1
  /\ OutputsFit(o)
  /\ batch.kind \in Tidy => o.streams = {}

AtRest(x) ==
  /\ x \in GpaContextType
  /\ ~x.busy
  /\ x.cbs = {}
  /\ x.registered = {}
  /\ x.inhibit_gpgme_events = 0

\* What the safety properties need to know of each other: the position in the
\* list, who has reported what, and when events are inhibited.
ReportsFit ==
  /\ op.completed # "none" => op.phase = "ended"
  /\ op.completed = "OK" /\ batch.kind # "verify" => op.current = batch.length + 1
  /\ op.phase = "results" => batch.kind \in {"verify", "import", "decrypt_verify"}
  /\ op.phase = "results" /\ batch.kind = "decrypt_verify" /\ op.err = "OK"
       => op.current = batch.length + 1

IInv ==
  /\ TypeOK
  /\ op.current <= batch.length + 1
  /\ op.created_file <= op.current - 1
  /\ GpgmeWorksOnTheCurrentFile
  /\ WaitsForThePassphrase
  /\ asking => context.registered = {}
  /\ OutputsAreReported
  /\ StreamsAreClosed
  /\ ReportsFit
  /\ context.inhibit_gpgme_events = IF box = "diag" THEN 1 ELSE 0

-----------------------------------------------------------------------------
(* Between two files *)

\* A new operation is ready for its first file.
LEMMA NewOpIsReady ==
  ASSUME batch \in Batch
  PROVE  Ready(NewOp(batch.kind))
<1> USE MaxFilesAssumption
<1>1. NewOp(batch.kind) \in Op
  BY DEF NewOp, Op, Phases, Batch, Kinds
<1>2. OutputsFit(NewOp(batch.kind))
  BY DEF OutputsFit, NewOp, Batch
<1> QED BY <1>1, <1>2 DEF Ready, NewOp, Batch, Tidy

\* Updates within their types keep the type of the operation.
LEMMA UpdatedOp ==
  ASSUME NEW o \in Op, NEW c \in 1..(MaxFiles + 1), NEW s \in SUBSET Streams,
         NEW out \in [1..MaxFiles -> {"none", "partial", "complete"}],
         NEW n \in 0..MaxFiles, NEW f \in BOOLEAN
  PROVE  [o EXCEPT !.current = c, !.streams = s, !.output = out,
                   !.created_file = n, !.signed_files = f] \in Op
BY DEF Op

\* After a file has been handled the operation is ready for the next one.
LEMMA HandledIsReady ==
  ASSUME batch \in Batch, IInv, op.phase \in {"running", "done"},
         NEW signed \in BOOLEAN
  PROVE  /\ Ready(file_handled(op, signed))
         /\ batch.kind = "import" => Ready([op EXCEPT !.current = @ + 1])
         /\ file_handled(op, signed).current = op.current + 1
<1> USE MaxFilesAssumption
<1> DEFINE o == file_handled(op, signed)
<1>1. /\ op \in Op /\ op.current \in 1..batch.length /\ op.completed = "none"
      /\ batch.length \in 1..MaxFiles /\ batch.kind \in Kinds
      /\ op.created_file \in 0..MaxFiles /\ op.created_file <= op.current - 1
  BY DEF IInv, TypeOK, GpgmeWorksOnTheCurrentFile, Op, Batch
<1>2. o \in Op /\ o.current = op.current + 1 /\ o.completed = "none"
  <2> DEFINE output == [op.output EXCEPT ![op.current] =
                          IF batch.kind \in Making THEN "complete" ELSE @]
             streams == IF batch.kind = "import" THEN op.streams ELSE {}
             count == IF EmitsCreatedFile THEN op.created_file + 1 ELSE op.created_file
             signed_files == op.signed_files \/ signed
  <2>1. output \in [1..MaxFiles -> {"none", "partial", "complete"}]
    BY <1>1 DEF Op
  <2>2. streams \in SUBSET Streams /\ count \in 0..MaxFiles /\ signed_files \in BOOLEAN
    BY <1>1 DEF Op
  <2>3. op.current + 1 \in 1..(MaxFiles + 1)
    BY <1>1
  <2>4. o = [op EXCEPT !.current = op.current + 1, !.streams = streams,
                       !.output = output, !.created_file = count,
                       !.signed_files = signed_files]
    BY <1>1 DEF file_handled, Op
  <2> HIDE DEF output, streams, count, signed_files, o
  <2>5. [op EXCEPT !.current = op.current + 1, !.streams = streams,
                   !.output = output, !.created_file = count,
                   !.signed_files = signed_files] \in Op
    BY <1>1, <2>1, <2>2, <2>3, UpdatedOp
  <2> QED BY <1>1, <2>4, <2>5 DEF Op
<1>3. o.created_file <= o.current - 1
  BY <1>1, <1>2 DEF file_handled, Op, EmitsCreatedFile
<1>4. OutputsFit(o)
  <2> SUFFICES ASSUME batch.kind \in Making PROVE /\ o.created_file = o.current - 1
        /\ \A i \in 1..batch.length :
             /\ i < o.current => o.output[i] = "complete"
             /\ i > o.current => o.output[i] = "none"
    BY DEF OutputsFit
  <2>1. o.created_file = op.created_file + 1
    BY <1>1 DEF file_handled, EmitsCreatedFile, Op
  <2>2. o.output = [op.output EXCEPT ![op.current] = "complete"]
    BY <1>1 DEF file_handled, Op
  <2> QED BY <1>1, <1>2, <2>1, <2>2 DEF IInv, OutputsAreReported, Op
<1>5. batch.kind \in Tidy => o.streams = {}
  BY <1>1 DEF file_handled, Op, Tidy, Decrypting
<1>6. batch.kind = "import" => Ready([op EXCEPT !.current = @ + 1])
  <2> DEFINE p == [op EXCEPT !.current = @ + 1]
  <2> SUFFICES ASSUME batch.kind = "import" PROVE Ready(p)
    OBVIOUS
  <2>1. batch.kind \notin Making /\ batch.kind \notin Tidy
    BY DEF Making, Tidy, Decrypting
  <2>2. p \in Op /\ p.current = op.current + 1 /\ p.completed = "none"
        /\ p.created_file = op.created_file
    BY <1>1 DEF Op
  <2> QED BY <1>1, <2>1, <2>2 DEF Ready, OutputsFit
<1> QED BY <1>1, <1>2, <1>3, <1>4, <1>5, <1>6 DEF Ready

\* DONE leaves the context at rest.
LEMMA DoneIsAtRest ==
  ASSUME IInv, box = "none"
  PROVE  AtRest(gpgme_done(context))
BY DEF IInv, TypeOK, GpaContextType, AtRest, gpgme_done, gpa_context_done,
       gpa_context_remove_cb, GpgmeWorksOnTheCurrentFile

\* In a message box, and before the first file, the context is at rest.
LEMMA QuietIsAtRest ==
  ASSUME IInv, op.phase # "running", box # "diag"
  PROVE  AtRest(context)
BY DEF IInv, TypeOK, GpaContextType, AtRest, GpgmeWorksOnTheCurrentFile
-----------------------------------------------------------------------------
(* The ways a callback ends *)

\* The batch is over, or its results are shown.
LEMMA EndStep ==
  ASSUME batch \in Batch, batch' = batch, op' \in Op, op'.phase \in {"results", "ended"},
         AtRest(context'), asking' = FALSE, box' = "none",
         op'.current <= batch.length + 1, op'.created_file <= op'.current - 1,
         OutputsFit(op'), batch.kind \in Tidy => op'.streams = {}, ReportsFit'
  PROVE  IInv'
<1>1. TypeOK'
  BY DEF TypeOK, AtRest
<1>2. GpgmeWorksOnTheCurrentFile' /\ WaitsForThePassphrase'
  BY DEF GpgmeWorksOnTheCurrentFile, WaitsForThePassphrase, AtRest, GpaContextType
<1>3. OutputsAreReported' /\ StreamsAreClosed'
  BY DEF OutputsAreReported, OutputsFit, StreamsAreClosed, Tidy
<1> QED BY <1>1, <1>2, <1>3 DEF IInv, AtRest

\* A file that cannot be started leaves the operation between two files.
LEMMA FailedStartIsReady ==
  ASSUME batch \in Batch, NEW o, Ready(o), o.current <= batch.length,
         NEW failed \in open_fails(o) \cup {start_fails(o, s) : s \in Opened(o)}
  PROVE  Ready(failed) /\ failed.current = o.current
<1> USE MaxFilesAssumption
<1>1. /\ o \in Op /\ o.current \in 1..batch.length
      /\ batch.length \in 1..MaxFiles /\ batch.kind \in Kinds
  BY DEF Ready, Op, Batch
<1>2. OutputOpened(o) \in [1..MaxFiles -> {"none", "partial", "complete"}]
  BY <1>1 DEF OutputOpened, Op
<1>3. PICK streams \in SUBSET Streams, output \in {o.output, OutputOpened(o)} :
        /\ failed = [o EXCEPT !.streams = streams, !.output = output]
        /\ batch.kind \in Tidy => streams = {}
  <2>0. /\ o.streams \in SUBSET Streams
        /\ batch.kind \in Tidy => o.streams = {}
    BY <1>1 DEF Op, Ready
  <2>1. CASE failed = o
    <3>1. failed = [o EXCEPT !.streams = o.streams, !.output = o.output]
      BY <1>1, <2>1 DEF Op
    <3> QED BY <2>0, <3>1
  <2>2. CASE failed = [o EXCEPT !.output = OutputOpened(o)]
    <3>1. failed = [o EXCEPT !.streams = o.streams, !.output = OutputOpened(o)]
      BY <1>1, <2>2 DEF Op
    <3> QED BY <2>0, <3>1
  <2>3. CASE \E s \in Opened(o) : failed = start_fails(o, s)
    BY <1>1, <2>3 DEF start_fails, Opened, Streams, Tidy, Op
  <2> QED BY <2>1, <2>2, <2>3 DEF open_fails
<1>4. failed \in Op
  BY <1>1, <1>2, <1>3 DEF Op
<1>5. /\ failed.current = o.current /\ failed.completed = o.completed
      /\ failed.created_file = o.created_file
      /\ failed.streams = streams /\ failed.output = output
  BY <1>1, <1>3 DEF Op
<1>6. OutputsFit(failed)
  BY <1>1, <1>3, <1>5 DEF OutputsFit, Op, OutputOpened, Ready
<1> QED BY <1>3, <1>4, <1>5, <1>6 DEF Ready

\* The end of the list, or a file that cannot be started.
LEMMA ReportStep ==
  ASSUME batch \in Batch, batch' = batch, NEW o, Ready(o), NEW code \in {"OK", "ERR"},
         code = "OK" => o.current = batch.length + 1,
         op' = report(o, code), AtRest(context'), asking' = FALSE, box' = "none"
  PROVE  IInv' /\ op'.current = o.current
<1>1. o \in Op /\ o.completed = "none"
  BY DEF Ready
<1>2. /\ op' \in Op /\ op'.phase \in {"results", "ended"}
      /\ op'.current = o.current /\ op'.created_file = o.created_file
      /\ op'.output = o.output /\ op'.streams = o.streams
  BY <1>1 DEF report, completed, Op, Phases
<1>3. OutputsFit(op')
  BY <1>2 DEF OutputsFit, Ready
<1>4. ReportsFit'
  BY <1>1, <1>2 DEF ReportsFit, report, completed, Op
<1> QED BY <1>2, <1>3, <1>4, EndStep DEF Ready

\* GPGME is started on the current file.
LEMMA StartStep ==
  ASSUME batch \in Batch, batch' = batch, NEW o, Ready(o), NEW x, AtRest(x),
         o.current <= batch.length, NEW s \in Opened(o), op' = started(o, s),
         gpgme_op_start(x), asking = FALSE, box' = "none"
  PROVE  IInv' /\ op'.current = o.current
<1> USE MaxFilesAssumption
<1>1. /\ o \in Op /\ o.current \in 1..batch.length /\ o.completed = "none"
      /\ batch.length \in 1..MaxFiles /\ batch.kind \in Kinds
  BY DEF Ready, Op, Batch
<1>2. /\ s \in SUBSET Streams /\ "source" \in s
      /\ batch.kind \in Making => "target" \in s
  BY <1>1 DEF Opened, Streams, Making, Decrypting, Kinds
<1>3. OutputOpened(o) \in [1..MaxFiles -> {"none", "partial", "complete"}]
  BY <1>1 DEF OutputOpened, Op
<1>4. /\ op' \in Op /\ op'.phase = "running" /\ op'.streams = s
      /\ op'.current = o.current /\ op'.created_file = o.created_file
      /\ op'.output = OutputOpened(o) /\ op'.completed = "none"
  BY <1>1, <1>2, <1>3 DEF started, Op, Phases
<1>5. PICK fds \in (SUBSET Fds) \ {{}} :
        context' = gpa_context_start(gpa_context_register_cb(x, fds))
  BY DEF gpgme_op_start
<1>6. /\ context' \in GpaContextType /\ context'.busy
      /\ context'.cbs = fds /\ context'.registered = fds
      /\ context'.inhibit_gpgme_events = 0
  BY <1>5 DEF AtRest, GpaContextType, gpa_context_start, gpa_context_register_cb,
       register_all_callbacks
<1>7. asking' = FALSE
  BY DEF gpgme_op_start
<1>8. TypeOK'
  BY <1>4, <1>6, <1>7 DEF TypeOK
<1>9. GpgmeWorksOnTheCurrentFile' /\ WaitsForThePassphrase'
  BY <1>1, <1>2, <1>4, <1>6, <1>7 DEF GpgmeWorksOnTheCurrentFile, WaitsForThePassphrase,
       GpaContextType
<1>10. OutputsAreReported'
  BY <1>1, <1>4 DEF OutputsAreReported, OutputOpened, Ready, OutputsFit, Op
<1>11. StreamsAreClosed' /\ ReportsFit'
  BY <1>4 DEF StreamsAreClosed, ReportsFit
<1> QED BY <1>1, <1>4, <1>6, <1>7, <1>8, <1>9, <1>10, <1>11 DEF IInv, Ready

\* All three ways, as gpa_file_..._operation_next takes them.
LEMMA NextFileStep ==
  ASSUME batch \in Batch, batch' = batch, NEW o, Ready(o), NEW x, AtRest(x),
         next(o, x), asking = FALSE, box' = "none"
  PROVE  IInv' /\ op'.current = o.current
<1>0. o.current \in Nat /\ batch.length \in Nat /\ o.current <= batch.length + 1
  BY MaxFilesAssumption DEF Ready, Op, Batch
<1>1. CASE o.current > batch.length /\ op' = report(o, "OK") /\ context' = x
           /\ UNCHANGED asking
  <2>1. o.current = batch.length + 1
    BY <1>0, <1>1
  <2> QED BY <1>1, <2>1, ReportStep
<1>2. CASE /\ o.current <= batch.length
           /\ op' \in {report(failed, "ERR") :
                   failed \in open_fails(o) \cup {start_fails(o, s) : s \in Opened(o)}}
           /\ context' = x
           /\ UNCHANGED asking
  <2>1. PICK failed \in open_fails(o) \cup {start_fails(o, s) : s \in Opened(o)} :
          op' = report(failed, "ERR")
    BY <1>2
  <2>2. Ready(failed) /\ failed.current = o.current
    BY <1>2, FailedStartIsReady
  <2> QED BY <1>2, <2>1, <2>2, ReportStep
<1>3. CASE /\ o.current <= batch.length
           /\ op' \in {started(o, s) : s \in Opened(o)}
           /\ gpgme_op_start(x)
  BY <1>3, StartStep
<1> QED BY <1>1, <1>2, <1>3 DEF next

-----------------------------------------------------------------------------
(* The actions keep the invariant *)

\* Where done_cb leaves the operation; the last two facts are what the promise
\* of the batch and the clean up after a failure need.
LEMMA DoneCbStep ==
  ASSUME batch \in Batch, batch' = batch, IInv, op.phase \in {"running", "done"},
         NEW x, AtRest(x), asking = FALSE, box' = "none",
         NEW code \in Codes, done_cb(op, x, code)
  PROVE  /\ IInv'
         /\ op'.current \in {op.current, op.current + 1}
         /\ op'.current = op.current /\ batch.kind \in Tidy
              => op'.output[op.current] = "none"
<1> USE MaxFilesAssumption
<1>1. /\ op \in Op /\ op.current \in 1..batch.length /\ op.completed = "none"
      /\ batch.length \in 1..MaxFiles /\ batch.kind \in Kinds
      /\ op.created_file <= op.current - 1
      /\ OutputsFit(op)
  BY DEF IInv, TypeOK, GpgmeWorksOnTheCurrentFile, Op, Batch, OutputsFit, OutputsAreReported
<1>2. CASE /\ code = "OK"
           /\ \E signed \in {FALSE, batch.kind = "decrypt_verify"} :
                next(file_handled(op, signed), x)
  <2>1. PICK signed \in BOOLEAN : next(file_handled(op, signed), x)
    BY <1>2
  <2>2. Ready(file_handled(op, signed)) /\ file_handled(op, signed).current = op.current + 1
    BY HandledIsReady
  <2>3. IInv' /\ op'.current = op.current + 1
    BY <2>1, <2>2, NextFileStep
  <2> QED BY <1>1, <2>3
<1>3. CASE /\ code # "OK" /\ batch.kind \in Making
           /\ op' = completed(file_failed(op), code)
           /\ context' = x
           /\ UNCHANGED asking
  <2>1. [op.output EXCEPT ![op.current] = IF batch.kind = "sign" THEN @ ELSE "none"]
          \in [1..MaxFiles -> {"none", "partial", "complete"}]
    BY <1>1 DEF Op
  <2>2. /\ op' \in Op /\ op'.phase = "ended" /\ op'.completed = "ERR"
        /\ op'.streams = {} /\ op'.current = op.current
        /\ op'.created_file = op.created_file
        /\ op'.output = [op.output EXCEPT ![op.current] =
                           IF batch.kind = "sign" THEN @ ELSE "none"]
    BY <1>1, <1>3, <2>1 DEF completed, file_failed, Op, Phases
  <2>3. OutputsFit(op')
    BY <1>1, <2>2 DEF OutputsFit, Op
  <2>4. ReportsFit'
    BY <2>2 DEF ReportsFit
  <2>5. IInv'
    <3>1. AtRest(context') /\ asking' = FALSE
      BY <1>3
    <3>2. /\ op'.current <= batch.length + 1
          /\ op'.created_file <= op'.current - 1
      BY <1>1, <2>2
    <3> QED BY <1>3, <2>2, <2>3, <2>4, EndStep, <3>1, <3>2
  <2>6. batch.kind \in Tidy => op'.output[op.current] = "none"
    BY <1>1, <2>2 DEF Tidy, Decrypting, Op
  <2> QED BY <1>1, <2>2, <2>5, <2>6
<1>4. CASE /\ code # "OK" /\ batch.kind = "verify"
           /\ op' = [op EXCEPT !.phase = "ended", !.streams = {}]
           /\ context' = x
           /\ UNCHANGED asking
  <2>1. /\ op' \in Op /\ op'.phase = "ended" /\ op'.completed = "none"
        /\ op'.streams = {} /\ op'.current = op.current
        /\ op'.created_file = op.created_file /\ op'.output = op.output
    BY <1>1, <1>4 DEF Op, Phases
  <2>2. OutputsFit(op') /\ ReportsFit'
    BY <1>1, <2>1 DEF OutputsFit, ReportsFit
  <2>3. IInv'
    <3>1. AtRest(context') /\ asking' = FALSE
      BY <1>4
    <3>2. /\ op'.current <= batch.length + 1
          /\ op'.created_file <= op'.current - 1
      BY <1>1, <2>1
    <3> QED BY <1>4, <2>1, <2>2, EndStep, <3>1, <3>2
  <2> QED BY <1>1, <1>4, <2>1, <2>3 DEF Tidy, Decrypting
<1>5. CASE /\ code = "ERR" /\ batch.kind = "import"
           /\ next([op EXCEPT !.current = @ + 1], x)
  <2>1. [op EXCEPT !.current = @ + 1].current = op.current + 1
    BY <1>1 DEF Op
  <2>2. Ready([op EXCEPT !.current = @ + 1])
    BY <1>5, HandledIsReady
  <2>3. IInv' /\ op'.current = [op EXCEPT !.current = @ + 1].current
    BY <1>5, <2>2, NextFileStep
  <2> QED BY <1>1, <2>1, <2>3
<1>6. CASE /\ code = "CANCELED" /\ batch.kind = "import"
           /\ op' = [op EXCEPT !.phase = "ended"]
           /\ context' = x
           /\ UNCHANGED asking
  <2>1. /\ op' \in Op /\ op'.phase = "ended" /\ op'.completed = "none"
        /\ op'.current = op.current
        /\ op'.created_file = op.created_file /\ op'.output = op.output
    BY <1>1, <1>6 DEF Op, Phases
  <2>2. OutputsFit(op') /\ ReportsFit' /\ batch.kind \notin Tidy
    BY <1>1, <1>6, <2>1 DEF OutputsFit, ReportsFit, Tidy, Decrypting
  <2>3. IInv'
    <3>1. AtRest(context') /\ asking' = FALSE
      BY <1>6
    <3>2. /\ op'.current <= batch.length + 1
          /\ op'.created_file <= op'.current - 1
      BY <1>1, <2>1
    <3> QED BY <1>6, <2>1, <2>2, EndStep, <3>1, <3>2
  <2> QED BY <1>1, <2>1, <2>2, <2>3
<1> QED BY <1>2, <1>3, <1>4, <1>5, <1>6 DEF done_cb

\* The operation may start its first file.
LEMMA WaitingIsReady ==
  ASSUME IInv, op.phase \in {"dialog", "idle"}
  PROVE  Ready(op) /\ AtRest(context) /\ asking = FALSE /\ box = "none"
<1>1. Ready(op)
  BY DEF IInv, TypeOK, ReportsFit, OutputsAreReported, OutputsFit, Op, Ready,
         StreamsAreClosed, Tidy
<1>2. box = "none" /\ asking = FALSE
  BY DEF IInv, TypeOK, GpgmeWorksOnTheCurrentFile, WaitsForThePassphrase
<1> QED BY <1>1, <1>2, QuietIsAtRest

LEMMA ResponseStep ==
  ASSUME IInv, response_cb
  PROVE  IInv' /\ op.completed = "none" /\ op'.current = op.current
<1>1. /\ Ready(op) /\ AtRest(context) /\ asking = FALSE
      /\ box' = "none" /\ batch' = batch
  BY WaitingIsReady DEF response_cb
<1>2. batch \in Batch /\ op \in Op
  BY DEF IInv, TypeOK
<1>3. CASE op' = completed(op, "ERR") /\ UNCHANGED contextVars
  <2>1. /\ op' \in Op /\ op'.phase = "ended" /\ op'.completed = "ERR"
        /\ op'.current = op.current /\ op'.created_file = op.created_file
        /\ op'.output = op.output /\ op'.streams = op.streams
    BY <1>2, <1>3 DEF completed, Op, Phases
  <2>2. OutputsFit(op') /\ ReportsFit'
    BY <1>1, <2>1 DEF OutputsFit, Ready, ReportsFit
  <2>3. AtRest(context') /\ asking' = FALSE
    BY <1>1, <1>3 DEF contextVars
  <2> QED BY <1>1, <1>2, <2>1, <2>2, <2>3, EndStep DEF Ready
<1>4. CASE next(op, context)
  BY <1>1, <1>2, <1>4, NextFileStep DEF Ready
<1> QED BY <1>3, <1>4 DEF response_cb

LEMMA IdleStep ==
  ASSUME IInv, idle_cb
  PROVE  IInv' /\ op.completed = "none" /\ op'.current = op.current
<1>1. /\ Ready(op) /\ AtRest(context) /\ asking = FALSE
      /\ box' = "none" /\ batch' = batch /\ next(op, context)
  BY WaitingIsReady DEF idle_cb
<1>2. batch \in Batch
  BY DEF IInv, TypeOK
<1> QED BY <1>1, <1>2, NextFileStep DEF Ready

\* GPGME goes on under the operation.
LEMMA GpgmeStep ==
  ASSUME IInv, GpgmeGoesOn
  PROVE  IInv' /\ op' = op
<1>1. /\ op' = op /\ batch' = batch /\ box' = box
      /\ context \in GpaContextType /\ asking \in BOOLEAN
      /\ context.registered \subseteq context.cbs
      /\ (context.cbs = {}) = ~context.busy
      /\ context.busy = (op.phase = "running")
  BY DEF GpgmeGoesOn, IInv, TypeOK, GpgmeWorksOnTheCurrentFile
<1> SUFFICES
      /\ context' \in GpaContextType /\ asking' \in BOOLEAN
      /\ context'.registered \subseteq context'.cbs
      /\ context'.cbs # {}
      /\ context'.busy = context.busy
      /\ context.cbs # {}
      /\ asking' => context'.registered = {}
      /\ context'.inhibit_gpgme_events = context.inhibit_gpgme_events
  <2>1. TypeOK' /\ OutputsAreReported' /\ StreamsAreClosed' /\ ReportsFit'
    BY <1>1 DEF IInv, TypeOK, OutputsAreReported, StreamsAreClosed, ReportsFit
  <2>2. GpgmeWorksOnTheCurrentFile' /\ WaitsForThePassphrase'
    BY <1>1 DEF IInv, GpgmeWorksOnTheCurrentFile, WaitsForThePassphrase, GpaContextType
  <2> QED BY <1>1, <2>1, <2>2 DEF IInv
<1>2. ASSUME NEW fd \in Fds, gpa_io_cb(fd)
      PROVE  /\ context' \in GpaContextType /\ asking' \in BOOLEAN
             /\ context'.registered \subseteq context'.cbs
             /\ context'.cbs # {} /\ context.cbs # {}
             /\ context'.busy = context.busy
             /\ asking' => context'.registered = {}
             /\ context'.inhibit_gpgme_events = context.inhibit_gpgme_events
  <2>1. ~asking' /\ asking' \in BOOLEAN /\ context.cbs # {}
    BY <1>1, <1>2 DEF gpa_io_cb, IInv
  <2>2. CASE /\ context.cbs # {fd}
             /\ context' = gpa_context_remove_cb(context, {fd})
    BY <1>1, <1>2, <2>1, <2>2 DEF gpa_io_cb, gpa_context_remove_cb, GpaContextType
  <2>3. CASE \E new \in Fds \ context.cbs :
               context' = gpa_context_register_cb(context, {new})
    <3>1. PICK new \in Fds : context' = gpa_context_register_cb(context, {new})
      BY <2>3
    <3>2. /\ context'.cbs = context.cbs \cup {new}
          /\ context'.registered \in {context.registered, context.registered \cup {new}}
          /\ context'.busy = context.busy
          /\ context'.inhibit_gpgme_events = context.inhibit_gpgme_events
          /\ context' \in GpaContextType
      BY <1>1, <3>1 DEF gpa_context_register_cb, GpaContextType
    <3> QED BY <1>1, <2>1, <3>2
  <2> QED BY <1>2, <2>2, <2>3 DEF gpa_io_cb
<1>3. CASE gpa_context_passphrase_cb
  BY <1>1, <1>3 DEF gpa_context_passphrase_cb, unregister_all_callbacks, GpaContextType
<1>4. CASE passphrase_entered
  BY <1>1, <1>4 DEF passphrase_entered, register_all_callbacks, GpaContextType,
     IInv, WaitsForThePassphrase
<1> QED BY <1>2, <1>3, <1>4 DEF GpgmeGoesOn

\* GPGME is at work when there is a callback to run.
LEMMA DoneStep ==
  ASSUME IInv, done
  PROVE  /\ IInv'
         /\ op.completed = "none" /\ op'.current \in {op.current, op.current + 1}
         /\ op'.completed = "ERR" /\ op'.current = op.current /\ batch.kind \in Tidy
              => op'.output[op.current] = "none"
<1>1. /\ op.phase = "running" /\ op.completed = "none" /\ box = "none"
      /\ asking = FALSE /\ batch \in Batch /\ batch' = batch /\ op \in Op
  BY DEF done, IInv, TypeOK, GpgmeWorksOnTheCurrentFile
<1>2. AtRest(gpgme_done(context))
  BY <1>1, DoneIsAtRest
<1>3. PICK code \in Codes :
        IF code = "ERR"
        THEN /\ context' = gpgme_done(context)
             /\ op' = [op EXCEPT !.phase = "done"]
             /\ box' = "warning"
             /\ UNCHANGED asking
        ELSE /\ done_cb(op, gpgme_done(context), code)
             /\ UNCHANGED box
  BY DEF done
<1>4. CASE code = "ERR"
  <2>1. /\ op' \in Op /\ op'.phase = "done" /\ op'.completed = "none"
        /\ op'.current = op.current /\ op'.created_file = op.created_file
        /\ op'.output = op.output /\ op'.streams = op.streams
    BY <1>1, <1>3, <1>4 DEF Op, Phases
  <2>2. AtRest(context') /\ asking' = FALSE /\ box' = "warning"
    BY <1>1, <1>2, <1>3, <1>4
  <2>3. TypeOK'
    BY <1>1, <2>1, <2>2 DEF TypeOK, AtRest
  <2>4. GpgmeWorksOnTheCurrentFile' /\ WaitsForThePassphrase'
    BY <1>1, <2>1, <2>2 DEF IInv, GpgmeWorksOnTheCurrentFile, WaitsForThePassphrase,
       AtRest, GpaContextType
  <2>5. OutputsAreReported' /\ StreamsAreClosed' /\ ReportsFit'
    BY <1>1, <2>1 DEF IInv, OutputsAreReported, StreamsAreClosed, ReportsFit
  <2>6. IInv'
    BY <1>1, <2>1, <2>2, <2>3, <2>4, <2>5 DEF IInv, AtRest
  <2> QED BY <1>1, <2>1, <2>6
<1>5. CASE code # "ERR"
  BY <1>1, <1>2, <1>3, <1>5, DoneCbStep
<1> QED BY <1>4, <1>5

\* In the message box: the audit log is fetched with the events inhibited.
LEMMA BoxStep ==
  ASSUME IInv, get_diag \/ diag_event \/ diag_shown
  PROVE  IInv' /\ op' = op
<1>1. /\ op.phase = "done" /\ asking = FALSE /\ batch' = batch /\ op' = op
      /\ asking' = FALSE /\ context \in GpaContextType
      /\ box' \in {"diag", "details"}
      /\ context' \in GpaContextType
      /\ context'.inhibit_gpgme_events = IF box' = "diag" THEN 1 ELSE 0
      /\ context'.busy = context.busy /\ context'.cbs = context.cbs
      /\ context'.registered = context.registered
  BY DEF IInv, TypeOK, GpgmeWorksOnTheCurrentFile, WaitsForThePassphrase, get_diag,
     diag_event, diag_shown, EventsReachTheOperation, diag_begins, diag_ends, GpaContextType
<1>2. TypeOK' /\ GpgmeWorksOnTheCurrentFile' /\ WaitsForThePassphrase'
  BY <1>1 DEF IInv, TypeOK, GpgmeWorksOnTheCurrentFile, WaitsForThePassphrase
<1>3. OutputsAreReported' /\ StreamsAreClosed' /\ ReportsFit'
  BY <1>1 DEF IInv, OutputsAreReported, StreamsAreClosed, ReportsFit
<1> QED BY <1>1, <1>2, <1>3 DEF IInv

LEMMA BoxClosedStep ==
  ASSUME IInv, box_closed
  PROVE  /\ IInv'
         /\ op.completed = "none" /\ op'.current \in {op.current, op.current + 1}
         /\ op'.completed = "ERR" /\ op'.current = op.current /\ batch.kind \in Tidy
              => op'.output[op.current] = "none"
<1>1. /\ op.phase = "done" /\ op.completed = "none" /\ box # "diag"
      /\ asking = FALSE /\ batch \in Batch /\ batch' = batch
      /\ box' = "none" /\ done_cb(op, context, "ERR")
  BY DEF box_closed, IInv, TypeOK, GpgmeWorksOnTheCurrentFile, WaitsForThePassphrase
<1>2. AtRest(context)
  BY <1>1, QuietIsAtRest
<1>3. "ERR" \in Codes
  BY DEF Codes
<1> QED BY <1>1, <1>2, <1>3, DoneCbStep

LEMMA ResultsStep ==
  ASSUME IInv, results_response_cb
  PROVE  IInv' /\ op.completed = "none" /\ op'.current = op.current
<1>1. /\ op.phase = "results" /\ op \in Op /\ batch \in Batch /\ batch' = batch
      /\ op.completed = "none" /\ box = "none" /\ box' = "none" /\ asking = FALSE
      /\ asking' = FALSE /\ context' = context
  BY DEF results_response_cb, IInv, TypeOK, ReportsFit, GpgmeWorksOnTheCurrentFile,
     WaitsForThePassphrase
<1>2. AtRest(context')
  BY <1>1, QuietIsAtRest
<1>3. /\ op' \in Op /\ op'.phase = "ended"
      /\ op'.current = op.current /\ op'.created_file = op.created_file
      /\ op'.output = op.output /\ op'.streams = op.streams
  BY <1>1 DEF results_response_cb, completed, Op, Phases
<1>4. ReportsFit'
  BY <1>1, <1>3 DEF results_response_cb, completed, Op, IInv, ReportsFit
<1>5. OutputsFit(op') /\ (batch.kind \in Tidy => op'.streams = {})
  BY <1>1, <1>3 DEF IInv, OutputsAreReported, OutputsFit, StreamsAreClosed, Tidy
<1> QED BY <1>1, <1>2, <1>3, <1>4, <1>5, EndStep DEF IInv

-----------------------------------------------------------------------------
(* The invariant, and what follows from it *)

LEMMA InitIInv == Init => IInv
<1> SUFFICES ASSUME Init PROVE IInv
  OBVIOUS
<1> USE MaxFilesAssumption
<1>1. batch \in Batch /\ op = NewOp(batch.kind) /\ box = "none" /\ asking = FALSE
      /\ batch.length \in Nat \ {0} /\ context = gpa_context_init
  BY DEF Init, Batch
<1>2. Ready(op)
  BY <1>1, NewOpIsReady
<1>3. op.phase \in {"dialog", "idle"} /\ op.current = 1
  BY <1>1 DEF NewOp
<1>4. AtRest(context) /\ context.busy = FALSE
  BY <1>1 DEF AtRest, gpa_context_init, GpaContextType
<1>5. TypeOK
  BY <1>1, <1>2, <1>4 DEF TypeOK, Ready, AtRest
<1>6. GpgmeWorksOnTheCurrentFile /\ WaitsForThePassphrase
  BY <1>1, <1>3, <1>4 DEF GpgmeWorksOnTheCurrentFile, WaitsForThePassphrase, AtRest
<1>7. OutputsAreReported /\ StreamsAreClosed /\ ReportsFit
  BY <1>2, <1>3 DEF OutputsAreReported, StreamsAreClosed, ReportsFit, Ready, OutputsFit, Tidy
<1> QED BY <1>1, <1>2, <1>4, <1>5, <1>6, <1>7 DEF IInv, Ready, AtRest

LEMMA NextIInv == IInv /\ [Next]_vars => IInv'
<1> SUFFICES ASSUME IInv, [Next]_vars PROVE IInv'
  OBVIOUS
<1>1. CASE UNCHANGED vars
  BY <1>1 DEF vars, IInv, TypeOK, GpgmeWorksOnTheCurrentFile, WaitsForThePassphrase,
     OutputsAreReported, StreamsAreClosed, ReportsFit
<1> QED BY <1>1, ResponseStep, IdleStep, GpgmeStep, DoneStep, BoxStep, BoxClosedStep,
     ResultsStep DEF Next

\* IInv is an invariant.
THEOREM InductiveInvariant == Spec => []IInv
<1>1. Init => IInv
  BY InitIInv
<1>2. IInv /\ [Next]_vars => IInv'
  BY NextIInv
<1> QED BY <1>1, <1>2, PTL DEF Spec

\* The variables keep their types for any list and any descriptors.
THEOREM TypeCorrect == Spec => []TypeOK
<1>1. IInv => TypeOK
  BY DEF IInv
<1> QED BY <1>1, InductiveInvariant, PTL

\* GPGME runs for the current file only, and the handlers of "done" find the
\* context at rest, whatever GPGME does with its descriptors and whenever the
\* user looks at the audit log.
THEOREM GpgmeServesTheCurrentFile == Spec => []GpgmeWorksOnTheCurrentFile
<1>1. IInv => GpgmeWorksOnTheCurrentFile
  BY DEF IInv
<1> QED BY <1>1, InductiveInvariant, PTL

\* Nothing happens to the operation under an open passphrase dialog.
THEOREM PassphraseIsWaitedFor == Spec => []WaitsForThePassphrase
<1>1. IInv => WaitsForThePassphrase
  BY DEF IInv
<1> QED BY <1>1, InductiveInvariant, PTL

\* The owner knows of every output, in a list of any length.
THEOREM EveryOutputIsReported == Spec => []OutputsAreReported
<1>1. IInv => OutputsAreReported
  BY DEF IInv
<1> QED BY <1>1, InductiveInvariant, PTL

\* encrypt and decrypt leave no stream open.
THEOREM NoStreamStaysOpen == Spec => []StreamsAreClosed
<1>1. IInv => StreamsAreClosed
  BY DEF IInv
<1> QED BY <1>1, InductiveInvariant, PTL

-----------------------------------------------------------------------------
(* The outputs of failed files, and the promise of a batch *)

\* What one step does to the operation.
LEMMA OperationStep ==
  ASSUME IInv, [Next]_vars, op' # op
  PROVE  /\ op.completed = "none" /\ op'.current \in {op.current, op.current + 1}
         /\ /\ op.phase \in {"running", "done"}
            /\ op'.completed = "ERR" /\ op'.current = op.current /\ batch.kind \in Tidy
            => op'.output[op.current] = "none"
<1>1. Next
  BY DEF vars
<1>2. ~GpgmeGoesOn /\ ~get_diag /\ ~diag_event /\ ~diag_shown
  BY GpgmeStep, BoxStep
<1>3. CASE response_cb
  BY <1>3, ResponseStep DEF response_cb
<1>4. CASE idle_cb
  BY <1>4, IdleStep DEF idle_cb
<1>5. CASE results_response_cb
  BY <1>5, ResultsStep DEF results_response_cb
<1>6. CASE done
  BY <1>6, DoneStep
<1>7. CASE box_closed
  BY <1>7, BoxClosedStep
<1> QED BY <1>1, <1>2, <1>3, <1>4, <1>5, <1>6, <1>7 DEF Next

\* A file whose encryption or decryption fails leaves no output behind.
THEOREM FailedOutputsGo == Spec => FailedOutputsAreDeleted
<1>1. IInv /\ [Next]_vars
      => [batch.kind \in {"encrypt"} \cup Decrypting => FailureDeletesOutput]_vars
  <2> SUFFICES ASSUME IInv, [Next]_vars, batch.kind \in Tidy,
                      op.phase \in {"running", "done"}, op'.completed = "ERR",
                      op'.current = op.current
               PROVE  op'.output[op.current] = "none"
    BY DEF FailureDeletesOutput, Tidy
  <2>1. op' # op
    BY DEF IInv, GpgmeWorksOnTheCurrentFile
  <2> QED BY <2>1, OperationStep
<1> QED BY <1>1, InductiveInvariant, PTL DEF Spec, FailedOutputsAreDeleted

\* Every step of the operation is a step of the batch, or none: files are
\* handled in order, the report comes once and last, and success means that
\* the whole list has been handled.
THEOREM Refinement == Spec => KeepsItsPromise
<1>1. Init => Promise!Init
  BY MaxFilesAssumption DEF Init, Promise!Init, Batch, NewOp, Outcome
<1>2. IInv /\ IInv' /\ [Next]_vars => [Promise!Step]_(Promise!vars)
  <2> SUFFICES ASSUME IInv, IInv', [Next]_vars
               PROVE  [Promise!Step]_(Promise!vars)
    OBVIOUS
  <2>1. /\ batch \in Batch /\ op \in Op /\ op' \in Op
        /\ batch.length \in Nat /\ op.current \in Nat /\ op'.current \in Nat
    BY MaxFilesAssumption DEF IInv, TypeOK, Batch, Op
  <2>2. batch' = batch
    BY DEF Next, vars, response_cb, idle_cb, GpgmeGoesOn, done, get_diag, diag_event,
       diag_shown, box_closed, results_response_cb
  <2>3. CASE op' = op
    BY <2>2, <2>3 DEF Promise!vars, Outcome
  <2>4. CASE op' # op
    <3>1. op.completed = "none" /\ op'.current \in {op.current, op.current + 1}
      BY <2>4, OperationStep
    <3>2. op'.current <= batch.length + 1
      BY <2>2 DEF IInv
    <3>3. Outcome = "none" /\ Outcome' \in {"none", "OK", "ERR"}
      BY <2>1, <3>1 DEF Outcome, Op
    <3>4. Outcome' = "OK" => op'.current = batch.length + 1
      <4>1. op'.completed = "OK" /\ batch.kind # "verify" => op'.current = batch.length + 1
        BY <2>2 DEF IInv, ReportsFit
      <4>2. op'.completed = "OK" /\ batch.kind = "verify" /\ Outcome' = "OK"
            => op'.current = batch.length + 1
        BY <2>1, <2>2, <3>2 DEF Outcome
      <4> QED BY <4>1, <4>2, <2>2 DEF Outcome
    <3> QED BY <2>1, <2>2, <3>1, <3>2, <3>3, <3>4 DEF Promise!Step
  <2> QED BY <2>3, <2>4
<1> QED BY <1>1, <1>2, InductiveInvariant, PTL DEF Spec, KeepsItsPromise, Promise!Spec
=============================================================================
