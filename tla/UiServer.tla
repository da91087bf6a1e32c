------------------------------ MODULE UiServer ------------------------------
(***************************************************************************)
(* The UI server of GPA (src/src/server.c) together with the stream        *)
(* operations it drives (gpastream*op.c).  A client (a mail program, a     *)
(* file manager) connects to the socket S.uiserver and sends Assuan        *)
(* commands, one at a time.  Most commands are answered at once.  ENCRYPT, *)
(* PREP_ENCRYPT, SIGN, DECRYPT and VERIFY create an operation, register a  *)
(* continuation in ctrl->cont_cmd, return GPG_ERR_UNFINISHED, and are      *)
(* answered by the continuation when the operation emits "completed".      *)
(*                                                                         *)
(* Everything runs in one thread: an action is one callback of the GLib    *)
(* main loop.  Two features of that loop matter and are modelled:          *)
(*   - it dispatches idle callbacks only when no source of the default     *)
(*     priority is ready (MainLoopIdle);                                   *)
(*   - a message box runs a nested loop, so that other callbacks run while *)
(*     the callback that opened it has not returned (modal, a stack).      *)
(*                                                                         *)
(* libassuan, GPGME, the clients and the user at the screen are external   *)
(* and appear as nondeterministic choices.                                 *)
(***************************************************************************)
EXTENDS Naturals, Sequences, FiniteSets

CONSTANTS
  Conns,        \* connection slots: a slot is reused after its connection ends
  Recipients,   \* the names a RECIPIENT command may give
  Commands,     \* the commands the clients of each slot use
  Patient,      \* slots whose clients never hang up while awaiting a reply
  MaxOrphans    \* bound: how many accepts may fail half way

StreamCommands == {"ENCRYPT", "PREP_ENCRYPT", "SIGN", "DECRYPT", "VERIFY"}

\* ENCRYPT_FILES stands for the six *_FILES commands that share
\* impl_encrypt_sign_files and impl_decrypt_verify_files; GETINFO stands for
\* the commands that change no state of the connection.
AllCommands ==
  StreamCommands \cup
  {"RECIPIENT", "SENDER", "INPUT", "OUTPUT", "MESSAGE", "SESSION", "FILE",
   "ENCRYPT_FILES", "GETINFO", "RESET", "BYE", "KILL_UISERVER"}

ASSUME ConnsAssumption == IsFiniteSet(Conns)
ASSUME CommandsAssumption == Commands \in [Conns -> SUBSET AllCommands]
ASSUME PatientAssumption == Patient \subseteq Conns
ASSUME MaxOrphansAssumption == MaxOrphans \in Nat

VARIABLES
  conn,                \* conn[c]: is there a connection context?
  sock,                \* sock[c]: what the client has put into the socket
  assuan,              \* assuan[c]: the state libassuan keeps (assuan_context_t)
  ctrl,                \* ctrl[c]: conn_ctrl_s, our own connection state
  op,                  \* op[c]: the stream operation working for the connection
  modal,               \* stack of connections whose callback is in a message box
  connection_counter,
  shutdown_pending,
  quit                 \* g_application_quit has been called

vars == <<conn, sock, assuan, ctrl, op, modal,
          connection_counter, shutdown_pending, quit>>

-----------------------------------------------------------------------------
(* Data *)

Protocols == {"OpenPGP", "CMS"}
Unknown == "UNKNOWN"              \* GPGME_PROTOCOL_UNKNOWN

\* What parse_protocol_option may find on a command line.
ProtocolOptions == Protocols \cup {"absent", "invalid"}

ParsedProtocol(option) == IF option \in Protocols THEN option ELSE Unknown

\* A gpgme_key_t array: NULL, or the keys chosen for a list of recipients.
\* The keys themselves are abstracted to the recipients they were chosen for.
NoKeys == [prepared |-> FALSE, for |-> {}]
KeysFor(recipients) == [prepared |-> TRUE, for |-> recipients]
KeyArrays == {NoKeys} \cup {KeysFor(R) : R \in SUBSET Recipients}

Channels == {"input", "output", "message"}

Ctrl == [cont_cmd          : StreamCommands \cup {"none"},
         gpa_op            : BOOLEAN,
         message_fd        : BOOLEAN,
         channels          : SUBSET Channels,
         recipients        : SUBSET Recipients,
         recipient_keys    : KeyArrays,
         selected_protocol : Protocols \cup {Unknown},
         sender            : BOOLEAN,
         session           : BOOLEAN,
         files             : BOOLEAN]

NewCtrl == [cont_cmd |-> "none", gpa_op |-> FALSE, message_fd |-> FALSE,
            channels |-> {}, recipients |-> {}, recipient_keys |-> NoKeys,
            selected_protocol |-> Unknown, sender |-> FALSE,
            session |-> FALSE, files |-> FALSE]

\* The command libassuan has dispatched and nobody has answered yet, the last
\* answer given, and the descriptors set by INPUT and OUTPUT.
Assuan == [command   : StreamCommands \cup {"none"},
           reply     : {"none", "OK", "ERR"},
           input_fd  : BOOLEAN,
           output_fd : BOOLEAN]

NewAssuan == [command |-> "none", reply |-> "none",
              input_fd |-> FALSE, output_fd |-> FALSE]

\* An unread command line, and end of file.
Sock == [line : BOOLEAN, closed : BOOLEAN]
NewSock == [line |-> FALSE, closed |-> FALSE]

\* dialog:  a selection dialog is open      idle:    an idle callback will start it
\* running: GPGME works on the streams      warning: a message box reports an error
\* result:  the result dialog is open
Phases == {"none", "dialog", "idle", "running", "warning", "result"}

\* An operation has its own copy of the recipients and of the keys.  The
\* protocol matters to encryption only.
Op == [command    : StreamCommands \cup {"none"},
       phase      : Phases,
       protocol   : Protocols \cup {Unknown},
       recipients : SUBSET Recipients,
       keys       : KeyArrays]

NoOp == [command |-> "none", phase |-> "none", protocol |-> Unknown,
         recipients |-> {}, keys |-> NoKeys]

Live(c) == conn[c] = "live"

Waiting(c) == sock[c].line \/ assuan[c].command # "none"

Readable(c) == Live(c) /\ (sock[c].line \/ sock[c].closed)

\* receive_cb leaves its input unread while a continuation is pending, so its
\* source stays ready, and a ready source of the default priority keeps the
\* main loop from dispatching any idle callback.
MainLoopIdle == \A c \in Conns : ~Readable(c)

InModal(c) == \E i \in 1..Len(modal) : modal[i] = c

-----------------------------------------------------------------------------
(* Helpers of server.c: what they do to the connection's state *)

reset_prepared_keys(k) ==
  [k EXCEPT !.recipient_keys = NoKeys, !.selected_protocol = Unknown]

release_recipients(k) == [k EXCEPT !.recipients = {}]

\* finish_io_streams shuts the channels down and closes the MESSAGE descriptor;
\* it also closes the descriptors libassuan holds (CloseInputOutput).
finish_io_streams(k) == [k EXCEPT !.channels = {}, !.message_fd = FALSE]

CloseInputOutput(a) == [a EXCEPT !.input_fd = FALSE, !.output_fd = FALSE]

\* assuan_process_done: answer the outstanding command, if there is one.
process_done(a, code) ==
  [a EXCEPT !.command = "none", !.reply = code]

\* Everything but the continuation is put back to its initial value.
reset_notify(k) == [NewCtrl EXCEPT !.cont_cmd = k.cont_cmd]

-----------------------------------------------------------------------------
(* Clients *)

SendLine(c) ==
  /\ ~quit
  /\ Live(c) /\ ~sock[c].closed /\ ~Waiting(c)
  /\ sock' = [sock EXCEPT ![c].line = TRUE]
  /\ UNCHANGED <<conn, assuan, ctrl, op, modal, connection_counter,
                 shutdown_pending, quit>>

HangUp(c) ==
  /\ ~quit
  /\ Live(c) /\ ~sock[c].closed
  /\ c \in Patient => ~Waiting(c)
  /\ sock' = [sock EXCEPT ![c].closed = TRUE]
  /\ UNCHANGED <<conn, assuan, ctrl, op, modal, connection_counter,
                 shutdown_pending, quit>>

-----------------------------------------------------------------------------
(* Connections *)

\* accept_connection_cb, everything going well; with connection_startup.
accept_connection_cb(c) ==
  /\ ~quit
  /\ conn[c] = "free"
  /\ conn' = [conn EXCEPT ![c] = "live"]
  /\ connection_counter' = connection_counter + 1
  /\ UNCHANGED <<sock, assuan, ctrl, op, modal, shutdown_pending, quit>>

\* A failure after connection_startup (no channel, no watch, or the greeting
\* cannot be sent): the descriptor is closed, the context is not finished.
accept_connection_cb_fails(c) ==
  /\ ~quit
  /\ conn[c] = "free"
  /\ Cardinality({d \in Conns : conn[d] = "orphan"}) < MaxOrphans
  /\ conn' = [conn EXCEPT ![c] = "orphan"]
  /\ connection_counter' = connection_counter + 1
  /\ UNCHANGED <<sock, assuan, ctrl, op, modal, shutdown_pending, quit>>

\* Mutant: the last connection goes without looking at shutdown_pending.
connection_finish_forgetting_shutdown(c) ==
  /\ conn' = [conn EXCEPT ![c] = "free"]
  /\ sock' = [sock EXCEPT ![c] = NewSock]
  /\ assuan' = [assuan EXCEPT ![c] = NewAssuan]
  /\ ctrl' = [ctrl EXCEPT ![c] = NewCtrl]
  /\ connection_counter' = connection_counter - 1
  /\ UNCHANGED quit

\* connection_finish, with reset_notify.
connection_finish(c) ==
  /\ conn' = [conn EXCEPT ![c] = "free"]
  /\ sock' = [sock EXCEPT ![c] = NewSock]
  /\ assuan' = [assuan EXCEPT ![c] = NewAssuan]
  /\ ctrl' = [ctrl EXCEPT ![c] = NewCtrl]
  /\ connection_counter' = connection_counter - 1
  /\ quit' = (connection_counter' = 0 /\ shutdown_pending)

\* Mutant: the pending continuation is not looked at.
MayReceiveAnyTime(c) == ~quit /\ Readable(c)

\* Mutant: only a command line is received, never the end of file.
MayReceiveLines(c) == ~quit /\ Live(c) /\ sock[c].line /\ ctrl[c].cont_cmd = "none"

\* receive_cb goes on to assuan_process_next only without a continuation.
\* Its other branch sleeps for two seconds and reads nothing: a stuttering step.
MayReceive(c) == ~quit /\ Readable(c) /\ ctrl[c].cont_cmd = "none"

\* The line holds the command name, which libassuan dispatches.
Dispatched(c, name) ==
  /\ MayReceive(c)
  /\ sock[c].line
  /\ name \in Commands[c]
  /\ sock' = [sock EXCEPT ![c].line = FALSE]

\* End of file: process_next reports "done".
receive_eof(c) ==
  /\ MayReceive(c)
  /\ ~sock[c].line
  /\ connection_finish(c)
  /\ UNCHANGED <<op, modal, shutdown_pending>>

\* BYE is answered and reported as "done", too.
bye(c) ==
  /\ MayReceive(c)
  /\ sock[c].line
  /\ "BYE" \in Commands[c]
  /\ connection_finish(c)
  /\ UNCHANGED <<op, modal, shutdown_pending>>

-----------------------------------------------------------------------------
(* Commands answered at once.  Each leaves k and a as the state of the       *)
(* connection and of libassuan, and answers with code.                       *)

Answer(c, k, a, code) ==
  /\ ctrl' = [ctrl EXCEPT ![c] = k]
  /\ assuan' = [assuan EXCEPT ![c] = process_done(a, code)]
  /\ UNCHANGED <<conn, op, modal, connection_counter, quit>>

cmd_session(c) ==
  /\ Dispatched(c, "SESSION")
  /\ Answer(c, [ctrl[c] EXCEPT !.session = TRUE], assuan[c], "OK")
  /\ UNCHANGED shutdown_pending

\* Mutant: the keys prepared for the old list are kept.
cmd_recipient_keeping_keys(c) ==
  /\ Dispatched(c, "RECIPIENT")
  /\ \E added \in {{}} \cup {{r} : r \in Recipients} :
       Answer(c, [ctrl[c] EXCEPT !.recipients = @ \cup added], assuan[c], "OK")
  /\ UNCHANGED shutdown_pending

\* An empty line adds no recipient but drops the prepared keys all the same.
cmd_recipient(c) ==
  /\ Dispatched(c, "RECIPIENT")
  /\ \E added \in {{}} \cup {{r} : r \in Recipients} :
       Answer(c, [reset_prepared_keys(ctrl[c]) EXCEPT !.recipients = @ \cup added],
              assuan[c], "OK")
  /\ UNCHANGED shutdown_pending

cmd_message(c) ==
  /\ Dispatched(c, "MESSAGE")
  /\ \/ Answer(c, [ctrl[c] EXCEPT !.message_fd = TRUE], assuan[c], "OK")
     \/ Answer(c, ctrl[c], assuan[c], "ERR")
  /\ UNCHANGED shutdown_pending

\* INPUT and OUTPUT are libassuan's own commands.
cmd_input(c) ==
  /\ Dispatched(c, "INPUT")
  /\ \/ Answer(c, ctrl[c], [assuan[c] EXCEPT !.input_fd = TRUE], "OK")
     \/ Answer(c, ctrl[c], assuan[c], "ERR")
  /\ UNCHANGED shutdown_pending

cmd_output(c) ==
  /\ Dispatched(c, "OUTPUT")
  /\ \/ Answer(c, ctrl[c], [assuan[c] EXCEPT !.output_fd = TRUE], "OK")
     \/ Answer(c, ctrl[c], assuan[c], "ERR")
  /\ UNCHANGED shutdown_pending

\* SENDER without an address forgets the sender.
cmd_sender(c) ==
  /\ Dispatched(c, "SENDER")
  /\ \E option \in ProtocolOptions :
       IF option = "invalid"
       THEN Answer(c, ctrl[c], assuan[c], "ERR")
       ELSE \E given \in BOOLEAN :
              Answer(c, [ctrl[c] EXCEPT !.sender = given], assuan[c], "OK")
  /\ UNCHANGED shutdown_pending

\* With or without --clear the list holds a file afterwards.
cmd_file(c) ==
  /\ Dispatched(c, "FILE")
  /\ Answer(c, [ctrl[c] EXCEPT !.files = TRUE], assuan[c], "OK")
  /\ UNCHANGED shutdown_pending

\* The file operation takes the list over and runs on its own: the answer
\* does not wait for it.  Without --nohup, or with a stray argument, nothing
\* happens.
cmd_files(c) ==
  /\ Dispatched(c, "ENCRYPT_FILES")
  /\ \/ Answer(c, ctrl[c], assuan[c], "ERR")
     \/ /\ ctrl[c].files
        /\ Answer(c, [ctrl[c] EXCEPT !.files = FALSE], assuan[c], "OK")
  /\ UNCHANGED shutdown_pending

\* GETINFO, START_*, CHECKSUM_* and anything libassuan rejects.
cmd_getinfo(c) ==
  /\ Dispatched(c, "GETINFO")
  /\ \E code \in {"OK", "ERR"} : Answer(c, ctrl[c], assuan[c], code)
  /\ UNCHANGED shutdown_pending

cmd_kill_uiserver(c) ==
  /\ Dispatched(c, "KILL_UISERVER")
  /\ Answer(c, ctrl[c], assuan[c], "OK")
  /\ shutdown_pending' = TRUE

cmd_reset(c) ==
  /\ Dispatched(c, "RESET")
  /\ Answer(c, reset_notify(ctrl[c]), CloseInputOutput(assuan[c]), "OK")
  /\ UNCHANGED shutdown_pending

-----------------------------------------------------------------------------
(* Commands with a continuation *)

\* The "leave:" path of the stream commands.
Refuse(c, k) ==
  /\ Answer(c, finish_io_streams(k), CloseInputOutput(assuan[c]), "ERR")
  /\ UNCHANGED shutdown_pending

\* Register the continuation and create the operation: not_finished.
Launch(c, k, o) ==
  /\ ctrl' = [ctrl EXCEPT ![c] = [k EXCEPT !.cont_cmd = o.command]]
  /\ assuan' = [assuan EXCEPT ![c].command = o.command]
  /\ op' = [op EXCEPT ![c] = o]
  /\ UNCHANGED <<conn, modal, connection_counter, shutdown_pending, quit>>

\* translate_io_streams insists on both descriptors.
InputAndOutput(c) == assuan[c].input_fd /\ assuan[c].output_fd

\* gpa_stream_encrypt_operation_constructor: keys suppress the dialogs.
EncryptOperation(command, protocol, k) ==
  [command |-> command, protocol |-> protocol,
   recipients |-> k.recipients, keys |-> k.recipient_keys,
   phase |-> IF k.recipient_keys.prepared THEN "idle" ELSE "dialog"]

StreamOperation(command, phase) ==
  [NoOp EXCEPT !.command = command, !.phase = phase]

\* The prepared keys are dropped as soon as the protocol is known to differ,
\* before the rest of the line is looked at.
cmd_encrypt(c) ==
  /\ Dispatched(c, "ENCRYPT")
  /\ \E option \in ProtocolOptions :
       IF option \notin Protocols
       THEN Refuse(c, ctrl[c])
       ELSE LET k == IF option = ctrl[c].selected_protocol
                     THEN ctrl[c]
                     ELSE reset_prepared_keys(ctrl[c])
            IN \/ Refuse(c, k)
               \/ /\ InputAndOutput(c)
                  /\ Launch(c, [k EXCEPT !.channels = {"input", "output"}],
                            EncryptOperation("ENCRYPT", option, k))

\* A refused PREP_ENCRYPT changes nothing.  An accepted one keeps a reference
\* to its operation in ctrl->gpa_op, for the continuation to ask for the keys.
cmd_prep_encrypt(c) ==
  /\ Dispatched(c, "PREP_ENCRYPT")
  /\ \/ /\ Answer(c, ctrl[c], assuan[c], "ERR")
        /\ UNCHANGED shutdown_pending
     \/ \E option \in ProtocolOptions \ {"invalid"} :
          LET k == reset_prepared_keys(ctrl[c])
          IN Launch(c, [k EXCEPT !.gpa_op = TRUE],
                    EncryptOperation("PREP_ENCRYPT", ParsedProtocol(option), k))

\* The signing dialog is always shown.
cmd_sign(c) ==
  /\ Dispatched(c, "SIGN")
  /\ \/ Refuse(c, ctrl[c])
     \/ /\ InputAndOutput(c)
        /\ Launch(c, [ctrl[c] EXCEPT !.channels = {"input", "output"}],
                  StreamOperation("SIGN", "dialog"))

cmd_decrypt(c) ==
  /\ Dispatched(c, "DECRYPT")
  /\ \/ Refuse(c, ctrl[c])
     \/ /\ InputAndOutput(c)
        /\ Launch(c, [ctrl[c] EXCEPT !.channels = {"input", "output"}],
                  StreamOperation("DECRYPT", "idle"))

\* The verify modes: a detached signature has a message and no output, an
\* opaque one has no message and may have an output.
VerifyStreams(c) ==
  {"input"} \cup (IF assuan[c].output_fd THEN {"output"} ELSE {})
            \cup (IF ctrl[c].message_fd THEN {"message"} ELSE {})

cmd_verify(c) ==
  /\ Dispatched(c, "VERIFY")
  /\ \/ Refuse(c, ctrl[c])
     \/ /\ assuan[c].input_fd
        /\ ~(ctrl[c].message_fd /\ assuan[c].output_fd)
        /\ Launch(c, [ctrl[c] EXCEPT !.channels = VerifyStreams(c)],
                  StreamOperation("VERIFY", "idle"))

-----------------------------------------------------------------------------
(* Continuations: the connection's state after each *)

cont_encrypt(k, code) ==
  IF code = "OK" THEN release_recipients(finish_io_streams(k))
                 ELSE finish_io_streams(k)

\* Take over the keys and the protocol of operation o and let go of it.
cont_prep_encrypt(k, o, code) ==
  IF code = "OK" THEN [k EXCEPT !.recipient_keys = o.keys,
                                !.selected_protocol = o.protocol,
                                !.gpa_op = FALSE]
                 ELSE [k EXCEPT !.gpa_op = FALSE]

\* Mutant: a failed SIGN forgets the sender, too.
cont_sign_forgetting_sender(k, code) ==
  [finish_io_streams(k) EXCEPT !.sender = FALSE]

cont_sign(k, code) ==
  IF code = "OK" THEN [finish_io_streams(k) EXCEPT !.sender = FALSE]
                 ELSE finish_io_streams(k)

\* Mutant: the streams stay open when the operation has ended.
cont_decrypt_keeping_streams(k) == k

cont_decrypt(k) == finish_io_streams(k)

cont_verify(k) == finish_io_streams(k)

\* Mutant: the continuation stays registered after it has run.
run_server_continuation_keeping(c, o, code) ==
  /\ ctrl' = [ctrl EXCEPT ![c] =
                CASE @.cont_cmd = "ENCRYPT"      -> cont_encrypt(@, code)
                  [] @.cont_cmd = "PREP_ENCRYPT" -> cont_prep_encrypt(@, o, code)
                  [] @.cont_cmd = "SIGN"         -> cont_sign(@, code)
                  [] @.cont_cmd = "DECRYPT"      -> cont_decrypt(@)
                  [] @.cont_cmd = "VERIFY"       -> cont_verify(@)
                  [] OTHER                       -> @]
  /\ assuan' = [assuan EXCEPT ![c] =
                  process_done(IF ctrl[c].cont_cmd = "PREP_ENCRYPT"
                               THEN @ ELSE CloseInputOutput(@), code)]

\* Clear the continuation, then run it.
run_server_continuation(c, o, code) ==
  LET k == [ctrl[c] EXCEPT !.cont_cmd = "none"]
      prep == ctrl[c].cont_cmd = "PREP_ENCRYPT"
  IN /\ ctrl' = [ctrl EXCEPT ![c] =
                   CASE ctrl[c].cont_cmd = "ENCRYPT" -> cont_encrypt(k, code)
                     [] prep                         -> cont_prep_encrypt(k, o, code)
                     [] ctrl[c].cont_cmd = "SIGN"    -> cont_sign(k, code)
                     [] ctrl[c].cont_cmd = "DECRYPT" -> cont_decrypt(k)
                     [] ctrl[c].cont_cmd = "VERIFY"  -> cont_verify(k)
                     [] OTHER                        -> k]
     /\ assuan' = [assuan EXCEPT ![c] =
                     process_done(IF prep THEN @ ELSE CloseInputOutput(@), code)]

-----------------------------------------------------------------------------
(* Stream operations *)

\* The signal "completed" of operation o: the server's continuation, then the
\* release of the operation.
completed(c, o, code) ==
  /\ run_server_continuation(c, o, code)
  /\ op' = [op EXCEPT ![c] = NoOp]
  /\ UNCHANGED <<conn, sock, connection_counter, shutdown_pending, quit>>

\* A message box in the middle of a callback; the callback goes on when the
\* box is dismissed (warning_dismissed).
show_warning(c, o) ==
  /\ op' = [op EXCEPT ![c] = [o EXCEPT !.phase = "warning"]]
  /\ modal' = Append(modal, c)
  /\ UNCHANGED <<conn, sock, assuan, ctrl, connection_counter,
                 shutdown_pending, quit>>

\* The operation goes on without telling the server.
proceed(c, o) ==
  /\ op' = [op EXCEPT ![c] = o]
  /\ UNCHANGED <<conn, sock, assuan, ctrl, modal, connection_counter,
                 shutdown_pending, quit>>

\* start_encryption.  Missing or mismatched keys and a PROTOCOL status the
\* client does not take end the operation; so does GPGME, with a warning.
\* Without streams (PREP_ENCRYPT) a known protocol is all that is needed.
start_encryption(c, o) ==
  \/ /\ completed(c, o, "ERR")
     /\ UNCHANGED modal
  \/ /\ o.protocol # Unknown
     /\ o.command = "PREP_ENCRYPT"
     /\ completed(c, o, "OK")
     /\ UNCHANGED modal
  \/ /\ o.protocol # Unknown
     /\ o.command = "ENCRYPT"
     /\ \/ show_warning(c, o)
        \/ proceed(c, [o EXCEPT !.phase = "running"])

\* A selection dialog can be used only while no message box grabs the input.
DialogOpen(c, commands, phase) ==
  /\ ~quit
  /\ modal = <<>>
  /\ op[c].command \in commands
  /\ op[c].phase = phase

\* The recipient dialog settles the protocol, the plain key dialog shown
\* without recipients leaves it as it was given.
encrypt_response_cb(c) ==
  /\ DialogOpen(c, {"ENCRYPT", "PREP_ENCRYPT"}, "dialog")
  /\ \/ /\ completed(c, op[c], "ERR")
        /\ UNCHANGED modal
     \/ \E protocol \in IF op[c].recipients = {} THEN {op[c].protocol} ELSE Protocols :
          start_encryption(c, [op[c] EXCEPT !.keys = KeysFor(op[c].recipients),
                                            !.protocol = protocol])

sign_response_cb(c) ==
  /\ DialogOpen(c, {"SIGN"}, "dialog")
  /\ \/ /\ completed(c, op[c], "ERR")
        /\ UNCHANGED modal
     \/ show_warning(c, op[c])
     \/ proceed(c, [op[c] EXCEPT !.phase = "running"])

\* start_encryption_cb and the idle_cb of decrypt and verify.
idle_cb(c) ==
  /\ ~quit
  /\ MainLoopIdle
  /\ op[c].phase = "idle"
  /\ IF op[c].command = "ENCRYPT"
     THEN start_encryption(c, op[c])
     ELSE \/ show_warning(c, op[c])
          \/ proceed(c, [op[c] EXCEPT !.phase = "running"])

\* Mutant: a cancellation inside GPGME is swallowed.
done_error_cb_swallowing(c) ==
  /\ ~quit
  /\ op[c].phase = "running"
  /\ \/ show_warning(c, op[c])
     \/ proceed(c, [op[c] EXCEPT !.phase = "none"])

\* GPGME reports an error: done_error_cb warns, except about a cancellation.
done_error_cb(c) ==
  /\ ~quit
  /\ op[c].phase = "running"
  /\ \/ show_warning(c, op[c])
     \/ /\ completed(c, op[c], "ERR")
        /\ UNCHANGED modal

\* GPGME reports success.  Signatures found by DECRYPT, and VERIFY unless it is
\* silent, show the result dialog first.  SIGN and VERIFY report a status that
\* fails when the client has gone.
done_cb(c) ==
  /\ ~quit
  /\ op[c].phase = "running"
  /\ \/ /\ completed(c, op[c], "OK")
        /\ UNCHANGED modal
     \/ /\ op[c].command \in {"DECRYPT", "VERIFY"}
        /\ proceed(c, [op[c] EXCEPT !.phase = "result"])
     \/ /\ op[c].command \in {"SIGN", "VERIFY"}
        /\ sock[c].closed
        /\ completed(c, op[c], "ERR")
        /\ UNCHANGED modal

\* The innermost message box returns first.
warning_dismissed(c) ==
  /\ ~quit
  /\ modal # <<>> /\ modal[Len(modal)] = c
  /\ modal' = SubSeq(modal, 1, Len(modal) - 1)
  /\ completed(c, op[c], "ERR")

result_response_cb(c) ==
  /\ DialogOpen(c, {"DECRYPT", "VERIFY"}, "result")
  /\ completed(c, op[c], "OK")
  /\ UNCHANGED modal

-----------------------------------------------------------------------------

\* Mutant: the server is stopped whoever is connected.
gpa_stop_server_at_once ==
  /\ ~quit
  /\ shutdown_pending' = TRUE
  /\ quit' = TRUE
  /\ UNCHANGED <<conn, sock, assuan, ctrl, op, modal, connection_counter>>

\* quit_if_no_window calls gpa_stop_server when the user closes the last window.
gpa_stop_server ==
  /\ ~quit
  /\ shutdown_pending' = TRUE
  /\ quit' = (connection_counter = 0)
  /\ UNCHANGED <<conn, sock, assuan, ctrl, op, modal, connection_counter>>

Init ==
  /\ conn = [c \in Conns |-> "free"]
  /\ sock = [c \in Conns |-> NewSock]
  /\ assuan = [c \in Conns |-> NewAssuan]
  /\ ctrl = [c \in Conns |-> NewCtrl]
  /\ op = [c \in Conns |-> NoOp]
  /\ modal = <<>>
  /\ connection_counter = 0
  /\ shutdown_pending = FALSE
  /\ quit = FALSE

ReceiveLine(c) ==
  \/ bye(c)
  \/ cmd_session(c) \/ cmd_recipient(c) \/ cmd_message(c) \/ cmd_input(c)
  \/ cmd_output(c) \/ cmd_sender(c) \/ cmd_file(c) \/ cmd_files(c)
  \/ cmd_getinfo(c) \/ cmd_kill_uiserver(c) \/ cmd_reset(c)
  \/ cmd_encrypt(c) \/ cmd_prep_encrypt(c) \/ cmd_sign(c)
  \/ cmd_decrypt(c) \/ cmd_verify(c)

receive_cb(c) == receive_eof(c) \/ ReceiveLine(c)

GpgmeDone(c) == done_error_cb(c) \/ done_cb(c)

UserAnswers(c) ==
  encrypt_response_cb(c) \/ sign_response_cb(c) \/ result_response_cb(c)

Next ==
  \/ gpa_stop_server
  \/ \E c \in Conns :
       \/ SendLine(c) \/ HangUp(c)
       \/ accept_connection_cb(c) \/ accept_connection_cb_fails(c)
       \/ receive_cb(c)
       \/ idle_cb(c) \/ GpgmeDone(c)
       \/ UserAnswers(c) \/ warning_dismissed(c)

Spec == Init /\ [][Next]_vars

-----------------------------------------------------------------------------
(* Fairness.  The main loop serves every source that stays ready; it gets to *)
(* the idle callbacks if it runs out of other work again and again (strong:  *)
(* the next request of a client may come in between); GPGME finishes; and    *)
(* the user answers every dialog that can be used again and again (strong:   *)
(* the message box of another connection may come in between).  Clients owe  *)
(* nothing.                                                                  *)

Fairness ==
  \A c \in Conns :
    /\ WF_vars(receive_cb(c))
    /\ SF_vars(idle_cb(c))
    /\ WF_vars(GpgmeDone(c))
    /\ SF_vars(UserAnswers(c))
    /\ SF_vars(warning_dismissed(c))

FairSpec == Spec /\ Fairness

-----------------------------------------------------------------------------
(* Correctness *)

\* Every variable keeps its type.
TypeOK ==
  /\ conn \in [Conns -> {"free", "live", "orphan"}]
  /\ sock \in [Conns -> Sock]
  /\ assuan \in [Conns -> Assuan]
  /\ ctrl \in [Conns -> Ctrl]
  /\ op \in [Conns -> Op]
  /\ modal \in Seq(Conns)
  /\ connection_counter \in Nat
  /\ shutdown_pending \in BOOLEAN
  /\ quit \in BOOLEAN

\* The continuation in ctrl->cont_cmd, the command libassuan owes an answer
\* for and the operation at work always belong together, so an answer is never
\* given to the wrong command; ctrl->gpa_op is held for PREP_ENCRYPT only.
OneOperationPerCommand ==
  \A c \in Conns :
    /\ ctrl[c].cont_cmd = assuan[c].command
    /\ ctrl[c].cont_cmd = op[c].command
    /\ (op[c].phase = "none") = (op[c].command = "none")
    /\ ctrl[c].gpa_op = (ctrl[c].cont_cmd = "PREP_ENCRYPT")

\* The continuation of an operation finds its connection (the context is an
\* argument of the signal handler), and GPGME reads and writes through the
\* channels in ctrl (my_gpgme_read_cb, my_gpgme_write_cb): they stay open as
\* long as an operation may use them, and no longer than its command.
StreamsLastAsLongAsTheOperation ==
  \A c \in Conns :
    /\ op[c].command # "none" => Live(c)
    /\ IF op[c].command \in StreamCommands \ {"PREP_ENCRYPT"}
       THEN /\ "input" \in ctrl[c].channels
            /\ op[c].command # "VERIFY" => "output" \in ctrl[c].channels
            /\ ctrl[c].channels # Channels
       ELSE ctrl[c].channels = {}

\* As long as the client has given recipients, data is never encrypted to keys
\* chosen for another list: prepared keys do not survive RECIPIENT, RESET or a
\* change of the protocol.  It says nothing of an empty list, and cannot: a
\* successful ENCRYPT releases the recipients and keeps the keys that were
\* prepared for them (cont_encrypt), and the next ENCRYPT without a RECIPIENT
\* uses these keys, without asking.
EncryptsToTheRecipientsGiven ==
  \A c \in Conns :
    /\ op[c].command \in {"ENCRYPT", "PREP_ENCRYPT"}
         => op[c].recipients = ctrl[c].recipients
    /\ op[c].command = "ENCRYPT" /\ op[c].recipients # {} /\ op[c].keys.prepared
         => op[c].keys.for = op[c].recipients
    /\ ctrl[c].recipients # {} /\ ctrl[c].recipient_keys.prepared
         => ctrl[c].recipient_keys.for = ctrl[c].recipients

\* cmd_encrypt decides by selected_protocol whether the prepared keys may be
\* used: they are there exactly when that protocol is known, and an operation
\* that starts without asking uses them with their own protocol.
PreparedKeysHaveAProtocol ==
  \A c \in Conns :
    /\ ctrl[c].recipient_keys.prepared = (ctrl[c].selected_protocol # Unknown)
    /\ op[c].command = "ENCRYPT" /\ op[c].phase = "idle"
         => /\ op[c].keys = ctrl[c].recipient_keys
            /\ op[c].protocol = ctrl[c].selected_protocol

\* A callback that waits in a message box finds its connection and its
\* operation when the box returns.
CallbacksInModalOwnTheirConnection ==
  /\ \A i \in 1..Len(modal) : conn[modal[i]] = "live"
  /\ \A c \in Conns : InModal(c) = (op[c].phase = "warning")
  /\ \A i, j \in 1..Len(modal) : modal[i] = modal[j] => i = j

\* The contexts that a failed accept has left behind (l. 1895).
Orphans == {c \in Conns : conn[c] = "orphan"}

\* connection_finish and gpa_stop_server quit together: never under a client,
\* and never later than with the last one, unless an accept has failed.  The
\* counter they go by exceeds the clients by the contexts that failed accepts
\* have left, and by nothing else; what that does to a shutdown is stated as it
\* is: as long as one is left, the server never quits.
ShutdownIsFriendly ==
  /\ connection_counter = Cardinality({c \in Conns : Live(c)}) + Cardinality(Orphans)
  /\ quit => \A c \in Conns : ~Live(c)
  /\ shutdown_pending /\ Orphans = {} /\ (\A c \in Conns : ~Live(c)) => quit
  /\ quit => Orphans = {}

\* While an operation is at work its connection is neither finished nor given
\* another command: the settings the operation was created from stay as they are.
SettingsHoldStill ==
  [][\A c \in Conns :
       op[c].command # "none" /\ op'[c].command # "none"
         => conn'[c] = conn[c] /\ ctrl'[c] = ctrl[c] /\ assuan'[c] = assuan[c]]_vars

\* The server keeps what the help texts of its commands promise.
Promise == INSTANCE AbstractUiServer WITH
  open       <- [c \in Conns |-> Live(c)],
  command    <- [c \in Conns |-> assuan[c].command],
  reply      <- [c \in Conns |-> assuan[c].reply],
  recipients <- [c \in Conns |-> ctrl[c].recipients],
  sender     <- [c \in Conns |-> ctrl[c].sender]

KeepsItsPromise == Promise!Spec

\* Every command of a client that waits for the answer is answered.
CommandsAreAnswered ==
  \A c \in Conns : Waiting(c) ~> ~Waiting(c)

\* The connection of a client that has hung up is finished.
DeadClientsAreFinished ==
  \A c \in Conns : sock[c].closed ~> ~sock[c].closed

\* When a shutdown has been requested, every client has hung up and no accept
\* has failed, the server quits, unless another client connects (or an accept
\* fails) before the last one is finished.
EveryClientHasHungUp == \A c \in Conns : Live(c) => sock[c].closed

ShutdownCompletes ==
  shutdown_pending /\ EveryClientHasHungUp /\ Orphans = {}
    ~> quit \/ ~EveryClientHasHungUp \/ Orphans # {}

=============================================================================
