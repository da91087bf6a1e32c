-------------------------- MODULE AbstractUiServer --------------------------
(***************************************************************************)
(* What the UI server promises a client, as the help texts of its commands *)
(* state it (src/src/server.c: hlp_recipient, hlp_sender, hlp_session):    *)
(* one command at a time and one answer for each; recipients accumulate    *)
(* until a RESET or a successful ENCRYPT; a sender stays until a RESET or  *)
(* a successful SIGN; a command that fails takes nothing away.             *)
(*                                                                         *)
(* How a command gets its answer (dialogs, callbacks, GPGME, descriptors)  *)
(* is not visible here: a command is outstanding, and then it is answered. *)
(***************************************************************************)
CONSTANTS Conns, Recipients, StreamCommands

VARIABLES
  open,         \* open[c]: the connection exists
  command,      \* command[c]: the command that waits for its answer, or "none"
  reply,        \* reply[c]: the last answer
  recipients,   \* recipients[c]: the recipients collected so far
  sender        \* sender[c]: a sender has been given

vars == <<open, command, reply, recipients, sender>>

Idle(c) == open[c] /\ command[c] = "none"

Open(c) ==
  /\ ~open[c]
  /\ open' = [open EXCEPT ![c] = TRUE]
  /\ UNCHANGED <<command, reply, recipients, sender>>

\* A connection ends only between commands, and leaves nothing behind.
Close(c) ==
  /\ Idle(c)
  /\ open' = [open EXCEPT ![c] = FALSE]
  /\ reply' = [reply EXCEPT ![c] = "none"]
  /\ recipients' = [recipients EXCEPT ![c] = {}]
  /\ sender' = [sender EXCEPT ![c] = FALSE]
  /\ UNCHANGED command

Recipient(c) ==
  /\ Idle(c)
  /\ \E R \in SUBSET Recipients :
       recipients' = [recipients EXCEPT ![c] = @ \cup R]
  /\ reply' = [reply EXCEPT ![c] = "OK"]
  /\ UNCHANGED <<open, command, sender>>

Sender(c) ==
  /\ Idle(c)
  /\ \E given \in BOOLEAN : sender' = [sender EXCEPT ![c] = given]
  /\ reply' = [reply EXCEPT ![c] = "OK"]
  /\ UNCHANGED <<open, command, recipients>>

Reset(c) ==
  /\ Idle(c)
  /\ recipients' = [recipients EXCEPT ![c] = {}]
  /\ sender' = [sender EXCEPT ![c] = FALSE]
  /\ reply' = [reply EXCEPT ![c] = "OK"]
  /\ UNCHANGED <<open, command>>

\* Any other command answered at once, and any command refused.
Other(c) ==
  /\ Idle(c)
  /\ \E code \in {"OK", "ERR"} : reply' = [reply EXCEPT ![c] = code]
  /\ UNCHANGED <<open, command, recipients, sender>>

Begin(c) ==
  /\ Idle(c)
  /\ \E name \in StreamCommands : command' = [command EXCEPT ![c] = name]
  /\ UNCHANGED <<open, reply, recipients, sender>>

Succeed(c) ==
  /\ open[c] /\ command[c] # "none"
  /\ command' = [command EXCEPT ![c] = "none"]
  /\ reply' = [reply EXCEPT ![c] = "OK"]
  /\ recipients' = [recipients EXCEPT ![c] =
                      IF command[c] = "ENCRYPT" THEN {} ELSE @]
  /\ sender' = [sender EXCEPT ![c] = IF command[c] = "SIGN" THEN FALSE ELSE @]
  /\ UNCHANGED open

Fail(c) ==
  /\ open[c] /\ command[c] # "none"
  /\ command' = [command EXCEPT ![c] = "none"]
  /\ reply' = [reply EXCEPT ![c] = "ERR"]
  /\ UNCHANGED <<open, recipients, sender>>

Init ==
  /\ open = [c \in Conns |-> FALSE]
  /\ command = [c \in Conns |-> "none"]
  /\ reply = [c \in Conns |-> "none"]
  /\ recipients = [c \in Conns |-> {}]
  /\ sender = [c \in Conns |-> FALSE]

Next ==
  \E c \in Conns :
    \/ Open(c) \/ Close(c)
    \/ Recipient(c) \/ Sender(c) \/ Reset(c) \/ Other(c)
    \/ Begin(c) \/ Succeed(c) \/ Fail(c)

Spec == Init /\ [][Next]_vars
=============================================================================
