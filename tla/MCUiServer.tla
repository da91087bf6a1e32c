---------------------------- MODULE MCUiServer ------------------------------
(* Instances of UiServer for TLC. *)
EXTENDS UiServer

CONSTANTS c1, c2, r1, r2

\* One client that uses every command.
EveryCommand == [c \in Conns |-> AllCommands]

\* The operations of these commands start from a dialog, never from an idle
\* callback.
DialogCommands == {"SIGN", "INPUT", "OUTPUT", "BYE", "KILL_UISERVER"}

\* Two clients at once: the first one waits for its answers and also uses a
\* command that starts from an idle callback, the second one may go any time.
SharedCommands ==
  [c \in Conns |-> IF c = c1 THEN DialogCommands \cup {"DECRYPT", "GETINFO"} ELSE DialogCommands]
=============================================================================
