------------------------------- MODULE Desktop -------------------------------
(***************************************************************************)
(* What the main windows of GPA share (src/src/gpa.c): the application and *)
(* its end, the one map of actions that all menus use, the operations they *)
(* start, and the modal boxes in whose nested main loop the rest goes on.  *)
(*                                                                         *)
(* Every window registers its actions by name in the map of the            *)
(* application.  A window that registers a name again frees the action of  *)
(* the window before it, which keeps a pointer to it in its list of        *)
(* sensitive actions.  A handler that uses memory which is gone sets       *)
(* "fault", and the model ends there.                                      *)
(***************************************************************************)
EXTENDS Naturals, Sequences, FiniteSets, SequencesExt

CONSTANTS Desks,          \* sets of windows: what a user has to do with
          MaxConnections, \* bound: clients of the UI server
          MaxClicks       \* bound: what the user does

MainWindows == {"keymanager", "fileman", "clipboard", "cardman"}

ASSUME DesksAssumption == Desks \subseteq SUBSET MainWindows
ASSUME BoundsAssumption == MaxConnections \in Nat /\ MaxClicks \in Nat

VARIABLES
  desk,             \* the windows this user opens
  start_only_server, \* the option --daemon
  open,             \* the main windows whose instance exists
  backend,          \* is the backend configuration dialog open?
  activated,        \* has the application been activated?
  owner,            \* the map of actions: the window whose action has this name
  enabled,          \* the names whose present action is enabled
  ops,              \* the operations at work
  boxes,            \* the modal boxes, each run from within the one before
  connection_counter, shutdown_pending, \* of the UI server
  quit,             \* g_application_quit has been called, or no window is left
  stuck,            \* a gtk_main that nobody leaves has been entered
  clicks,           \* how much the user did so far
  fault             \* the use of dead memory that ended the program, or "none"

args == <<desk, start_only_server>>
desktop == <<open, backend, activated, owner, enabled, connection_counter, shutdown_pending, quit>>
doing == <<ops, boxes, stuck>>

\* The names of the actions, the ones that are treated alike by one name:
\* "file_sign" also stands for verify, encrypt and decrypt, "edit_cut" for
\* delete, "single" for the actions on one key, "keys" for those on any.
KeyManagerEntries == {"edit_copy", "edit_paste", "edit_select_all", "keys_refresh", "keys_new", "keys_import",
                      "keys_backup_key", "keys", "single", "keys_set_owner_trust", "keys_sign", "keys_edit_private_key"}
FileManagerEntries == {"file_open", "file_clear", "file_sign", "edit_select_all"}
ClipboardEntries == {"file_open", "file_clear", "file_save_as", "file_sign",
                     "edit_cut", "edit_copy", "edit_paste", "edit_select_all"}
CardManagerEntries == {"card_reload", "card_genkey"}
Names == [w \in MainWindows |->
  {"file_close", "file_quit"} \cup
  CASE w = "keymanager" -> KeyManagerEntries
    [] w = "fileman" -> FileManagerEntries
    [] w = "clipboard" -> ClipboardEntries
    [] w = "cardman" -> CardManagerEntries]
AllNames == UNION {Names[w] : w \in MainWindows}
NoWindow == "no window"

\* The actions a window enables and disables: selection_sensitive_actions.
Sensitive == [w \in MainWindows |->
  CASE w = "keymanager" -> {"edit_copy", "keys", "single", "keys_set_owner_trust", "keys_sign", "keys_edit_private_key"}
    [] w = "fileman" -> {"file_sign"}
    [] w = "clipboard" -> {"edit_cut", "edit_copy"}
    [] w = "cardman" -> {}]

\* The menus, toolbars and the popup menu.  Three actions are in none of them:
\* edit_copy_sec, server_refresh and file_save_as.  "Clear" in the menu of the
\* clipboard names an action there is not (file_cleear), as three items of the
\* popup menu do.  "Mark All" and "Close all files" of the file manager have the
\* action file_close, which closes the window.
KeyManagerMenuBar == Names["keymanager"]
KeyManagerToolbar == {"keys_edit_private_key", "keys", "keys_sign", "keys_import", "keys_refresh"}
KeyManagerPopup == {"edit_copy", "edit_paste", "keys", "single", "keys_sign", "keys_set_owner_trust",
                    "keys_edit_private_key", "keys_backup_key"}
FileManagerMenuBar == Names["fileman"] \ {"edit_select_all"}
FileManagerToolbar == {"file_open", "file_close", "file_sign"}
ClipboardMenuBar == Names["clipboard"] \ {"file_save_as", "file_clear"}
ClipboardToolbar == {"file_clear", "edit_cut", "edit_copy", "edit_paste", "file_sign"}
CardManagerMenuBar == Names["cardman"]
Menu == [w \in MainWindows |->
  CASE w = "keymanager" -> KeyManagerMenuBar \cup KeyManagerToolbar \cup KeyManagerPopup
    [] w = "fileman" -> FileManagerMenuBar \cup FileManagerToolbar
    [] w = "clipboard" -> ClipboardMenuBar \cup ClipboardToolbar
    [] w = "cardman" -> CardManagerMenuBar]

\* The main loop of the application is left, or undefined behaviour began.
Ended == fault # "none" \/ (quit /\ boxes = <<>> /\ ~stuck)
Alive == ~Ended

\* update_selection_sensitive_actions of a window, whose actions S apply now.
\* An action of its list that was replaced since is no longer there.
Replaced(w) == \E n \in Sensitive[w] : owner[n] # w
update_selection_sensitive_actions(w, S) == (enabled \ Sensitive[w]) \cup (S \cap Sensitive[w])

\* g_action_map_add_action_entries: new actions are enabled; the constructor
\* of the window then updates the ones that are sensitive, with nothing selected.
action_new(w) ==
  /\ owner' = [n \in AllNames |-> IF n \in Names[w] THEN w ELSE owner[n]]
  /\ enabled' = (enabled \cup Names[w]) \ Sensitive[w]

\* An operation of a window; operations of one kind and window are not told
\* apart.  It keeps a pointer to the window, which may go first.
Operation(w, kind) == [window |-> w, kind |-> kind, orphan |-> FALSE]

\* The user can use a menu, or a toolbar, of a window that is open.  The action
\* that runs is the one that is in the map, of whichever window it is.
UserActs ==
  /\ Alive /\ boxes = <<>>
  /\ clicks < MaxClicks
  /\ clicks' = clicks + 1

Chooses(w, n) ==
  /\ n \in enabled /\ owner[n] = w
  /\ \E v \in open : n \in Menu[v]
  /\ UserActs

\* quit_if_no_window, with gpa_stop_server; GtkApplication itself ends the
\* main loop with its last window, whoever is connected.
quit_if_no_window ==
  LET stop == ~start_only_server /\ open' = {}
  IN /\ shutdown_pending' = (shutdown_pending \/ stop)
     /\ quit' = (quit \/ (stop /\ connection_counter = 0) \/ (open' = {} /\ ~backend'))

InitDesktop ==
  /\ desk \in Desks
  /\ start_only_server \in BOOLEAN
  /\ open = {}
  /\ backend = FALSE
  /\ activated = FALSE
  /\ owner = [n \in AllNames |-> NoWindow]
  /\ enabled = {}
  /\ ops = {}
  /\ boxes = <<>>
  /\ connection_counter = 0
  /\ shutdown_pending = FALSE
  /\ quit = FALSE
  /\ stuck = FALSE
  /\ clicks = 0
  /\ fault = "none"

\* A window is constructed, if it is not open: gpa_key_manager_get_instance...
Construct(w) ==
  /\ open' = open \cup {w}
  /\ action_new(w)
  /\ UNCHANGED <<backend, connection_counter, shutdown_pending, quit>>

\* gtk_widget_destroy: the instance pointer is cleared before quit_if_no_window.
\* The operations of the window go on with a pointer to it; the dialog to edit
\* a key is destroyed with its parent.
Destroy(w) ==
  /\ open' = open \ {w}
  /\ ops' = {[op EXCEPT !.orphan = @ \/ op.window = w \/ (op.window = "keyedit" /\ w = "keymanager")] : op \in ops}
  /\ UNCHANGED <<backend, activated, owner, enabled, connection_counter, boxes, stuck>>
  /\ quit_if_no_window

gpa_open_backend_config_dialog ==
  /\ UserActs
  /\ open # {} /\ ~backend
  /\ backend' = TRUE
  /\ UNCHANGED <<open, activated, owner, enabled, connection_counter, shutdown_pending, quit>>
  /\ UNCHANGED <<doing, fault>>

\* close_main_window for the backend configuration dialog.
close_main_window ==
  /\ UserActs
  /\ backend
  /\ backend' = FALSE
  /\ UNCHANGED open
  /\ quit_if_no_window
  /\ UNCHANGED <<activated, owner, enabled, connection_counter>>
  /\ UNCHANGED <<doing, fault>>

\* The UI server takes a client, or its client goes (connection_finish).
connection_startup ==
  /\ Alive /\ activated
  /\ connection_counter < MaxConnections
  /\ connection_counter' = connection_counter + 1
  /\ UNCHANGED <<open, backend, activated, owner, enabled, shutdown_pending, quit>>
  /\ UNCHANGED <<doing, clicks, fault>>

connection_finish ==
  /\ Alive
  /\ connection_counter > 0
  /\ connection_counter' = connection_counter - 1
  /\ quit' = (quit \/ (connection_counter' = 0 /\ shutdown_pending))
  /\ UNCHANGED <<open, backend, activated, owner, enabled, shutdown_pending>>
  /\ UNCHANGED <<doing, clicks, fault>>

\* file_quit of the key manager, the file manager and the card manager.
file_quit(w) ==
  /\ Chooses(w, "file_quit")
  /\ quit' = TRUE
  /\ UNCHANGED <<open, backend, activated, owner, enabled, connection_counter, shutdown_pending>>
  /\ UNCHANGED <<doing, fault>>

\* An action whose window is gone was chosen in the menu of another window:
\* its callback gets the dead window.  Closing the key manager is the
\* exception, which goes by the instance pointer, and quitting.
DeadAction ==
  \E w \in MainWindows \ open, n \in AllNames :
    /\ Chooses(w, n)
    /\ fault' = IF (w = "keymanager" /\ n = "file_close") \/ (w # "clipboard" /\ n = "file_quit")
                  THEN fault ELSE "action of a dead window"
    /\ quit' = (quit \/ (w # "clipboard" /\ n = "file_quit"))
    /\ UNCHANGED <<open, backend, activated, owner, enabled, connection_counter, shutdown_pending>>
    /\ UNCHANGED doing

\* Without a window the daemon has nothing that holds the application.
ActivateDaemon ==
  /\ ~activated /\ start_only_server
  /\ activated' = TRUE
  /\ quit' = TRUE
  /\ UNCHANGED <<open, backend, owner, enabled, connection_counter, shutdown_pending>>
  /\ UNCHANGED <<doing, clicks, fault>>
==============================================================================
