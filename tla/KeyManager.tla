------------------------------ MODULE KeyManager ------------------------------
(***************************************************************************)
(* The key manager window (src/src/keymanager.c) with its dialog to edit a *)
(* key (src/src/keyeditdlg.c).  When one key is selected the window asks   *)
(* GPGME for it with its signatures, and only when it is listed are there  *)
(* details to show and actions to offer.  An idle callback shows them.     *)
(*                                                                         *)
(* KeyTable models the loading of the list, KeyOperation and KeyTransfer   *)
(* what the operations do until they emit their signals.                   *)
(***************************************************************************)
EXTENDS Desktop

CONSTANTS Keys,          \* the keys in the list
          OpenPGP,       \* the ones of that protocol
          Private,       \* the ones with a secret key
          Signed,        \* those the default key has signed on all user IDs
          simplified_ui  \* the option of gpa.conf

ASSUME KeysAssumption ==
  /\ IsFiniteSet(Keys)
  /\ OpenPGP \subseteq Keys /\ Private \subseteq Keys /\ Signed \subseteq Keys
  /\ simplified_ui \in BOOLEAN

VARIABLES
  rows,            \* is the key list filled (no reload under way)?
  selection,       \* the keys selected in the list
  current_key,     \* the key whose complete listing has come
  listing,         \* the key that self->ctx lists, if any
  details_idle_id, \* is it set?
  idle,            \* is idle_update_details queued?
  details,         \* what the details show: a key, or the number of keys
  default_key,     \* the default key of the options
  status,          \* the key the status bar names
  editing,         \* the key whose edit dialog is open
  asked,           \* the questions key_manager_mapped has asked
  leftovers        \* callbacks of a key manager that is gone

keylist == <<rows, selection, current_key, listing, details_idle_id, idle>>
panes == <<details, status, editing, asked>>
keymanager == <<keylist, panes, default_key, leftovers>>

NoKey == "no key"
ShowsKey(k) == [key |-> k, count |-> 1]
ShowsCount(n) == [key |-> NoKey, count |-> n]

InitKeyManager ==
  /\ rows = FALSE
  /\ selection = {}
  /\ current_key = NoKey
  /\ listing = NoKey
  /\ details_idle_id = FALSE
  /\ idle = FALSE
  /\ details = ShowsCount(0)
  /\ default_key \in Private \cup {NoKey}
  /\ status = NoKey
  /\ editing = NoKey
  /\ asked = {}
  /\ leftovers = {}

\* key_manager_has_selection and the other conditions of the actions, for a
\* selection S, a current key k and a default key d.
has_selection(S) == S # {}
has_single_selection(S) == Cardinality(S) = 1
has_single_selection_OpenPGP(S) == has_single_selection(S) /\ S \subseteq OpenPGP
has_private_selected(S) == has_single_selection(S) /\ S \subseteq Private
can_sign(S, k, d) ==
  /\ d # NoKey
  /\ \/ has_single_selection(S) /\ k \in OpenPGP \ Signed
     \/ has_selection(S) /\ ~has_single_selection(S)

Applies(n, S, k, d) ==
  \/ n \in {"edit_copy", "keys"} /\ has_selection(S)
  \/ n = "single" /\ has_single_selection(S)
  \/ n = "keys_set_owner_trust" /\ has_single_selection_OpenPGP(S)
  \/ n = "keys_edit_private_key" /\ has_private_selected(S)
  \/ n = "keys_sign" /\ can_sign(S, k, d)
Applicable(S, k, d) == {n \in Sensitive["keymanager"] : Applies(n, S, k, d)}

\* can_sign looks at the protocol of the current key, which must be there.
NeedsTheKey(S, k, d) == d # NoKey /\ has_single_selection(S) /\ k = NoKey

update_actions(S, k, d) ==
  /\ enabled' = update_selection_sensitive_actions("keymanager", Applicable(S, k, d))
  /\ fault' = CASE Replaced("keymanager") -> "replaced action"
                [] NeedsTheKey(S, k, d) -> "no current key"
                [] OTHER -> fault

\* keyring_update_details: the callback is queued once.
keyring_update_details ==
  /\ idle' = (idle \/ ~details_idle_id)
  /\ details_idle_id' = TRUE

keyring_selection_update_actions(S, k) ==
  /\ update_actions(S, k, default_key)
  /\ keyring_update_details

\* Mutant: the actions stay as they were while the key is listed.
StaysEnabled == enabled
disable_selection_sensitive_actions == enabled \ Sensitive["keymanager"]

\* Mutant: the current key stays until the next one is listed.
KeepsTheKey == current_key
NoCurrentKey == NoKey

\* key_manager_selection_changed.  Starting a listing gives up the one before
\* (gpgme_op_keylist_start); gpgme_op_keylist_end does not.  An error shows a
\* box before the actions are disabled.
selection_changed(S) ==
  /\ selection' = S
  /\ current_key' = NoCurrentKey
  /\ \/ /\ has_single_selection(S)
        /\ \/ /\ listing' \in S
              /\ enabled' = disable_selection_sensitive_actions
              /\ boxes' = boxes
           \/ /\ listing' = NoKey
              /\ enabled' = enabled
              /\ boxes' = Append(boxes, "warning")
        /\ fault' = IF Replaced("keymanager") /\ boxes' = boxes THEN "replaced action" ELSE fault
        /\ UNCHANGED <<details_idle_id, idle>>
     \/ /\ ~has_single_selection(S)
        /\ keyring_selection_update_actions(S, NoCurrentKey)
        /\ UNCHANGED <<listing, boxes>>

\* GTK emits "changed" only when the selection changes.
Selects(S) ==
  IF S = selection
    THEN UNCHANGED <<selection, current_key, listing, enabled, boxes, details_idle_id, idle, fault>>
    ELSE selection_changed(S)

\* gpa_keylist_start_reload: nothing is selected, and the list is emptied.
gpa_keylist_start_reload ==
  /\ rows' = FALSE
  /\ Selects({})

desktop_but_enabled == <<open, backend, activated, owner, connection_counter, shutdown_pending, quit>>

\* The box after the failure of a listing is answered.
gpa_gpgme_warning ==
  /\ Alive
  /\ boxes # <<>> /\ Last(boxes) = "warning"
  /\ boxes' = Front(boxes)
  /\ enabled' = disable_selection_sensitive_actions
  /\ fault' = IF Replaced("keymanager") THEN "replaced action" ELSE fault
  /\ UNCHANGED <<keymanager, desktop_but_enabled, ops, stuck, clicks>>

\* The list is filled again (gpa_keylist_end).
gpa_keylist_end ==
  /\ Alive
  /\ "keymanager" \in open /\ ~rows
  /\ rows' = TRUE
  /\ UNCHANGED <<selection, current_key, listing, details_idle_id, idle, panes, default_key, leftovers>>
  /\ UNCHANGED <<desktop, doing, clicks, fault>>

\* The user selects rows, or all of them.
gtk_tree_selection ==
  /\ UserActs
  /\ "keymanager" \in open /\ rows
  /\ \E S \in SUBSET Keys : S # selection /\ selection_changed(S)
  /\ UNCHANGED <<rows, panes, default_key, leftovers, desktop_but_enabled, ops, stuck>>

key_manager_select_all ==
  /\ Chooses("keymanager", "edit_select_all")
  /\ "keymanager" \in open
  /\ Selects(IF rows THEN Keys ELSE {})
  /\ UNCHANGED <<rows, panes, default_key, leftovers, desktop_but_enabled, ops, stuck>>

\* The listing of one key delivers it, or ends without it.
key_manager_key_listed ==
  /\ Alive
  /\ listing # NoKey
  /\ listing' = NoKey
  /\ \/ /\ current_key' = listing
        /\ keyring_selection_update_actions(selection, listing)
     \/ UNCHANGED <<current_key, enabled, details_idle_id, idle, fault>>
  /\ UNCHANGED <<rows, selection, panes, default_key, leftovers, desktop_but_enabled, doing, clicks>>

\* Mutant: the id is not cleared when the callback has run.
KeepsTheId == details_idle_id
IdleHasRun == FALSE

\* idle_update_details: without the current key it stays queued.
idle_update_details ==
  /\ Alive
  /\ "keymanager" \in open /\ idle
  /\ has_single_selection(selection) => current_key # NoKey
  /\ details' = CASE has_single_selection(selection) -> ShowsKey(current_key)
                  [] selection = {} -> details
                  [] OTHER -> ShowsCount(Cardinality(selection))
  /\ idle' = FALSE
  /\ details_idle_id' = IdleHasRun
  /\ UNCHANGED <<rows, selection, current_key, listing, status, editing, asked, default_key, leftovers>>
  /\ UNCHANGED <<desktop, doing, clicks, fault>>

\* The default key changes, in the settings: keyring_default_key_changed runs
\* for every key manager there was.
keyring_default_key_changed ==
  /\ UserActs
  /\ open # {}
  /\ \E d \in (Private \cup {NoKey}) \ {default_key} :
       /\ default_key' = d
       /\ \/ /\ "handler" \in leftovers
             /\ fault' = "handler of a dead window"
             /\ UNCHANGED <<status, enabled>>
          \/ /\ "handler" \notin leftovers /\ "keymanager" \in open
             /\ status' = d
             /\ update_actions(selection, current_key, d)
          \/ /\ "handler" \notin leftovers /\ "keymanager" \notin open
             /\ UNCHANGED <<status, enabled, fault>>
  /\ UNCHANGED <<keylist, details, editing, asked, leftovers, desktop_but_enabled, doing>>

\* key_manager_mapped: two questions, each once in a session.  The second one,
\* to back up the key, is asked when there is no default key, too.
Questions ==
  IF ~simplified_ui \/ default_key # NoKey \/ asked = {"generate?", "backup?"} THEN <<>>
  ELSE IF "generate?" \notin asked THEN <<"generate?">> ELSE <<"backup?">>

\* gpa_open_key_manager: the window is constructed and mapped.
gpa_open_key_manager ==
  /\ "keymanager" \notin open
  /\ Construct("keymanager")
  /\ rows' = FALSE
  /\ selection' = {}
  /\ current_key' = NoKey
  /\ listing' = NoKey
  /\ details_idle_id' = TRUE
  /\ idle' = TRUE
  /\ details' = ShowsCount(0)
  /\ status' = default_key
  /\ boxes' = boxes \o Questions
  /\ UNCHANGED <<editing, asked, default_key, leftovers, ops, stuck, fault>>

\* The question is answered: later, or now.  There is no default key to back
\* up when the second one is asked.
key_manager_mapped ==
  /\ Alive
  /\ boxes # <<>> /\ Last(boxes) \in {"generate?", "backup?"}
  /\ boxes' = Front(boxes)
  /\ asked' = asked \cup {Last(boxes)}
  /\ \/ ops' = ops
     \/ /\ Last(boxes) = "generate?"
        /\ ops' = ops \cup {Operation("keymanager", "generate")}
  /\ UNCHANGED <<keylist, details, status, editing, default_key, leftovers, desktop, stuck, clicks, fault>>

\* gtk_widget_destroy leaves the idle callback, the listing and the handler of
\* the options alone.  The edit dialog goes with its parent.
key_manager_close ==
  /\ Chooses("keymanager", "file_close")
  /\ "keymanager" \in open
  /\ Destroy("keymanager")
  /\ leftovers' = leftovers \cup {"handler"}
                  \cup (IF idle THEN {"idle"} ELSE {})
                  \cup (IF listing # NoKey THEN {"listing"} ELSE {})
  /\ editing' = NoKey
  /\ listing' = NoKey
  /\ details_idle_id' = FALSE
  /\ idle' = FALSE
  /\ UNCHANGED <<rows, selection, current_key, details, status, asked, default_key, fault>>

\* The idle callback, or the listing, of a key manager that is gone.
Leftover ==
  /\ Alive
  /\ leftovers \cap {"idle", "listing"} # {}
  /\ fault' = "callback of a dead window"
  /\ UNCHANGED <<keymanager, desktop, doing, clicks>>

\* The actions that start an operation.  Those on the selection do nothing
\* when none is left; keys_sign and the server want OpenPGP keys.
Starts(n, kind) ==
  /\ Chooses("keymanager", n)
  /\ "keymanager" \in open
  /\ ops' = ops \cup {Operation("keymanager", kind)}
  /\ UNCHANGED <<keymanager, desktop, boxes, stuck, fault>>

key_manager_delete == Starts("keys", "wot")
key_manager_sign == selection \cap OpenPGP # {} /\ Starts("keys_sign", "wot")
key_manager_trust == has_single_selection_OpenPGP(selection) /\ Starts("keys_set_owner_trust", "wot")
key_manager_import == Starts("keys_import", "import")
key_manager_paste == Starts("edit_paste", "import")
key_manager_export == selection # {} /\ Starts("keys", "quiet")
key_manager_copy == selection # {} /\ Starts("edit_copy", "quiet")
key_manager_send == has_single_selection_OpenPGP(selection) /\ Starts("single", "quiet")
key_manager_backup ==
  /\ has_private_selected(selection) /\ current_key # NoKey
  /\ Starts("keys_backup_key", "quiet")
key_manager_generate_key == Starts("keys_new", "generate")

\* key_manager_refresh: a reload with the secret keys.
key_manager_refresh ==
  /\ Chooses("keymanager", "keys_refresh")
  /\ "keymanager" \in open
  /\ gpa_keylist_start_reload
  /\ UNCHANGED <<panes, default_key, leftovers, desktop_but_enabled, ops, stuck>>

\* The dialog to edit a key, for the key that is listed (key_manager_edit).
\* One such dialog is open at a time here.
key_manager_edit ==
  /\ Chooses("keymanager", "keys_edit_private_key")
  /\ "keymanager" \in open
  /\ has_private_selected(selection) /\ current_key # NoKey
  /\ editing = NoKey
  /\ editing' = current_key
  /\ UNCHANGED <<keylist, details, status, asked, default_key, leftovers, desktop, doing, fault>>

\* Its two buttons: the operations point to the dialog.
gpa_key_edit_change ==
  /\ UserActs
  /\ editing # NoKey
  /\ ops' = ops \cup {Operation("keyedit", "wot")}
  /\ UNCHANGED <<keymanager, desktop, boxes, stuck, fault>>

gpa_key_edit_dialog_close ==
  /\ UserActs
  /\ editing # NoKey
  /\ editing' = NoKey
  /\ ops' = {[op EXCEPT !.orphan = @ \/ op.window = "keyedit"] : op \in ops}
  /\ UNCHANGED <<keylist, details, status, asked, default_key, leftovers, desktop, boxes, stuck, fault>>

\* What the operations signal: the keyring has changed (changed_wot,
\* imported_keys and, after a reload of the secret keys, imported_secret_keys;
\* the edit dialog passes it on with key_modified), a key was generated, or
\* nothing.  After gpa_keylist_new_key nothing else runs: it stays in gtk_main.
Signals(op) ==
  IF op.orphan /\ op.kind # "quiet"
    THEN /\ fault' = "operation of a dead window"
         /\ UNCHANGED <<keylist, enabled, boxes, stuck>>
    ELSE \/ /\ op.kind \in {"wot", "import"} /\ "keymanager" \in open
            /\ gpa_keylist_start_reload
            /\ UNCHANGED stuck
         \/ /\ op.kind = "generate"
            /\ stuck' = TRUE
            /\ UNCHANGED <<keylist, enabled, boxes, fault>>

gpa_key_manager_changed_wot_cb ==
  /\ Alive
  /\ \E op \in ops :
       /\ op.window \in {"keymanager", "keyedit"}
       /\ ops' = ops \ {op}
       /\ \/ Signals(op)
          \/ UNCHANGED <<keylist, enabled, boxes, stuck, fault>>
  /\ UNCHANGED <<panes, default_key, leftovers, desktop_but_enabled, clicks>>
==============================================================================
