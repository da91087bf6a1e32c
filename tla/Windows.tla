------------------------------- MODULE Windows -------------------------------
(***************************************************************************)
(* The main windows together, on the desk of one user: the key manager,    *)
(* the file manager and the clipboard with what they share (Desktop).  The *)
(* card manager, which CardManager models, takes part with its actions.    *)
(***************************************************************************)
EXTENDS KeyManager, FileManager, Clipboard

vars == <<args, desktop, doing, clicks, fault, keymanager, fileman, clipboard>>

Init == InitDesktop /\ InitKeyManager /\ InitFileManager /\ InitClipboard

\* gpa_open_key_manager, gpa_open_filemanager, gpa_open_clipboard and
\* gpa_open_cardmanager; a window that is open is only presented.
gpa_open_cardmanager ==
  /\ "cardman" \notin open
  /\ Construct("cardman")
  /\ UNCHANGED <<doing, fault>>

OpenWindow(w) ==
  \/ w = "keymanager" /\ gpa_open_key_manager /\ UNCHANGED <<fileman, clipboard>>
  \/ w = "fileman" /\ gpa_open_filemanager /\ UNCHANGED <<keymanager, clipboard>>
  \/ w = "clipboard" /\ gpa_open_clipboard /\ UNCHANGED <<keymanager, fileman>>
  \/ w = "cardman" /\ gpa_open_cardmanager /\ UNCHANGED <<keymanager, fileman, clipboard>>

\* activate, with open_requested_window: the first window.
activate ==
  /\ ~activated /\ ~start_only_server
  /\ activated' = TRUE
  /\ \E w \in desk : OpenWindow(w)
  /\ UNCHANGED <<args, clicks>>

\* The menu of a window opens another one; so does a client of the UI server,
\* with START_KEYMANAGER and the others, whatever dialog is open.
OpenFromMenu ==
  /\ activated /\ open # {}
  /\ UserActs
  /\ \E w \in desk : OpenWindow(w)
  /\ UNCHANGED <<args, activated>>

OpenForClient ==
  /\ Alive
  /\ connection_counter > 0
  /\ clicks < MaxClicks /\ clicks' = clicks + 1
  /\ \E w \in desk : OpenWindow(w)
  /\ UNCHANGED <<args, activated>>

Application ==
  \/ gpa_open_backend_config_dialog
  \/ close_main_window
  \/ connection_startup
  \/ connection_finish
  \/ \E w \in {"keymanager", "fileman", "cardman"} \cap open : file_quit(w)
  \/ DeadAction
  \/ ActivateDaemon

CloseCardManager == Chooses("cardman", "file_close") /\ "cardman" \in open /\ Destroy("cardman") /\ UNCHANGED fault

KeyManagerActs ==
  \/ gpa_gpgme_warning \/ gpa_keylist_end
  \/ gtk_tree_selection \/ key_manager_select_all
  \/ key_manager_key_listed \/ idle_update_details
  \/ keyring_default_key_changed \/ key_manager_mapped
  \/ key_manager_close \/ Leftover
  \/ key_manager_delete \/ key_manager_sign \/ key_manager_trust \/ key_manager_import \/ key_manager_paste
  \/ key_manager_export \/ key_manager_copy
  \/ key_manager_send \/ key_manager_backup \/ key_manager_generate_key \/ key_manager_refresh
  \/ key_manager_edit \/ gpa_key_edit_change \/ gpa_key_edit_dialog_close
  \/ gpa_key_manager_changed_wot_cb

FileManagerActs ==
  \/ file_open_list \/ dnd_data_received_handler \/ file_clear_list
  \/ edit_select_all_files \/ PickFiles
  \/ file_operation \/ file_created_in_list
  \/ file_manager_close

ClipboardActs ==
  \/ Write \/ Mark \/ edit_select_all_text
  \/ file_open_text \/ file_clear_text
  \/ edit_cut \/ edit_delete \/ edit_copy \/ edit_paste
  \/ OwnerChange \/ update_paste_sensitive_actions \/ ClipboardLeftover
  \/ text_operation \/ file_created_cb \/ gpa_window_message
  \/ clipboard_close("file_close") \/ clipboard_close("file_quit")

Next ==
  \/ activate
  \/ OpenFromMenu
  \/ OpenForClient
  \/ Application /\ UNCHANGED <<args, keymanager, fileman, clipboard>>
  \/ CloseCardManager /\ UNCHANGED <<args, keymanager, fileman, clipboard>>
  \/ KeyManagerActs /\ UNCHANGED <<args, fileman, clipboard>>
  \/ FileManagerActs /\ UNCHANGED <<args, keymanager, clipboard>>
  \/ ClipboardActs /\ UNCHANGED <<args, keymanager, fileman>>

Spec == Init /\ [][Next]_vars
\* The main loop dispatches its sources, and the user closes the box that is
\* before him.  The idle callback is dispatched because no source of the default
\* priority stays ready for ever; the connection of a client that hung up during
\* its operation would (UiServer, DeadClientsAreFinished), and is not here.
FairSpec ==
  /\ Spec
  /\ WF_vars(key_manager_key_listed /\ UNCHANGED <<args, fileman, clipboard>>)
  /\ WF_vars(idle_update_details /\ UNCHANGED <<args, fileman, clipboard>>)
  /\ WF_vars(update_paste_sensitive_actions /\ UNCHANGED <<args, keymanager, fileman>>)
  /\ WF_vars(gpa_window_message /\ UNCHANGED <<args, keymanager, fileman>>)

-----------------------------------------------------------------------------
TypeOK ==
  /\ desk \in Desks /\ start_only_server \in BOOLEAN
  /\ open \subseteq MainWindows
  /\ backend \in BOOLEAN /\ activated \in BOOLEAN
  /\ owner \in [AllNames -> MainWindows \cup {NoWindow}]
  /\ \A n \in AllNames : owner[n] = NoWindow \/ n \in Names[owner[n]]
  /\ \A w \in open : \A n \in Names[w] : owner[n] # NoWindow
  /\ \A n \in enabled : n \in AllNames /\ owner[n] # NoWindow
  /\ ops \subseteq [window : MainWindows \cup {"keyedit"}, orphan : BOOLEAN,
                    kind : {"wot", "import", "quiet", "generate", "file"}]
  /\ boxes \in Seq({"warning", "generate?", "backup?", "encoding"})
  /\ connection_counter \in 0 .. MaxConnections
  /\ shutdown_pending \in BOOLEAN /\ quit \in BOOLEAN /\ stuck \in BOOLEAN
  /\ clicks \in 0 .. MaxClicks
  /\ selection \subseteq Keys
  /\ {current_key, listing, default_key, status, editing} \subseteq Keys \cup {NoKey}
  /\ list_files \in Seq(Files) /\ IsInjective(list_files) /\ picked \subseteq ToSet(list_files)
  /\ marked => text # ""
  /\ offered \in BOOLEAN
  /\ asks \in Seq([window : {"window", "dead"}, text : BOOLEAN, now : BOOLEAN])

\* The key manager acts on current_key for the key that is selected: as long
\* as one key is selected there is no other current key.  TypeOK is a part of it.
CurrentKeyIsTheSelected ==
  /\ TypeOK
  /\ Alive /\ "keymanager" \in open /\ has_single_selection(selection)
       => current_key = NoKey \/ selection = {current_key}

\* No window offers an action that does not apply to what is selected in it
\* now, whichever listing, reload or operation is under way.
EnabledActionsApply ==
  Alive =>
    \A w \in open, n \in enabled :
      n \in Sensitive[w] /\ owner[n] = w =>
        CASE w = "keymanager" -> "warning" \in ToSet(boxes) \/ Applies(n, selection, current_key, default_key)
          [] w = "fileman" -> picked # {}
          [] w = "clipboard" -> marked

\* The details pane comes to show the key that is selected, once it is listed:
\* one pending idle callback serves every selection made before it runs.
DetailsFollowTheSelection ==
  \A k \in Keys :
    Alive /\ "keymanager" \in open /\ selection = {k} /\ current_key = k
      ~> (details = ShowsKey(k) \/ selection # {k} \/ "keymanager" \notin open \/ Ended)

\* "Paste" comes to be offered exactly when the desktop's clipboard holds text,
\* however often its owner changes while requests are under way, unless the last
\* owner refuses the answer or an older one's comes after it: the window then
\* believes what it was told last, until the next change.
PasteFollowsTheClipboard ==
  \A b \in BOOLEAN :
    [](Alive /\ "clipboard" \in open /\ offered = b
         => <>(("edit_paste" \in enabled) = b \/ offered # b \/ "clipboard" \notin open \/ Ended
               \/ owner["edit_paste"] # "clipboard" \/ misled))
==============================================================================
