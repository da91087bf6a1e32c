----------------------------- MODULE FileManager -----------------------------
(***************************************************************************)
(* The file manager window (src/src/fileman.c): a list of files, in which  *)
(* the results of its operations appear.  FileOperation models what the    *)
(* operations do until they emit their signals.                            *)
(***************************************************************************)
EXTENDS Desktop

CONSTANTS Files  \* names of files: those at hand and those operations make

ASSUME FilesAssumption == IsFiniteSet(Files)

VARIABLES
  list_files,  \* the list, in order
  picked       \* the files that are selected in it

fileman == <<list_files, picked>>

InitFileManager ==
  /\ list_files = <<>>
  /\ picked = {}

fileman_has_selection(S) == IF S = {} THEN {} ELSE Sensitive["fileman"]

Listed(f) == f \in ToSet(list_files)

\* The selection becomes S, of which GTK tells only when it changes.
SelectFiles(S) ==
  /\ picked' = S
  /\ IF S = picked
       THEN UNCHANGED <<enabled, fault>>
       ELSE /\ enabled' = update_selection_sensitive_actions("fileman", fileman_has_selection(S))
            /\ fault' = IF Replaced("fileman") THEN "replaced action" ELSE fault

\* add_file: a file is listed once; a new one is selected, too.
add_file(f) ==
  IF Listed(f)
    THEN UNCHANGED <<list_files, picked, enabled, fault>>
    ELSE /\ list_files' = Append(list_files, f)
         /\ SelectFiles(picked \cup {f})

fileman_rest == <<open, backend, activated, owner, connection_counter, shutdown_pending, quit, boxes, stuck>>

\* gpa_open_filemanager
gpa_open_filemanager ==
  /\ "fileman" \notin open
  /\ Construct("fileman")
  /\ list_files' = <<>>
  /\ picked' = {}
  /\ UNCHANGED <<doing, fault>>

\* The menu item File/Open with its modal chooser, files dropped on the list
\* (dnd_data_received_handler) and the arguments of the command line.
file_open_list ==
  /\ Chooses("fileman", "file_open") /\ "fileman" \in open
  /\ \E f \in Files : add_file(f)
  /\ UNCHANGED <<fileman_rest, ops>>

dnd_data_received_handler ==
  /\ UserActs /\ "fileman" \in open
  /\ \E f \in Files : add_file(f)
  /\ UNCHANGED <<fileman_rest, ops>>

file_clear_list ==
  /\ Chooses("fileman", "file_clear") /\ "fileman" \in open
  /\ list_files' = <<>>
  /\ SelectFiles({})
  /\ UNCHANGED <<fileman_rest, ops>>

edit_select_all_files ==
  /\ Chooses("fileman", "edit_select_all") /\ "fileman" \in open
  /\ SelectFiles(ToSet(list_files))
  /\ UNCHANGED <<list_files, fileman_rest, ops>>

PickFiles ==
  /\ UserActs /\ "fileman" \in open
  /\ \E S \in SUBSET ToSet(list_files) : S # picked /\ SelectFiles(S)
  /\ UNCHANGED <<list_files, fileman_rest, ops>>

\* file_sign, file_verify, file_encrypt and file_decrypt, on the selected files.
file_operation ==
  /\ Chooses("fileman", "file_sign") /\ "fileman" \in open
  /\ picked # {}
  /\ ops' = ops \cup {Operation("fileman", "file")}
  /\ UNCHANGED <<fileman, fileman_rest, enabled, fault>>

\* The operation made a file, or nothing, and is completed.
file_created_in_list ==
  /\ Alive
  /\ \E op \in ops :
       /\ op.window = "fileman"
       /\ ops' = ops \ {op}
       /\ \/ UNCHANGED <<fileman, enabled, fault>>
          \/ /\ ~op.orphan
             /\ \E f \in Files : add_file(f)
          \/ /\ op.orphan
             /\ fault' = "operation of a dead window"
             /\ UNCHANGED <<fileman, enabled>>
  /\ UNCHANGED <<fileman_rest, clicks>>

file_manager_close ==
  /\ Chooses("fileman", "file_close") /\ "fileman" \in open
  /\ Destroy("fileman")
  /\ UNCHANGED <<fileman, fault>>
==============================================================================
