------------------------------ MODULE Clipboard ------------------------------
(***************************************************************************)
(* The clipboard window (src/src/clipboard.c): one text, which operations  *)
(* take as a whole and replace by their result, and which is exchanged     *)
(* with files and with the clipboard of the desktop.                       *)
(***************************************************************************)
EXTENDS Desktop

VARIABLES
  text,     \* the text of the buffer: "", what the user wrote, a file or a result
  marked,   \* is a part of it selected?
  paste_p,  \* the desktop's clipboard holds text, as far as the window knows
  offered,  \* the desktop's clipboard holds text
  asks,     \* the requests for its targets that are not answered
  misled,   \* history: the window was told last of an older content, or of none
  clip_leftovers,   \* a window that is gone still listens to the desktop's clipboard
  unread    \* the result whose encoding the user is being told about

clipboard == <<text, marked, paste_p, offered, asks, misled, clip_leftovers, unread>>

\* A request: who made it, the window or one that is gone; does the content there
\* was then hold text; and is that still the content?
Request(window, content) == [window |-> window, text |-> content, now |-> TRUE]
Asks(window) == \E i \in DOMAIN asks : asks[i].window = window

InitClipboard ==
  /\ text = ""
  /\ marked = FALSE
  /\ paste_p = FALSE
  /\ offered = FALSE
  /\ asks = <<>>
  /\ misled = FALSE
  /\ clip_leftovers = FALSE
  /\ unread = ""

clipboard_has_selection(m) == IF m THEN Sensitive["clipboard"] ELSE {}

\* "notify::has-selection" of the buffer, when that changes.
Marks(m) ==
  /\ marked' = m
  /\ IF m = marked
       THEN UNCHANGED <<enabled, fault>>
       ELSE /\ enabled' = update_selection_sensitive_actions("clipboard", clipboard_has_selection(m))
            /\ fault' = IF Replaced("clipboard") THEN "replaced action" ELSE fault

\* gtk_text_buffer_set_text: a new text has no selection.
gtk_text_buffer_set_text(t) == text' = t /\ Marks(FALSE)

clipboard_rest == <<open, backend, activated, owner, connection_counter, shutdown_pending, quit, stuck>>
desktop_clip == <<paste_p, offered, asks, misled, clip_leftovers>>

\* gpa_open_clipboard: "edit_paste" is enabled until the targets are known.
gpa_open_clipboard ==
  /\ "clipboard" \notin open
  /\ Construct("clipboard")
  /\ text' = ""
  /\ marked' = FALSE
  /\ paste_p' = FALSE
  /\ asks' = Append(asks, Request("window", offered))
  /\ misled' = FALSE
  /\ unread' = ""
  /\ UNCHANGED <<offered, clip_leftovers, doing, fault>>

\* The user writes, marks a part of the text, or opens a file of text.
Write ==
  /\ UserActs /\ "clipboard" \in open
  /\ gtk_text_buffer_set_text("written")
  /\ UNCHANGED <<desktop_clip, unread, clipboard_rest, ops, boxes>>

Mark ==
  /\ UserActs /\ "clipboard" \in open
  /\ text # ""
  /\ Marks(~marked)
  /\ UNCHANGED <<text, desktop_clip, unread, clipboard_rest, ops, boxes>>

edit_select_all_text ==
  /\ Chooses("clipboard", "edit_select_all") /\ "clipboard" \in open
  /\ Marks(text # "")
  /\ UNCHANGED <<text, desktop_clip, unread, clipboard_rest, ops, boxes>>

\* file_open: the chooser, the question about a large file and the errors
\* (no such file, not readable, not UTF-8) leave the text as it was.
file_open_text ==
  /\ Chooses("clipboard", "file_open") /\ "clipboard" \in open
  /\ \/ gtk_text_buffer_set_text("file")
     \/ UNCHANGED <<text, marked, enabled, fault>>
  /\ UNCHANGED <<desktop_clip, unread, clipboard_rest, ops, boxes>>

file_clear_text ==
  /\ Chooses("clipboard", "file_clear") /\ "clipboard" \in open
  /\ gtk_text_buffer_set_text("")
  /\ UNCHANGED <<desktop_clip, unread, clipboard_rest, ops, boxes>>

\* clipboard_owner_change_cb, with set_paste_sensitivity: every window there was
\* asks the new owner for its targets.  What was asked before stays asked.
NewOwner(content) ==
  LET of(window, listens) == IF listens THEN <<Request(window, content)>> ELSE <<>>
      older == [i \in DOMAIN asks |-> [asks[i] EXCEPT !.now = FALSE]]
  IN /\ offered' = content
     /\ asks' = older \o of("window", "clipboard" \in open) \o of("dead", clip_leftovers)
     /\ misled' = FALSE

\* Cutting, deleting, copying and pasting, by the signals of the text view.
edit_cut ==
  /\ Chooses("clipboard", "edit_cut") /\ "clipboard" \in open
  /\ gtk_text_buffer_set_text("")
  /\ NewOwner(TRUE)
  /\ UNCHANGED <<paste_p, clip_leftovers, unread, clipboard_rest, ops, boxes>>

edit_delete ==
  /\ Chooses("clipboard", "edit_cut") /\ "clipboard" \in open
  /\ gtk_text_buffer_set_text("")
  /\ UNCHANGED <<desktop_clip, unread, clipboard_rest, ops, boxes>>

edit_copy ==
  /\ Chooses("clipboard", "edit_copy") /\ "clipboard" \in open
  /\ NewOwner(TRUE)
  /\ UNCHANGED <<text, marked, paste_p, clip_leftovers, unread, clipboard_rest, enabled, ops, boxes, fault>>

edit_paste ==
  /\ Chooses("clipboard", "edit_paste") /\ "clipboard" \in open
  /\ IF offered THEN gtk_text_buffer_set_text("written") ELSE UNCHANGED <<text, marked, enabled, fault>>
  /\ UNCHANGED <<desktop_clip, unread, clipboard_rest, ops, boxes>>

\* Another program copies something of the other kind.
OwnerChange ==
  /\ UserActs
  /\ open # {}
  /\ NewOwner(~offered)
  /\ UNCHANGED <<text, marked, paste_p, clip_leftovers, unread, clipboard_rest, enabled, ops, boxes, fault>>

\* Mutant: the answer is noted and the action forgotten.
ForgetsTheAction(targets) == enabled
PasteEnabled(targets) == IF targets THEN enabled \cup {"edit_paste"} ELSE enabled \ {"edit_paste"}

\* update_paste_sensitive_actions: a request is answered, in whatever order, with
\* the targets of the owner that was asked, or with none: it has refused, it is
\* gone, or it took too long.
update_paste_sensitive_actions ==
  /\ Alive
  /\ \E i \in DOMAIN asks, targets \in BOOLEAN :
       /\ asks[i].window = "window"
       /\ targets => asks[i].text
       /\ asks' = RemoveAt(asks, i)
       /\ misled' = IF asks[i].now THEN targets # asks[i].text
                    ELSE misled \/ \A j \in DOMAIN asks : ~(asks[j].window = "window" /\ asks[j].now)
       /\ paste_p' = targets
       /\ enabled' = PasteEnabled(targets)
  /\ fault' = IF owner["edit_paste"] # "clipboard" THEN "replaced action" ELSE fault
  /\ UNCHANGED <<text, marked, offered, clip_leftovers, unread, clipboard_rest, ops, boxes, clicks>>

\* file_sign, file_verify, file_encrypt and file_decrypt, on the whole text.
text_operation ==
  /\ Chooses("clipboard", "file_sign") /\ "clipboard" \in open
  /\ ops' = ops \cup {Operation("clipboard", "file")}
  /\ UNCHANGED <<clipboard, clipboard_rest, enabled, boxes, fault>>

\* The operation delivers a result, or nothing, and is completed
\* (file_created_cb).  A result that is not UTF-8 is announced by a box first.
file_created_cb ==
  /\ Alive
  /\ \E op \in ops :
       /\ op.window = "clipboard"
       /\ ops' = ops \ {op}
       /\ \/ UNCHANGED <<text, marked, unread, enabled, boxes, fault>>
          \/ /\ ~op.orphan
             /\ \/ gtk_text_buffer_set_text("result") /\ UNCHANGED <<unread, boxes>>
                \/ /\ boxes' = Append(boxes, "encoding")
                   /\ unread' = "latin1"
                   /\ UNCHANGED <<text, marked, enabled, fault>>
          \/ /\ op.orphan
             /\ fault' = "operation of a dead window"
             /\ UNCHANGED <<text, marked, unread, enabled, boxes>>
  /\ UNCHANGED <<desktop_clip, clipboard_rest, clicks>>

\* The box is answered: the text is taken for Latin-1.
gpa_window_message ==
  /\ Alive
  /\ boxes # <<>> /\ Last(boxes) = "encoding"
  /\ boxes' = Front(boxes)
  /\ gtk_text_buffer_set_text(unread)
  /\ unread' = ""
  /\ UNCHANGED <<desktop_clip, clipboard_rest, ops, clicks>>

\* File/Close, and File/Quit, which closes this window only.  The handler of
\* the desktop's clipboard, and the pending requests, stay.
clipboard_close(n) ==
  /\ Chooses("clipboard", n) /\ "clipboard" \in open
  /\ Destroy("clipboard")
  /\ clip_leftovers' = TRUE
  /\ asks' = [i \in DOMAIN asks |-> [asks[i] EXCEPT !.window = "dead"]]
  /\ UNCHANGED <<text, marked, paste_p, offered, misled, unread, fault>>

\* The targets arrive for a window that is gone.
ClipboardLeftover ==
  /\ Alive
  /\ Asks("dead")
  /\ fault' = "callback of a dead window"
  /\ UNCHANGED <<clipboard, clipboard_rest, enabled, ops, boxes, clicks>>
==============================================================================
