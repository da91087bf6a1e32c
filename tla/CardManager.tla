----------------------------- MODULE CardManager -----------------------------
(***************************************************************************)
(* The card manager window (src/src/cardman.c), the card widgets it shows  *)
(* (src/src/cm-*.c) and the watch of the reader's status file              *)
(* (src/src/filewatch.c).                                                  *)
(*                                                                         *)
(* Everything runs in one thread, on the main loop.  A reload talks to     *)
(* scdaemon in several blocking commands; the card may come and go between *)
(* any two of them, but no handler runs.  Handlers run whenever the loop   *)
(* does, and it also does inside a modal dialog that a widget opened and,  *)
(* once in a session, inside the reload of a PIV card, which waits for the *)
(* table of the secret keys.                                               *)
(*                                                                         *)
(* A card is named by its application.  What a widget displays is          *)
(* represented by the value the reader's event counter had when it was     *)
(* read.  A handler that uses memory which is gone sets "fault": what such *)
(* a program does next is undefined, and the model ends there.             *)
(***************************************************************************)
EXTENDS Naturals, Sequences, FiniteSets, SequencesExt

CONSTANTS Cards,          \* the cards at hand, by the name of their application
          Fields,         \* the fields of an OpenPGP card the user edits
          Watching,       \* can the status file of the reader be watched?
          disable_ticker, \* the option --disable-ticker
          MaxEvents,      \* bound: cards inserted or removed
          MaxClicks       \* bound: what the user does

NoCard == "no card"
Apps == {"openpgp", "piv", "nks", "dinsig", "geldkarte", "undefined", "p15"}

ASSUME CardsAssumption == Cards \subseteq Apps /\ Watching \in BOOLEAN /\ disable_ticker \in BOOLEAN
ASSUME BoundsAssumption == MaxEvents \in Nat /\ MaxClicks \in Nat

VARIABLES
  reader,         \* the card in the reader, scdaemon's count of card events
  written,        \* a change of the watched status file is not yet read
  dead_watch,     \* the watch of a window that is gone is still installed
  window,         \* "none", "open", "destroyed" (references left) or "gone"
  selector,       \* the choice in the selector of the application
  cardtype,       \* the type of card the last reload found
  in_card_reload, \* the sentinel of card_reload
  eventcounter,   \* the last card event counter seen
  ticker,         \* is the timeout of one second installed?
  queue,          \* the idle callbacks of default priority, in order
  finishing,      \* is card_reload_finish_idle_cb queued (low priority)?
  step,           \* the main loop, or the step of a reload in progress
  caller,         \* what the reload in progress was called from
  widget,         \* the card widget
  dialog,         \* the modal dialog a widget waits for
  notice,         \* the Admin-PIN notice has been accepted in this session
  secret,         \* the table of the secret keys is loaded
  learning,       \* the widget for which gpgsm --learn-card runs
  genkey,         \* the window for which a key is being generated on the card
  clicks,         \* what the user did so far
  counted,        \* history: what is displayed was read after a counter was seen
  fault           \* the use of dead memory that ended the program, or "none"

scd == <<reader, written, dead_watch>>
cardman == <<window, selector, cardtype, in_card_reload, eventcounter, ticker, queue, finishing>>
flow == <<step, caller>>
card == <<widget, dialog, notice, secret, learning>>
rest == <<genkey, counted, fault>>
vars == <<scd, cardman, flow, card, rest, clicks>>

Steps == {"loop", "serialno", "counter", "apptype", "widget", "texts", "keys", "attr", "ensure", "finish"}
\* The idle callback of cm-netkey.c and cm-piv.c is queued by a reload of the
\* card ("more"), or by a change of a PIN or the end of gpgsm ("again").  Its
\* widget is the one that is shown, or one that was destroyed since ("old").
Callbacks == {"reload", "more", "more old", "again", "again old"}
Types == {"none", "openpgp", "piv", "nks", "dinsig", "geldkarte", "unknown"}

\* The widget types that list the certificates of the card from an idle
\* callback, and offer to learn the ones that are missing.
Learners == {"piv", "nks"}

\* The type of widget for the APPTYPE that scdaemon reports.
scd_status_cb(app) ==
  CASE app = "undefined" -> "unknown"
    [] app = "p15" -> "none"
    [] OTHER -> app

\* cardman->card_widget is a label when no type of card is known.
Label(at) == [type |-> "label", at |-> at, texts |-> {}, keys |-> {}, changed |-> {}, dirty |-> {}]
NewWidget(type, at) == [Label(at) EXCEPT !.type = type]

\* gtk_widget_destroy: what other callbacks hold of the widget is now old.
Old(callback) == CASE callback = "more" -> "more old"
                   [] callback = "again" -> "again old"
                   [] OTHER -> callback
OldQueue == [i \in DOMAIN queue |-> Old(queue[i])]
OldLearning == IF learning = "current" THEN "old" ELSE learning
OldDialog == [dialog EXCEPT !.old = dialog.kind # "none"]

NoDialog == [kind |-> "none", field |-> "none", old |-> FALSE]
Dialog(kind, field) == [kind |-> kind, field |-> field, old |-> FALSE]

Init ==
  /\ reader \in [card : Cards \cup {NoCard}, counter : {0}]
  /\ written = FALSE
  /\ dead_watch = FALSE
  /\ window = "none"
  /\ selector = "auto"
  /\ cardtype = "none"
  /\ in_card_reload = 0
  /\ eventcounter = [card_any |-> FALSE, card |-> 0]
  /\ ticker = FALSE
  /\ queue = <<>>
  /\ finishing = FALSE
  /\ step = "loop"
  /\ caller = "none"
  /\ widget = Label(0)
  /\ dialog = NoDialog
  /\ notice = FALSE
  /\ secret = FALSE
  /\ learning = "no"
  /\ genkey = "no"
  /\ clicks = 0
  /\ counted = FALSE
  /\ fault = "none"

-----------------------------------------------------------------------------
(* What this module relies on: the reader and scdaemon.                     *)

\* Somebody takes the card out or puts one in.  scdaemon counts the event
\* and rewrites the status file of the reader.  What happened before the
\* first window was opened is in the choice of Init.
CardEvent ==
  /\ window # "none" /\ reader.counter < MaxEvents
  /\ \E c \in (Cards \cup {NoCard}) \ {reader.card} :
       reader' = [card |-> c, counter |-> reader.counter + 1]
  /\ written' = Watching
  /\ UNCHANGED <<dead_watch, cardman, flow, card, rest>>

\* What SCD SERIALNO may answer; another program may hold the card with
\* another application, and a command may fail.
SerialnoAnswers ==
  IF reader.card = NoCard THEN {"not present"}
  ELSE {"error"} \cup
       (IF selector = "auto" THEN {"ok"}
        ELSE IF selector = reader.card THEN {"ok", "conflict"} ELSE {"not supported", "conflict"})

\* Attributes can be read as long as the card answers to this application.
Readable(type) == \/ type = "unknown"
                  \/ reader.card # NoCard /\ scd_status_cb(reader.card) = type

-----------------------------------------------------------------------------
(* References and the end of the window.                                    *)

Held(q, f) == f \/ \E i \in DOMAIN q : q[i] = "reload"

\* g_object_unref: the last reference finalizes the window, which removes the
\* ticker and releases the connection to the agent.  The watch stays.
Unref(q, f) ==
  IF window = "destroyed" /\ ~Held(q, f)
  THEN window' = "gone" /\ ticker' = FALSE
  ELSE UNCHANGED <<window, ticker>>

Running == fault = "none"
Loop == Running /\ step = "loop"
UserMayAct == Loop /\ window = "open" /\ dialog.kind = "none"
Idle(callback) == Loop /\ queue # <<>> /\ Head(queue) = callback

Enqueue(callback) == queue' = Append(queue, callback)
-----------------------------------------------------------------------------
(* card_reload, one blocking command after the other.                       *)

\* The call: nothing but the start of the ticker while a reload is unfinished.
card_reload(from) ==
  /\ ticker' = (ticker \/ ~disable_ticker)
  /\ IF in_card_reload > 0
     THEN UNCHANGED <<cardtype, in_card_reload, flow>>
     ELSE /\ in_card_reload' = in_card_reload + 1
          /\ cardtype' = "none"
          /\ step' = "serialno"
          /\ caller' = from

\* SERIALNO; after a conflict over a selected application scdaemon is
\* restarted and asked again, and after an unknown error the application
\* "undefined" is tried, which works with most cards.
Serialno ==
  /\ Running /\ step = "serialno"
  /\ \E first \in SerialnoAnswers :
     \E answer \in (IF first = "conflict" THEN {"conflict"} \cup SerialnoAnswers ELSE {first}) :
       \/ /\ answer \in {"ok", "error"}
          /\ step' = "counter"
          /\ UNCHANGED widget
       \/ /\ answer # "ok"
          /\ step' = "widget"
          /\ widget' = [widget EXCEPT !.at = reader.counter]
  /\ counted' = eventcounter.card_any
  /\ UNCHANGED <<scd, cardman, caller, dialog, notice, secret, learning, genkey, fault>>

\* GETEVENTCOUNTER, whose errors are ignored.
Counter ==
  /\ Running /\ step = "counter"
  /\ \/ eventcounter' = [card_any |-> TRUE, card |-> reader.counter] /\ counted' = TRUE
     \/ UNCHANGED <<eventcounter, counted>>
  /\ step' = "apptype"
  /\ UNCHANGED <<scd, window, selector, cardtype, in_card_reload, ticker, queue, finishing, caller, card,
                 genkey, fault>>

\* SCD GETATTR APPTYPE.  The card has the application selected before, or
\* "undefined" when only that could be selected; the command may also fail.
Apptype ==
  /\ Running /\ step = "apptype"
  /\ cardtype' \in IF reader.card = NoCard THEN {"none"}
                   ELSE {scd_status_cb(reader.card), scd_status_cb("undefined"), "none"}
  /\ widget' = [widget EXCEPT !.at = reader.counter]
  /\ step' = "widget"
  /\ UNCHANGED <<scd, window, selector, in_card_reload, eventcounter, ticker, queue, finishing, caller,
                 dialog, notice, secret, learning, rest>>

\* The old widget is destroyed and one of the new type takes its place.  The
\* widgets of a window that was closed are gone already.
update_card_widget ==
  /\ Running /\ step = "widget"
  /\ queue' = OldQueue
  /\ learning' = OldLearning
  /\ dialog' = OldDialog
  /\ widget' = IF cardtype = "none" THEN Label(widget.at) ELSE NewWidget(cardtype, widget.at)
  /\ fault' = IF window = "open" THEN "none" ELSE "widgets of a closed window"
  /\ step' = IF cardtype = "none" THEN "finish" ELSE "texts"
  /\ UNCHANGED <<scd, window, selector, cardtype, in_card_reload, eventcounter, ticker, finishing, caller,
                 notice, secret, genkey, counted>>

-----------------------------------------------------------------------------
(* reload_data of the card widgets: the attributes in the order of attrtbl. *)

\* At an error every field is cleared.  In the OpenPGP widget the frames of
\* the fingerprints are neither labels nor entries, and keep their text.
clear_card_data(w) == [w EXCEPT !.texts = {}, !.keys = IF w.type = "openpgp" THEN @ ELSE {}]
clear_changed_flags(w) == [w EXCEPT !.changed = {}, !.dirty = {}]

\* The attributes shown as text: the serial number, the holder, the counters.
reload_data ==
  /\ Running /\ step = "texts"
  /\ \/ /\ Readable(widget.type)
        /\ widget' = [widget EXCEPT !.texts = {reader.counter}]
        /\ step' = CASE widget.type = "openpgp" -> "keys"
                     [] widget.type = "piv" /\ ~secret -> "ensure"
                     [] OTHER -> "finish"
        /\ queue' = IF widget.type = "nks" \/ (widget.type = "piv" /\ secret)
                    THEN Append(queue, IF caller = "pin" THEN "again" ELSE "more") ELSE queue
     \/ /\ ~Readable(widget.type)
        /\ widget' = clear_changed_flags(clear_card_data(widget))
        /\ step' = "finish"
        /\ UNCHANGED queue
  /\ UNCHANGED <<scd, window, selector, cardtype, in_card_reload, eventcounter, ticker, finishing, caller,
                 dialog, notice, secret, learning, rest>>

\* KEY-FPR, the fingerprints of the keys on an OpenPGP card, and KEY-ATTR.
ReadKeys ==
  /\ Running /\ step = "keys"
  /\ IF Readable("openpgp")
     THEN widget' = [widget EXCEPT !.keys = {reader.counter}] /\ step' = "attr"
     ELSE widget' = clear_changed_flags(clear_card_data(widget)) /\ step' = "finish"
  /\ UNCHANGED <<scd, cardman, caller, dialog, notice, secret, learning, rest>>

ReadKeyAttr ==
  /\ Running /\ step = "attr"
  /\ widget' = clear_changed_flags(IF Readable("openpgp") THEN widget ELSE clear_card_data(widget))
  /\ step' = "finish"
  /\ UNCHANGED <<scd, cardman, caller, dialog, notice, secret, learning, rest>>

\* gpa_keytable_ensure in cm-piv.c: its main loop ends when the secret keys
\* are listed.  The window may have been closed meanwhile.
Ensured ==
  /\ Running /\ step = "ensure"
  /\ secret' = TRUE
  /\ IF window = "open"
     THEN Enqueue("more") /\ UNCHANGED fault
     ELSE Enqueue("more old") /\ fault' = "window closed in its reload"
  /\ step' = "finish"
  /\ UNCHANGED <<scd, window, selector, cardtype, in_card_reload, eventcounter, ticker, finishing, caller,
                 widget, dialog, notice, learning, genkey, counted>>

\* The event counter is read as the last action of the reload.
CounterReadLast ==
  /\ Running /\ step = "finish"
  /\ step' = "loop"
  /\ finishing' = (finishing \/ caller # "pin")
  /\ caller' = "none"
  /\ eventcounter' = [card_any |-> TRUE, card |-> reader.counter]
  /\ UNCHANGED <<scd, window, selector, cardtype, in_card_reload, ticker, queue, card, rest>>

\* A reload without a widget returns without its callback.
FinishForgotten ==
  /\ Running /\ step = "finish"
  /\ step' = "loop"
  /\ finishing' = (finishing \/ (caller # "pin" /\ cardtype # "none"))
  /\ caller' = "none"
  /\ UNCHANGED <<scd, window, selector, cardtype, in_card_reload, eventcounter, ticker, queue, card, rest>>

\* The end of card_reload queues the callback that opens the sentinel; a
\* reload of the data alone just returns.
Reloaded ==
  /\ Running /\ step = "finish"
  /\ step' = "loop"
  /\ finishing' = (finishing \/ caller # "pin")
  /\ caller' = "none"
  /\ UNCHANGED <<scd, window, selector, cardtype, in_card_reload, eventcounter, ticker, queue, card, rest>>

-----------------------------------------------------------------------------
(* The main loop: timers, watches and idle callbacks.                       *)

\* The handlers that may run in the loop of gpa_keytable_ensure as well.
AnyLoop == Running /\ step \in {"loop", "ensure"}

\* The sentinel is opened with the priority of any other callback.
FinishEarly ==
  /\ Loop /\ finishing
  /\ in_card_reload' = in_card_reload - 1
  /\ finishing' = FALSE
  /\ Unref(queue, FALSE)
  /\ UNCHANGED <<scd, selector, cardtype, eventcounter, queue, flow, card, rest>>

card_reload_finish_idle_cb ==
  /\ Loop /\ finishing /\ queue = <<>>
  /\ in_card_reload' = in_card_reload - 1
  /\ finishing' = FALSE
  /\ Unref(queue, FALSE)
  /\ UNCHANGED <<scd, selector, cardtype, eventcounter, queue, flow, card, rest>>

\* The callback holds a reference on the window while it runs.
card_reload_idle_cb ==
  /\ AnyLoop /\ queue # <<>> /\ Head(queue) = "reload"
  /\ queue' = Tail(queue)
  /\ IF in_card_reload > 0
     THEN /\ Unref(Tail(queue), finishing \/ caller = "idle")
          /\ UNCHANGED <<cardtype, in_card_reload, flow>>
     ELSE /\ card_reload("idle")
          /\ UNCHANGED window
  /\ UNCHANGED <<scd, selector, eventcounter, finishing, card, rest>>

\* The ticker takes note of the counter, and nothing follows.
CounterNoted ==
  /\ eventcounter' = [card_any |-> TRUE, card |-> reader.counter]
  /\ UNCHANGED queue

geteventcounter_status_cb ==
  /\ eventcounter' = [card_any |-> TRUE, card |-> reader.counter]
  /\ IF eventcounter.card_any /\ eventcounter.card # reader.counter
     THEN Enqueue("reload") ELSE UNCHANGED queue

ticker_cb ==
  /\ Loop /\ ticker /\ in_card_reload = 0
  /\ geteventcounter_status_cb
  /\ UNCHANGED <<scd, window, selector, cardtype, in_card_reload, ticker, finishing, flow, card, rest>>

\* filewatch_cb reads an event from the inotify queue and calls back for every
\* watch of the file.  A watch is never removed: that of a window which is
\* gone calls back on dead memory.
watcher_cb ==
  /\ AnyLoop /\ written /\ window # "none"
  /\ written' = FALSE
  /\ IF dead_watch \/ window = "gone"
     THEN fault' = "watch of a closed window" /\ UNCHANGED <<ticker, cardtype, in_card_reload, flow>>
     ELSE /\ UNCHANGED fault
          /\ IF in_card_reload > 0 THEN UNCHANGED <<ticker, cardtype, in_card_reload, flow>>
                                   ELSE card_reload("watch")
  /\ UNCHANGED <<reader, dead_watch, window, selector, eventcounter, queue, finishing, card, genkey, counted>>

\* SCD LEARN --keypairinfo: the certificates found are shown, and a button
\* offers to learn the others.  It needs the connection of the window and
\* the frame inside the widget.
reload_more_data_idle_cb ==
  /\ Loop /\ queue # <<>> /\ Head(queue) # "reload"
  /\ queue' = Tail(queue)
  /\ IF Head(queue) \in {"more", "again"} /\ window = "open"
     THEN /\ widget' = [widget EXCEPT !.keys = IF Readable(widget.type) THEN {reader.counter} ELSE {}]
          /\ UNCHANGED fault
     ELSE fault' = Head(queue) /\ UNCHANGED widget
  /\ UNCHANGED <<scd, window, selector, cardtype, in_card_reload, eventcounter, ticker, finishing, flow,
                 dialog, notice, secret, learning, genkey, counted>>

-----------------------------------------------------------------------------
(* The window: opened, closed, and what the user does in it.                *)

\* gpa_card_manager_get_instance makes the window and loads the card at once.
\* The model opens another one only when no reference to the last is left.
gpa_card_manager_get_instance ==
  /\ Loop /\ window \in {"none", "gone"} /\ queue = <<>>
  /\ dead_watch' = (window = "gone" /\ Watching)
  /\ genkey' = IF genkey = "current" THEN "old" ELSE genkey
  /\ window' = "open"
  /\ selector' = "auto"
  /\ cardtype' = "none"
  /\ in_card_reload' = 1
  /\ eventcounter' = [card_any |-> FALSE, card |-> 0]
  /\ ticker' = ~disable_ticker
  /\ widget' = Label(widget.at)
  /\ step' = "serialno" /\ caller' = "open"
  /\ UNCHANGED <<reader, written, queue, finishing, dialog, notice, secret, learning, counted, fault>>

\* gtk_widget_destroy on the window: its widgets go, the object itself stays
\* as long as an idle callback holds a reference.
file_close ==
  /\ AnyLoop /\ window = "open" /\ dialog.kind = "none"
  /\ window' = IF Held(queue, finishing) \/ caller = "idle" THEN "destroyed" ELSE "gone"
  /\ ticker' = (ticker /\ window' = "destroyed")
  /\ queue' = OldQueue
  /\ learning' = OldLearning
  /\ widget' = Label(0)
  /\ UNCHANGED <<scd, selector, cardtype, in_card_reload, eventcounter, finishing, flow,
                 dialog, notice, secret, rest>>

card_reload_action ==
  /\ UserMayAct
  /\ card_reload("user")
  /\ UNCHANGED <<scd, window, selector, eventcounter, queue, finishing, card, rest>>

\* The selector holds the applications scdaemon knows; a change of it only
\* queues the reload.
app_selector_changed_cb ==
  /\ UserMayAct
  /\ selector' \in ({"auto"} \cup Cards) \ {selector}
  /\ Enqueue("reload")
  /\ UNCHANGED <<scd, window, cardtype, in_card_reload, eventcounter, ticker, finishing, flow, card, rest>>

card_genkey ==
  /\ UserMayAct /\ cardtype = "openpgp" /\ genkey = "no"
  /\ genkey' = "current"
  /\ UNCHANGED <<scd, cardman, flow, card, counted, fault>>

\* The operation holds no reference on the window it reports to.
card_genkey_completed ==
  /\ AnyLoop /\ genkey # "no"
  /\ genkey' = "no"
  /\ IF genkey = "old" \/ window = "gone"
     THEN fault' = "window of a key generation" /\ UNCHANGED queue
     ELSE Enqueue("reload") /\ UNCHANGED fault
  /\ UNCHANGED <<scd, window, selector, cardtype, in_card_reload, eventcounter, ticker, finishing, flow, card,
                 counted>>

-----------------------------------------------------------------------------
(* The widgets: fields of an OpenPGP card, PINs, certificates.              *)

Names == {"first", "last"}
\* The fields a SETATTR writes: both parts of the name go together.
Written(f) == IF f \in Names THEN Names ELSE {f}

\* After the save edit_focus_cb clears the flag of the field if that worked,
\* edit_changed_combo_box_cb clears it always.
Saved(w, f) == [w EXCEPT !.changed = @ \ {f}, !.dirty = @ \ Written(f)]
FlagLost(w, f) == [w EXCEPT !.changed = @ \ {f}]
NotSaved(w, f) == IF f = "sex" THEN [w EXCEPT !.changed = @ \ {f}] ELSE w

\* save_attr: SCD SETATTR, for which the agent asks for a PIN.  An error is
\* shown in an alert, unless the user cancelled.
save_attr(w, f) ==
  \/ Readable("openpgp") /\ widget' = Saved(w, f) /\ dialog' = NoDialog
  \/ widget' = NotSaved(w, f) /\ dialog' = NoDialog
  \/ widget' = w /\ dialog' = Dialog("alert", f)

\* The first save of a session shows a notice before.
Save(w, f) == IF notice THEN save_attr(w, f) ELSE widget' = w /\ dialog' = Dialog("notice", f)

\* edit_changed_cb and edit_toggled_cb flag the field; the combo box is saved
\* at once.
Edit(f) ==
  /\ UserMayAct /\ widget.type = "openpgp"
  /\ LET edited == [widget EXCEPT !.changed = @ \cup {f}, !.dirty = @ \cup {f}]
     IN IF f = "sex" THEN Save(edited, f) ELSE widget' = edited /\ UNCHANGED dialog
  /\ UNCHANGED <<scd, cardman, flow, notice, secret, learning, rest>>

\* edit_focus_cb: a flagged field that loses the focus by the keyboard is
\* saved if it is well-formed.
LoseFocus(f) ==
  /\ UserMayAct /\ f \in widget.changed
  /\ Save(widget, f)
  /\ UNCHANGED <<scd, cardman, flow, notice, secret, learning, rest>>

\* A handler of the widget goes on after a dialog; the widget may have been
\* destroyed meanwhile.
Continues == IF dialog.old THEN fault' = "widget behind a dialog" ELSE UNCHANGED fault

\* show_admin_pin_notice, shown until it has once been accepted.
show_admin_pin_notice ==
  /\ Loop /\ dialog.kind = "notice"
  /\ Continues
  /\ \/ notice' = TRUE /\ save_attr(widget, dialog.field)
     \/ notice' = FALSE /\ widget' = NotSaved(widget, dialog.field) /\ dialog' = NoDialog
  /\ UNCHANGED <<scd, cardman, flow, secret, learning, genkey, counted>>

SaveFailed ==
  /\ Loop /\ dialog.kind = "alert"
  /\ Continues
  /\ widget' = NotSaved(widget, dialog.field)
  /\ dialog' = NoDialog
  /\ UNCHANGED <<scd, cardman, flow, notice, secret, learning, genkey, counted>>

\* change_pin, change_or_reset_pin, change_nullpin: the explanation is a modal
\* dialog, the command goes to the card that is then in the reader, and the
\* data is read again unless the user gave up.  (The alert after an error is
\* one more turn of the same loop.)
change_pin ==
  /\ UserMayAct /\ widget.type \in {"openpgp", "piv", "nks"} /\ widget.texts # {}
  /\ dialog' = Dialog("pin", "none")
  /\ UNCHANGED <<scd, cardman, flow, widget, notice, secret, learning, rest>>

PinChanged ==
  /\ Loop /\ dialog.kind = "pin"
  /\ dialog' = NoDialog
  /\ \/ UNCHANGED <<flow, fault>>
     \/ Continues /\ step' = "texts" /\ caller' = "pin"
  /\ UNCHANGED <<scd, cardman, widget, notice, secret, learning, genkey, counted>>

\* learn_keys_clicked_cb: gpgsm reads the certificates in the background.
learn_keys_clicked_cb ==
  /\ UserMayAct /\ widget.type \in Learners /\ widget.keys # {} /\ learning = "no"
  /\ learning' = "current"
  /\ UNCHANGED <<scd, cardman, flow, widget, dialog, notice, secret, rest>>

\* learn_keys_gpg_status_cb, at the end of gpgsm.
learn_keys_gpg_status_cb ==
  /\ AnyLoop /\ learning # "no"
  /\ learning' = "no"
  /\ Enqueue(IF learning = "current" THEN "again" ELSE "again old")
  /\ UNCHANGED <<scd, window, selector, cardtype, in_card_reload, eventcounter, ticker, finishing, flow,
                 widget, dialog, notice, secret, rest>>

\* After a use of dead memory anything might happen; the model stops.  It
\* also rests when the bound on the user is reached.
Stopped == (~Running \/ clicks = MaxClicks) /\ UNCHANGED vars

-----------------------------------------------------------------------------
Reloading == Serialno \/ Counter \/ Apptype \/ update_card_widget \/ reload_data \/ ReadKeys \/ ReadKeyAttr
             \/ Ensured \/ Reloaded
MainLoop == card_reload_finish_idle_cb \/ card_reload_idle_cb \/ ticker_cb \/ watcher_cb \/ reload_more_data_idle_cb
Dialogs == show_admin_pin_notice \/ SaveFailed \/ PinChanged
Background == card_genkey_completed \/ learn_keys_gpg_status_cb
User ==
  \/ gpa_card_manager_get_instance
  \/ file_close
  \/ card_reload_action
  \/ app_selector_changed_cb
  \/ card_genkey
  \/ \E f \in Fields : Edit(f) \/ LoseFocus(f)
  \/ change_pin
  \/ learn_keys_clicked_cb

\* Everything but the user.
Alone(A) == A /\ UNCHANGED clicks

Next ==
  \/ Alone(CardEvent)
  \/ Alone(Reloading)
  \/ Alone(MainLoop)
  \/ Alone(Dialogs)
  \/ Alone(Background)
  \/ User /\ clicks < MaxClicks /\ clicks' = clicks + 1
  \/ Stopped
Spec == Init /\ [][Next]_vars

\* The main loop dispatches every source again and again, scdaemon and gpgsm
\* answer, the listing of the secret keys ends, and the user closes a modal
\* dialog.  Each kind of source has its own fairness: none waits for another.
Fairness ==
  /\ WF_vars(Alone(Reloading)) /\ WF_vars(Alone(Dialogs)) /\ WF_vars(Alone(Background))
  /\ WF_vars(Alone(card_reload_idle_cb)) /\ WF_vars(Alone(reload_more_data_idle_cb))
  /\ WF_vars(Alone(card_reload_finish_idle_cb))
  /\ SF_vars(Alone(ticker_cb)) /\ WF_vars(Alone(watcher_cb))
FairSpec == Spec /\ Fairness

-----------------------------------------------------------------------------
TypeOK ==
  /\ reader \in [card : Cards \cup {NoCard}, counter : 0 .. MaxEvents]
  /\ written \in BOOLEAN
  /\ window \in {"none", "open", "destroyed", "gone"}
  /\ selector \in {"auto"} \cup Cards
  /\ cardtype \in Types
  /\ in_card_reload \in {0, 1}
  /\ eventcounter \in [card_any : BOOLEAN, card : 0 .. MaxEvents]
  /\ ticker \in BOOLEAN
  /\ queue \in Seq(Callbacks)
  /\ finishing \in BOOLEAN
  /\ step \in Steps
  /\ caller \in {"none", "open", "user", "idle", "watch", "pin"}
  /\ widget \in [type : Types \cup {"label"}, at : 0 .. MaxEvents, texts : SUBSET (0 .. MaxEvents),
                 keys : SUBSET (0 .. MaxEvents), changed : SUBSET Fields, dirty : SUBSET Fields]
  /\ clicks \in 0 .. MaxClicks
  /\ dialog \in [kind : {"none", "notice", "alert", "pin"},
                 field : Fields \cup {"none"}, old : BOOLEAN]
  /\ {dead_watch, notice, secret, counted} \subseteq BOOLEAN
  /\ {learning, genkey} \subseteq {"no", "current", "old"}

\* When no event is left to be noticed, and no reload is queued or under way,
\* the window shows the card that is in the reader: nothing it displays was
\* read before the last event (card_reload reads the event counter before
\* the attributes, and the ticker compares the counter with scdaemon's).  The
\* exception is a display older than the first counter that was ever seen.
Quiet == /\ window = "open" /\ step = "loop" /\ Running
         /\ in_card_reload = 0 /\ "reload" \notin ToSet(queue)
         /\ eventcounter.card_any /\ eventcounter.card = reader.counter
Fresh == widget.at = reader.counter /\ widget.texts \cup widget.keys \subseteq {reader.counter}
QuietMeansFresh == Quiet /\ counted => Fresh

\* The certificates a reload left to an idle callback are added to the widget
\* it made: no second reload destroys the widget before (the sentinel of
\* card_reload opens with a callback of low priority).  TypeOK is a part of it.
ReloadsKeepTheirWidget ==
  /\ TypeOK
  /\ window = "open" => fault \notin {"more", "more old"}

\* What the user typed and the card does not have is flagged, so that it is
\* saved when the field loses the focus (the two parts of a name are saved
\* together and flagged apart; the combo box gives its flag up after a
\* failed save).
EditsAreFlagged == widget.dirty \subseteq widget.changed \cup {"sex"}

\* A reload comes to its end and the next one is possible again.
ReloadsEnd == (in_card_reload > 0) ~> (in_card_reload = 0 \/ ~Running \/ window = "gone")

\* From the first display that was read after an event counter was seen, the
\* window follows the card: it ends up showing what is in the reader.
WindowFollowsTheCard == <>[](window = "open" /\ counted) => []<>(Fresh \/ ~Running)

==============================================================================
