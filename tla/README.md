# A verification project for GPA, the GNU Privacy Assistant

GPA is a GTK front end to GnuPG.  It is one process with one thread: everything that
happens, happens in a callback of the GLib main loop, and what makes it hard is that these
callbacks interleave, that dialogs run *nested* main loops in the middle of a callback, and
that GPGME, the user, the clients of the UI server and the card reader each act when they
like.  This directory holds TLA+ models of the parts where that matters, TLC runs that check
them on small instances, and TLAPS proofs for every size.

`PROJECT.json` lists components, runs, mutants (a plausible bug for every checked property,
which the run must catch), the source lines of every definition, the hazards of the code and
the theorems.

## 1. Inventory

Sources are in `src/src/` unless a path is given.

| Component | State it keeps | Operations | Interacts with |
|---|---|---|---|
| **UI server** (`server.c`) | one `conn_ctrl_s` per connection: continuation, streams, recipients, prepared keys, protocol, sender, session; the counter of connections, the shutdown flag | accept, one handler per command, `receive_cb`, continuations, finish, stop | clients (libassuan), stream operations, windows |
| **Stream operations** (`gpastream*op.c`) | dialog, keys, progress, result | construction, response, idle start, `done_error_cb`, `done_cb`, completed | UI server (owner), GPGME context, message boxes |
| **GPGME context** (`gpacontext.c`, `gpaoperation.c`) | busy, queue of I/O callbacks, inhibited events | register, remove, start, done, passphrase, audit log | GPGME, GLib sources, every operation |
| **File operations** (`gpafile*op.c`) | list of files, current file, descriptors, outputs, results dialog | response or idle start, `_next`, `_start`, `done_error_cb`, `done_cb`, results closed | file manager, clipboard, UI server, command line |
| **Message boxes** (`gtktools.c`, `gpgmetools.c`) | a nested main loop | show, details, close | everything that reports an error |
| **Key operations** (`gpakey*op.c`, `gpabackupop.c`) | list of keys, current key | the same shape as file operations, over edit machines | key manager |
| **Key edit machines** (`gpgmeedit.c`) | state of a dialog with `gpg --edit-key` | one transition function per kind of edit | GPGME's edit callback |
| **Key generation, import, export** (`gpagenkey*op.c`, `gpaimport*op.c`, `gpaexport*op.c`) | parameters, streams | the same shape | key manager |
| **Key table, key list** (`keytable.c`, `keylist.c`) | two caches of keys, a listing under way, the callbacks of the last request | list, reload, load new, ensure, lookup | key manager, dialogs, card manager |
| **Card manager** (`cardman.c`, `cm-*.c`, `filewatch.c`) | card data, reload sentinel, ticker, watch | reload, ticker, watcher, change of application | scdaemon through gpg-agent |
| **Key servers** (`server-access.c`, `keyserver.c`) | helper process, its pipes, a waiting dialog | spawn, wait, read | helper programs |
| **Recipient dialog** (`recipientdlg.c`) | recipients and the keys found for them | search, select, protocol | UI server, file encryption |
| **Application, windows** (`gpa.c`, `gpawindowkeeper.c`) | open windows, shutdown | open, close, `quit_if_no_window` | UI server |
| **Key manager, file manager, clipboard** (`keymanager.c`, `keyeditdlg.c`, `fileman.c`, `clipboard.c`) | selection, current key, details, list of files, text, targets of the desktop's clipboard | menu actions, selection handlers, idle callbacks, close | application (shared actions), operations, key list |
| **Options, backend configuration** (`options.c`, `settingsdlg.c`, `confdialog.c`) | `gpa.conf`, what gpgconf has, two dialogs with what they loaded | read at the start, write, apply, reset | every window, gpgconf |
| Widgets, helpers, Windows glue | | layout, pure functions | see `PROJECT.json` |

What makes each component correct:

* *UI server*: the answer a client gets belongs to the command it sent; streams last exactly
  as long as the operation on them; nothing is encrypted to keys chosen for other recipients;
  a client that goes is cleaned up, whatever is at work; the server does not quit under a
  client and does quit when the last one goes.
* *Stream, file and key operations*: each item is handled once and in order; each end is
  reported exactly once; a failure cleans up what the item has opened or made.
* *GPGME context*: GPGME is not entered twice; its events reach the operation they are for.
* *Key table*: a cache holds one whole listing; every request gets its end; a nested loop
  returns to the one who waits in it.
* *Key edit machines*: no answer goes to a prompt it was not meant for; every dialog ends.
* *Card manager*: reloads do not overlap; an event that arrives during a reload is not lost.
* *Key servers, import, export*: the waiting dialog ends whenever the helper does; the user is
  told what happened.
* *Recipient dialog*: every recipient gets one usable certificate of one protocol, and none was
  picked among several.
* *Windows*: what a window offers applies to its selection; what it does is done to that
  selection; details and "Paste" catch up.
* *Options and backend configuration*: what was set comes back at the next start; the
  backend dialog overwrites nothing that nobody touched, the settings dialog no more than what it loaded.

Where the code falls short of one of these, the property that is checked says what is left, and section 12 what
the code does instead.

The hard behaviours of this code are listed one by one, at their lines, under "hazards" in
`PROJECT.json`: nested main loops, state kept across commands, idle callbacks starved by a
ready source, failures half way through accepting or starting, reports that never come.

## 2. Plan

Modelled first: the UI server, since every other program uses GPA through it, and the file
operations, the oldest and most used of the operations, over the context they all share.

| Order | Module | Composes | Abstract specification | State |
|---|---|---|---|---|
| 1 | `UiServer` | connections, stream operations, message boxes, shutdown | `AbstractUiServer` | checked, proved |
| 2 | `GpaContext`, `FileOperation` | context, operation, message box | `AbstractBatch` | checked, proved |
| 3 | `KeyTable` | both tables, lists, selectors, nested loops | a cache that is a whole listing | checked, proved |
| 4 | `KeyEdit`, `KeyOperation` | edit machines against gpg's menus; batches of keys, generation | | checked, proved |
| 5 | `KeyTransfer` | import, export, backup, the helper and its dialog | | checked, proved |
| 6 | `CardManager` | reload, ticker, watch, widgets, PIN dialogs | a view that catches up with the reader | checked, proved |
| 7 | `Preferences` | `gpa.conf`, gpgconf, both dialogs, restarts | | checked, proved |
| 8 | `Desktop`, `KeyManager`, `FileManager`, `Clipboard`, composed by `Windows` | shared actions, operations, boxes, three windows | both safety properties | checked, proved |
| 9 | `RecipientDialog` | the list, the hint, the radio buttons | | checked, proved |

Every invariant and every action property that a passing run checks is proved for all values of the constants.
Liveness stays with TLC (section 13).

One type invariant per module.  Where a run checks it, it is the first conjunct of a safety
invariant (the comment of that invariant says so); in every module that is marked "proved"
it is proved.

## 3. The UI server

| Module | What it is |
|---|---|
| `UiServer` | the server: connections, commands, continuations, the operations they start, message boxes, shutdown |
| `AbstractUiServer` | what the help texts of the commands promise a client |
| `MCUiServer` | constants for TLC: which commands the clients use |
| `UiServerProofs` | inductive invariant, safety theorems, and that `UiServer` implements `AbstractUiServer` |

### State

| Variable | Code |
|---|---|
| `conn[c]` | whether a context of connection `c` exists: `free`, `live`, or `orphan` (left behind by a failed accept) |
| `sock[c]` | the client's end: a line that waits to be read, hung up or not |
| `assuan[c]` | libassuan: the command it has open, the last answer |
| `ctrl[c]` | `struct conn_ctrl_s`: `cont_cmd`, `gpa_op`, `channels`, `recipients`, `recipient_keys`, `selected_protocol`, `sender`, `message_fd`, `files` and so on |
| `op[c]` | the stream operation the command has started: its phase (`dialog`, `idle`, `running`, `warning`, `result`), its recipients, keys and protocol |
| `modal` | the stack of message boxes, each a nested main loop inside a callback of its connection |
| `connection_counter`, `shutdown_pending`, `quit` | the static variables of `server.c`, and whether the application has been told to quit |

### Actions

One action per handler: `accept_connection_cb` and its failure half way, `cmd_*` for every
registered command, `receive_eof`, `idle_cb`, the responses of the dialogs, GPGME's result
(`done_error_cb`, `done_cb`), `warning_dismissed`, `gpa_stop_server`; and the client's steps,
`SendLine` and `HangUp`.  A handler is one action from the main loop back to the main loop,
including the continuation that its `completed` signal runs; a message box splits it in two,
as it does in the code.

### What is abstracted

* A client has one request outstanding, as clients of this protocol do; pipelined lines are
  left out.  A command's parameters are chosen when it is received.
* `cmd_getinfo` stands for every command that only answers (the `START_` commands,
  `CHECKSUM_` commands, `GETINFO`, an unknown command), `cmd_files` for the `_FILES` commands: the
  file operation they start answers to nobody (see section 4).
* `INPUT`, `OUTPUT` and `MESSAGE` are present or absent; descriptor numbers, data objects and the
  contents of streams are left out.  So are the session text, sender hints and output encoding.
* A set of keys is abstracted to the recipients it was chosen for.  The protocol matters for
  encryption only.
* The branches on `client_died`, `is_unfinished` and `in_command` are not there: they cannot
  be reached (`receive_cb` returns first whenever a continuation is registered).  The sleeping
  branch of `receive_cb` changes nothing and is a stuttering step; that it leaves its source
  *ready*, so that no idle callback runs, is the guard `MainLoopIdle` of `idle_cb`.
* A message box is modal: other dialogs cannot be answered under it, other connections go on.

### Runs

| Run | Instance | What it shows |
|---|---|---|
| `commands` | one client, every command in any order, hanging up at any time | the invariants of a connection; `UiServer` implements `AbstractUiServer` |
| `shared` | two clients: one waits for its answers and also uses an operation that starts from an idle callback, the other uses dialogs and may hang up at any time | message boxes in nested loops; the server never quits under a client, quits with the last one, and never if the one accept that may fail has left a context; every command is answered; every client that hangs up is finished |
| `dying_client` | one client that may hang up during a `DECRYPT` | violated: the unread end of file starves `idle_cb`, the connection is never finished |

Bounds.  Connections share nothing but the message boxes, the counter and the main loop, so
one client is enough for the invariants of a connection, with all commands, and two for the
rest.  One recipient, with `SUBSET` of it given and found, makes "keys for others"
possible: the empty list and the list of one differ.  `MaxOrphans = 1` in `shared` lets one accept fail, in place
of either client; the other runs have none.
`CHECK_DEADLOCK FALSE`: the server may quit, and clients owe it nothing.

### Fairness

`WF(receive_cb)` and `WF(GpgmeDone)`: the main loop serves a ready source, GPGME ends.
`SF(idle_cb)`: the main loop gets to idle callbacks if it runs out of other work again and
again, though the next request of a client may come in between.  `SF(UserAnswers)`,
`SF(warning_dismissed)`: the user answers a dialog that can be used again and again, though
the message box of another connection may block it in between.  Nothing is assumed of the
clients.

`DeadClientsAreFinished` holds only for clients whose operations do not start from an idle
callback, and `CommandsAreAnswered` only as long as no such client goes.  That is the hole that
`dying_client` shows: a client that hangs up at the wrong moment not only stays, it also
starves the idle callbacks of all the others.  In `shared` the client that may go uses only
commands that start from a dialog, and the patient one everything: this is what the code
does guarantee.

`ShutdownCompletes` and `ShutdownIsFriendly` say what an accept that fails (`server.c:1907`) does to a shutdown: its
context is counted for ever, so that the server never quits.  `EncryptsToTheRecipientsGiven` is about lists of
recipients that are not empty: `ENCRYPT` itself empties the list and keeps the keys (`server.c:658`), and the next
one without `RECIPIENT` encrypts to the keys of the message before, in the model as in the code.

### Proofs

`UiServerProofs` proves the safety properties of the runs for every finite set of
connections, every set of recipients and every choice of commands.  No property is inductive
alone: that a continuation answers the right command rests on the operation being there, that
the counter does not fall below zero on its being the number of contexts.  `IInv` is `TypeOK`,
the conjunction of all of them, per slot (`Consistent`).  A step writes one slot; `SlotStep`
reduces it to the values written there, and one lemma per action supplies those.
Its last part goes through the actions once more: each is a step of the promise, or
leaves all that a client can see as it was.

## 4. File operations and the GPGME context

| Module | What it is |
|---|---|
| `GpaContext` | the context: callbacks queued until START, none dispatched under the passphrase dialog, events inhibited while the audit log is fetched |
| `FileOperation` | encrypt, sign, decrypt, decrypt and verify, verify, import: one module, the kinds told apart where the copies differ |
| `AbstractBatch` | what an operation on a list promises its owner |
| `MCFileOperation` | descriptors for TLC |
| `FileOperationProofs` | inductive invariant, safety theorems, refinement |

`op` is the operation object (position in the list, phase, open streams, state of each
output, how often `created_file` was emitted, what decrypt-and-verify remembers, what
`completed` reported); `box` is the message box of `done_error_cb`, with the details the user
may ask for; `context` and `asking` belong to `GpaContext`.  `next` is the `_next` and `_start`
pair of each operation with its three ways to fail (open input or output, GPGME refuses),
`done_cb` its handler of "done".

The six copies differ in ways the model keeps: encrypt and decrypt clean up after a failed
start, sign, verify and import do not; sign unlinks the wrong name; verify stops without a
report after an error; import never reports and goes on after an error; decrypt-and-verify
keeps its error until the results are closed; verify reports success whatever happened.

Abstracted: names, progress dialogs, import counters.  The questions asked before a file is
started (overwrite, detached signature, untrusted keys) are choices of their outcome: nothing
else happens to the operation under them.  Two message boxes in a row are one.  A
direct item is a list of one.  The data of an import, never released by the code, is the stream
`source` that stays open.

| Run | Instance | What it shows |
|---|---|---|
| `files` | all kinds, lists of 1 to 3 files and a direct item, two descriptors | the invariants below, the promise of a batch, and that operations that make files report |

Three files give a first, a middle and a last one; a second descriptor lets GPGME close and
open descriptors around START, DONE and the passphrase dialog.  `CHECK_DEADLOCK FALSE`: an
operation ends.

Fairness: the user answers every dialog, the main loop runs the idle callback, GPGME ends if
it is served again and again (strong, since it may ask for the passphrase in between).

`FileOperationProofs` proves all six safety properties and the refinement for any `MaxFiles`
and any set of descriptors.  `IInv` adds to the properties where the context is at rest, when
events are inhibited, and what a report implies about the position (`ReportsFit`).  Between two
files the operation is `Ready` and its context `AtRest`; from there a callback ends in one of
three ways, each a lemma (`EndStep`, `ReportStep`, `StartStep`), and the handlers of "done" come
back to `Ready` (`HandledIsReady`).  `OperationStep` gives what one step may do to the operation,
from which the refinement and `FailedOutputsGo` follow.

## 5. Key tables and key lists

`KeyTable` models `keytable.c` with the widgets that ask it for keys: the key manager's list,
the list of the dialog that selects recipients, selectors for public and secret keys.
`MCKeyTable` gives it one of each.

`gpa` is the memory of the program: `tables` (`struct _GpaKeyTable`, both instances), `listing`
(what GPGME does for each), `loops` (the stack of `gtk_main` loops; a frame says what its caller
does afterwards), `widgets` (rows, and whether the trust database dialog is up or the selector
insensitive), `cms_hack`.  `keyring` is what gpg and gpgsm have.  Handlers call each other many
levels deep (a key arrives, its row needs the secret table, which is reloaded, in a nested
loop), so they are operators from one `gpa` to the next, and an action runs one callback of the
main loop up to its end or to `gtk_main`.  `return` continues a caller whose loop was quit.

Requests come from the user and from finished operations: open and close a list or selector,
`changed_wot`, `changed_wot_secret` (also refresh), a generated key, a lookup.  They may come
inside a nested loop.  Three things are undefined there, and end the behaviour (`undefined`): to
restart a listing from within its own callback, to replace the cache that `list_cache` walks
along, to call back a widget that is gone.

Three facts about libraries carry weight.  GLib does not dispatch a source inside its own
callback, so a listing stands still while its `next` callback waits.  A new listing in a GPGME
context drops the old one.  GObject sets construct-only properties after the instance's init
function, so that `gpa_keylist_init` sees neither `initial_keys` nor `public_only`, and a list
filled from the cache is filtered as if only OpenPGP were wanted.

Abstracted: columns, sorting; the filters of a constructed list (it wants every key); loops of
`gtk_dialog_run`, which `gtk_main_quit` does not reach; `did_first_half` tells the protocol.

| Run | Instance | What it shows |
|---|---|---|
| `key_tables` | two lists, two selectors, an OpenPGP key with and an X.509 key without secret part, a third that may be imported or generated; three requests, one failure | no cache or listing mixes two listings or holds half of one; a listing that is to quit a loop finds one of `ensure` innermost, and without a failure quits no other; rows come with the secret table at hand; a list shows what its listing delivered; the first list is filled |

Three requests let one cut off another inside a nested loop that a third started; the
invariants were also tried with four (7.8 million states).  A failure is a listing that ends in an
error or does not start.  Fairness: GPGME's listings go on and end, a loop that was quit returns.
`FirstListIsFilled` is about a list alone: with other requests about, a wait may be abandoned
(see the hazard at `keytable.c:399`), and no property pretends otherwise.

`KeyTableProofs` proves the four invariants and the action property about the caches for any keys, widgets,
requests and failures.  Since a callback may call five others before it gets back to the main loop, the
inductive invariant is one of the memory `gpa` and not of the actions: `Fits(g)` is kept by every handler, and
each handler has its lemma, in the order in which they call each other.  Its parts: who is registered in a
slot of a table, and whose row waits in a nested loop, is there (`SlotsFit`); what a listing has delivered and
what it still has to deliver are apart, and together what was asked for (`ListingFits`); a table is to quit a
loop only while the innermost one is of `gpa_keytable_ensure` (`QuitFits`); without a failure, only that one is
ever told to quit, and lists that tell secret keys apart have rows only when the secret keys have arrived
(`Settled`); a key of a list's listing is still to come, or waits for a lookup in a nested loop, or is a row
(`RowsFit`).

With a failure the first of these is all that holds of the loops: `reload_cache` that cannot start a listing
calls `end` at once (`keytable.c:130`), and `gpa_keytable_ensure` sets `end` before it has entered its own loop
(`keytable.c:397`).  Another caller's loop that happens to be the innermost is quit, and the loop entered
afterwards never; the model does both, and `QuitIsForEnsure` claims nothing of it.

## 6. Operations on keys

`KeyEdit` has the five machines of `gpgmeedit.c` (sign, owner trust, expiry, passphrase, generation
on a card), each as the set of its arcs `<<state, status, next state, error>>`, the line each
state types, and gpg's own dialogue, which is external: its prompts, in the order its menus
lead through, with what it reports and declines.  It has no variables.  `KeyOperation` runs an
operation over it: `op` (the operation object: kind, number of keys, current key, phase), `edit`
(the parameters of `gpgmeedit.c`, freed by the last handler of "done"), `gpg` (the child: the
statuses it has sent, the prompt it waits at, the lines it has not read), `keys` (what has happened to
each), `settings` (`ask-cert-level` and the like, the card).  `DeliverStatus` is one call of
`edit_fnc`, `GpgReads` the other side; the handlers of "done" run in the order in which they were
connected, which is what `CloseBox` and `EditEnds` keep.

Abstracted: the text of the dialogs; the data a user gives is "his" line, wherever it is typed.
gpg is reduced to the menus these edits pass through; an error of gpg is one of the errors the
machines tell apart.

| Run | Instance | What it shows |
|---|---|---|
| `key_operations` | eight kinds, batches of up to three keys, one failure | what is typed answers the prompt gpg waits at; a success reported means a change saved; the windows hear of every change, also of those before a failure; operations complete |

Three keys give one before and one after the key that fails; one failure (a start that fails or
a gpg that dies) meets each of the three.  A second failure cannot meet the first: the operation
ends, or goes on as after any other key.  Fairness is weak: the main loop runs idle callbacks, gpg
reads what was typed and ends, GPGME reports, the user answers what is on the screen.  Nothing makes
gpg die.  `OperationsComplete` leaves out three cases, each a fact of the code: signing when gpg asks for an
expiry and not for a level (the machine answers the same prompt for ever), a card that does not
ask about the backup, and a wizard that is closed without an answer.  `CHECK_DEADLOCK FALSE`: an
operation ends.

`KeyOperationProofs` proves the three invariants for any number of keys and failures.  `IInv` joins three
parts.  `ProgressFits` is the operation's: keys that were done come before the current one, and if one was done
without an error the count of modified keys says so, which is why an announcement after a later failure is
not forgotten.  `KeysFit` is the second invariant.  `DialogueFits` is the running edit's, and is what the other
two could not do without: it relates the state of the machine in `gpgmeedit.c` to what gpg has read, where it
waits and whether it has made the change.  The statuses that are on their way make this more than a table
lookup: a machine may go on only when the status says that gpg has taken the answer before (`Confirms`), and
the machine for signing, whose prompts may come in three orders, must have typed the user's answer at
whichever came.  One lemma per machine shows that a call of `edit_fnc` keeps it for every status gpg may send
(`DeliveryFits` has them all); one lemma per menu of gpg, that a reaction to what the machine believes it has
typed is honest: nothing but a prompt, an error or a change that was made comes back (`ReactionsAreHonest`).

## 7. Import, export, backup, key servers

`KeyTransfer` is one operation of `gpaimport*op.c`, `gpaexport*op.c` or `gpabackupop.c`, from its idle
callback over the dialog for its source or target to "completed" and its signals.  With a gpg older
than 2.1 a key server is reached through a helper: `helper.stage` is the position in `do_spawn`
and `wait_for_child` of `server-access.c` (spawn, set the handler of SIGCHLD, run the dialog, `wait`, read
the error output, check the status), `helper.child` the process.  SIGCHLD may come between any two of
them; `other` is another child of the program, which `wait` takes as well; `files` are the
temporary files.

Abstracted: keys are a count and a protocol each, GPGME's import result is three flags, a helper
is its exit status and whether it writes more than a pipe holds.

| Run | Instance | What it shows |
|---|---|---|
| `key_transfers` | eight kinds; up to two keys, which may be of both protocols; searches with up to three results; a file that cannot be opened; another child | the user is told that exported keys are somewhere only if they are, and of a backup only after all its runs of gpg; temporary files go with the operation; every transfer ends |

Two keys are the least that can be of two protocols; `MaxResults = 2` (the code has five) has a
search that finds more than is shown.  Weak fairness: the main loop, GPGME and the helper get on, and
the user closes dialogs, in the end also the one that waits for the helper.  Excluded from
`TransfersComplete` is a helper that fills the pipe of its error output, since it is read only after
`wait`; a `SIGCHLD` that comes before the dialog is lost in the model too, and it is the user who ends that wait.
Excluded from `MessagesAreTrue` is the status of another child.  Of a backup it says only that all three runs of
gpg were started: `gpa_backup_key` never asks whether they succeeded, and in the model they may not have.

`KeyTransferProofs` proves `MessagesAreTrue` for any number of keys and results.  Alone it is not inductive.
The helper is believed only when it has succeeded because the status, once `wait` took the helper, is how it
ended (`StatusFits`); a message stays true because no helper runs, and no temporary file is there, outside the
phase of the helper (`PhaseFits`); and "the key was sent" is about the one key that is sent (`OneKeySent`).

## 8. The card manager

`CardManager` models `cardman.c`, the widgets `cm-*.c`, `gpapinchange.c` and `filewatch.c`.  A reload blocks in
several commands to scdaemon; `step` is its position, and the card in `reader` may change between two of
them.  `queue` and `finishing` are the idle callbacks of both priorities, `in_card_reload` the sentinel,
`eventcounter` the last count seen, `ticker` the poll, `written` an event of the watched status file.
`widget` says what is displayed, each part by the value the reader's counter had when it was read,
and which fields the user has edited (`dirty`) and the code has flagged (`changed`).  `dialog` is a modal dialog of a
widget, in which all of this goes on.  Handlers that outlive their widget or window
(`learning`, `genkey`, `dead_watch`, "old" callbacks) use freed memory: that sets `fault` and ends the behaviour.

| Run | Instance | What it shows |
|---|---|---|
| `cards` | an OpenPGP and a PIV card, two fields, two events, three acts of the user | a quiet window shows the present card; what a reload leaves to an idle callback finds its widget; edits are flagged; reloads end; the window follows the card |

Two cards are of the two families that differ: with fields to edit and a PIN dialog, and with certificates that an
idle callback adds.  The fields are the two that are saved differently (a part of a name, and a
combo box).  Two events put one card in place of the other or take it out during a reload and put it
back; three acts let an edit, a PIN dialog and a reload meet.  Fairness: the main loop, scdaemon and
gpgsm get on.  `SF` for the ticker, which does nothing while a reload is under way but comes again every
second; all else is weak, since an event that waits, a queued callback or an open dialog stays.  `counted` is in the properties
because the very first display may be older than the first counter; see section 12.

`CardManagerProofs` proves the three invariants for any cards, fields and numbers of events and acts, with the
status file watched or not.  `EditsAreFlagged` is inductive by itself.  The other two rest on what a reload owns: from
its start until its low priority callback the sentinel is closed and no other reload begins (`SentinelFits`);
what it left to an idle callback runs before that, while its widget is there (`MoreFits`); and after it has read
the counter it reads everything that is displayed again (`DisplayFits`).

## 9. Options and the configuration of GnuPG

`Preferences` models `options.c` with `gpa.conf`, `settingsdlg.c`, `confdialog.c` and the start of `gpa.c`.  `options` is the
instance of `GpaOptions`, `gpa_conf` the file, `gpg_conf` what gpgconf has; `settings` and `backend` are
the two dialogs, neither of them modal, each with what it loaded when it was made.  A value is a
sequence of arguments and an argument the sequence of the words between its commas; the conversions
between arguments, widgets and text (`option_widget`, `EntryText`, `ArgsOf`) are modelled by what they do,
empty values and absent ones apart.  `touched`, `picked` and `wanted`, and
the `words` a dialog was loaded with, are histories for the properties.

| Run | Instance | What it shows |
|---|---|---|
| `preferences` | five options, one of every kind of widget and a list, two secret keys; three edits, one failure, two starts | what was set comes back at the next start; the backend dialog changes only what was edited in it; the settings dialog, without a choice, stores no methods but those it loaded, and none if it has no name for them |

Three edits let both dialogs change the same option and one of them do so twice; a second start shows
what was stored.  The failures are gpgconf's, gpg's and a file's that cannot be written.  `CHECK_DEADLOCK FALSE`: a user
may stop.  No fairness: nothing has to happen here.

That an option nobody edited is saved as it was is not true of every value.  An entry shows the words of all
arguments with one comma between them and reads every word as an argument, and a comma at the end as nothing; a
check button is read as one argument.  `Plain` is what is read back as it was, or is refused by gpgconf as
more than one argument.  `UntouchedOptionsAreKept` lets a save change an option the user did not edit only where
the value that was loaded is not plain, and only where GPA found such a value outside of it or the user typed
two commas at the end of a list (`PlainInputs`): the dialogs themselves make no such value of plain ones.  One of
the configurations of the run has such a value and the other has none.

What the settings dialog does to the methods it did not change is less than that.  It knows what it loaded and
nothing of what is there when it saves: if it loaded a named list, or none, then OK stores that list's row over
whatever the other dialog has put there since, a list without a name as well.  And a load that fails
(`gpa_load_gpgconf_string`) gives the same NULL as an option that is not set: the dialog shows "Local", and OK stores
it.  `CustomLocateIsKept` says what is left: only the row of the list that was loaded is stored, and nothing at all
if that list had no name, so that a dialog at "Custom" overwrites neither the list it loaded nor a later one.  An older gpg
whose keyserver could not be read gets the first of the list in the same way (`main`).

`DialogProofs` proves the three properties for any options, keys, words, configurations, texts and bounds, from
what `Preferences` assumes of its constants: the type of a widget follows from the flags of its option,
there is a finite set of keys, a word for every kDNS server, and no empty text is typed.  `IInv` has three
parts beyond the types:

* `Remembered`: `gpa.conf` has what the user wanted if its last write succeeded, also when the program does not run.
  `SettingsSurvive` follows: `options` is read from there.
* `SettingsHolds`: a dialog shows the row of the list it loaded until the user picks another; a list without a
  name has the row "Custom", for which nothing is stored.  `CustomLocate` follows.
* `BackendHolds`: a widget that was not edited is the one of the value that was loaded; and, for options whose inputs are
  plain, what gpgconf has and what was loaded is read back as it is or refused (`Shown`), and every text that a widget
  shows or saved is read as such a value or is refused itself (`Kept`).  `UntouchedKept` follows.

The lemmas on `FlattenSeq` that the conversions need are no inductions over data: the library defines it by a
recursive function, and the least index at which its value is not what is claimed gives the contradiction.

## 10. The windows

| Module | What it is |
|---|---|
| `Desktop` | the application: which windows are open, `quit_if_no_window` with the counter of the server, the one map of actions, the operations at work, modal boxes |
| `KeyManager` | `keymanager.c`, `keyeditdlg.c`: selection, `current_key`, its listing, the details and their idle callback, menu actions |
| `FileManager` | `fileman.c`: list, selection, operations and the files they add |
| `Clipboard` | `clipboard.c`: text, selection, the targets of the desktop's clipboard, operations and their result |
| `Windows` | their composition on a desk |
| `WindowsProofs` | inductive invariant and safety theorems |

Every window adds its actions to one map by name, `owner`; the last window to do so has them, the earlier one
keeps a pointer that is freed.  Using it sets `fault`, as in section 8.  `Alive` says that the
program still runs and no fault has happened.  A signal of an operation or a listing may come while
a box runs its nested loop; `boxes` is the stack.

| Run | Instance | What it shows |
|---|---|---|
| `windows` | five desks, two keys, two files, one client, four acts of the user | `current_key` is the selected one; actions that are enabled apply; details and "Paste" catch up |

A desk is the set of windows a user has to do with; the five have every window, and the pairs whose actions
collide in the three ways there are.  Two keys, one with a secret part, give a current key that is not the
selected one; four acts are a selection, an action, another selection and a close.  Weak fairness for the
listing of the current key, the idle callback, the clipboard's answers and the box before the user.  The idle
callback's is justified as long as no source of the default priority stays ready for ever: the connection of
a client that hangs up during its operation does (section 3, `dying_client`) and starves it while that operation is
at work; clients are only a counter in these modules.

Every change of the desktop clipboard's owner makes the clipboard window ask for the targets, and so does opening
it.  `asks` has the requests that are not answered; each is answered in any order, with the targets of the owner asked
or with none, since it may refuse or be gone.  The handler keeps no order and believes what it hears last.
`PasteFollowsTheClipboard` therefore makes an exception of a window that was misled: the last owner's answer was a refusal, or an
older one's came after it (`misled`, until the next change).  Otherwise "Paste" comes to follow the last owner.

`WindowsProofs` proves both safety properties for any desks, keys, files and bounds.  `IInv` adds to them
that a listing under way is of the key selected, as soon as one is (`KeysFit`: a new selection gives up the listing
before it), and that whoever may update the actions of a window later, a listing, an operation of a window that has
gone or the clipboard's answer, finds them registered (`OwnersFit`, `OpsFit`, `TextFits`).  The windows are then
separate: `OffersNoMore` says that a step lets a window offer nothing new, and `Updates` that a window which
updates its own actions does not touch the others', *unless* one of its actions was replaced, which is a fault.
So `OffersFit` speaks of a program without a fault, as the property does.

## 11. The recipient dialog

`RecipientDialog` models `recipientdlg.c`, which `UiServer` takes as a choice: `rows` and `info` are the list
with the certificates found for each recipient and protocol, `radio` the buttons, `usable` and
`selected_protocol` what `update_statushint` computed for them, `keys` the answer.  The handlers of its popup menu
take the list for the dialog and end the model.  Definitions that `Preferences` has too start with `Dialog` here, since
one module has the proofs about both.

| Run | Instance | What it shows |
|---|---|---|
| `recipients` | every keyring over two recipients and five certificates (two for S/MIME, one that is unusable), every order of the buttons | with automatic selection every recipient is served; no certificate is taken that is unusable, one of several, or of the wrong protocol |
| `omitted_recipients` | the same | violated: a requested protocol leaves recipients out |

Two recipients are the least of which one can be left out; two certificates of a protocol make one ambiguous.

`DialogProofs`, which also has the proofs of section 9, proves both properties for any finite sets.  The answer is `get_keys` of a protocol, so
neither property says enough of the states before it: `DialogInv` adds that the hint was computed for the
button that is active and for the list that is shown (`HintFits`), and that the answer was given while
OK was usable (`AnswerFits`).  Then two facts about `okay` finish: whoever has a key for the selected protocol is
counted, and so has exactly one (`NobodyIsAmbiguous`); with automatic selection as many have one as
are counted, and all are (`EveryoneIsServed`, on cardinalities).

## 12. What disagrees with the source's own words

Two runs show a disagreement:

1. `server.c:64` and `:1835` describe a delayed clean-up of dead clients that cannot be reached
   (run `dying_client`).
2. `recipientdlg.c:166` "A key needs to be assigned to each recipient": not if a protocol is requested
   (run `omitted_recipients`).

Others were met while modelling; the models have the code's behaviour.

* `server.c:93` "Array of keys already prepared for RECIPIENTS": a successful ENCRYPT (`:658`) empties the list and
  keeps the keys, which the next ENCRYPT uses if no RECIPIENT comes before it.
* `server.c:114` "The number of active connections": a failed accept (`:1907`) counts for ever, and a requested shutdown
  then never happens.
* `keytable.c:397`: a listing that cannot be started quits whichever loop is innermost (section 5).
* `gpafilesignop.c:401` "delete the created file": the name it deletes is never set.
* `keylist.c:912` "Let the keylist know that a new key [...] is available": the nested loop of
  `gpa_keylist_new_key` waits for a function that quits nothing.
* `keymanager.c:1264` and `:1280`: "Show Brief Keylist" and "Show Key Details" of the toolbar open the file manager.  The
  entries at `:1421`, `:1427` and `:1431` of the popup menu name no action.
* `fileman.c:687` "Mark All" and `:757` "Close all files" both have the action that closes the window;
  `clipboard.c:854` names `app.file_cleear`, which does not exist.
* The recipient dialog's popup names `select_pgp_key`, the action is `select_gpg_key`; its handlers get the wrong
  pointer; dismissing the menu leaves `freeze_key_selection` set.
* `cardman.c:500`: the first counter that is seen is stored without a reload, whatever happened since the display
  was read.
* `gpgmeedit.c:1140` reads the parameters it has freed; signing with `ask-cert-expire` and without
  `ask-cert-level` answers one prompt for ever.
* `gpaimportop.c:225`: keys that an import only updates are not announced.
* `gpabackupop.c:221` "A copy of your secret key has been made": `gpa_backup_key` (`gpgmetools.c:555` "Returns TRUE on success")
  starts gpg three times and does not ask how it ended.
* `gpaexportserverop.c:218` counts up twice in one round.
* `gpa.1:27`: with `--daemon` the program ends at once.
* `settingsdlg.c:848`: the switch has no case for `pka`, so that a row with it is stored without; an `auto-key-locate`
  that was not set is set by any OK, and so is one that could not be loaded (`:539`) or was set by the other dialog since.
* `confdialog.c:704` "Soft reset which reuses the configuration at last load": neither the number of a spin
  button nor a text saved from before another choice is reset.
* `confdialog.c:242` reads back another value than `:181` showed when an argument has commas, ends with one, is empty although
  that is optional, or follows the count of a spin button.  "Apply" saves such options although the user changed others.
* `gpa.c:110` calls the key manager the default; with a secret key present it is the clipboard (`:628`).
* `keyserver.c`: the list read from the file is never installed.

## 13. What is only model-checked, and what is not modelled

Only model-checked: liveness (`DeadClientsAreFinished`, `ShutdownCompletes`, `CommandsAreAnswered`,
`OperationsReport`, `FirstListIsFilled`, `OperationsComplete`, `TransfersComplete`, `ReloadsEnd`, `WindowFollowsTheCard`,
`DetailsFollowTheSelection`, `PasteFollowsTheClipboard`), since the prover does not reach fairness and
`ENABLED`.

Not modelled: GTK layout, the widgets and dialogs whose answers are inputs of the operations, pure functions on
strings and bytes, Windows glue.  Not modelled within modelled parts: object lifetimes below the last
reference (except where a handler meets a dead one, which is `fault`), memory, descriptor numbers, bytes.
`PROJECT.json` gives the reason for each component and for each hazard without a property.
