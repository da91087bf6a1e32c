----------------------------- MODULE GpaContext -----------------------------
(***************************************************************************)
(* GpaContext (src/src/gpacontext.c): the wrapper every operation puts     *)
(* around its GPGME context.  GPGME asks it to register I/O callbacks and  *)
(* reports the events START and DONE; the wrapper turns callbacks into     *)
(* GLib sources, and events into the signals "start" and "done".           *)
(*                                                                         *)
(* Callbacks registered before START are queued.  While the passphrase     *)
(* dialog runs its nested main loop no callback of the context may be      *)
(* dispatched, so that GPGME is not entered a second time; and the events  *)
(* of the synchronous call that fetches the audit log are not for the      *)
(* operation (inhibit_gpgme_events).                                       *)
(*                                                                         *)
(* The operators on a context x are the handlers of gpacontext.c.  The     *)
(* actions are GPGME's steps; a module that composes the context with an   *)
(* operation says what the operation does at DONE.                         *)
(***************************************************************************)
EXTENDS Naturals, FiniteSets

CONSTANT Fds          \* the descriptors GPGME may ask callbacks for

VARIABLES
  context,            \* struct _GpaContext
  asking              \* gpa_passphrase_cb is in its dialog

contextVars == <<context, asking>>

\* cbs is the list of callbacks, identified by their descriptors; registered
\* are the ones with a GLib source.
GpaContextType == [busy : BOOLEAN, cbs : SUBSET Fds, registered : SUBSET Fds,
                   inhibit_gpgme_events : Nat]

gpa_context_init == [busy |-> FALSE, cbs |-> {}, registered |-> {},
                     inhibit_gpgme_events |-> 0]

-----------------------------------------------------------------------------
(* The handlers *)

\* Registered at once if START has been seen, queued otherwise.
gpa_context_register_cb(x, fds) ==
  [x EXCEPT !.cbs = @ \cup fds,
            !.registered = IF x.busy THEN @ \cup fds ELSE @]

gpa_context_remove_cb(x, fds) ==
  [x EXCEPT !.cbs = @ \ fds, !.registered = @ \ fds]

register_all_callbacks(x) == [x EXCEPT !.registered = x.cbs]

\* Mutant: the callbacks stay with the main loop.
unregister_no_callbacks(x) == x

unregister_all_callbacks(x) == [x EXCEPT !.registered = {}]

gpa_context_start(x) == register_all_callbacks([x EXCEPT !.busy = TRUE])

gpa_context_done(x) == [x EXCEPT !.busy = FALSE]

\* gpa_context_get_diag, before and after gpgme_op_getauditlog.
\* Mutant: the events are not inhibited.
diag_begins_uninhibited(x) == x

diag_begins(x) == [x EXCEPT !.inhibit_gpgme_events = @ + 1]

diag_ends(x) == [x EXCEPT !.inhibit_gpgme_events = @ - 1]

\* gpa_context_event_cb returns at once when events are inhibited.
EventsReachTheOperation == context.inhibit_gpgme_events = 0

-----------------------------------------------------------------------------
(* GPGME *)

\* gpgme_op_..._start, called on context x, registers its callbacks and reports
\* START.
gpgme_op_start(x) ==
  /\ \E fds \in (SUBSET Fds) \ {{}} :
       context' = gpa_context_start(gpa_context_register_cb(x, fds))
  /\ UNCHANGED asking

\* gpa_io_cb runs for descriptor fd, and GPGME goes on: it closes a
\* descriptor, opens another one, or just reads.
gpa_io_cb(fd) ==
  /\ fd \in context.registered
  /\ \/ /\ context.cbs # {fd}
        /\ context' = gpa_context_remove_cb(context, {fd})
     \/ \E new \in Fds \ context.cbs :
          context' = gpa_context_register_cb(context, {new})
  /\ UNCHANGED asking

\* In the middle of gpa_io_cb GPGME asks for the passphrase.
gpa_context_passphrase_cb ==
  /\ context.registered # {}
  /\ ~asking
  /\ context' = unregister_all_callbacks(context)
  /\ asking' = TRUE

passphrase_entered ==
  /\ asking
  /\ context' = register_all_callbacks(context)
  /\ asking' = FALSE

\* The last descriptor is closed: GPGME removes what is left and reports DONE.
\* The class handler of "done" runs before the handlers of the operation.
gpgme_done(x) == gpa_context_done(gpa_context_remove_cb(x, x.cbs))
=============================================================================
