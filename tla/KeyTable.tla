------------------------------ MODULE KeyTable ------------------------------
(***************************************************************************)
(* The key tables (src/src/keytable.c) and the widgets that list keys from *)
(* them (keylist.c, gpakeyselector.c).                                     *)
(*                                                                         *)
(* There are two tables, one of all keys and one of the secret keys.  Each *)
(* caches the keys of one asynchronous GPGME listing, done in two halves,  *)
(* OpenPGP first and X.509 second, and has one slot for who wants to know: *)
(* next is called for a key, end when the listing is complete, both with   *)
(* data.  Whoever asks next takes the slot over.                           *)
(*                                                                         *)
(* gpa_keytable_ensure and gpa_keylist_new_key wait for a listing in a     *)
(* nested main loop, in which GPGME's events and the user's requests go on *)
(* being served.  loops is the stack of these loops; a frame says what its *)
(* caller does when the loop returns.  GLib does not dispatch a source     *)
(* inside its own callback, so a table whose next callback waits gets no   *)
(* event of its listing meanwhile.                                         *)
(*                                                                         *)
(* The handlers are operators from one state g of the program to the next. *)
(* ok is the set of GPGME engines that can be started, with "no CMS" if the *)
(* one for X.509 is not installed.                                         *)
(***************************************************************************)
EXTENDS Naturals, Sequences, SequencesExt

CONSTANTS
  AllKeys,       \* the keys there may ever be
  FirstKeys,     \* the ones in the keyring when the program starts
  CmsKeys,       \* the X.509 ones
  SecretKeys,    \* the ones that come with their secret part
  KeyLists,      \* GpaKeyList widgets
  PublicOnly,    \* the ones made with the property public-only
  Selectors,     \* GpaKeySelector widgets
  SecretSelectors,
  None,
  MaxRequests,   \* bound: requests of the user and of other parts
  MaxFailures    \* bound: listings that fail

ASSUME KeyTableAssumption ==
  /\ FirstKeys \subseteq AllKeys /\ CmsKeys \subseteq AllKeys
  /\ SecretKeys \subseteq AllKeys
  /\ PublicOnly \subseteq KeyLists /\ SecretSelectors \subseteq Selectors
  /\ KeyLists \cap Selectors = {}
  /\ None \notin AllKeys \cup KeyLists \cup Selectors
  /\ MaxRequests \in Nat /\ MaxFailures \in Nat

VARIABLES
  keyring,       \* gpg's and gpgsm's keys
  gpa,           \* the memory of the program
  requests, failures

vars == <<keyring, gpa, requests, failures>>

Tables == {"public", "secret"}
Engines == {"OpenPGP", "CMS"}
Starts == {Engines, {"OpenPGP"}, {"OpenPGP", "no CMS"}, {"CMS"}}
Widgets == KeyLists \cup Selectors

TableType ==
  [next : BOOLEAN, data : Widgets \cup {None},
   end : {"none", "end", "gtk_main_quit", "g_application_quit"},
   did_first_half : BOOLEAN, first_half_err : BOOLEAN,
   fpr : AllKeys \cup {None}, keys : Seq(AllKeys), tmp_list : Seq(AllKeys),
   initialized : BOOLEAN, new_key : BOOLEAN]

\* What GPGME does for a table: asked is what the running or last listing was to
\* deliver, for is who was data of the table when it was started.
ListingType == [running : BOOLEAN, failed : BOOLEAN,
                for : Widgets \cup {None}, left : SUBSET AllKeys, asked : SUBSET AllKeys]

\* The caller of a nested loop: gpa_keylist_new_key for a list and a key;
\* or a lookup, of which a row of a list needs two.  A row is asked for by the
\* listing or by list_cache, which is at its at-th key.
FrameType ==
  [for : {"new_key", "lookup", "row", "cached_row"}, quit : BOOLEAN,
   list : KeyLists \cup {None}, key : AllKeys \cup {None},
   lookups : {0, 1, 2}, at : Nat]

\* waits: the list has its trust database dialog, the selector is insensitive.
WidgetType == [state : {"none", "init", "constructed", "closed"},
               waits : BOOLEAN, rows : SUBSET [key : AllKeys, secret : BOOLEAN]]

GpaType ==
  [tables : [Tables -> TableType], listing : [Tables -> ListingType],
   loops : Seq(FrameType), widgets : [Widgets -> WidgetType],
   cms_hack : BOOLEAN, undefined : BOOLEAN]

gpa_keytable_init ==
  [next |-> FALSE, data |-> None, end |-> "none",
   did_first_half |-> FALSE, first_half_err |-> FALSE, fpr |-> None,
   keys |-> <<>>, tmp_list |-> <<>>, initialized |-> FALSE, new_key |-> FALSE]

no_listing(w) == [running |-> FALSE, failed |-> FALSE, for |-> w, left |-> {}, asked |-> {}]

-----------------------------------------------------------------------------
(* GTK and GPGME *)

\* The innermost loop of gtk_main is to return; without one nothing happens.
gtk_main_quit(g) ==
  IF g.loops = <<>> THEN g ELSE [g EXCEPT !.loops[Len(g.loops)].quit = TRUE]

gtk_main(g, frame) == [g EXCEPT !.loops = Append(@, frame)]

\* The next callback of the public table waits in a nested loop: its GPGME
\* context has called it and has not got back control.
InCallback(g, t) ==
  t = "public" /\ \E i \in DOMAIN g.loops : g.loops[i].for = "row"

Listed(t, engine, fpr) ==
  {k \in keyring : /\ (k \in CmsKeys) <=> (engine = "CMS")
                   /\ t = "secret" => k \in SecretKeys
                   /\ fpr # None => k = fpr}

\* It drops the listing that runs in the context; to do so from a callback of
\* that listing is undefined.
gpgme_op_keylist_start(g, t, engine, fpr, ok) ==
  LET old == g.listing[t]
  IN [g EXCEPT
        !.listing[t] =
          IF engine \in ok
          THEN [old EXCEPT !.running = TRUE, !.left = Listed(t, engine, fpr),
                           !.asked = @ \cup Listed(t, engine, fpr)]
          ELSE [old EXCEPT !.running = FALSE, !.failed = TRUE, !.left = {}],
        !.undefined = @ \/ InCallback(g, t)]

-----------------------------------------------------------------------------
(* keytable.c: the listing *)

\* end of a list removes its dialog, end of a selector makes it sensitive.
\* g_application_quit is called for no application, and does nothing.
call_end(g, t) ==
  LET table == g.tables[t]
  IN CASE table.end \in {"none", "g_application_quit"} -> g
       [] table.end = "gtk_main_quit" -> gtk_main_quit(g)
       [] table.end = "end" /\ g.widgets[table.data].state = "closed" ->
            [g EXCEPT !.undefined = TRUE]
       [] OTHER -> [g EXCEPT !.widgets[table.data].waits = FALSE]

set_callbacks(g, t, next, end, data) ==
  [g EXCEPT !.tables[t].next = next, !.tables[t].end = end,
            !.tables[t].data = data]

\* Mutant: the keys listed so far are kept.
reload_cache_keeping(g, t, fpr, ok) ==
  gpgme_op_keylist_start(
    [g EXCEPT !.tables[t].did_first_half = FALSE,
              !.tables[t].first_half_err = FALSE, !.tables[t].fpr = fpr,
              !.listing[t] = no_listing(g.tables[t].data)], t, "OpenPGP", fpr, ok)

reload_cache(g, t, fpr, ok) ==
  LET started ==
        gpgme_op_keylist_start(
          [g EXCEPT !.tables[t].did_first_half = FALSE,
                    !.tables[t].first_half_err = FALSE, !.tables[t].fpr = fpr,
                    !.listing[t] = no_listing(g.tables[t].data)], t, "OpenPGP", fpr, ok)
  IN IF "OpenPGP" \in ok THEN [started EXCEPT !.tables[t].tmp_list = <<>>]
                         ELSE call_end(started, t)

\* Mutant: end is not called.
done_cb_without_end(g, t, err) ==
  IF err \/ g.tables[t].first_half_err THEN g
  ELSE [g EXCEPT !.tables[t].keys = g.tables[t].tmp_list,
                 !.tables[t].initialized = TRUE]

\* Replacing the keys frees the list that list_cache may be walking along.
done_cb(g, t, err) ==
  LET table == g.tables[t]
      walked == t = "public" /\ \E i \in DOMAIN g.loops :
                                  g.loops[i].for = "cached_row"
  IN IF err \/ table.first_half_err THEN g
     ELSE call_end(
            [g EXCEPT
               !.tables[t].keys = IF table.new_key THEN @ \o table.tmp_list
                                                   ELSE table.tmp_list,
               !.tables[t].initialized = TRUE,
               !.undefined = @ \/ (walked /\ ~table.new_key)], t)

\* Mutant: the error of the first half is forgotten.
first_half_done_forgetting(g, t, err, ok) ==
  IF g.tables[t].did_first_half \/ ~g.cms_hack
  THEN done_cb([g EXCEPT !.tables[t].fpr = None], t, err)
  ELSE gpgme_op_keylist_start(
         [g EXCEPT !.tables[t].did_first_half = TRUE], t, "CMS",
         g.tables[t].fpr, ok)

\* Either half is done.  Without the CMS engine X.509 is disabled.
first_half_done_cb(g, t, err, ok) ==
  IF g.tables[t].did_first_half \/ ~g.cms_hack
  THEN done_cb([g EXCEPT !.tables[t].fpr = None], t, err)
  ELSE LET started ==
             gpgme_op_keylist_start(
               [g EXCEPT !.tables[t].first_half_err = err,
                         !.tables[t].did_first_half = TRUE,
                         !.tables[t].fpr = None],
               t, "CMS", g.tables[t].fpr, ok)
       IN IF "CMS" \in ok THEN started
          ELSE call_end([started EXCEPT !.cms_hack = "no CMS" \notin ok], t)

-----------------------------------------------------------------------------
(* keytable.c: the functions that wait *)

IsCached(g, t, k) == Contains(g.tables[t].keys, k)

\* gpa_keytable_ensure, of the secret table, up to gtk_main: frame says what its
\* caller does afterwards.
ensure_begins(g, frame, ok) ==
  gtk_main(
    reload_cache([g EXCEPT !.tables["secret"].end = "gtk_main_quit"],
                 "secret", None, ok), frame)

\* Mutant: end is left set.
ensure_returns_set(g) == g

ensure_returns(g) == [g EXCEPT !.tables["secret"].end = "none"]

-----------------------------------------------------------------------------
(* keylist.c and gpakeyselector.c: the rows *)

\* A list gets its properties only after gpa_keylist_init has returned.  Until
\* then public_only is FALSE, and protocol is OpenPGP.  Keys a list is told not
\* to show (protocol, requested_usage, only_usable_keys) are left out: once it has
\* its properties, a list here wants every key.
ShowsSecret(g, w) ==
  ~(w \in PublicOnly /\ g.widgets[w].state = "constructed")

\* Mutant: the protocol stays OpenPGP.
passes_in_openpgp(g, w, k) == k \notin CmsKeys

PassesTheFilter(g, w, k) ==
  g.widgets[w].state = "constructed" \/ k \notin CmsKeys

add_rows(g, w, ks) ==
  [g EXCEPT !.widgets[w].rows =
     @ \cup {[key |-> k,
              secret |-> /\ w \in KeyLists /\ ShowsSecret(g, w)
                         /\ IsCached(g, "secret", k)] : k \in ks}]

\* gpa_keylist_next has to know whether k is secret, twice: for the row and for
\* its icon.  for says who called it.
row_lookup(g, w, k, for, at, lookups, ok) ==
  ensure_begins(g, [for |-> for, quit |-> FALSE, list |-> w, key |-> k,
                    lookups |-> lookups, at |-> at], ok)

\* Mutant: the cached secret keys are taken as they are.
needs_no_lookup(g, w) == FALSE

NeedsALookup(g, w) ==
  w \in KeyLists /\ ShowsSecret(g, w) /\ ~g.tables["secret"].initialized

remove_trustdb_dialog(g, w) ==
  IF w \in KeyLists THEN [g EXCEPT !.widgets[w].waits = FALSE] ELSE g

\* One key of the listing of table t comes to its next callback.
call_next(g, t, k, ok) ==
  LET w == g.tables[t].data
      h == remove_trustdb_dialog(g, w)
  IN IF ~g.tables[t].next THEN g
     ELSE IF g.widgets[w].state = "closed" THEN [g EXCEPT !.undefined = TRUE]
     ELSE IF w \in KeyLists /\ ~PassesTheFilter(g, w, k) THEN h
     ELSE IF NeedsALookup(g, w) THEN row_lookup(h, w, k, "row", 0, 1, ok)
     ELSE add_rows(h, w, {k})

\* list_cache, of the public table, from its at-th key on: the whole rest, or
\* up to the first row that has to wait.
list_cache(g, at, ok) ==
  LET table == g.tables["public"]
      w == table.data
      rest == {i \in at..Len(table.keys) :
                 w \in KeyLists => PassesTheFilter(g, w, table.keys[i])}
      first == CHOOSE i \in rest : \A j \in rest : i <= j
      h == remove_trustdb_dialog(g, w)
  IN IF g.widgets[w].state = "closed" THEN [g EXCEPT !.undefined = TRUE]
     ELSE IF rest # {} /\ NeedsALookup(g, w)
     THEN row_lookup(h, w, table.keys[first], "cached_row", first, 1, ok)
     ELSE call_end(add_rows(h, w, {table.keys[i] : i \in rest}), "public")

gpa_keytable_list_keys(g, w, ok) ==
  LET h == set_callbacks(g, "public", TRUE, "end", w)
  IN IF h.tables["public"].keys # <<>> THEN list_cache(h, 1, ok)
                                       ELSE reload_cache(h, "public", None, ok)

gpa_keytable_force_reload(g, t, next, end, w, ok) ==
  reload_cache(set_callbacks(g, t, next, end, w), t, None, ok)

gpa_keytable_load_new(g, t, fpr, next, end, w, ok) ==
  reload_cache([set_callbacks(g, t, next, end, w)
                  EXCEPT !.tables[t].new_key = TRUE], t, fpr, ok)

-----------------------------------------------------------------------------
(* keylist.c: the requests *)

add_trustdb_dialog(g, w) == [g EXCEPT !.widgets[w].waits = TRUE]

\* What gpa_keylist_new does when gpa_keylist_init has come to its end, that is
\* unless list_cache has entered a nested loop.
constructed(g, w, depth) ==
  IF Len(g.loops) > depth THEN g
  ELSE [g EXCEPT !.widgets[w].state = "constructed"]

gpa_keylist_init(g, w, ok) ==
  LET h == add_trustdb_dialog([g EXCEPT !.widgets[w].state = "init"], w)
      i == gpa_keytable_force_reload(h, "secret", FALSE, "g_application_quit",
                                     None, ok)
  IN constructed(gpa_keytable_list_keys(i, w, ok), w, Len(i.loops))

gpa_keylist_start_reload(g, w, ok) ==
  gpa_keytable_force_reload(
    add_trustdb_dialog([g EXCEPT !.widgets[w].rows = {}], w),
    "public", TRUE, "end", w, ok)

gpa_keylist_imported_secret_key(g, ok) ==
  gpa_keytable_load_new(g, "secret", None, FALSE, "g_application_quit", None, ok)

gpa_keylist_new_key(g, w, k, ok) ==
  gtk_main(
    gpa_keytable_load_new(add_trustdb_dialog(g, w), "secret", k, FALSE,
                          "g_application_quit", None, ok),
    [for |-> "new_key", quit |-> FALSE, list |-> w, key |-> k,
     lookups |-> 0, at |-> 0])

\* What follows gtk_main in gpa_keylist_new_key.
gpa_keylist_new_key_goes_on(g, w, k, ok) ==
  gpa_keytable_load_new(add_trustdb_dialog(g, w), "public", k, TRUE, "end", w, ok)

gpa_key_selector_new(g, w, ok) ==
  LET h == [g EXCEPT !.widgets[w].state = "constructed",
                     !.widgets[w].waits = TRUE]
  IN IF w \in SecretSelectors
     THEN gpa_keytable_force_reload(h, "secret", TRUE, "end", w, ok)
     ELSE gpa_keytable_list_keys(h, w, ok)

\* A lookup in the secret table, say to enable a button for the selected key.
gpa_keytable_lookup_key(g, ok) ==
  IF g.tables["secret"].initialized THEN g
  ELSE ensure_begins(g, [for |-> "lookup", quit |-> FALSE, list |-> None,
                         key |-> None, lookups |-> 1, at |-> 0], ok)

\* The second lookup of a row, and the row.
row_goes_on(g, frame, ok) ==
  LET w == frame.list
      row == add_rows(g, w, {frame.key})
  IN IF frame.lookups = 1 /\ ~g.tables["secret"].initialized
     THEN row_lookup(g, w, frame.key, frame.for, frame.at, 2, ok)
     ELSE IF frame.for = "row" THEN row
     ELSE constructed(list_cache(row, frame.at + 1, ok), w, Len(g.loops))

\* The innermost nested loop returns to its caller, which may have lost its
\* list meanwhile.
loop_returns(g, ok) ==
  LET frame == Last(g.loops)
      popped == [g EXCEPT !.loops = Front(@)]
      h == IF frame.for = "new_key" THEN popped ELSE ensure_returns(popped)
  IN IF frame.list # None /\ g.widgets[frame.list].state = "closed"
     THEN [h EXCEPT !.undefined = TRUE]
     ELSE CASE frame.for = "new_key" ->
                 gpa_keylist_new_key_goes_on(h, frame.list, frame.key, ok)
            [] frame.for = "lookup" -> h
            [] OTHER -> row_goes_on(h, frame, ok)

-----------------------------------------------------------------------------
(* Actions *)

Init ==
  /\ keyring = FirstKeys
  /\ gpa = [tables |-> [t \in Tables |-> gpa_keytable_init],
            listing |-> [t \in Tables |-> no_listing(None)],
            loops |-> <<>>,
            widgets |-> [w \in Widgets |-> [state |-> "none", waits |-> FALSE,
                                            rows |-> {}]],
            cms_hack |-> TRUE, undefined |-> FALSE]
  /\ requests = 0
  /\ failures = 0

Returning == gpa.loops # <<>> /\ Last(gpa.loops).quit

\* The main loop dispatches the next event.
Dispatching == ~gpa.undefined /\ ~Returning

\* handler is run, with some engine that does not start or with all of them.
Runs(handler(_)) ==
  \E ok \in Starts :
    /\ failures' = IF ok = Engines THEN failures ELSE failures + 1
    /\ failures' <= MaxFailures
    /\ gpa' = handler(ok)

Requested(handler(_)) ==
  /\ Dispatching
  /\ requests < MaxRequests
  /\ requests' = requests + 1
  /\ Runs(handler)

Managers == {w \in KeyLists \ PublicOnly : gpa.widgets[w].state = "constructed"}

open_list(w) ==
  /\ gpa.widgets[w].state = "none"
  /\ Requested(LAMBDA ok : gpa_keylist_init(gpa, w, ok))
  /\ UNCHANGED keyring

open_selector(w) ==
  /\ gpa.widgets[w].state = "none"
  /\ Requested(LAMBDA ok : gpa_key_selector_new(gpa, w, ok))
  /\ UNCHANGED keyring

\* The window of the widget is destroyed, which the tables are not told.
close(w) ==
  /\ Dispatching
  /\ gpa.widgets[w].state = "constructed"
  /\ gpa' = [gpa EXCEPT !.widgets[w].state = "closed",
                        !.widgets[w].rows = {}, !.widgets[w].waits = FALSE]
  /\ UNCHANGED <<keyring, requests, failures>>

\* gpa_key_manager_changed_wot_cb, also for a key k that was imported.
changed_wot(w, ks) ==
  /\ w \in Managers
  /\ keyring' = keyring \cup ks
  /\ Requested(LAMBDA ok : gpa_keylist_start_reload(gpa, w, ok))

\* gpa_key_manager_changed_wot_secret_cb, and key_manager_refresh.
changed_wot_secret(w, ks) ==
  /\ w \in Managers
  /\ keyring' = keyring \cup ks
  /\ Requested(LAMBDA ok : gpa_keylist_start_reload(
                             gpa_keylist_imported_secret_key(gpa, ok), w, ok))

gpa_key_manager_new_key_cb(w, k) ==
  /\ w \in Managers
  /\ k \in SecretKeys \ keyring
  /\ keyring' = keyring \cup {k}
  /\ Requested(LAMBDA ok : gpa_keylist_new_key(gpa, w, k, ok))

lookup ==
  /\ Requested(LAMBDA ok : gpa_keytable_lookup_key(gpa, ok))
  /\ UNCHANGED keyring

\* GPGME reports a key of the listing of t.
next_key_cb(t, k) ==
  /\ Dispatching
  /\ ~InCallback(gpa, t)
  /\ k \in gpa.listing[t].left
  /\ Runs(LAMBDA ok :
            call_next([gpa EXCEPT !.listing[t].left = @ \ {k},
                                  !.tables[t].tmp_list = Append(@, k)], t, k, ok))
  /\ UNCHANGED <<keyring, requests>>

done(t) ==
  /\ Dispatching
  /\ ~InCallback(gpa, t)
  /\ gpa.listing[t].running
  /\ gpa.listing[t].left = {}
  /\ Runs(LAMBDA ok : first_half_done_cb(
                        [gpa EXCEPT !.listing[t].running = FALSE], t, FALSE, ok))
  /\ UNCHANGED <<keyring, requests>>

done_with_error(t) ==
  /\ Dispatching
  /\ ~InCallback(gpa, t)
  /\ gpa.listing[t].running
  /\ failures < MaxFailures
  /\ failures' = failures + 1
  /\ gpa' = first_half_done_cb(
              [gpa EXCEPT !.listing[t].running = FALSE, !.listing[t].left = {},
                          !.listing[t].failed = TRUE], t, TRUE, Engines)
  /\ UNCHANGED <<keyring, requests>>

return ==
  /\ ~gpa.undefined
  /\ Returning
  /\ Runs(LAMBDA ok : loop_returns(gpa, ok))
  /\ UNCHANGED <<keyring, requests>>

Imported == {{}} \cup {{k} : k \in AllKeys \ keyring}

Next ==
  \/ \E w \in KeyLists : open_list(w)
  \/ \E w \in Selectors : open_selector(w)
  \/ \E w \in Widgets : close(w)
  \/ \E w \in KeyLists, ks \in Imported : changed_wot(w, ks)
  \/ \E w \in KeyLists, ks \in Imported : changed_wot_secret(w, ks)
  \/ \E w \in KeyLists, k \in AllKeys : gpa_key_manager_new_key_cb(w, k)
  \/ lookup
  \/ \E t \in Tables, k \in AllKeys : next_key_cb(t, k)
  \/ \E t \in Tables : done(t)
  \/ \E t \in Tables : done_with_error(t)
  \/ return

Spec == Init /\ [][Next]_vars

\* gpg and gpgsm get on with their listings, and a loop that was quit returns.
Fairness ==
  /\ \A t \in Tables : WF_vars(\E k \in AllKeys : next_key_cb(t, k))
  /\ \A t \in Tables : WF_vars(done(t))
  /\ WF_vars(return)

FairSpec == Spec /\ Fairness

-----------------------------------------------------------------------------
(* Correctness *)

\* Every variable keeps its type.
TypeOK ==
  /\ keyring \subseteq AllKeys
  /\ gpa.tables \in [Tables -> TableType]
  /\ gpa.listing \in [Tables -> ListingType]
  /\ gpa.loops \in Seq(FrameType)
  /\ gpa.widgets \in [Widgets -> WidgetType]
  /\ gpa.cms_hack \in BOOLEAN /\ gpa.undefined \in BOOLEAN
  /\ requests \in 0..MaxRequests /\ failures \in 0..MaxFailures

\* tmp_list never holds a key twice: nothing of a listing that another request
\* cut off gets into the listing that replaces it.  TypeOK is a part of it.
NoListingIsMixed ==
  /\ TypeOK
  /\ \A t \in Tables : IsInjective(gpa.tables[t].tmp_list)

\* A cache changes only to hold all the keys the listing was asked for: a
\* listing of which either half failed, or that was cut off, changes nothing.
CacheHoldsWhatWasAsked ==
  [][\A t \in Tables :
       gpa'.tables[t].keys # gpa.tables[t].keys =>
         gpa'.listing[t].asked \subseteq ToSet(gpa'.tables[t].keys)]_vars

\* While end of the secret table would quit a main loop, the innermost one is
\* of a caller of gpa_keytable_ensure: a listing that ends quits a loop that
\* waits for listings of this table.  Without a failure no other loop is ever
\* told to return, and none before the loops inside it.  A listing that cannot
\* be started is an exception in the code: reload_cache calls end at once, and
\* gpa_keytable_ensure has set it but has not yet entered its loop, so that
\* whichever loop is innermost then is quit, and its own never.
QuitIsForEnsure ==
  LET loops == gpa.loops
  IN /\ gpa.tables["secret"].end = "gtk_main_quit" =>
          loops # <<>> /\ Last(loops).for # "new_key"
     /\ failures = 0 =>
          \A i \in DOMAIN loops :
            loops[i].quit => i = Len(loops) /\ loops[i].for # "new_key"

\* A list with rows was filled with the secret keys at hand, unless a listing
\* failed.
SecretKeysComeFirst ==
  failures = 0 =>
    \A w \in Managers : gpa.widgets[w].rows # {} => gpa.tables["secret"].initialized

\* When the listing that a list asked for is through, and nobody has taken the
\* slot of the table over, the list shows every key the listing was asked for.
ListShowsItsListing ==
  LET listing == gpa.listing["public"]
      w == listing.for
  IN /\ ~gpa.undefined
     /\ ~listing.running /\ ~listing.failed /\ ~InCallback(gpa, "public")
     /\ w \in KeyLists /\ w = gpa.tables["public"].data
     /\ gpa.widgets[w].state = "constructed"
     => listing.asked \subseteq {r.key : r \in gpa.widgets[w].rows}

\* The list that is opened first, with nothing else going on and no failure,
\* gets all the keys: the loops its rows start are left again.
FirstListIsFilled ==
  \A w \in KeyLists :
    (gpa.widgets[w].state # "none" /\ requests = 1) ~>
      \/ FirstKeys \subseteq {r.key : r \in gpa.widgets[w].rows}
      \/ gpa.widgets[w].state = "closed" \/ requests > 1 \/ failures > 0

=============================================================================
