--------------------------- MODULE KeyTableProofs ---------------------------
(***************************************************************************)
(* What the key tables promise the widgets that list keys, for any keys,   *)
(* any widgets, any number of requests and any failing engines.            *)
(*                                                                         *)
(* The inductive invariant says of the memory g of the program             *)
(*   - who is registered in a slot, and whose row waits in a nested loop,  *)
(*     is there (SlotsFit);                                                *)
(*   - what a listing has delivered and what it still has to deliver are   *)
(*     apart, and together are what was asked for (ListingFits);           *)
(*   - end quits a loop only while gpa_keytable_ensure waits in the        *)
(*     innermost one (QuitFits);                                           *)
(*   - without a failure, a loop is quit only when the secret keys have    *)
(*     arrived, and it is the innermost one and an ensure's (Settled);     *)
(*   - a key that the list asked for is either still to come, or waits for *)
(*     a lookup in a nested loop, or is a row (RowsFit).                   *)
(***************************************************************************)
EXTENDS KeyTable, WellFoundedInduction, TLAPS

SlotsFit(g) ==
  /\ g \in GpaType
  /\ \A t \in Tables : g.tables[t].next \/ g.tables[t].end = "end" =>
                         g.tables[t].data \in Widgets
  /\ g.tables["public"].end \in {"none", "end"}
  /\ \A i \in DOMAIN g.loops :
       /\ g.loops[i].for # "lookup" =>
            g.loops[i].list \in KeyLists /\ g.loops[i].key \in AllKeys
       /\ g.loops[i].for = "lookup" => g.loops[i].list = None
       /\ g.loops[i].for = "cached_row" => g.tables["public"].next

Delivered(g, t) == ToSet(g.tables[t].tmp_list)

ListingFits(g, t) ==
  LET table == g.tables[t]
      listing == g.listing[t]
  IN /\ IsInjective(table.tmp_list)
     /\ Delivered(g, t) \cap listing.left = {}
     /\ ~listing.running => listing.left = {}
     /\ listing.running /\ ~table.did_first_half =>
          /\ ~table.first_half_err
          /\ (Delivered(g, t) \cup listing.left) \cap CmsKeys = {}
     /\ listing.running /\ ~table.first_half_err =>
          listing.asked \subseteq Delivered(g, t) \cup listing.left

QuitFits(g) ==
  g.tables["secret"].end = "gtk_main_quit" =>
    g.loops # <<>> /\ g.loops[Len(g.loops)].for # "new_key"

NoRowsYet(g) ==
  ~g.tables["secret"].initialized =>
    \A w \in KeyLists \ PublicOnly : g.widgets[w].rows = {}

\* While a handler is at work that was dispatched without a failure.
SecretsFit(g) ==
  /\ \A i \in DOMAIN g.loops : ~g.loops[i].quit
  /\ NoRowsYet(g)

\* When it is done.
Settled(g) ==
  /\ \A i \in DOMAIN g.loops : g.loops[i].quit =>
       /\ i = Len(g.loops) /\ g.loops[i].for # "new_key"
       /\ g.tables["secret"].initialized
  /\ NoRowsYet(g)

ThereFor(g, w) == g.widgets[w].state \in {"constructed", "closed"}

\* The keys of the listing for which a row of the list w waits in a nested loop.
Waiting(g, w) ==
  {k \in AllKeys : \E i \in DOMAIN g.loops :
     g.loops[i].for = "row" /\ g.loops[i].list = w /\ g.loops[i].key = k}

Shown(g, w) == {r.key : r \in g.widgets[w].rows}

\* The listing of the public table is at work for the list w.
Serves(g, w) ==
  /\ g.listing["public"].for = w /\ g.tables["public"].data = w
  /\ g.widgets[w].state # "closed"
  /\ ~g.undefined /\ ~g.listing["public"].failed

NewKeysFit(g) ==
  \A i \in DOMAIN g.loops :
    g.loops[i].for = "new_key" => ThereFor(g, g.loops[i].list)

\* new is the list that gpa_keylist_init is at work on, if any.
RowsFit(g, new) ==
  /\ NewKeysFit(g)
  /\ \A w \in KeyLists \ {new} : g.listing["public"].for = w => ThereFor(g, w)
  /\ \A w \in KeyLists : Serves(g, w) =>
       /\ g.tables["public"].next
       /\ g.listing["public"].asked \subseteq
            g.listing["public"].left \cup Waiting(g, w) \cup Shown(g, w)

SlotsAndListingsFit(g) ==
  /\ SlotsFit(g)
  /\ \A t \in Tables : ListingFits(g, t)
  /\ QuitFits(g)

Fits(g, new) == SlotsAndListingsFit(g) /\ RowsFit(g, new)

IInv ==
  /\ keyring \subseteq AllKeys
  /\ requests \in 0..MaxRequests
  /\ failures \in 0..MaxFailures
  /\ Fits(gpa, None)
  /\ failures = 0 => Settled(gpa)

-----------------------------------------------------------------------------
(* GTK and GPGME.  From g to h, loops are only told to quit.               *)

SameFrame(f, e) == f.for = e.for /\ f.list = e.list /\ f.key = e.key

SameLoops(g, h) ==
  /\ Len(h.loops) = Len(g.loops)
  /\ DOMAIN h.loops = DOMAIN g.loops
  /\ \A i \in DOMAIN g.loops : SameFrame(h.loops[i], g.loops[i])

\* From g to h, no loop but the innermost is told to quit.
OnlyTheInnermost(g, h) ==
  \A i \in DOMAIN h.loops : h.loops[i].quit =>
    i = Len(h.loops) \/ (i \in DOMAIN g.loops /\ g.loops[i].quit)

\* From g to h, the rows are kept.
SameRows(g, h) ==
  \A w \in Widgets : /\ h.widgets[w].state = g.widgets[w].state
                     /\ h.widgets[w].rows = g.widgets[w].rows

LEMMA GtkMainQuit ==
  ASSUME NEW g \in GpaType
  PROVE  LET h == gtk_main_quit(g) IN
         /\ h \in GpaType
         /\ h.tables = g.tables /\ h.listing = g.listing /\ h.widgets = g.widgets
         /\ h.undefined = g.undefined
         /\ SameLoops(g, h) /\ OnlyTheInnermost(g, h)
<1> DEFINE n == Len(g.loops)
           f == [g.loops[n] EXCEPT !.quit = TRUE]
           h == [g EXCEPT !.loops[n].quit = TRUE]
<1>1. CASE g.loops = <<>>
  BY <1>1 DEF gtk_main_quit, SameLoops, SameFrame, OnlyTheInnermost, GpaType
<1>2. CASE g.loops # <<>>
  <2>1. /\ g.loops \in Seq(FrameType) /\ n \in 1 .. n /\ n \in Nat
        /\ DOMAIN g.loops = 1 .. n
    BY <1>2 DEF GpaType
  <2>2. g.loops[n] \in FrameType
    BY <2>1
  <2>3. f \in FrameType /\ SameFrame(f, g.loops[n])
    BY <2>2 DEF FrameType, SameFrame
  <2>4. h = [g EXCEPT !.loops = [g.loops EXCEPT ![n] = f]]
    OBVIOUS
  <2>5. [g.loops EXCEPT ![n] = f] \in Seq(FrameType)
    BY <2>1, <2>3
  <2>6. h \in GpaType
    BY <2>4, <2>5 DEF GpaType
  <2>7. h.loops = [g.loops EXCEPT ![n] = f]
    BY <2>4 DEF GpaType
  <2>8. SameLoops(g, h)
    BY <2>1, <2>3, <2>5, <2>7 DEF SameLoops, SameFrame
  <2>9. h.tables = g.tables /\ h.listing = g.listing /\ h.widgets = g.widgets
        /\ h.undefined = g.undefined
    BY <2>4 DEF GpaType
  <2>10. OnlyTheInnermost(g, h)
    BY <2>1, <2>5, <2>7 DEF OnlyTheInnermost
  <2> QED
    BY <1>2, <2>6, <2>8, <2>9, <2>10 DEF gtk_main_quit
<1> QED
  BY <1>1, <1>2

EndFits(g, t) == g.tables[t].end = "end" => g.tables[t].data \in Widgets

LEMMA WidgetUpdate ==
  ASSUME NEW g \in GpaType, NEW w \in Widgets, NEW v \in WidgetType
  PROVE  LET h == [g EXCEPT !.widgets[w] = v] IN
         /\ h \in GpaType
         /\ h.tables = g.tables /\ h.listing = g.listing /\ h.loops = g.loops
         /\ h.cms_hack = g.cms_hack /\ h.undefined = g.undefined
         /\ h.widgets[w] = v
         /\ \A u \in Widgets \ {w} : h.widgets[u] = g.widgets[u]
BY DEF GpaType

LEMMA TableUpdate ==
  ASSUME NEW g \in GpaType, NEW t \in Tables, NEW v \in TableType
  PROVE  LET h == [g EXCEPT !.tables[t] = v] IN
         /\ h \in GpaType
         /\ h.widgets = g.widgets /\ h.listing = g.listing /\ h.loops = g.loops
         /\ h.cms_hack = g.cms_hack /\ h.undefined = g.undefined
         /\ h.tables[t] = v
         /\ \A u \in Tables \ {t} : h.tables[u] = g.tables[u]
BY DEF GpaType

LEMMA Undefined ==
  ASSUME NEW g \in GpaType
  PROVE  LET h == [g EXCEPT !.undefined = TRUE] IN
         /\ h \in GpaType
         /\ h.tables = g.tables /\ h.widgets = g.widgets
         /\ h.listing = g.listing /\ h.loops = g.loops
         /\ h.cms_hack = g.cms_hack /\ h.undefined
BY DEF GpaType

LEMMA CallEnd ==
  ASSUME NEW g \in GpaType, NEW t \in Tables, EndFits(g, t)
  PROVE  LET h == call_end(g, t) IN
         /\ h \in GpaType
         /\ h.tables = g.tables /\ h.listing = g.listing
         /\ SameLoops(g, h) /\ SameRows(g, h) /\ OnlyTheInnermost(g, h)
         /\ g.undefined => h.undefined
         /\ g.tables[t].end # "gtk_main_quit" => h.loops = g.loops
<1> DEFINE table == g.tables[t]
           h == call_end(g, t)
<1>1. /\ table \in TableType
      /\ table.end \in {"none", "end", "gtk_main_quit", "g_application_quit"}
  BY DEF GpaType, TableType
<1>2. SameLoops(g, g) /\ SameRows(g, g) /\ OnlyTheInnermost(g, g)
  BY DEF SameLoops, SameFrame, SameRows, OnlyTheInnermost
<1>3. CASE table.end \in {"none", "g_application_quit"}
  BY <1>2, <1>3 DEF call_end
<1>4. CASE table.end = "gtk_main_quit"
  <2>1. h = gtk_main_quit(g)
    BY <1>4 DEF call_end
  <2> QED
    BY <1>4, <2>1, GtkMainQuit DEF SameRows
<1>5. CASE table.end = "end" /\ g.widgets[table.data].state = "closed"
  <2>1. h = [g EXCEPT !.undefined = TRUE]
    BY <1>5 DEF call_end
  <2> QED
    BY <1>5, <2>1, Undefined DEF SameRows, SameLoops, SameFrame, OnlyTheInnermost
<1>6. CASE table.end = "end" /\ g.widgets[table.data].state # "closed"
  <2> DEFINE w == table.data
             v == [g.widgets[w] EXCEPT !.waits = FALSE]
  <2>1. h = [g EXCEPT !.widgets[w] = v]
    BY <1>6 DEF call_end
  <2>2. w \in Widgets /\ g.widgets[w] \in WidgetType
    BY <1>6 DEF EndFits, GpaType
  <2>3. v \in WidgetType /\ v.state = g.widgets[w].state /\ v.rows = g.widgets[w].rows
    BY <2>2 DEF WidgetType
  <2> HIDE DEF v, w, h
  <2>4. /\ h \in GpaType
        /\ h.tables = g.tables /\ h.listing = g.listing /\ h.loops = g.loops
        /\ h.undefined = g.undefined
        /\ h.widgets[w] = v
        /\ \A u \in Widgets \ {w} : h.widgets[u] = g.widgets[u]
    BY <2>1, <2>2, <2>3, WidgetUpdate
  <2>5. SameRows(g, h)
    BY <2>3, <2>4 DEF SameRows
  <2>6. SameLoops(g, h) /\ OnlyTheInnermost(g, h)
    BY <2>4 DEF SameLoops, SameFrame, OnlyTheInnermost
  <2> QED
    BY <2>4, <2>5, <2>6 DEF h
<1> QED
  BY <1>1, <1>3, <1>4, <1>5, <1>6

LEMMA ListedKeys ==
  ASSUME keyring \subseteq AllKeys, NEW t, NEW engine, NEW fpr
  PROVE  /\ Listed(t, engine, fpr) \subseteq AllKeys
         /\ engine = "OpenPGP" => Listed(t, engine, fpr) \cap CmsKeys = {}
         /\ engine = "CMS" => Listed(t, engine, fpr) \subseteq CmsKeys
BY DEF Listed

\* A listing is started.
LEMMA Start ==
  ASSUME keyring \subseteq AllKeys, NEW g \in GpaType, NEW t \in Tables,
         NEW engine \in Engines, NEW fpr, NEW ok
  PROVE  LET h == gpgme_op_keylist_start(g, t, engine, fpr, ok)
             ks == Listed(t, engine, fpr)
             old == g.listing[t]
             new == h.listing[t]
         IN
         /\ h \in GpaType
         /\ h.tables = g.tables /\ h.widgets = g.widgets /\ h.loops = g.loops
         /\ h.cms_hack = g.cms_hack
         /\ \A u \in Tables \ {t} : h.listing[u] = g.listing[u]
         /\ new.for = old.for
         /\ engine \in ok => /\ new.running /\ new.left = ks
                             /\ new.asked = old.asked \cup ks
                             /\ new.failed = old.failed
         /\ engine \notin ok => ~new.running /\ new.left = {} /\ new.failed
         /\ g.undefined \/ InCallback(g, t) => h.undefined
<1> DEFINE old == g.listing[t]
           ks == Listed(t, engine, fpr)
           new == IF engine \in ok
                  THEN [old EXCEPT !.running = TRUE, !.left = ks, !.asked = @ \cup ks]
                  ELSE [old EXCEPT !.running = FALSE, !.failed = TRUE, !.left = {}]
           late == g.undefined \/ InCallback(g, t)
           h == [g EXCEPT !.listing[t] = new, !.undefined = late]
<1>1. old \in ListingType /\ ks \subseteq AllKeys
  BY ListedKeys DEF GpaType
<1>2. /\ new \in ListingType /\ new.for = old.for
      /\ engine \in ok => /\ new.running /\ new.left = ks
                          /\ new.asked = old.asked \cup ks
                          /\ new.failed = old.failed
      /\ engine \notin ok => ~new.running /\ new.left = {} /\ new.failed
  BY <1>1 DEF ListingType
<1>3. gpgme_op_keylist_start(g, t, engine, fpr, ok) = h
  BY DEF gpgme_op_keylist_start
<1>4. late \in BOOLEAN
  BY DEF GpaType, InCallback
<1> HIDE DEF new, late
<1>5. /\ h \in GpaType
      /\ h.tables = g.tables /\ h.widgets = g.widgets /\ h.loops = g.loops
      /\ h.cms_hack = g.cms_hack
      /\ h.listing[t] = new /\ h.undefined = late
      /\ \A u \in Tables \ {t} : h.listing[u] = g.listing[u]
  BY <1>2, <1>4 DEF GpaType
<1>6. late <=> g.undefined \/ InCallback(g, t)
  BY DEF late
<1> QED
  BY <1>2, <1>3, <1>5, <1>6

\* The slot of a table, and its keys.
SameSlot(g, h, t) ==
  /\ h.tables[t].next = g.tables[t].next /\ h.tables[t].data = g.tables[t].data
  /\ h.tables[t].end = g.tables[t].end
SameKeys(g, h, t) ==
  /\ h.tables[t].keys = g.tables[t].keys
  /\ h.tables[t].initialized = g.tables[t].initialized

SameTable(g, h, t) == h.tables[t] = g.tables[t] /\ h.listing[t] = g.listing[t]

\* A new listing of t is at work for its data, or could not be started.
Restarted(g, h, t) ==
  /\ h.listing[t].for = g.tables[t].data
  /\ h.listing[t].failed \/ h.listing[t].asked \subseteq h.listing[t].left
  /\ g.undefined \/ InCallback(g, t) => h.undefined

LEMMA EmptyFits ==
  ASSUME NEW g, NEW t, g.tables[t].tmp_list = <<>>
  PROVE  Delivered(g, t) = {} /\ IsInjective(g.tables[t].tmp_list)
BY DEF Delivered, ToSet, IsInjective

LEMMA ReloadCache ==
  ASSUME keyring \subseteq AllKeys, NEW g \in GpaType, NEW t \in Tables,
         NEW fpr \in AllKeys \cup {None}, NEW ok, EndFits(g, t),
         IsInjective(g.tables[t].tmp_list)
  PROVE  LET h == reload_cache(g, t, fpr, ok) IN
         /\ h \in GpaType
         /\ SameSlot(g, h, t) /\ SameKeys(g, h, t)
         /\ \A u \in Tables \ {t} : SameTable(g, h, u)
         /\ SameLoops(g, h) /\ SameRows(g, h)
         /\ Restarted(g, h, t)
         /\ ListingFits(h, t)
         /\ "OpenPGP" \in ok \/ g.tables[t].end # "gtk_main_quit" => h.loops = g.loops
<1> DEFINE old == g.tables[t]
           v == [old EXCEPT !.did_first_half = FALSE, !.first_half_err = FALSE,
                            !.fpr = fpr]
           fresh == no_listing(old.data)
           a == [g EXCEPT !.tables[t].did_first_half = FALSE,
                          !.tables[t].first_half_err = FALSE, !.tables[t].fpr = fpr,
                          !.listing[t] = fresh]
           b == gpgme_op_keylist_start(a, t, "OpenPGP", fpr, ok)
           c == [b EXCEPT !.tables[t].tmp_list = <<>>]
           h == reload_cache(g, t, fpr, ok)
           ks == Listed(t, "OpenPGP", fpr)
<1>1. /\ old \in TableType /\ g.tables \in [Tables -> TableType]
      /\ g.listing \in [Tables -> ListingType]
  BY DEF GpaType
<1>2. /\ v \in TableType
      /\ v.next = old.next /\ v.data = old.data /\ v.end = old.end
      /\ v.keys = old.keys /\ v.initialized = old.initialized
      /\ v.tmp_list = old.tmp_list
      /\ ~v.did_first_half /\ ~v.first_half_err
  BY <1>1 DEF TableType
<1>3. fresh \in ListingType /\ fresh.for = old.data /\ fresh.asked = {} /\ ~fresh.failed
  BY <1>1 DEF no_listing, ListingType, TableType
<1>4. a = [g EXCEPT !.tables[t] = v, !.listing[t] = fresh]
  BY <1>1 DEF GpaType, TableType
<1>5. /\ a \in GpaType /\ a.tables[t] = v /\ a.listing[t] = fresh
      /\ a.loops = g.loops /\ a.widgets = g.widgets /\ a.undefined = g.undefined
      /\ \A u \in Tables \ {t} : SameTable(g, a, u)
  <2> HIDE DEF v, fresh, a
  <2> QED
    BY <1>2, <1>3, <1>4 DEF GpaType, SameTable
<1>6. InCallback(a, t) <=> InCallback(g, t)
  BY <1>5 DEF InCallback
<1>7. h = IF "OpenPGP" \in ok THEN c ELSE call_end(b, t)
  BY DEF reload_cache
<1> HIDE DEF v, fresh, a, h
<1>8. /\ b \in GpaType /\ b.tables = a.tables
      /\ b.loops = g.loops /\ b.widgets = g.widgets
      /\ \A u \in Tables \ {t} : b.listing[u] = a.listing[u]
      /\ b.listing[t].for = old.data
      /\ "OpenPGP" \in ok => /\ b.listing[t].running /\ b.listing[t].left = ks
                             /\ b.listing[t].asked = ks
      /\ "OpenPGP" \notin ok => /\ ~b.listing[t].running /\ b.listing[t].left = {}
                                /\ b.listing[t].failed
      /\ g.undefined \/ InCallback(g, t) => b.undefined
  <2>1. /\ b \in GpaType
        /\ b.tables = a.tables /\ b.widgets = a.widgets /\ b.loops = a.loops
        /\ \A u \in Tables \ {t} : b.listing[u] = a.listing[u]
        /\ b.listing[t].for = a.listing[t].for
        /\ "OpenPGP" \in ok => /\ b.listing[t].running /\ b.listing[t].left = ks
                               /\ b.listing[t].asked = a.listing[t].asked \cup ks
        /\ "OpenPGP" \notin ok => /\ ~b.listing[t].running /\ b.listing[t].left = {}
                                  /\ b.listing[t].failed
        /\ a.undefined \/ InCallback(a, t) => b.undefined
    <3> "OpenPGP" \in Engines
      BY DEF Engines
    <3> QED
      BY <1>5, Start
  <2> HIDE DEF b
  <2> QED
    BY <1>3, <1>5, <1>6, <2>1
<1>9. SameLoops(g, b) /\ SameRows(g, b)
  BY <1>8 DEF SameLoops, SameFrame, SameRows
<1>10. CASE "OpenPGP" \in ok
  <2> DEFINE e == [v EXCEPT !.tmp_list = <<>>]
  <2> <<>> \in Seq(AllKeys)
    OBVIOUS
  <2>1. /\ e \in TableType
        /\ e.next = old.next /\ e.data = old.data /\ e.end = old.end
        /\ e.keys = old.keys /\ e.initialized = old.initialized
        /\ e.tmp_list = <<>> /\ ~e.did_first_half /\ ~e.first_half_err
    BY <1>2 DEF TableType
  <2>2. h = [b EXCEPT !.tables[t] = e]
    BY <1>5, <1>7, <1>8, <1>10
  <2> HIDE DEF b, e
  <2>3. /\ h \in GpaType
        /\ h.widgets = b.widgets /\ h.listing = b.listing /\ h.loops = b.loops
        /\ h.undefined = b.undefined
        /\ h.tables[t] = e
        /\ \A u \in Tables \ {t} : h.tables[u] = b.tables[u]
    BY <1>8, <2>1, <2>2, TableUpdate
  <2>4. SameLoops(g, h) /\ SameRows(g, h)
    BY <1>9, <2>3 DEF SameLoops, SameRows
  <2>5. Restarted(g, h, t)
    BY <1>8, <1>10, <2>3 DEF Restarted
  <2>6. Delivered(h, t) = {} /\ IsInjective(h.tables[t].tmp_list)
    BY <2>1, <2>3, EmptyFits
  <2>7. ks \cap CmsKeys = {}
    BY ListedKeys
  <2>8. ListingFits(h, t)
    BY <1>8, <1>10, <2>1, <2>3, <2>6, <2>7 DEF ListingFits
  <2>9. \A u \in Tables \ {t} : SameTable(g, h, u)
    BY <1>5, <1>8, <2>3 DEF SameTable
  <2>10. SameSlot(g, h, t) /\ SameKeys(g, h, t)
    BY <2>1, <2>3 DEF SameSlot, SameKeys
  <2>11. h.loops = g.loops
    BY <1>8, <2>3
  <2> QED
    BY <2>3, <2>4, <2>5, <2>8, <2>9, <2>10, <2>11 DEF h
<1>11. CASE "OpenPGP" \notin ok
  <2>1. h = call_end(b, t)
    BY <1>7, <1>11
  <2>2. EndFits(b, t)
    BY <1>2, <1>5, <1>8 DEF EndFits
  <2> HIDE DEF b
  <2>3. /\ h \in GpaType
        /\ h.tables = b.tables /\ h.listing = b.listing
        /\ SameLoops(b, h) /\ SameRows(b, h)
        /\ b.undefined => h.undefined
        /\ b.tables[t].end # "gtk_main_quit" => h.loops = b.loops
    BY <1>8, <2>1, <2>2, CallEnd
  <2>4. SameLoops(g, h) /\ SameRows(g, h)
    BY <1>9, <2>3 DEF SameLoops, SameFrame, SameRows
  <2>5. Restarted(g, h, t)
    BY <1>8, <1>11, <2>3 DEF Restarted
  <2>6. ListingFits(h, t)
    BY <1>2, <1>5, <1>8, <1>11, <2>3 DEF ListingFits
  <2>7. \A u \in Tables \ {t} : SameTable(g, h, u)
    BY <1>5, <1>8, <2>3 DEF SameTable
  <2>8. SameSlot(g, h, t) /\ SameKeys(g, h, t)
    BY <1>2, <1>5, <1>8, <2>3 DEF SameSlot, SameKeys
  <2>9. g.tables[t].end # "gtk_main_quit" => h.loops = g.loops
    BY <1>2, <1>5, <1>8, <2>3
  <2> QED
    BY <1>11, <2>3, <2>4, <2>5, <2>6, <2>7, <2>8, <2>9 DEF h
<1> QED
  BY <1>10, <1>11

-----------------------------------------------------------------------------
(* Parts of the invariant that a step leaves alone.                        *)

LEMMA SameWaiting ==
  ASSUME NEW g, NEW h, NEW w, SameLoops(g, h)
  PROVE  Waiting(h, w) = Waiting(g, w)
BY DEF SameLoops, SameFrame, Waiting

LEMMA SameListing ==
  ASSUME NEW g, NEW h, NEW t, SameTable(g, h, t), ListingFits(g, t)
  PROVE  ListingFits(h, t)
BY DEF SameTable, ListingFits, Delivered

LEMMA SameShown ==
  ASSUME NEW g, NEW h, NEW w \in KeyLists, SameRows(g, h)
  PROVE  Shown(h, w) = Shown(g, w) /\ (ThereFor(h, w) <=> ThereFor(g, w))
BY DEF SameRows, Shown, ThereFor, Widgets

\* From g to h, no key that is a row of w or is waited for is lost.
NoneIsLost(g, h, w) ==
  Waiting(g, w) \cup Shown(g, w) \subseteq Waiting(h, w) \cup Shown(h, w)

LEMMA RowsKept ==
  ASSUME NEW g, NEW h, NEW new, RowsFit(g, new),
         h.listing["public"] = g.listing["public"],
         h.tables["public"].data = g.tables["public"].data,
         h.tables["public"].next = g.tables["public"].next,
         g.undefined => h.undefined,
         \A w \in KeyLists : h.widgets[w].state = g.widgets[w].state,
         ~h.undefined => \A w \in KeyLists : NoneIsLost(g, h, w),
         \A i \in DOMAIN h.loops :
           h.loops[i].for = "new_key" => ThereFor(h, h.loops[i].list)
  PROVE  RowsFit(h, new)
<1>1. \A w \in KeyLists : Serves(h, w) => Serves(g, w) /\ NoneIsLost(g, h, w)
  BY DEF Serves
<1> QED
  BY <1>1 DEF RowsFit, NewKeysFit, ThereFor, NoneIsLost

LEMMA RowsUntouched ==
  ASSUME NEW g, NEW h, NEW new, RowsFit(g, new), SlotsFit(g),
         h.listing["public"] = g.listing["public"],
         h.tables["public"].data = g.tables["public"].data,
         h.tables["public"].next = g.tables["public"].next,
         g.undefined => h.undefined, SameLoops(g, h), SameRows(g, h)
  PROVE  RowsFit(h, new)
<1>1. \A w \in KeyLists : /\ h.widgets[w].state = g.widgets[w].state
                          /\ NoneIsLost(g, h, w)
  BY SameShown, SameWaiting DEF SameRows, Widgets, NoneIsLost
<1>2. ASSUME NEW i \in DOMAIN h.loops, h.loops[i].for = "new_key"
      PROVE  ThereFor(h, h.loops[i].list)
  <2>1. /\ g.loops[i].for = "new_key" /\ i \in DOMAIN g.loops
        /\ h.loops[i].list = g.loops[i].list
    BY <1>2 DEF SameLoops, SameFrame
  <2>2. ThereFor(g, g.loops[i].list) /\ g.loops[i].list \in KeyLists
    BY <2>1 DEF RowsFit, NewKeysFit, SlotsFit
  <2> QED
    BY <2>1, <2>2, SameShown
<1> QED
  BY <1>1, <1>2, RowsKept

LEMMA SameSecrets ==
  ASSUME NEW g, NEW h, h.loops = g.loops, SameRows(g, h),
         SameKeys(g, h, "secret"), SecretsFit(g)
  PROVE  SecretsFit(h)
BY DEF SameRows, SameKeys, NoRowsYet, SecretsFit, Widgets

\* The frames stay in order when the loops are only told to quit and the public
\* table keeps its callbacks.
LEMMA FramesKept ==
  ASSUME NEW g, NEW h, SlotsFit(g), SameLoops(g, h),
         g.tables["public"].next => h.tables["public"].next
  PROVE  \A i \in DOMAIN h.loops :
           /\ h.loops[i].for # "lookup" =>
                h.loops[i].list \in KeyLists /\ h.loops[i].key \in AllKeys
           /\ h.loops[i].for = "lookup" => h.loops[i].list = None
           /\ h.loops[i].for = "cached_row" => h.tables["public"].next
BY DEF SlotsFit, SameLoops, SameFrame

-----------------------------------------------------------------------------
(* A widget, or nobody, takes the slot of a table over and starts a listing. *)

\* In f the slot of t has been taken over.
Retargets(g, f, t, new) ==
  /\ f \in GpaType
  /\ f.widgets = g.widgets /\ f.listing = g.listing /\ f.loops = g.loops
  /\ f.undefined = g.undefined
  /\ \A u \in Tables \ {t} : f.tables[u] = g.tables[u]
  /\ SameKeys(g, f, t) /\ f.tables[t].tmp_list = g.tables[t].tmp_list
  /\ f.tables[t].did_first_half = g.tables[t].did_first_half
  /\ f.tables[t].first_half_err = g.tables[t].first_half_err
  /\ f.tables[t].next \/ f.tables[t].end = "end" => f.tables[t].data \in Widgets
  /\ f.tables[t].end # "gtk_main_quit"
  /\ t = "public" => f.tables[t].next /\ f.tables[t].end \in {"none", "end"}
  /\ t = "public" /\ f.tables[t].data \in KeyLists =>
       f.tables[t].data = new \/ ThereFor(g, f.tables[t].data)

\* What a listing of t that w, or nobody, starts leaves behind.
Taken(g, h, t, new) ==
  /\ Fits(h, new)
  /\ h.loops = g.loops /\ SameRows(g, h)
  /\ \A u \in Tables : SameKeys(g, h, u)
  /\ \A u \in Tables \ {t} : SameTable(g, h, u)
  /\ h.tables[t].end # "gtk_main_quit"

LEMMA Retarget ==
  ASSUME keyring \subseteq AllKeys, NEW g, NEW f, NEW t \in Tables, NEW new,
         SlotsAndListingsFit(g), NewKeysFit(g),
         t = "secret" => RowsFit(g, new), Retargets(g, f, t, new),
         NEW fpr \in AllKeys \cup {None}, NEW ok
  PROVE  Taken(g, reload_cache(f, t, fpr, ok), t, new)
<1> DEFINE h == reload_cache(f, t, fpr, ok)
<1>1. EndFits(f, t)
  BY DEF EndFits, Retargets
<1>2. IsInjective(f.tables[t].tmp_list)
  BY DEF SlotsAndListingsFit, ListingFits, Retargets
<1>3. f \in GpaType
  BY DEF Retargets
<1>4. /\ h \in GpaType
      /\ SameSlot(f, h, t) /\ SameKeys(f, h, t)
      /\ \A u \in Tables \ {t} : SameTable(f, h, u)
      /\ SameLoops(f, h) /\ SameRows(f, h)
      /\ Restarted(f, h, t)
      /\ ListingFits(h, t)
      /\ f.tables[t].end # "gtk_main_quit" => h.loops = f.loops
  BY <1>1, <1>2, <1>3, ReloadCache
<1> HIDE DEF h
<1>5. h.loops = g.loops /\ SameRows(g, h)
  BY <1>4 DEF Retargets, SameRows
<1>6. \A u \in Tables \ {t} : SameTable(g, h, u)
  BY <1>4 DEF SameTable, Retargets
<1>7. SameKeys(g, h, t)
  BY <1>4 DEF SameKeys, Retargets
<1>8. \A u \in Tables : SameKeys(g, h, u)
  BY <1>6, <1>7 DEF SameKeys, SameTable
<1>9. \A u \in Tables : ListingFits(h, u)
  BY <1>4, <1>6, SameListing DEF SlotsAndListingsFit
<1>10. /\ h.tables[t].next = f.tables[t].next /\ h.tables[t].data = f.tables[t].data
       /\ h.tables[t].end = f.tables[t].end
  BY <1>4 DEF SameSlot
<1>11. SameLoops(g, h)
  BY <1>5 DEF SameLoops, SameFrame
<1>12. t # "public" => SameTable(g, h, "public")
  BY <1>6 DEF Tables
<1>13. t # "secret" => SameTable(g, h, "secret")
  BY <1>6 DEF Tables
<1>14. SlotsFit(h)
  <2>1. g.tables["public"].next => h.tables["public"].next
    BY <1>10, <1>12 DEF SameTable, Retargets
  <2>2. SlotsFit(g)
    BY DEF SlotsAndListingsFit
  <2>3. \A u \in Tables : h.tables[u].next \/ h.tables[u].end = "end" =>
                            h.tables[u].data \in Widgets
    <3>1. \A u \in Tables \ {t} : h.tables[u] = g.tables[u]
      BY <1>6 DEF SameTable
    <3>2. h.tables[t].next \/ h.tables[t].end = "end" => h.tables[t].data \in Widgets
      BY <1>10 DEF Retargets
    <3> QED
      BY <2>2, <3>1, <3>2 DEF SlotsFit
  <2>4. h.tables["public"].end \in {"none", "end"}
    BY <1>10, <1>12, <2>2 DEF SlotsFit, SameTable, Retargets
  <2> QED
    BY <1>4, <1>11, <2>1, <2>2, <2>3, <2>4, FramesKept DEF SlotsFit
<1>15. QuitFits(h)
  <2>1. CASE t = "secret"
    BY <1>10, <2>1 DEF QuitFits, Retargets
  <2>2. CASE t # "secret"
    BY <1>5, <1>13, <2>2 DEF QuitFits, SameTable, SlotsAndListingsFit
  <2> QED
    BY <2>1, <2>2
<1>16. RowsFit(h, new)
  <2>1. SlotsFit(g)
    BY DEF SlotsAndListingsFit
  <2>2. CASE t # "public"
    <3>1. g.undefined => h.undefined
      BY <1>4 DEF Restarted, Retargets
    <3>2. /\ h.listing["public"] = g.listing["public"]
          /\ h.tables["public"].data = g.tables["public"].data
          /\ h.tables["public"].next = g.tables["public"].next
      BY <1>12, <2>2 DEF SameTable
    <3>3. RowsFit(g, new)
      BY <2>2 DEF Tables
    <3> QED
      BY <1>5, <1>11, <2>1, <3>1, <3>2, <3>3, RowsUntouched
  <2>3. CASE t = "public"
    <3>1. /\ h.listing["public"].for = f.tables["public"].data
          /\ \/ h.listing["public"].failed
             \/ h.listing["public"].asked \subseteq h.listing["public"].left
          /\ h.tables["public"].next
      BY <1>4, <1>10, <2>3 DEF Restarted, Retargets
    <3>2. \A i \in DOMAIN h.loops :
            h.loops[i].for = "new_key" => ThereFor(h, h.loops[i].list)
      BY <1>5, <2>1, SameShown DEF NewKeysFit, SlotsFit
    <3>3. \A w \in KeyLists \ {new} : h.listing["public"].for = w => ThereFor(h, w)
      BY <1>5, <2>3, <3>1, SameShown DEF Retargets
    <3> QED
      BY <3>1, <3>2, <3>3 DEF RowsFit, NewKeysFit, Serves
  <2> QED
    BY <2>2, <2>3
<1>17. h.tables[t].end # "gtk_main_quit"
  BY <1>10 DEF Retargets
<1> QED
  BY <1>5, <1>6, <1>8, <1>9, <1>14, <1>15, <1>16, <1>17
     DEF h, Fits, SlotsAndListingsFit, Taken

-----------------------------------------------------------------------------
(* gpa_keytable_ensure.                                                    *)

\* A frame of a caller of gpa_keytable_ensure.
FrameFits(g, frame) ==
  /\ frame \in FrameType /\ frame.for # "new_key" /\ ~frame.quit
  /\ frame.for # "lookup" => frame.list \in KeyLists /\ frame.key \in AllKeys
  /\ frame.for = "lookup" => frame.list = None
  /\ frame.for = "cached_row" => g.tables["public"].next

LEMMA Appended ==
  ASSUME NEW S, NEW s \in Seq(S), NEW e \in S
  PROVE  /\ Append(s, e) \in Seq(S)
         /\ Len(s) \in Nat /\ Len(Append(s, e)) = Len(s) + 1
         /\ DOMAIN Append(s, e) = 1 .. Len(s) + 1 /\ DOMAIN s = 1 .. Len(s)
         /\ \A i \in DOMAIN s : Append(s, e)[i] = s[i] /\ i # Len(s) + 1
         /\ \A i \in DOMAIN Append(s, e) : i \in DOMAIN s \/ i = Len(s) + 1
         /\ Append(s, e)[Len(s) + 1] = e
OBVIOUS

LEMMA EnsureBegins ==
  ASSUME keyring \subseteq AllKeys, NEW g, SlotsFit(g),
         \A t \in Tables : ListingFits(g, t), NEW frame, FrameFits(g, frame), NEW ok
  PROVE  LET h == ensure_begins(g, frame, ok) IN
         /\ SlotsFit(h)
         /\ \A t \in Tables : ListingFits(h, t)
         /\ QuitFits(h)
         /\ \A t \in Tables : SameKeys(g, h, t)
         /\ SameTable(g, h, "public") /\ SameRows(g, h)
         /\ g.undefined => h.undefined
         /\ \A w \in KeyLists : Waiting(g, w) \subseteq Waiting(h, w)
         /\ frame.for = "row" => frame.key \in Waiting(h, frame.list)
         /\ \A i \in DOMAIN h.loops : h.loops[i].for = "new_key" =>
              /\ i \in DOMAIN g.loops /\ g.loops[i].for = "new_key"
              /\ h.loops[i].list = g.loops[i].list
         /\ ok = Engines => h.loops = Append(g.loops, frame)
         /\ Len(h.loops) = Len(g.loops) + 1
<1> DEFINE v == [g.tables["secret"] EXCEPT !.end = "gtk_main_quit"]
           a == [g EXCEPT !.tables["secret"].end = "gtk_main_quit"]
           b == reload_cache(a, "secret", None, ok)
           h == ensure_begins(g, frame, ok)
<1>1. /\ g \in GpaType /\ "secret" \in Tables /\ "public" \in Tables
      /\ g.tables["secret"] \in TableType
  BY DEF SlotsFit, GpaType, Tables
<1>2. /\ v \in TableType /\ v.next = g.tables["secret"].next
      /\ v.data = g.tables["secret"].data /\ v.end = "gtk_main_quit"
      /\ v.keys = g.tables["secret"].keys
      /\ v.initialized = g.tables["secret"].initialized
      /\ v.tmp_list = g.tables["secret"].tmp_list
  BY <1>1 DEF TableType
<1>3. a = [g EXCEPT !.tables["secret"] = v]
  OBVIOUS
<1> HIDE DEF v, a
<1>4. /\ a \in GpaType
      /\ a.widgets = g.widgets /\ a.listing = g.listing /\ a.loops = g.loops
      /\ a.undefined = g.undefined
      /\ a.tables["secret"] = v
      /\ \A u \in Tables \ {"secret"} : a.tables[u] = g.tables[u]
  BY <1>1, <1>2, <1>3, TableUpdate
<1>5. EndFits(a, "secret")
  BY <1>2, <1>4 DEF EndFits
<1>6. IsInjective(a.tables["secret"].tmp_list)
  BY <1>1, <1>2, <1>4 DEF ListingFits
<1>7. /\ b \in GpaType
      /\ SameSlot(a, b, "secret") /\ SameKeys(a, b, "secret")
      /\ \A u \in Tables \ {"secret"} : SameTable(a, b, u)
      /\ SameLoops(a, b) /\ SameRows(a, b)
      /\ Restarted(a, b, "secret")
      /\ ListingFits(b, "secret")
      /\ "OpenPGP" \in ok => b.loops = a.loops
  BY <1>1, <1>4, <1>5, <1>6, ReloadCache
<1>8. h = [b EXCEPT !.loops = Append(b.loops, frame)]
  BY DEF ensure_begins, gtk_main, a
<1> HIDE DEF b, h
<1>9. /\ b.loops \in Seq(FrameType) /\ frame \in FrameType
  BY <1>7 DEF GpaType, FrameFits
<1> DEFINE n == Len(b.loops)
<1>10. /\ Append(b.loops, frame) \in Seq(FrameType)
       /\ n \in Nat /\ Len(Append(b.loops, frame)) = n + 1
       /\ DOMAIN Append(b.loops, frame) = 1 .. n + 1 /\ DOMAIN b.loops = 1 .. n
       /\ \A i \in DOMAIN b.loops : Append(b.loops, frame)[i] = b.loops[i] /\ i # n + 1
       /\ \A i \in DOMAIN Append(b.loops, frame) : i \in DOMAIN b.loops \/ i = n + 1
       /\ Append(b.loops, frame)[n + 1] = frame
  BY <1>9, Appended
<1>11. /\ h \in GpaType /\ h.loops = Append(b.loops, frame)
       /\ h.tables = b.tables /\ h.listing = b.listing /\ h.widgets = b.widgets
       /\ h.undefined = b.undefined
  BY <1>7, <1>8, <1>10 DEF GpaType
<1>12. SameLoops(g, b) /\ SameRows(g, h)
  BY <1>4, <1>7, <1>11 DEF SameLoops, SameFrame, SameRows
<1>13. SameTable(g, h, "public") /\ SameTable(g, b, "public")
  BY <1>1, <1>4, <1>7, <1>11 DEF SameTable, Tables
<1>14. SameKeys(g, h, "secret")
  BY <1>2, <1>4, <1>7, <1>11 DEF SameKeys
<1>15. \A t \in Tables : SameKeys(g, h, t)
  BY <1>13, <1>14 DEF SameKeys, SameTable, Tables
<1>16. \A t \in Tables : ListingFits(h, t)
  <2>1. ListingFits(h, "secret")
    BY <1>7, <1>11 DEF ListingFits, Delivered
  <2>2. ListingFits(h, "public")
    BY <1>1, <1>13, SameListing
  <2> QED
    BY <2>1, <2>2 DEF Tables
<1>17. /\ h.tables["secret"].end = "gtk_main_quit"
       /\ h.tables["secret"].next = g.tables["secret"].next
       /\ h.tables["secret"].data = g.tables["secret"].data
  BY <1>2, <1>4, <1>7, <1>11 DEF SameSlot
<1>18. n + 1 \in DOMAIN h.loops /\ h.loops[n + 1] = frame
  BY <1>10, <1>11
<1>19. QuitFits(h)
  <2>1. Len(h.loops) = n + 1
    BY <1>10, <1>11
  <2>2. h.loops # <<>>
    BY <1>18
  <2> QED
    BY <1>18, <2>1, <2>2 DEF QuitFits, FrameFits
<1>20. SlotsFit(h)
  <2>1. \A i \in DOMAIN b.loops :
           /\ b.loops[i].for # "lookup" =>
                b.loops[i].list \in KeyLists /\ b.loops[i].key \in AllKeys
           /\ b.loops[i].for = "lookup" => b.loops[i].list = None
           /\ b.loops[i].for = "cached_row" => b.tables["public"].next
    BY <1>12, <1>13, FramesKept DEF SameTable
  <2>2. \A i \in DOMAIN h.loops :
           /\ h.loops[i].for # "lookup" =>
                h.loops[i].list \in KeyLists /\ h.loops[i].key \in AllKeys
           /\ h.loops[i].for = "lookup" => h.loops[i].list = None
           /\ h.loops[i].for = "cached_row" => h.tables["public"].next
    BY <1>10, <1>11, <1>13, <2>1 DEF FrameFits, SameTable
  <2>3. \A t \in Tables : h.tables[t].next \/ h.tables[t].end = "end" =>
                            h.tables[t].data \in Widgets
    BY <1>13, <1>17 DEF SlotsFit, SameTable, Tables
  <2> QED
    BY <1>11, <1>13, <2>2, <2>3 DEF SlotsFit, SameTable
<1>21. \A w \in KeyLists : Waiting(g, w) \subseteq Waiting(h, w)
  <2> SUFFICES ASSUME NEW w \in KeyLists, NEW k \in AllKeys,
                      NEW i \in DOMAIN g.loops, g.loops[i].for = "row",
                      g.loops[i].list = w, g.loops[i].key = k
               PROVE  k \in Waiting(h, w)
    BY DEF Waiting
  <2>1. /\ i \in DOMAIN b.loops /\ i \in DOMAIN h.loops
        /\ h.loops[i] = b.loops[i] /\ SameFrame(b.loops[i], g.loops[i])
    BY <1>10, <1>11, <1>12 DEF SameLoops
  <2> QED
    BY <2>1 DEF SameFrame, Waiting
<1>22. frame.for = "row" => frame.key \in Waiting(h, frame.list)
  BY <1>18 DEF Waiting, FrameFits
<1>23. \A i \in DOMAIN h.loops : h.loops[i].for = "new_key" =>
         /\ i \in DOMAIN g.loops /\ g.loops[i].for = "new_key"
         /\ h.loops[i].list = g.loops[i].list
  BY <1>10, <1>11, <1>12, <1>18 DEF SameLoops, SameFrame, FrameFits
<1>24. ok = Engines => h.loops = Append(g.loops, frame)
  BY <1>4, <1>7, <1>11 DEF Engines
<1>25. Len(h.loops) = Len(g.loops) + 1
  BY <1>10, <1>11, <1>12 DEF SameLoops
<1>26. g.undefined => h.undefined
  BY <1>4, <1>7, <1>11 DEF Restarted
<1> QED
  BY <1>11, <1>12, <1>13, <1>15, <1>16, <1>19, <1>20, <1>21, <1>22, <1>23,
     <1>24, <1>25, <1>26 DEF h

-----------------------------------------------------------------------------
(* Rows.                                                                   *)

\* From g to h the public table goes on with its listing, no key of it is lost, and
\* no new key is waited for.
Grows(g, h) ==
  /\ SameTable(g, h, "public")
  /\ g.undefined => h.undefined
  /\ \A w \in KeyLists : h.widgets[w].state = g.widgets[w].state
  /\ ~h.undefined => \A w \in KeyLists : NoneIsLost(g, h, w)
  /\ \A i \in DOMAIN h.loops : h.loops[i].for = "new_key" =>
       /\ i \in DOMAIN g.loops /\ g.loops[i].for = "new_key"
       /\ h.loops[i].list = g.loops[i].list

LEMMA GrowsIsReflexive ==
  ASSUME NEW g
  PROVE  Grows(g, g)
BY DEF Grows, SameTable, NoneIsLost

LEMMA GrowsIsTransitive ==
  ASSUME NEW f, NEW g, NEW h, Grows(f, g), Grows(g, h)
  PROVE  Grows(f, h)
<1>1. SameTable(f, h, "public") /\ (f.undefined => h.undefined)
  BY DEF Grows, SameTable, NoneIsLost
<1>2. /\ \A w \in KeyLists : h.widgets[w].state = f.widgets[w].state
      /\ ~h.undefined => \A w \in KeyLists : NoneIsLost(f, h, w)
  BY DEF Grows, NoneIsLost
<1>3. \A i \in DOMAIN h.loops : h.loops[i].for = "new_key" =>
        /\ i \in DOMAIN f.loops /\ f.loops[i].for = "new_key"
        /\ h.loops[i].list = f.loops[i].list
  BY DEF Grows
<1> QED
  BY <1>1, <1>2, <1>3 DEF Grows

LEMMA GrowingFits ==
  ASSUME NEW g, NEW h, NEW new, SlotsFit(g), RowsFit(g, new), Grows(g, h)
  PROVE  RowsFit(h, new)
<1>1. \A i \in DOMAIN h.loops :
        h.loops[i].for = "new_key" => ThereFor(h, h.loops[i].list)
  BY DEF Grows, RowsFit, NewKeysFit, SlotsFit, ThereFor
<1> QED
  BY <1>1, RowsKept DEF Grows, SameTable

\* The same up to what the widgets show.
SameProgram(g, h) ==
  /\ h \in GpaType
  /\ h.tables = g.tables /\ h.listing = g.listing /\ h.loops = g.loops
  /\ h.undefined = g.undefined
  /\ \A w \in Widgets : /\ h.widgets[w].state = g.widgets[w].state
                        /\ g.widgets[w].rows \subseteq h.widgets[w].rows

LEMMA SameProgramFits ==
  ASSUME NEW g, NEW h, SlotsAndListingsFit(g), SameProgram(g, h)
  PROVE  SlotsAndListingsFit(h) /\ Grows(g, h) /\ \A t \in Tables : SameKeys(g, h, t)
<1>1. SlotsFit(h)
  BY DEF SlotsAndListingsFit, SlotsFit, SameProgram
<1>2. \A t \in Tables : ListingFits(h, t)
  BY DEF SlotsAndListingsFit, ListingFits, Delivered, SameProgram
<1>3. QuitFits(h)
  BY DEF SlotsAndListingsFit, QuitFits, SameProgram
<1>4. Grows(g, h)
  BY DEF Grows, SameTable, SameProgram, Shown, Waiting, NoneIsLost, Widgets
<1>5. \A t \in Tables : SameKeys(g, h, t)
  BY DEF SameKeys, SameProgram
<1> QED
  BY <1>1, <1>2, <1>3, <1>4, <1>5 DEF SlotsAndListingsFit

LEMMA AddRows ==
  ASSUME NEW g \in GpaType, NEW w \in Widgets, NEW ks \in SUBSET AllKeys
  PROVE  LET h == add_rows(g, w, ks) IN
         /\ SameProgram(g, h)
         /\ ks \subseteq Shown(h, w)
         /\ \A u \in Widgets \ {w} : h.widgets[u] = g.widgets[u]
         /\ ks = {} => h.widgets[w].rows = g.widgets[w].rows
<1> DEFINE secret(k) == /\ w \in KeyLists /\ ShowsSecret(g, w)
                        /\ IsCached(g, "secret", k)
           row(k) == [key |-> k, secret |-> secret(k)]
           more == {row(k) : k \in ks}
           v == [g.widgets[w] EXCEPT !.rows = @ \cup more]
           h == add_rows(g, w, ks)
<1>1. g.widgets[w] \in WidgetType
  BY DEF GpaType
<1>2. \A k \in ks : secret(k) \in BOOLEAN
  BY DEF ShowsSecret, IsCached, Contains
<1>3. h = [g EXCEPT !.widgets[w] = v]
  BY DEF add_rows
<1> HIDE DEF secret
<1>4. \A k \in ks : row(k) \in [key : AllKeys, secret : BOOLEAN] /\ row(k).key = k
  BY <1>2
<1> HIDE DEF row
<1>5. more \in SUBSET [key : AllKeys, secret : BOOLEAN]
  BY <1>4
<1>6. \A k \in ks : \E r \in more : r.key = k
  BY <1>4
<1>7. ks = {} => more = {}
  OBVIOUS
<1> HIDE DEF more
<1>8. /\ v \in WidgetType /\ v.state = g.widgets[w].state
      /\ v.rows = g.widgets[w].rows \cup more
  BY <1>1, <1>5 DEF WidgetType
<1> HIDE DEF v, h
<1>9. /\ h \in GpaType
      /\ h.tables = g.tables /\ h.listing = g.listing /\ h.loops = g.loops
      /\ h.cms_hack = g.cms_hack /\ h.undefined = g.undefined
      /\ h.widgets[w] = v
      /\ \A u \in Widgets \ {w} : h.widgets[u] = g.widgets[u]
  BY <1>3, <1>8, WidgetUpdate
<1>10. SameProgram(g, h)
  BY <1>8, <1>9 DEF SameProgram
<1>11. ks \subseteq Shown(h, w)
  BY <1>6, <1>8, <1>9 DEF Shown
<1> QED
  BY <1>7, <1>8, <1>9, <1>10, <1>11 DEF h

LEMMA RemoveDialog ==
  ASSUME NEW g \in GpaType, NEW w \in Widgets
  PROVE  SameProgram(g, remove_trustdb_dialog(g, w))
         /\ SameRows(g, remove_trustdb_dialog(g, w))
<1> DEFINE v == [g.widgets[w] EXCEPT !.waits = FALSE]
           h == [g EXCEPT !.widgets[w] = v]
<1>1. g.widgets[w] \in WidgetType
  BY DEF GpaType
<1>2. v \in WidgetType /\ v.state = g.widgets[w].state /\ v.rows = g.widgets[w].rows
  BY <1>1 DEF WidgetType
<1>3. remove_trustdb_dialog(g, w) = IF w \in KeyLists THEN h ELSE g
  BY DEF remove_trustdb_dialog
<1> HIDE DEF v
<1>4. /\ h \in GpaType
      /\ h.tables = g.tables /\ h.listing = g.listing /\ h.loops = g.loops
      /\ h.cms_hack = g.cms_hack /\ h.undefined = g.undefined
      /\ h.widgets[w] = v
      /\ \A u \in Widgets \ {w} : h.widgets[u] = g.widgets[u]
  BY <1>2, WidgetUpdate
<1> QED
  BY <1>2, <1>3, <1>4 DEF SameProgram, SameRows

\* The row of k waits for a lookup in the secret table.
LEMMA RowLookup ==
  ASSUME keyring \subseteq AllKeys, NEW g, SlotsAndListingsFit(g),
         NEW w \in KeyLists, NEW k \in AllKeys, NEW for \in {"row", "cached_row"},
         NEW at \in Nat, NEW lookups \in {1, 2}, NEW ok,
         for = "cached_row" => g.tables["public"].next
  PROVE  LET h == row_lookup(g, w, k, for, at, lookups, ok) IN
         /\ SlotsAndListingsFit(h) /\ Grows(g, h)
         /\ \A t \in Tables : SameKeys(g, h, t)
         /\ for = "row" => k \in Waiting(h, w)
         /\ Len(h.loops) = Len(g.loops) + 1
         /\ ok = Engines /\ SecretsFit(g) => SecretsFit(h)
<1> DEFINE frame == [for |-> for, quit |-> FALSE, list |-> w, key |-> k,
                     lookups |-> lookups, at |-> at]
           h == ensure_begins(g, frame, ok)
<1>1. row_lookup(g, w, k, for, at, lookups, ok) = h
  BY DEF row_lookup
<1>2. frame \in FrameType
  BY DEF FrameType
<1>3. /\ frame.for = for /\ frame.list = w /\ frame.key = k /\ ~frame.quit
  OBVIOUS
<1> HIDE DEF frame
<1>4. FrameFits(g, frame)
  BY <1>2, <1>3 DEF FrameFits
<1>5. SlotsFit(g) /\ \A t \in Tables : ListingFits(g, t)
  BY DEF SlotsAndListingsFit
<1>6. /\ SlotsFit(h)
      /\ \A t \in Tables : ListingFits(h, t)
      /\ QuitFits(h)
      /\ \A t \in Tables : SameKeys(g, h, t)
      /\ SameTable(g, h, "public") /\ SameRows(g, h)
      /\ g.undefined => h.undefined
      /\ \A u \in KeyLists : Waiting(g, u) \subseteq Waiting(h, u)
      /\ frame.for = "row" => frame.key \in Waiting(h, frame.list)
      /\ \A i \in DOMAIN h.loops : h.loops[i].for = "new_key" =>
           /\ i \in DOMAIN g.loops /\ g.loops[i].for = "new_key"
           /\ h.loops[i].list = g.loops[i].list
      /\ ok = Engines => h.loops = Append(g.loops, frame)
      /\ Len(h.loops) = Len(g.loops) + 1
  BY <1>4, <1>5, EnsureBegins
<1> HIDE DEF h
<1>7. Grows(g, h)
  BY <1>6, SameShown DEF Grows, SameRows, Widgets, NoneIsLost
<1>8. ASSUME ok = Engines, SecretsFit(g)
      PROVE  SecretsFit(h)
  <2>1. g.loops \in Seq(FrameType)
    BY <1>5 DEF SlotsFit, GpaType
  <2>2. \A i \in DOMAIN h.loops : h.loops[i] = frame \/
          (i \in DOMAIN g.loops /\ h.loops[i] = g.loops[i])
    BY <1>2, <1>6, <1>8, <2>1, Appended
  <2>3. \A w_1 \in KeyLists : h.widgets[w_1].rows = g.widgets[w_1].rows
    BY <1>6 DEF SameRows, Widgets
  <2>4. h.tables["secret"].initialized = g.tables["secret"].initialized
    BY <1>6 DEF SameKeys, Tables
  <2> QED
    BY <1>3, <1>8, <2>2, <2>3, <2>4 DEF NoRowsYet, SecretsFit
<1> QED
  BY <1>1, <1>3, <1>6, <1>7, <1>8 DEF h, SlotsAndListingsFit

\* Rows need no secret keys, or have them.
LEMMA RowsHaveSecrets ==
  ASSUME NEW g \in GpaType, NEW w \in Widgets, NEW ks \in SUBSET AllKeys,
         ks # {} => ~NeedsALookup(g, w), SecretsFit(g)
  PROVE  SecretsFit(add_rows(g, w, ks))
<1> DEFINE h == add_rows(g, w, ks)
<1>1. /\ SameProgram(g, h)
      /\ \A u \in Widgets \ {w} : h.widgets[u] = g.widgets[u]
      /\ ks = {} => h.widgets[w].rows = g.widgets[w].rows
  BY AddRows
<1> HIDE DEF h
<1>2. ASSUME ~g.tables["secret"].initialized, NEW u \in KeyLists \ PublicOnly
      PROVE  h.widgets[u].rows = g.widgets[u].rows
  BY <1>1, <1>2 DEF NeedsALookup, ShowsSecret, Widgets
<1> QED
  BY <1>1, <1>2 DEF NoRowsYet, SecretsFit, SameProgram, h

LEMMA SameProgramSecrets ==
  ASSUME NEW g, NEW h, SameProgram(g, h), SameRows(g, h), SecretsFit(g)
  PROVE  SecretsFit(h)
BY DEF SameProgram, SameRows, NoRowsYet, SecretsFit, Widgets

LEMMA UndefinedFits ==
  ASSUME NEW g, SlotsAndListingsFit(g)
  PROVE  LET h == [g EXCEPT !.undefined = TRUE] IN
         /\ SlotsAndListingsFit(h) /\ Grows(g, h)
         /\ \A t \in Tables : SameKeys(g, h, t)
         /\ SecretsFit(g) => SecretsFit(h)
         /\ h.undefined /\ h.loops = g.loops
<1> DEFINE h == [g EXCEPT !.undefined = TRUE]
<1>1. /\ h \in GpaType
      /\ h.tables = g.tables /\ h.widgets = g.widgets
      /\ h.listing = g.listing /\ h.loops = g.loops
      /\ h.undefined
  BY Undefined DEF SlotsAndListingsFit, SlotsFit
<1> HIDE DEF h
<1>2. SlotsFit(h)
  BY <1>1 DEF SlotsAndListingsFit, SlotsFit
<1>3. \A t \in Tables : ListingFits(h, t)
  BY <1>1 DEF SlotsAndListingsFit, ListingFits, Delivered
<1>4. QuitFits(h)
  BY <1>1 DEF SlotsAndListingsFit, QuitFits
<1>5. Grows(g, h)
  BY <1>1 DEF Grows, SameTable, Shown, Waiting, NoneIsLost
<1>6. \A t \in Tables : SameKeys(g, h, t)
  BY <1>1 DEF SameKeys
<1>7. SecretsFit(g) => SecretsFit(h)
  BY <1>1 DEF NoRowsYet, SecretsFit
<1> QED
  BY <1>1, <1>2, <1>3, <1>4, <1>5, <1>6, <1>7 DEF SlotsAndListingsFit, h

-----------------------------------------------------------------------------
(* The callbacks that add rows.                                            *)

\* What a step from g to h keeps that looks after the widgets' rows.
Keeps(g, h, ok) ==
  /\ SlotsAndListingsFit(h) /\ Grows(g, h)
  /\ \A t \in Tables : SameKeys(g, h, t)
  /\ ok = Engines /\ SecretsFit(g) => SecretsFit(h)

LEMMA KeepsIsReflexive ==
  ASSUME NEW g, NEW ok, SlotsAndListingsFit(g)
  PROVE  Keeps(g, g, ok)
BY GrowsIsReflexive DEF Keeps, SameKeys

LEMMA KeepsIsTransitive ==
  ASSUME NEW f, NEW g, NEW h, NEW ok, Keeps(f, g, ok), Keeps(g, h, ok)
  PROVE  Keeps(f, h, ok)
BY GrowsIsTransitive DEF Keeps, SameKeys

LEMMA KeepsFits ==
  ASSUME NEW g, NEW h, NEW ok, NEW new, Fits(g, new), Keeps(g, h, ok)
  PROVE  Fits(h, new)
BY GrowingFits DEF Fits, SlotsAndListingsFit, Keeps

LEMMA CallEndKeeps ==
  ASSUME NEW g, SlotsAndListingsFit(g), NEW t \in Tables,
         g.tables[t].end # "gtk_main_quit", NEW ok
  PROVE  LET h == call_end(g, t) IN
         Keeps(g, h, ok) /\ h.loops = g.loops /\ SameRows(g, h)
<1> DEFINE h == call_end(g, t)
<1>1. EndFits(g, t) /\ g \in GpaType
  BY DEF SlotsAndListingsFit, SlotsFit, EndFits
<1>2. /\ h \in GpaType
      /\ h.tables = g.tables /\ h.listing = g.listing
      /\ SameRows(g, h)
      /\ g.undefined => h.undefined
      /\ h.loops = g.loops
  BY <1>1, CallEnd
<1> HIDE DEF h
<1>3. SlotsFit(h)
  BY <1>2 DEF SlotsAndListingsFit, SlotsFit
<1>4. \A u \in Tables : ListingFits(h, u)
  BY <1>2 DEF SlotsAndListingsFit, ListingFits, Delivered
<1>5. QuitFits(h)
  BY <1>2 DEF SlotsAndListingsFit, QuitFits
<1>6. Grows(g, h)
  BY <1>2 DEF Grows, SameTable, Shown, Waiting, NoneIsLost, SameRows, Widgets
<1>7. \A u \in Tables : SameKeys(g, h, u)
  BY <1>2 DEF SameKeys
<1>8. SecretsFit(g) => SecretsFit(h)
  BY <1>2 DEF NoRowsYet, SecretsFit, SameRows, Widgets
<1> QED
  BY <1>2, <1>3, <1>4, <1>5, <1>6, <1>7, <1>8 DEF SlotsAndListingsFit, Keeps, h

LEMMA UndefinedKeeps ==
  ASSUME NEW g, SlotsAndListingsFit(g), NEW ok
  PROVE  LET h == [g EXCEPT !.undefined = TRUE] IN
         Keeps(g, h, ok) /\ h.undefined /\ h.loops = g.loops
<1> DEFINE h == [g EXCEPT !.undefined = TRUE]
<1>1. /\ SlotsAndListingsFit(h) /\ Grows(g, h)
      /\ \A t \in Tables : SameKeys(g, h, t)
      /\ SecretsFit(g) => SecretsFit(h)
      /\ h.undefined /\ h.loops = g.loops
  BY UndefinedFits
<1> HIDE DEF h
<1> QED
  BY <1>1 DEF Keeps, h

LEMMA AddRowsKeeps ==
  ASSUME NEW g, SlotsAndListingsFit(g), NEW w \in Widgets, NEW ks \in SUBSET AllKeys,
         ks # {} => ~NeedsALookup(g, w), NEW ok
  PROVE  LET h == add_rows(g, w, ks) IN
         Keeps(g, h, ok) /\ ks \subseteq Shown(h, w) /\ SameProgram(g, h)
<1> DEFINE h == add_rows(g, w, ks)
<1>1. g \in GpaType
  BY DEF SlotsAndListingsFit, SlotsFit
<1>2. SameProgram(g, h) /\ ks \subseteq Shown(h, w)
  BY <1>1, AddRows
<1>3. SecretsFit(g) => SecretsFit(h)
  BY <1>1, RowsHaveSecrets
<1> HIDE DEF h
<1>4. SlotsAndListingsFit(h) /\ Grows(g, h) /\ \A t \in Tables : SameKeys(g, h, t)
  BY <1>2, SameProgramFits
<1> QED
  BY <1>2, <1>3, <1>4 DEF Keeps, h

LEMMA RemoveDialogKeeps ==
  ASSUME NEW g, SlotsAndListingsFit(g), NEW w \in Widgets, NEW ok
  PROVE  LET h == remove_trustdb_dialog(g, w) IN
         Keeps(g, h, ok) /\ SameProgram(g, h) /\ SameRows(g, h)
<1> DEFINE h == remove_trustdb_dialog(g, w)
<1>1. g \in GpaType
  BY DEF SlotsAndListingsFit, SlotsFit
<1>2. SameProgram(g, h) /\ SameRows(g, h)
  BY <1>1, RemoveDialog
<1> HIDE DEF h
<1>3. SlotsAndListingsFit(h) /\ Grows(g, h) /\ \A t \in Tables : SameKeys(g, h, t)
  BY <1>2, SameProgramFits
<1>4. SecretsFit(g) => SecretsFit(h)
  BY <1>2, SameProgramSecrets
<1> QED
  BY <1>2, <1>3, <1>4 DEF Keeps, h

\* A key that comes to next is a row, or waits for a lookup, if the list has its
\* properties.
LEMMA CallNext ==
  ASSUME keyring \subseteq AllKeys, NEW g, SlotsAndListingsFit(g), NEW t \in Tables,
         NEW k \in AllKeys, NEW ok
  PROVE  LET h == call_next(g, t, k, ok)
             w == g.tables[t].data
         IN /\ Keeps(g, h, ok)
            /\ g.tables[t].next /\ w \in KeyLists
                 /\ g.widgets[w].state \in {"constructed", "closed"} /\ ~h.undefined
               => k \in Waiting(h, w) \cup Shown(h, w)
<1> DEFINE w == g.tables[t].data
           h == call_next(g, t, k, ok)
           d == remove_trustdb_dialog(g, w)
<1>1. CASE ~g.tables[t].next
  <2>1. h = g
    BY <1>1 DEF call_next
  <2> QED
    BY <1>1, <2>1, KeepsIsReflexive
<1>2. CASE g.tables[t].next /\ g.widgets[w].state = "closed"
  <2>1. h = [g EXCEPT !.undefined = TRUE]
    BY <1>2 DEF call_next
  <2> HIDE DEF w
  <2> QED
    BY <1>2, <2>1, UndefinedKeeps DEF w
<1>3. CASE g.tables[t].next /\ g.widgets[w].state # "closed"
  <2>1. w \in Widgets /\ g \in GpaType
    BY <1>3 DEF SlotsAndListingsFit, SlotsFit
  <2>2. Keeps(g, d, ok) /\ SameProgram(g, d) /\ SameRows(g, d)
    BY <2>1, RemoveDialogKeeps
  <2>3. h = IF w \in KeyLists /\ ~PassesTheFilter(g, w, k) THEN d
            ELSE IF NeedsALookup(g, w) THEN row_lookup(d, w, k, "row", 0, 1, ok)
            ELSE add_rows(d, w, {k})
    BY <1>3 DEF call_next
  <2> HIDE DEF w, d, h
  <2>4. NeedsALookup(d, w) <=> NeedsALookup(g, w)
    BY <2>1, <2>2 DEF NeedsALookup, ShowsSecret, SameProgram
  <2>5. SlotsAndListingsFit(d)
    BY <2>2 DEF Keeps
  <2>6. CASE w \in KeyLists /\ ~PassesTheFilter(g, w, k)
    <3>1. h = d /\ g.widgets[w].state # "constructed"
      BY <2>3, <2>6 DEF PassesTheFilter
    <3> QED
      BY <1>3, <2>2, <3>1 DEF w, h
  <2>7. CASE ~(w \in KeyLists /\ ~PassesTheFilter(g, w, k)) /\ NeedsALookup(g, w)
    <3>1. h = row_lookup(d, w, k, "row", 0, 1, ok) /\ w \in KeyLists
      BY <2>3, <2>7 DEF NeedsALookup
    <3>2. /\ SlotsAndListingsFit(h) /\ Grows(d, h)
          /\ \A u \in Tables : SameKeys(d, h, u)
          /\ k \in Waiting(h, w)
          /\ ok = Engines /\ SecretsFit(d) => SecretsFit(h)
      BY <2>5, <3>1, RowLookup
    <3>3. Keeps(d, h, ok)
      BY <3>2 DEF Keeps
    <3> QED
      BY <2>2, <3>2, <3>3, KeepsIsTransitive DEF w, h
  <2>8. CASE ~(w \in KeyLists /\ ~PassesTheFilter(g, w, k)) /\ ~NeedsALookup(g, w)
    <3>1. h = add_rows(d, w, {k})
      BY <2>3, <2>8
    <3>2. Keeps(d, h, ok) /\ {k} \subseteq Shown(h, w)
      BY <2>1, <2>4, <2>5, <2>8, <3>1, AddRowsKeeps
    <3> QED
      BY <2>2, <3>2, KeepsIsTransitive DEF w, h
  <2> QED
    BY <2>6, <2>7, <2>8
<1> QED
  BY <1>1, <1>2, <1>3

LEMMA Least ==
  ASSUME NEW S \in SUBSET Nat, S # {}
  PROVE  \E n \in S : \A m \in S : n <= m
<1> DEFINE R == OpToRel(<, Nat)
<1>1. IsWellFoundedOn(R, Nat)
  BY NatLessThanWellFounded, Zenon
<1>2. \A x, y \in Nat : y < x => <<y, x>> \in R
  BY SMT DEF OpToRel
<1> HIDE DEF R
<1>3. PICK x \in S : \A y \in S : ~ (<<y, x>> \in R)
  BY <1>1, WFMin
<1>4. \A y \in S : ~(y < x)
  BY <1>2, <1>3
<1> QED
  BY <1>3, <1>4

LEMMA ListCache ==
  ASSUME keyring \subseteq AllKeys, NEW g, SlotsAndListingsFit(g),
         g.tables["public"].next, NEW at \in Nat \ {0}, NEW ok
  PROVE  LET h == list_cache(g, at, ok) IN
         Keeps(g, h, ok) /\ Len(h.loops) >= Len(g.loops)
<1> DEFINE table == g.tables["public"]
           w == table.data
           rest == {i \in at .. Len(table.keys) :
                      w \in KeyLists => PassesTheFilter(g, w, table.keys[i])}
           first == CHOOSE i \in rest : \A j \in rest : i <= j
           d == remove_trustdb_dialog(g, w)
           ks == {table.keys[i] : i \in rest}
           full == add_rows(d, w, ks)
           h == list_cache(g, at, ok)
<1>1. /\ w \in Widgets /\ g \in GpaType /\ "public" \in Tables
      /\ table.keys \in Seq(AllKeys) /\ table.end # "gtk_main_quit"
  BY DEF SlotsAndListingsFit, SlotsFit, GpaType, TableType, Tables
<1>2. Len(g.loops) \in Nat
  BY <1>1 DEF GpaType
<1>3. /\ rest \in SUBSET Nat
      /\ \A i \in rest : i \in Nat /\ table.keys[i] \in AllKeys
  BY <1>1
<1>4. ks \in SUBSET AllKeys /\ (ks # {} => rest # {})
  BY <1>3
<1>5. ASSUME rest # {}
      PROVE  first \in rest
  <2> HIDE DEF rest
  <2>1. \E n \in rest : \A m \in rest : n <= m
    BY <1>3, <1>5, Least
  <2> QED
    BY <2>1
<1>6. h = IF g.widgets[w].state = "closed" THEN [g EXCEPT !.undefined = TRUE]
          ELSE IF rest # {} /\ NeedsALookup(g, w)
          THEN row_lookup(d, w, table.keys[first], "cached_row", first, 1, ok)
          ELSE call_end(full, "public")
  BY DEF list_cache
<1>7. Keeps(g, d, ok) /\ SameProgram(g, d)
  BY <1>1, RemoveDialogKeeps
<1> HIDE DEF w, rest, first, d, ks, h
<1>8. SlotsAndListingsFit(d)
  BY <1>7 DEF Keeps
<1>9. CASE g.widgets[w].state = "closed"
  <2>1. h = [g EXCEPT !.undefined = TRUE]
    BY <1>6, <1>9
  <2>2. Keeps(g, h, ok) /\ h.loops = g.loops
    BY <2>1, UndefinedKeeps
  <2> QED
    BY <1>2, <2>2 DEF h
<1>10. CASE g.widgets[w].state # "closed" /\ rest # {} /\ NeedsALookup(g, w)
  <2> DEFINE k == table.keys[first]
  <2>1. h = row_lookup(d, w, k, "cached_row", first, 1, ok)
    BY <1>6, <1>10
  <2>2. k \in AllKeys /\ first \in Nat /\ w \in KeyLists /\ d.tables["public"].next
    BY <1>3, <1>5, <1>7, <1>10 DEF NeedsALookup, SameProgram
  <2> HIDE DEF k
  <2>3. /\ SlotsAndListingsFit(h) /\ Grows(d, h)
        /\ \A u \in Tables : SameKeys(d, h, u)
        /\ Len(h.loops) = Len(d.loops) + 1
        /\ ok = Engines /\ SecretsFit(d) => SecretsFit(h)
    BY <1>8, <2>1, <2>2, RowLookup
  <2>4. Keeps(d, h, ok)
    BY <2>3 DEF Keeps
  <2>5. Len(h.loops) = Len(g.loops) + 1
    BY <1>7, <2>3 DEF SameProgram
  <2> QED
    BY <1>2, <1>7, <2>4, <2>5, KeepsIsTransitive DEF h
<1>11. CASE g.widgets[w].state # "closed" /\ ~(rest # {} /\ NeedsALookup(g, w))
  <2>1. h = call_end(full, "public")
    BY <1>6, <1>11
  <2>2. NeedsALookup(d, w) <=> NeedsALookup(g, w)
    BY <1>1, <1>7 DEF NeedsALookup, ShowsSecret, SameProgram
  <2>3. Keeps(d, full, ok) /\ SameProgram(d, full)
    BY <1>1, <1>4, <1>8, <1>11, <2>2, AddRowsKeeps
  <2> HIDE DEF full
  <2>4. SlotsAndListingsFit(full) /\ full.tables["public"].end # "gtk_main_quit"
    BY <1>1, <1>7, <2>3 DEF Keeps, SameProgram
  <2>5. Keeps(full, h, ok) /\ h.loops = full.loops
    BY <1>1, <2>1, <2>4, CallEndKeeps
  <2>6. Keeps(g, h, ok)
    BY <1>7, <2>3, <2>5, KeepsIsTransitive
  <2>7. h.loops = g.loops
    BY <1>7, <2>3, <2>5 DEF SameProgram
  <2> QED
    BY <1>2, <2>6, <2>7 DEF h
<1> QED
  BY <1>9, <1>10, <1>11

\* gpa_keylist_new gives the list its properties.
LEMMA Constructed ==
  ASSUME NEW g, NEW new, NEW w \in KeyLists, NEW depth \in Nat, NEW ok,
         Fits(g, new), g.widgets[w].state # "closed",
         new = None \/ (new = w /\ Len(g.loops) <= depth)
  PROVE  LET h == constructed(g, w, depth) IN
         /\ Fits(h, None)
         /\ \A t \in Tables : SameKeys(g, h, t)
         /\ SecretsFit(g) => SecretsFit(h)
<1> DEFINE v == [g.widgets[w] EXCEPT !.state = "constructed"]
           h == constructed(g, w, depth)
<1>1. g \in GpaType /\ w \in Widgets /\ g.widgets[w] \in WidgetType
      /\ Len(g.loops) \in Nat
  BY DEF Fits, SlotsAndListingsFit, SlotsFit, GpaType, Widgets
<1>2. CASE Len(g.loops) > depth
  <2>1. h = g /\ new = None
    BY <1>1, <1>2 DEF constructed
  <2> QED
    BY <2>1 DEF SameKeys
<1>3. CASE ~(Len(g.loops) > depth)
  <2>1. h = [g EXCEPT !.widgets[w] = v]
    BY <1>3 DEF constructed
  <2>2. v \in WidgetType /\ v.state = "constructed" /\ v.rows = g.widgets[w].rows
    BY <1>1 DEF WidgetType
  <2> HIDE DEF v, h
  <2>3. /\ h \in GpaType
        /\ h.tables = g.tables /\ h.listing = g.listing /\ h.loops = g.loops
        /\ h.undefined = g.undefined
        /\ h.widgets[w] = v
        /\ \A u \in Widgets \ {w} : h.widgets[u] = g.widgets[u]
    BY <1>1, <2>1, <2>2, WidgetUpdate
  <2>4. SlotsFit(h)
    BY <2>3 DEF Fits, SlotsAndListingsFit, SlotsFit
  <2>5. \A t \in Tables : ListingFits(h, t)
    BY <2>3 DEF Fits, SlotsAndListingsFit, ListingFits, Delivered
  <2>6. QuitFits(h)
    BY <2>3 DEF Fits, SlotsAndListingsFit, QuitFits
  <2>7. \A t \in Tables : SameKeys(g, h, t)
    BY <2>3 DEF SameKeys
  <2>8. \A u \in Widgets : h.widgets[u].rows = g.widgets[u].rows
    BY <2>2, <2>3
  <2>9. SecretsFit(g) => SecretsFit(h)
    BY <2>3, <2>8 DEF NoRowsYet, SecretsFit, Widgets
  <2>10. \A u \in KeyLists : ThereFor(g, u) \/ u = w => ThereFor(h, u)
    BY <2>2, <2>3 DEF ThereFor, Widgets
  <2>11. \A u \in KeyLists : /\ Serves(h, u) => Serves(g, u)
                             /\ Waiting(h, u) = Waiting(g, u)
                             /\ Shown(h, u) = Shown(g, u)
    BY <2>3, <2>8 DEF Serves, Waiting, Shown, Widgets
  <2>12. RowsFit(h, None)
    <3>1. RowsFit(g, new) /\ SlotsFit(g)
      BY DEF Fits, SlotsAndListingsFit
    <3>2. \A i \in DOMAIN h.loops :
            h.loops[i].for = "new_key" => ThereFor(h, h.loops[i].list)
      BY <2>3, <2>10, <3>1 DEF RowsFit, NewKeysFit, SlotsFit
    <3>3. \A u \in KeyLists \ {None} : h.listing["public"].for = u => ThereFor(h, u)
      BY <2>3, <2>10, <3>1 DEF RowsFit, NewKeysFit
    <3> QED
      BY <2>3, <2>11, <3>1, <3>2, <3>3 DEF RowsFit, NewKeysFit
  <2> QED
    BY <2>4, <2>5, <2>6, <2>7, <2>9, <2>12 DEF Fits, SlotsAndListingsFit, h
<1> QED
  BY <1>2, <1>3

-----------------------------------------------------------------------------
(* The requests.                                                           *)

\* What w, or nobody, may put into the slot of t.
MayTake(g, t, next, end, w, new) ==
  /\ next \in BOOLEAN /\ end \in {"none", "end", "g_application_quit"}
  /\ w \in Widgets \cup {None}
  /\ next \/ end = "end" => w \in Widgets
  /\ t = "public" => next /\ end = "end"
  /\ t = "public" /\ w \in KeyLists => w = new \/ ThereFor(g, w)

LEMMA SetCallbacks ==
  ASSUME NEW g, SlotsAndListingsFit(g), NEW t \in Tables, NEW next, NEW end, NEW w,
         NEW new, MayTake(g, t, next, end, w, new)
  PROVE  LET f == set_callbacks(g, t, next, end, w) IN
         /\ Retargets(g, f, t, new)
         /\ Retargets(g, [f EXCEPT !.tables[t].new_key = TRUE], t, new)
<1> DEFINE old == g.tables[t]
           v == [old EXCEPT !.next = next, !.end = end, !.data = w]
           v2 == [v EXCEPT !.new_key = TRUE]
           f == set_callbacks(g, t, next, end, w)
           f2 == [f EXCEPT !.tables[t].new_key = TRUE]
<1>1. g \in GpaType /\ old \in TableType
  BY DEF SlotsAndListingsFit, SlotsFit, GpaType
<1>2. /\ v \in TableType
      /\ v.next = next /\ v.end = end /\ v.data = w
      /\ v.keys = old.keys /\ v.initialized = old.initialized
      /\ v.tmp_list = old.tmp_list
      /\ v.did_first_half = old.did_first_half /\ v.first_half_err = old.first_half_err
  BY <1>1 DEF TableType, MayTake
<1>3. f = [g EXCEPT !.tables[t] = v]
  BY DEF set_callbacks
<1> HIDE DEF v, f
<1>4. /\ v2 \in TableType
      /\ v2.next = next /\ v2.end = end /\ v2.data = w
      /\ v2.keys = old.keys /\ v2.initialized = old.initialized
      /\ v2.tmp_list = old.tmp_list
      /\ v2.did_first_half = old.did_first_half /\ v2.first_half_err = old.first_half_err
  BY <1>2 DEF TableType
<1> HIDE DEF v2
<1>5. /\ f \in GpaType
      /\ f.widgets = g.widgets /\ f.listing = g.listing /\ f.loops = g.loops
      /\ f.undefined = g.undefined
      /\ f.tables[t] = v
      /\ \A u \in Tables \ {t} : f.tables[u] = g.tables[u]
  BY <1>1, <1>2, <1>3, TableUpdate
<1>6. f2 = [f EXCEPT !.tables[t] = v2]
  BY <1>5 DEF v2
<1> HIDE DEF f2
<1>7. /\ f2 \in GpaType
      /\ f2.widgets = f.widgets /\ f2.listing = f.listing /\ f2.loops = f.loops
      /\ f2.undefined = f.undefined
      /\ f2.tables[t] = v2
      /\ \A u \in Tables \ {t} : f2.tables[u] = f.tables[u]
  BY <1>4, <1>5, <1>6, TableUpdate
<1>8. Retargets(g, f, t, new)
  BY <1>2, <1>5 DEF Retargets, SameKeys, MayTake
<1>9. Retargets(g, f2, t, new)
  BY <1>4, <1>5, <1>7 DEF Retargets, SameKeys, MayTake
<1> QED
  BY <1>2, <1>5, <1>8, <1>9 DEF f, f2

LEMMA TakeSlot ==
  ASSUME keyring \subseteq AllKeys,
         NEW g, SlotsAndListingsFit(g), NewKeysFit(g), NEW t \in Tables, NEW next,
         NEW end, NEW w, NEW new, MayTake(g, t, next, end, w, new),
         t = "secret" => RowsFit(g, new), NEW fpr \in AllKeys \cup {None}, NEW ok
  PROVE  /\ Taken(g, gpa_keytable_force_reload(g, t, next, end, w, ok), t, new)
         /\ Taken(g, gpa_keytable_load_new(g, t, fpr, next, end, w, ok), t, new)
<1> DEFINE f == set_callbacks(g, t, next, end, w)
           f2 == [f EXCEPT !.tables[t].new_key = TRUE]
<1>1. Retargets(g, f, t, new) /\ Retargets(g, f2, t, new)
  BY SetCallbacks
<1>2. None \in AllKeys \cup {None}
  OBVIOUS
<1>3. /\ gpa_keytable_force_reload(g, t, next, end, w, ok) = reload_cache(f, t, None, ok)
      /\ gpa_keytable_load_new(g, t, fpr, next, end, w, ok) = reload_cache(f2, t, fpr, ok)
  BY DEF gpa_keytable_force_reload, gpa_keytable_load_new
<1> HIDE DEF f, f2
<1>4. Taken(g, reload_cache(f, t, None, ok), t, new)
  BY <1>1, <1>2, Retarget
<1>5. Taken(g, reload_cache(f2, t, fpr, ok), t, new)
  BY <1>1, Retarget
<1> QED
  BY <1>3, <1>4, <1>5

\* The widget w changes; its rows go at most.
LEMMA WidgetChanges ==
  ASSUME NEW g, SlotsAndListingsFit(g), NewKeysFit(g), NEW w \in Widgets,
         NEW v \in WidgetType,
         w \in KeyLists /\ ThereFor(g, w) => v.state \in {"constructed", "closed"},
         v.rows \in {{}, g.widgets[w].rows}
  PROVE  LET h == [g EXCEPT !.widgets[w] = v] IN
         /\ SlotsAndListingsFit(h) /\ NewKeysFit(h)
         /\ RowsFit(g, None)
              /\ (g.widgets[w].state = "closed" => v.state = "closed")
              /\ (v.rows = g.widgets[w].rows \/ v.state = "closed")
            => RowsFit(h, None)
         /\ \A t \in Tables : SameKeys(g, h, t)
         /\ SecretsFit(g) => SecretsFit(h)
         /\ h.loops = g.loops /\ h.tables = g.tables
         /\ \A u \in KeyLists : ThereFor(g, u) => ThereFor(h, u)
         /\ h.widgets[w] = v /\ \A u \in Widgets \ {w} : h.widgets[u] = g.widgets[u]
<1> DEFINE h == [g EXCEPT !.widgets[w] = v]
<1>1. g \in GpaType
  BY DEF SlotsAndListingsFit, SlotsFit
<1>2. /\ h \in GpaType
      /\ h.tables = g.tables /\ h.listing = g.listing /\ h.loops = g.loops
      /\ h.undefined = g.undefined
      /\ h.widgets[w] = v
      /\ \A u \in Widgets \ {w} : h.widgets[u] = g.widgets[u]
  BY <1>1, WidgetUpdate
<1> HIDE DEF h
<1>3. SlotsFit(h)
  BY <1>2 DEF SlotsAndListingsFit, SlotsFit
<1>4. \A t \in Tables : ListingFits(h, t)
  BY <1>2 DEF SlotsAndListingsFit, ListingFits, Delivered
<1>5. QuitFits(h)
  BY <1>2 DEF SlotsAndListingsFit, QuitFits
<1>6. \A u \in KeyLists : ThereFor(g, u) => ThereFor(h, u)
  BY <1>2 DEF ThereFor, Widgets
<1>7. NewKeysFit(h)
  BY <1>2, <1>6 DEF NewKeysFit, SlotsAndListingsFit, SlotsFit
<1>8. \A t \in Tables : SameKeys(g, h, t)
  BY <1>2 DEF SameKeys
<1>9. SecretsFit(g) => SecretsFit(h)
  <2>1. \A u \in Widgets : h.widgets[u].rows \in {{}, g.widgets[u].rows}
    BY <1>2
  <2> QED
    BY <1>2, <2>1 DEF NoRowsYet, SecretsFit, Widgets
<1>10. ASSUME RowsFit(g, None), g.widgets[w].state = "closed" => v.state = "closed",
              v.rows = g.widgets[w].rows \/ v.state = "closed"
       PROVE  RowsFit(h, None)
  <2>1. \A u \in KeyLists : Serves(h, u) =>
          /\ Serves(g, u)
          /\ Waiting(h, u) = Waiting(g, u) /\ Shown(h, u) = Shown(g, u)
    BY <1>2, <1>10 DEF Serves, Waiting, Shown, Widgets
  <2>2. \A u \in KeyLists \ {None} : h.listing["public"].for = u => ThereFor(h, u)
    BY <1>2, <1>6, <1>10 DEF RowsFit
  <2> QED
    BY <1>2, <1>7, <1>10, <2>1, <2>2 DEF RowsFit
<1> QED
  BY <1>2, <1>3, <1>4, <1>5, <1>6, <1>7, <1>8, <1>9, <1>10 DEF SlotsAndListingsFit, h

LEMMA RetargetFits ==
  ASSUME NEW g, SlotsAndListingsFit(g), NEW t \in Tables, NEW f, NEW new,
         Retargets(g, f, t, new)
  PROVE  SlotsAndListingsFit(f)
<1>1. \A u \in Tables : ListingFits(f, u)
  BY DEF SlotsAndListingsFit, ListingFits, Delivered, Retargets
<1>2. t # "public" => f.tables["public"] = g.tables["public"]
  BY DEF Retargets, Tables
<1>3. t # "secret" => f.tables["secret"] = g.tables["secret"]
  BY DEF Retargets, Tables
<1>4. g.tables["public"].next => f.tables["public"].next
  BY <1>2 DEF Retargets
<1>5. SameLoops(g, f)
  BY DEF Retargets, SameLoops, SameFrame
<1>6. SlotsFit(g)
  BY DEF SlotsAndListingsFit
<1>7. \A u \in Tables : f.tables[u].next \/ f.tables[u].end = "end" =>
                          f.tables[u].data \in Widgets
  BY <1>6 DEF Retargets, SlotsFit
<1>8. f.tables["public"].end \in {"none", "end"}
  BY <1>2, <1>6 DEF Retargets, SlotsFit
<1>9. SlotsFit(f)
  BY <1>4, <1>5, <1>6, <1>7, <1>8, FramesKept DEF Retargets, SlotsFit
<1>10. QuitFits(f)
  BY <1>3 DEF SlotsAndListingsFit, QuitFits, Retargets
<1> QED
  BY <1>1, <1>9, <1>10 DEF SlotsAndListingsFit

\* What a whole handler keeps.
Handled(g, h, ok) ==
  /\ Fits(h, None)
  /\ \A t \in Tables : h.tables[t].keys = g.tables[t].keys
  /\ ok = Engines /\ SecretsFit(g) => SecretsFit(h)

LEMMA TakenIsHandled ==
  ASSUME NEW g, NEW h, NEW t \in Tables, NEW ok, Taken(g, h, t, None)
  PROVE  Handled(g, h, ok)
<1>1. SecretsFit(g) => SecretsFit(h)
  BY SameSecrets DEF Taken, Tables
<1> QED
  BY <1>1 DEF Taken, Handled, SameKeys

LEMMA KeepsIsHandled ==
  ASSUME NEW g, NEW h, NEW ok, Fits(g, None), Keeps(g, h, ok)
  PROVE  Handled(g, h, ok)
<1>1. Fits(h, None)
  BY KeepsFits
<1> QED
  BY <1>1 DEF Keeps, Handled, SameKeys

LEMMA HandledIsTransitive ==
  ASSUME NEW f, NEW g, NEW h, NEW ok, Handled(f, g, ok), Handled(g, h, ok)
  PROVE  Handled(f, h, ok)
BY DEF Handled

\* Somebody who was not served before lists the cached keys, or starts a listing.
LEMMA ListKeys ==
  ASSUME keyring \subseteq AllKeys, NEW g, Fits(g, None), NEW w \in Widgets,
         w \in KeyLists => ~ThereFor(g, w), NEW ok
  PROVE  LET h == gpa_keytable_list_keys(g, w, ok) IN
         /\ \/ Fits(h, None) /\ Len(h.loops) >= Len(g.loops)
            \/ Fits(h, w) /\ h.loops = g.loops
         /\ w \in Selectors => Fits(h, None)
         /\ w \in KeyLists => h.widgets[w].state = g.widgets[w].state
         /\ \A t \in Tables : SameKeys(g, h, t)
         /\ ok = Engines /\ SecretsFit(g) => SecretsFit(h)
<1> DEFINE f == set_callbacks(g, "public", TRUE, "end", w)
           h == gpa_keytable_list_keys(g, w, ok)
<1>1. /\ SlotsAndListingsFit(g) /\ RowsFit(g, None) /\ NewKeysFit(g)
      /\ g \in GpaType /\ "public" \in Tables
  BY DEF Fits, SlotsAndListingsFit, SlotsFit, RowsFit, Tables
<1>2. MayTake(g, "public", TRUE, "end", w, w)
  BY DEF MayTake
<1>3. Retargets(g, f, "public", w) /\ f.tables["public"].data = w
  <2>1. Retargets(g, f, "public", w)
    BY <1>1, <1>2, SetCallbacks
  <2>2. f.tables["public"].data = w
    BY <1>1 DEF set_callbacks, GpaType, TableType
  <2> QED
    BY <2>1, <2>2
<1>4. h = IF f.tables["public"].keys # <<>> THEN list_cache(f, 1, ok)
          ELSE reload_cache(f, "public", None, ok)
  BY DEF gpa_keytable_list_keys
<1> None \notin KeyLists /\ None \in AllKeys \cup {None}
  BY KeyTableAssumption
<1> HIDE DEF f, h
<1>5. CASE f.tables["public"].keys # <<>>
  <2>1. SlotsAndListingsFit(f)
    BY <1>1, <1>3, RetargetFits
  <2>2. h = list_cache(f, 1, ok) /\ 1 \in Nat \ {0}
    BY <1>4, <1>5
  <2>3. Keeps(f, h, ok) /\ Len(h.loops) >= Len(f.loops)
    <3>1. f.tables["public"].next
      BY <1>3 DEF Retargets
    <3> QED
      BY <2>1, <2>2, <3>1, ListCache
  <2>4. RowsFit(f, None)
    <3>1. \A u \in KeyLists : ~Serves(f, u)
      BY <1>1, <1>3 DEF Serves, RowsFit, Retargets
    <3>2. NewKeysFit(f)
      BY <1>1, <1>3 DEF NewKeysFit, ThereFor, Retargets
    <3>3. \A u \in KeyLists \ {None} : f.listing["public"].for = u => ThereFor(f, u)
      BY <1>1, <1>3 DEF RowsFit, ThereFor, Retargets
    <3> QED
      BY <3>1, <3>2, <3>3 DEF RowsFit
  <2>5. Fits(h, None)
    BY <2>1, <2>3, <2>4, KeepsFits DEF Fits
  <2>6. SameKeys(g, f, "public") /\ SameKeys(g, f, "secret")
    BY <1>3 DEF Retargets, SameKeys, Tables
  <2>7. \A t \in Tables : SameKeys(g, h, t)
    BY <2>3, <2>6 DEF SameKeys, Keeps, Tables
  <2>8. f.loops = g.loops /\ f.widgets = g.widgets
    BY <1>3 DEF Retargets
  <2>9. ok = Engines /\ SecretsFit(g) => SecretsFit(h)
    BY <2>3, <2>6, <2>8 DEF Keeps, NoRowsYet, SecretsFit, SameKeys
  <2>10. w \in KeyLists => h.widgets[w].state = g.widgets[w].state
    BY <2>3, <2>8 DEF Keeps, Grows
  <2> QED
    BY <2>3, <2>5, <2>7, <2>8, <2>9, <2>10 DEF h
<1>6. CASE ~(f.tables["public"].keys # <<>>)
  <2>1. h = reload_cache(f, "public", None, ok)
    BY <1>4, <1>6
  <2>2. /\ Fits(h, w)
        /\ h.loops = g.loops /\ SameRows(g, h)
        /\ \A u \in Tables : SameKeys(g, h, u)
    <3>1. ASSUME NEW t \in Tables, t = "public"
          PROVE  Taken(g, reload_cache(f, t, None, ok), t, w)
      <4>1. (t = "secret" => RowsFit(g, w)) /\ Retargets(g, f, t, w)
        BY <1>3, <3>1
      <4>2. None \in AllKeys \cup {None}
        OBVIOUS
      <4> QED
        BY <1>1, <4>1, <4>2, Retarget
    <3> QED
      BY <1>1, <2>1, <3>1 DEF Taken
  <2>3. SecretsFit(g) => SecretsFit(h)
    BY <2>2, SameSecrets DEF Tables
  <2>4. w \in Selectors => Fits(h, None)
    BY <2>2, KeyTableAssumption DEF Fits, RowsFit
  <2>5. h.widgets[w].state = g.widgets[w].state
    BY <2>2 DEF SameRows
  <2> QED
    BY <2>2, <2>3, <2>4, <2>5 DEF h
<1> QED
  BY <1>5, <1>6

\* A list that is not there yet.
LEMMA ListOpens ==
  ASSUME keyring \subseteq AllKeys, NEW g, Fits(g, None), NEW w \in KeyLists,
         g.widgets[w].state = "none", NEW ok
  PROVE  Handled(g, gpa_keylist_init(g, w, ok), ok)
<1> DEFINE v == [g.widgets[w] EXCEPT !.state = "init", !.waits = TRUE]
           a == add_trustdb_dialog([g EXCEPT !.widgets[w].state = "init"], w)
           i == gpa_keytable_force_reload(a, "secret", FALSE, "g_application_quit",
                                          None, ok)
           l == gpa_keytable_list_keys(i, w, ok)
           h == constructed(l, w, Len(i.loops))
<1>1. /\ SlotsAndListingsFit(g) /\ RowsFit(g, None) /\ NewKeysFit(g)
      /\ g \in GpaType /\ w \in Widgets /\ g.widgets[w] \in WidgetType
  BY DEF Fits, SlotsAndListingsFit, SlotsFit, RowsFit, GpaType, Widgets
<1>2. v \in WidgetType /\ v.state = "init" /\ v.rows = g.widgets[w].rows
  BY <1>1 DEF WidgetType
<1>3. a = [g EXCEPT !.widgets[w] = v]
  BY <1>1 DEF add_trustdb_dialog, GpaType, WidgetType
<1>4. gpa_keylist_init(g, w, ok) = h
  BY DEF gpa_keylist_init
<1> HIDE DEF v, a, i, l, h
<1>5. ~ThereFor(g, w)
  BY DEF ThereFor
<1>6. /\ SlotsAndListingsFit(a) /\ NewKeysFit(a) /\ RowsFit(a, None)
      /\ \A t \in Tables : SameKeys(g, a, t)
      /\ SecretsFit(g) => SecretsFit(a)
      /\ a.widgets[w] = v
  BY <1>1, <1>2, <1>3, <1>5, WidgetChanges
<1>7. Taken(a, i, "secret", None)
  <2>1. MayTake(a, "secret", FALSE, "g_application_quit", None, None)
    BY DEF MayTake
  <2>2. "secret" \in Tables /\ None \in AllKeys \cup {None}
    BY DEF Tables
  <2> QED
    BY <1>6, <2>1, <2>2, TakeSlot DEF i
<1>8. /\ Fits(i, None) /\ i.widgets[w].state = "init"
      /\ \A t \in Tables : SameKeys(a, i, t)
      /\ SecretsFit(a) => SecretsFit(i)
  BY <1>1, <1>2, <1>6, <1>7, SameSecrets DEF Taken, SameRows, Tables
<1>9. ~ThereFor(i, w) /\ Len(i.loops) \in Nat
  BY <1>8 DEF ThereFor, Fits, SlotsAndListingsFit, SlotsFit, GpaType
<1>10. /\ \/ Fits(l, None) /\ Len(l.loops) >= Len(i.loops)
          \/ Fits(l, w) /\ l.loops = i.loops
       /\ l.widgets[w].state = "init"
       /\ \A t \in Tables : SameKeys(i, l, t)
       /\ ok = Engines /\ SecretsFit(i) => SecretsFit(l)
  BY <1>1, <1>8, <1>9, ListKeys DEF l
<1>11. /\ Fits(h, None)
       /\ \A t \in Tables : SameKeys(l, h, t)
       /\ SecretsFit(l) => SecretsFit(h)
  <2>1. CASE Fits(l, None)
    BY <1>9, <1>10, <2>1, Constructed DEF h
  <2>2. CASE Fits(l, w) /\ l.loops = i.loops
    <3>1. Len(l.loops) <= Len(i.loops)
      BY <1>9, <2>2
    <3> QED
      BY <1>9, <1>10, <2>2, <3>1, Constructed DEF h
  <2> QED
    BY <1>10, <2>1, <2>2
<1> QED
  BY <1>4, <1>6, <1>8, <1>10, <1>11 DEF Handled, SameKeys

\* Nobody takes the slot of the secret table.
LEMMA SecretKeysReload ==
  ASSUME keyring \subseteq AllKeys, NEW g, Fits(g, None),
         NEW fpr \in AllKeys \cup {None}, NEW ok
  PROVE  Taken(g, gpa_keytable_load_new(g, "secret", fpr, FALSE, "g_application_quit",
                                        None, ok), "secret", None)
<1>1. MayTake(g, "secret", FALSE, "g_application_quit", None, None)
  BY DEF MayTake
<1>2. "secret" \in Tables /\ SlotsAndListingsFit(g) /\ NewKeysFit(g) /\ RowsFit(g, None)
  BY DEF Tables, Fits, RowsFit
<1> QED
  BY <1>1, <1>2, TakeSlot

LEMMA ListReloads ==
  ASSUME keyring \subseteq AllKeys, NEW g, Fits(g, None), NEW w \in KeyLists,
         g.widgets[w].state = "constructed", NEW ok
  PROVE  Handled(g, gpa_keylist_start_reload(g, w, ok), ok)
<1> DEFINE v == [g.widgets[w] EXCEPT !.rows = {}, !.waits = TRUE]
           a == add_trustdb_dialog([g EXCEPT !.widgets[w].rows = {}], w)
           h == gpa_keytable_force_reload(a, "public", TRUE, "end", w, ok)
<1>1. /\ SlotsAndListingsFit(g) /\ NewKeysFit(g)
      /\ g \in GpaType /\ w \in Widgets /\ g.widgets[w] \in WidgetType
  BY DEF Fits, SlotsAndListingsFit, SlotsFit, RowsFit, GpaType, Widgets
<1>2. v \in WidgetType /\ v.state = "constructed" /\ v.rows = {}
  BY <1>1 DEF WidgetType
<1>3. a = [g EXCEPT !.widgets[w] = v]
  BY <1>1 DEF add_trustdb_dialog, GpaType, WidgetType
<1>4. gpa_keylist_start_reload(g, w, ok) = h
  BY DEF gpa_keylist_start_reload
<1> HIDE DEF v, a
<1>5. /\ SlotsAndListingsFit(a) /\ NewKeysFit(a)
      /\ \A t \in Tables : SameKeys(g, a, t)
      /\ SecretsFit(g) => SecretsFit(a)
      /\ a.widgets[w] = v
  BY <1>1, <1>2, <1>3, WidgetChanges
<1>6. MayTake(a, "public", TRUE, "end", w, None)
  BY <1>1, <1>2, <1>5 DEF MayTake, ThereFor
<1>7. "public" \in Tables /\ None \in AllKeys \cup {None} /\ "public" # "secret"
  BY DEF Tables
<1>8. Taken(a, h, "public", None)
  BY <1>5, <1>6, <1>7, TakeSlot
<1> HIDE DEF h
<1>9. Handled(a, h, ok)
  BY <1>7, <1>8, TakenIsHandled
<1> QED
  BY <1>4, <1>5, <1>9 DEF Handled, SameKeys

\* gpa_keylist_new_key up to its nested loop.
LEMMA NewKeyBegins ==
  ASSUME keyring \subseteq AllKeys, NEW g, Fits(g, None), NEW w \in KeyLists,
         g.widgets[w].state = "constructed", NEW k \in AllKeys, NEW ok
  PROVE  Handled(g, gpa_keylist_new_key(g, w, k, ok), ok)
<1> DEFINE v == [g.widgets[w] EXCEPT !.waits = TRUE]
           a == add_trustdb_dialog(g, w)
           b == gpa_keytable_load_new(a, "secret", k, FALSE, "g_application_quit",
                                      None, ok)
           frame == [for |-> "new_key", quit |-> FALSE, list |-> w, key |-> k,
                     lookups |-> 0, at |-> 0]
           h == gtk_main(b, frame)
<1>1. /\ SlotsAndListingsFit(g) /\ NewKeysFit(g) /\ RowsFit(g, None)
      /\ g \in GpaType /\ w \in Widgets /\ g.widgets[w] \in WidgetType
  BY DEF Fits, SlotsAndListingsFit, SlotsFit, RowsFit, GpaType, Widgets
<1>2. v \in WidgetType /\ v.state = "constructed" /\ v.rows = g.widgets[w].rows
  BY <1>1 DEF WidgetType
<1>3. a = [g EXCEPT !.widgets[w] = v]
  BY DEF add_trustdb_dialog
<1>4. gpa_keylist_new_key(g, w, k, ok) = h
  BY DEF gpa_keylist_new_key
<1>5. /\ frame \in FrameType
      /\ frame.for = "new_key" /\ frame.list = w /\ frame.key = k /\ ~frame.quit
  BY DEF FrameType
<1>6. h = [b EXCEPT !.loops = Append(b.loops, frame)]
  BY DEF gtk_main
<1> HIDE DEF v, a, b, frame, h
<1>7. /\ SlotsAndListingsFit(a) /\ NewKeysFit(a) /\ RowsFit(a, None)
      /\ \A t \in Tables : SameKeys(g, a, t)
      /\ SecretsFit(g) => SecretsFit(a)
      /\ a.widgets[w] = v
  BY <1>1, <1>2, <1>3, WidgetChanges
<1>8. Taken(a, b, "secret", None)
  BY <1>7, SecretKeysReload DEF Fits, b
<1>9. Handled(a, b, ok) /\ b.widgets[w].state = "constructed"
  BY <1>1, <1>2, <1>7, <1>8, TakenIsHandled DEF Tables, Taken, SameRows
<1>10. b \in GpaType /\ b.loops \in Seq(FrameType)
  BY <1>9 DEF Handled, Fits, SlotsAndListingsFit, SlotsFit, GpaType
<1> DEFINE n == Len(b.loops)
           longer == Append(b.loops, frame)
<1>11. /\ longer \in Seq(FrameType)
       /\ DOMAIN longer = 1 .. n + 1 /\ DOMAIN b.loops = 1 .. n /\ n \in Nat
       /\ \A i \in DOMAIN b.loops : longer[i] = b.loops[i]
       /\ \A i \in DOMAIN longer : i \in DOMAIN b.loops \/ longer[i] = frame
  BY <1>5, <1>10, Appended
<1>12. \A i \in DOMAIN b.loops : i \in DOMAIN longer
  BY <1>11
<1> HIDE DEF n, longer
<1>13. /\ h \in GpaType /\ h.loops = longer
       /\ h.tables = b.tables /\ h.listing = b.listing /\ h.widgets = b.widgets
       /\ h.undefined = b.undefined
  BY <1>6, <1>10, <1>11 DEF GpaType, longer
<1>14. SlotsFit(b) /\ (\A t \in Tables : ListingFits(b, t)) /\ QuitFits(b)
       /\ RowsFit(b, None)
  BY <1>9 DEF Handled, Fits, SlotsAndListingsFit
<1>15. SlotsFit(h)
  BY <1>5, <1>11, <1>13, <1>14 DEF SlotsFit
<1>16. \A t \in Tables : ListingFits(h, t)
  BY <1>13, <1>14 DEF ListingFits, Delivered
<1>17. QuitFits(h)
  <2>1. h.tables["secret"].end # "gtk_main_quit"
    BY <1>8, <1>13 DEF Taken
  <2> QED
    BY <2>1 DEF QuitFits
<1>18. \A u \in KeyLists : Waiting(b, u) \subseteq Waiting(h, u)
  BY <1>11, <1>12, <1>13 DEF Waiting
<1>19. ASSUME NEW i \in DOMAIN h.loops, h.loops[i].for = "new_key"
       PROVE  ThereFor(h, h.loops[i].list)
  <2>1. CASE i \in DOMAIN b.loops
    BY <1>11, <1>13, <1>14, <1>19, <2>1 DEF RowsFit, NewKeysFit, ThereFor
  <2>2. CASE h.loops[i] = frame
    BY <1>5, <1>9, <1>13, <2>2 DEF ThereFor
  <2> QED
    BY <1>11, <1>13, <2>1, <2>2
<1>20. RowsFit(h, None)
  BY <1>13, <1>14, <1>18, <1>19, RowsKept DEF Shown, NoneIsLost
<1>21. SecretsFit(b) => SecretsFit(h)
  BY <1>5, <1>11, <1>13 DEF NoRowsYet, SecretsFit
<1>22. Handled(b, h, ok)
  BY <1>13, <1>15, <1>16, <1>17, <1>20, <1>21 DEF Handled, Fits, SlotsAndListingsFit
<1> QED
  BY <1>4, <1>7, <1>9, <1>22 DEF Handled, SameKeys

\* What follows the nested loop of gpa_keylist_new_key.
LEMMA NewKeyGoesOn ==
  ASSUME keyring \subseteq AllKeys, NEW g, Fits(g, None), NEW w \in KeyLists,
         g.widgets[w].state = "constructed", NEW k \in AllKeys, NEW ok
  PROVE  Handled(g, gpa_keylist_new_key_goes_on(g, w, k, ok), ok)
<1> DEFINE v == [g.widgets[w] EXCEPT !.waits = TRUE]
           a == add_trustdb_dialog(g, w)
           h == gpa_keytable_load_new(a, "public", k, TRUE, "end", w, ok)
<1>1. /\ SlotsAndListingsFit(g) /\ NewKeysFit(g)
      /\ g \in GpaType /\ w \in Widgets /\ g.widgets[w] \in WidgetType
  BY DEF Fits, SlotsAndListingsFit, SlotsFit, RowsFit, GpaType, Widgets
<1>2. v \in WidgetType /\ v.state = "constructed" /\ v.rows = g.widgets[w].rows
  BY <1>1 DEF WidgetType
<1>3. a = [g EXCEPT !.widgets[w] = v]
  BY DEF add_trustdb_dialog
<1>4. gpa_keylist_new_key_goes_on(g, w, k, ok) = h
  BY DEF gpa_keylist_new_key_goes_on
<1> HIDE DEF v, a
<1>5. /\ SlotsAndListingsFit(a) /\ NewKeysFit(a)
      /\ \A t \in Tables : SameKeys(g, a, t)
      /\ SecretsFit(g) => SecretsFit(a)
      /\ a.widgets[w] = v
  BY <1>1, <1>2, <1>3, WidgetChanges
<1>6. MayTake(a, "public", TRUE, "end", w, None)
  BY <1>1, <1>2, <1>5 DEF MayTake, ThereFor
<1>7. "public" \in Tables /\ k \in AllKeys \cup {None} /\ "public" # "secret"
  BY DEF Tables
<1>8. Taken(a, h, "public", None)
  BY <1>5, <1>6, <1>7, TakeSlot
<1> HIDE DEF h
<1>9. Handled(a, h, ok)
  BY <1>7, <1>8, TakenIsHandled
<1> QED
  BY <1>4, <1>5, <1>9 DEF Handled, SameKeys

LEMMA SelectorOpens ==
  ASSUME keyring \subseteq AllKeys, NEW g, Fits(g, None), NEW w \in Selectors,
         g.widgets[w].state = "none", NEW ok
  PROVE  Handled(g, gpa_key_selector_new(g, w, ok), ok)
<1> DEFINE v == [g.widgets[w] EXCEPT !.state = "constructed", !.waits = TRUE]
           a == [g EXCEPT !.widgets[w].state = "constructed", !.widgets[w].waits = TRUE]
           s == gpa_keytable_force_reload(a, "secret", TRUE, "end", w, ok)
           l == gpa_keytable_list_keys(a, w, ok)
<1>1. /\ SlotsAndListingsFit(g) /\ NewKeysFit(g) /\ RowsFit(g, None)
      /\ g \in GpaType /\ w \in Widgets /\ g.widgets[w] \in WidgetType
      /\ w \notin KeyLists
  BY KeyTableAssumption
     DEF Fits, SlotsAndListingsFit, SlotsFit, RowsFit, GpaType, Widgets
<1>2. v \in WidgetType /\ v.state = "constructed" /\ v.rows = g.widgets[w].rows
  BY <1>1 DEF WidgetType
<1>3. a = [g EXCEPT !.widgets[w] = v]
  BY <1>1 DEF GpaType, WidgetType
<1>4. gpa_key_selector_new(g, w, ok) = IF w \in SecretSelectors THEN s ELSE l
  BY DEF gpa_key_selector_new
<1> HIDE DEF v, a
<1>5. /\ SlotsAndListingsFit(a) /\ NewKeysFit(a) /\ RowsFit(a, None)
      /\ \A t \in Tables : SameKeys(g, a, t)
      /\ SecretsFit(g) => SecretsFit(a)
  BY <1>1, <1>2, <1>3, WidgetChanges
<1>6. CASE w \in SecretSelectors
  <2>1. MayTake(a, "secret", TRUE, "end", w, None)
    BY <1>1 DEF MayTake
  <2>2. "secret" \in Tables /\ None \in AllKeys \cup {None}
    BY DEF Tables
  <2>3. Taken(a, s, "secret", None)
    BY <1>5, <2>1, <2>2, TakeSlot
  <2> HIDE DEF s
  <2>4. Handled(a, s, ok)
    BY <2>2, <2>3, TakenIsHandled
  <2> QED
    BY <1>4, <1>5, <1>6, <2>4 DEF Handled, SameKeys
<1>7. CASE w \notin SecretSelectors
  <2>1. Fits(a, None)
    BY <1>5 DEF Fits
  <2>2. /\ Fits(l, None)
        /\ \A t \in Tables : SameKeys(a, l, t)
        /\ ok = Engines /\ SecretsFit(a) => SecretsFit(l)
    BY <1>1, <2>1, ListKeys
  <2> HIDE DEF l
  <2> QED
    BY <1>4, <1>5, <1>7, <2>2 DEF Handled, SameKeys
<1> QED
  BY <1>6, <1>7

LEMMA LookupKey ==
  ASSUME keyring \subseteq AllKeys, NEW g, Fits(g, None), NEW ok
  PROVE  Handled(g, gpa_keytable_lookup_key(g, ok), ok)
<1> DEFINE frame == [for |-> "lookup", quit |-> FALSE, list |-> None,
                     key |-> None, lookups |-> 1, at |-> 0]
           h == ensure_begins(g, frame, ok)
<1>1. SlotsFit(g) /\ (\A t \in Tables : ListingFits(g, t)) /\ RowsFit(g, None)
      /\ SlotsAndListingsFit(g)
  BY DEF Fits, SlotsAndListingsFit
<1>2. frame \in FrameType
  BY DEF FrameType
<1>3. frame.for = "lookup" /\ frame.list = None /\ ~frame.quit
  OBVIOUS
<1>4. gpa_keytable_lookup_key(g, ok) = IF g.tables["secret"].initialized THEN g ELSE h
  BY DEF gpa_keytable_lookup_key
<1> HIDE DEF frame
<1>5. FrameFits(g, frame)
  BY <1>2, <1>3 DEF FrameFits
<1>6. /\ SlotsFit(h)
      /\ \A t \in Tables : ListingFits(h, t)
      /\ QuitFits(h)
      /\ \A t \in Tables : SameKeys(g, h, t)
      /\ SameTable(g, h, "public") /\ SameRows(g, h)
      /\ g.undefined => h.undefined
      /\ \A w \in KeyLists : Waiting(g, w) \subseteq Waiting(h, w)
      /\ \A i \in DOMAIN h.loops : h.loops[i].for = "new_key" =>
           /\ i \in DOMAIN g.loops /\ g.loops[i].for = "new_key"
           /\ h.loops[i].list = g.loops[i].list
      /\ ok = Engines => h.loops = Append(g.loops, frame)
  BY <1>1, <1>5, EnsureBegins
<1> HIDE DEF h
<1>7. Grows(g, h)
  BY <1>6, SameShown DEF Grows, SameRows, Widgets, NoneIsLost
<1>8. ASSUME ok = Engines, SecretsFit(g)
      PROVE  SecretsFit(h)
  <2>1. g.loops \in Seq(FrameType)
    BY <1>1 DEF SlotsFit, GpaType
  <2>2. \A i \in DOMAIN h.loops : h.loops[i] = frame \/
          (i \in DOMAIN g.loops /\ h.loops[i] = g.loops[i])
    BY <1>2, <1>6, <1>8, <2>1, Appended
  <2>3. \A w \in KeyLists : h.widgets[w].rows = g.widgets[w].rows
    BY <1>6 DEF SameRows, Widgets
  <2>4. h.tables["secret"].initialized = g.tables["secret"].initialized
    BY <1>6 DEF SameKeys, Tables
  <2> QED
    BY <1>3, <1>8, <2>2, <2>3, <2>4 DEF NoRowsYet, SecretsFit
<1>9. Keeps(g, h, ok)
  BY <1>6, <1>7, <1>8 DEF Keeps, SlotsAndListingsFit
<1>10. Handled(g, h, ok) /\ Handled(g, g, ok)
  BY <1>1, <1>9, KeepsIsReflexive, KeepsIsHandled
<1> QED
  BY <1>4, <1>10

-----------------------------------------------------------------------------
(* A nested loop returns.                                                  *)

LEMMA FrontOf ==
  ASSUME NEW S, NEW s \in Seq(S), s # <<>>
  PROVE  /\ Front(s) \in Seq(S) /\ Last(s) \in S
         /\ Len(s) \in Nat /\ Len(s) \in DOMAIN s /\ Last(s) = s[Len(s)]
         /\ DOMAIN s = 1 .. Len(s) /\ DOMAIN Front(s) = 1 .. Len(s) - 1
         /\ \A i \in DOMAIN Front(s) : i \in DOMAIN s /\ Front(s)[i] = s[i]
         /\ \A i \in DOMAIN s : i \in DOMAIN Front(s) \/ i = Len(s)
BY DEF Front, Last

\* h is g without its innermost loop, which ensure or gpa_keylist_new_key has left.
Popped(g, h) ==
  LET frame == Last(g.loops)
  IN /\ h \in GpaType /\ h.loops = Front(g.loops)
     /\ h.listing = g.listing /\ h.widgets = g.widgets /\ h.undefined = g.undefined
     /\ h.tables["public"] = g.tables["public"]
     /\ h.tables["secret"] = IF frame.for = "new_key" THEN g.tables["secret"]
                             ELSE [g.tables["secret"] EXCEPT !.end = "none"]

LEMMA Popping ==
  ASSUME NEW g, SlotsAndListingsFit(g), g.loops # <<>>
  PROVE  LET popped == [g EXCEPT !.loops = Front(@)]
             h == IF Last(g.loops).for = "new_key" THEN popped ELSE ensure_returns(popped)
         IN Popped(g, h)
<1> DEFINE frame == Last(g.loops)
           popped == [g EXCEPT !.loops = Front(@)]
           v == [g.tables["secret"] EXCEPT !.end = "none"]
           back == ensure_returns(popped)
<1>1. g \in GpaType /\ "secret" \in Tables /\ "public" \in Tables \ {"secret"}
      /\ g.tables["secret"] \in TableType
  BY DEF SlotsAndListingsFit, SlotsFit, GpaType, Tables
<1>2. Front(g.loops) \in Seq(FrameType)
  BY <1>1, FrontOf DEF GpaType
<1>3. /\ popped \in GpaType /\ popped.loops = Front(g.loops)
      /\ popped.tables = g.tables /\ popped.listing = g.listing
      /\ popped.widgets = g.widgets /\ popped.undefined = g.undefined
  BY <1>1, <1>2 DEF GpaType
<1>4. v \in TableType
  BY <1>1 DEF TableType
<1>5. back = [popped EXCEPT !.tables["secret"] = v]
  BY <1>1, <1>3 DEF ensure_returns
<1> HIDE DEF popped, v, back
<1>6. /\ back \in GpaType
      /\ back.widgets = popped.widgets /\ back.listing = popped.listing
      /\ back.loops = popped.loops /\ back.undefined = popped.undefined
      /\ back.tables["secret"] = v
      /\ \A u \in Tables \ {"secret"} : back.tables[u] = popped.tables[u]
  BY <1>1, <1>3, <1>4, <1>5, TableUpdate
<1>7. Popped(g, IF frame.for = "new_key" THEN popped ELSE back)
  BY <1>1, <1>3, <1>6 DEF Popped, v
<1> QED
  BY <1>7 DEF popped, back

LEMMA PoppedFits ==
  ASSUME NEW g, Fits(g, None), g.loops # <<>>, NEW h, Popped(g, h)
  PROVE  LET frame == Last(g.loops) IN
         /\ SlotsAndListingsFit(h) /\ NewKeysFit(h)
         /\ \A t \in Tables : SameKeys(g, h, t)
         /\ SameTable(g, h, "public")
         /\ \A i \in DOMAIN h.loops : i \in DOMAIN g.loops /\ h.loops[i] = g.loops[i]
         /\ \A w \in KeyLists : \A k \in Waiting(g, w) :
              k \in Waiting(h, w) \/ (frame.for = "row" /\ frame.list = w /\ frame.key = k)
         /\ frame \in FrameType
         /\ frame.for # "lookup" => frame.list \in KeyLists /\ frame.key \in AllKeys
         /\ frame.for = "lookup" => frame.list = None
         /\ frame.for = "cached_row" => g.tables["public"].next
         /\ frame.for = "new_key" => ThereFor(g, frame.list)
<1> DEFINE frame == Last(g.loops)
<1>1. SlotsFit(g) /\ (\A t \in Tables : ListingFits(g, t)) /\ QuitFits(g)
      /\ NewKeysFit(g) /\ g.loops \in Seq(FrameType) /\ g.tables["secret"] \in TableType
  BY DEF Fits, SlotsAndListingsFit, SlotsFit, RowsFit, GpaType, Tables
<1>2. /\ Front(g.loops) \in Seq(FrameType) /\ frame \in FrameType
      /\ Len(g.loops) \in DOMAIN g.loops /\ frame = g.loops[Len(g.loops)]
      /\ \A i \in DOMAIN h.loops : i \in DOMAIN g.loops /\ h.loops[i] = g.loops[i]
      /\ \A i \in DOMAIN g.loops : i \in DOMAIN h.loops \/ i = Len(g.loops)
  BY <1>1, FrontOf DEF Popped
<1> HIDE DEF frame
<1>3. /\ h.tables["secret"].next = g.tables["secret"].next
      /\ h.tables["secret"].data = g.tables["secret"].data
      /\ h.tables["secret"].tmp_list = g.tables["secret"].tmp_list
      /\ h.tables["secret"].did_first_half = g.tables["secret"].did_first_half
      /\ h.tables["secret"].first_half_err = g.tables["secret"].first_half_err
      /\ h.tables["secret"].keys = g.tables["secret"].keys
      /\ h.tables["secret"].initialized = g.tables["secret"].initialized
      /\ h.tables["secret"].end = IF frame.for = "new_key" THEN g.tables["secret"].end
                                  ELSE "none"
  BY <1>1 DEF Popped, TableType, frame
<1>4. SlotsFit(h)
  <2>1. \A t \in Tables : h.tables[t].next \/ h.tables[t].end = "end" =>
                            h.tables[t].data \in Widgets
    BY <1>1, <1>3 DEF SlotsFit, Popped, Tables
  <2>2. h.tables["public"] = g.tables["public"] /\ h \in GpaType
    BY DEF Popped
  <2> QED
    BY <1>1, <1>2, <2>1, <2>2 DEF SlotsFit
<1>5. \A t \in Tables : ListingFits(h, t)
  <2>1. ListingFits(h, "public") /\ ListingFits(h, "secret")
    BY <1>1, <1>3 DEF ListingFits, Delivered, Popped, Tables
  <2> QED
    BY <2>1 DEF Tables
<1>6. QuitFits(h)
  BY <1>1, <1>2, <1>3 DEF QuitFits
<1>7. NewKeysFit(h)
  BY <1>1, <1>2 DEF NewKeysFit, ThereFor, Popped
<1>8. \A t \in Tables : SameKeys(g, h, t)
  BY <1>3 DEF SameKeys, Popped, Tables
<1>9. SameTable(g, h, "public")
  BY DEF SameTable, Popped
<1>10. \A w \in KeyLists : \A k \in Waiting(g, w) :
         k \in Waiting(h, w) \/ (frame.for = "row" /\ frame.list = w /\ frame.key = k)
  BY <1>2 DEF Waiting
<1>11. /\ frame.for # "lookup" => frame.list \in KeyLists /\ frame.key \in AllKeys
       /\ frame.for = "lookup" => frame.list = None
       /\ frame.for = "cached_row" => g.tables["public"].next
       /\ frame.for = "new_key" => ThereFor(g, frame.list)
  BY <1>1, <1>2 DEF SlotsFit, NewKeysFit
<1> QED
  BY <1>2, <1>4, <1>5, <1>6, <1>7, <1>8, <1>9, <1>10, <1>11 DEF SlotsAndListingsFit, frame

\* Whoever waited goes on.
LEMMA LoopReturns ==
  ASSUME keyring \subseteq AllKeys, NEW g, Fits(g, None), g.loops # <<>>,
         Last(g.loops).quit, NEW ok
  PROVE  LET r == loop_returns(g, ok) IN
         /\ Fits(r, None)
         /\ \A t \in Tables : r.tables[t].keys = g.tables[t].keys
         /\ ok = Engines /\ Settled(g) => SecretsFit(r)
<1> DEFINE frame == Last(g.loops)
           popped == [g EXCEPT !.loops = Front(@)]
           h == IF frame.for = "new_key" THEN popped ELSE ensure_returns(popped)
           w == frame.list
           k == frame.key
           lost == [h EXCEPT !.undefined = TRUE]
           row == add_rows(h, w, {k})
           r == loop_returns(g, ok)
<1>1. SlotsAndListingsFit(g) /\ RowsFit(g, None) /\ SlotsFit(g) /\ g \in GpaType
  BY DEF Fits, SlotsAndListingsFit, SlotsFit
<1>2. Popped(g, h)
  BY <1>1, Popping
<1>3. r = IF w # None /\ h.widgets[w].state = "closed" THEN lost
          ELSE CASE frame.for = "new_key" -> gpa_keylist_new_key_goes_on(h, w, k, ok)
                 [] frame.for = "lookup" -> h
                 [] OTHER -> row_goes_on(h, frame, ok)
  BY <1>1, <1>2 DEF loop_returns, Popped
<1>4. row_goes_on(h, frame, ok) =
        IF frame.lookups = 1 /\ ~h.tables["secret"].initialized
        THEN row_lookup(h, w, k, frame.for, frame.at, 2, ok)
        ELSE IF frame.for = "row" THEN row
        ELSE constructed(list_cache(row, frame.at + 1, ok), w, Len(h.loops))
  BY DEF row_goes_on
<1> DEFINE Returned == /\ Fits(r, None)
                       /\ \A t \in Tables : r.tables[t].keys = g.tables[t].keys
                       /\ ok = Engines /\ Settled(g) => SecretsFit(r)
<1> SUFFICES Returned
  OBVIOUS
<1> HIDE DEF h, popped
<1>5. /\ SlotsAndListingsFit(h) /\ NewKeysFit(h)
      /\ \A t \in Tables : SameKeys(g, h, t)
      /\ SameTable(g, h, "public")
      /\ \A i \in DOMAIN h.loops : i \in DOMAIN g.loops /\ h.loops[i] = g.loops[i]
      /\ \A u \in KeyLists : \A c \in Waiting(g, u) :
           c \in Waiting(h, u) \/ (frame.for = "row" /\ w = u /\ k = c)
      /\ frame \in FrameType
      /\ frame.for # "lookup" => w \in KeyLists /\ k \in AllKeys
      /\ frame.for = "lookup" => w = None
      /\ frame.for = "cached_row" => g.tables["public"].next
      /\ frame.for = "new_key" => ThereFor(g, w)
  BY <1>2, PoppedFits
<1>6. h.widgets = g.widgets /\ h.undefined = g.undefined /\ h \in GpaType
  BY <1>2 DEF Popped
<1>7. Settled(g) => g.tables["secret"].initialized /\ SecretsFit(h)
  <2>1. Len(g.loops) \in DOMAIN g.loops /\ g.loops[Len(g.loops)] = frame
    BY <1>1, FrontOf DEF GpaType
  <2>2. \A i \in DOMAIN h.loops : i # Len(g.loops)
    <3>1. g.loops \in Seq(FrameType) /\ h.loops = Front(g.loops)
      BY <1>1, <1>2 DEF Popped, GpaType
    <3>2. DOMAIN h.loops = 1 .. Len(g.loops) - 1 /\ Len(g.loops) \in Nat
      BY <3>1, FrontOf
    <3> QED
      BY <3>2
  <2>3. h.tables["secret"].initialized = g.tables["secret"].initialized
    BY <1>5 DEF SameKeys, Tables
  <2> HIDE DEF frame
  <2>4. Settled(g) => g.tables["secret"].initialized
    BY <2>1 DEF Settled, frame
  <2>5. Settled(g) => \A i \in DOMAIN h.loops : ~h.loops[i].quit
    BY <1>5, <2>2 DEF Settled
  <2> QED
    BY <2>3, <2>4, <2>5 DEF SecretsFit, NoRowsYet
<1>8. /\ frame.for \in {"new_key", "lookup", "row", "cached_row"}
      /\ frame.lookups \in {0, 1, 2} /\ frame.at \in Nat /\ frame.at + 1 \in Nat \ {0}
  BY <1>5 DEF FrameType
<1> HIDE DEF frame, w, k, r, lost, row
<1>9. ASSUME Fits(r, None), \A t \in Tables : SameKeys(g, r, t),
             ok = Engines /\ SecretsFit(h) /\ g.tables["secret"].initialized
               => SecretsFit(r)
      PROVE  Returned
  BY <1>7, <1>9 DEF SameKeys
<1>10. ASSUME NEW s, SlotsAndListingsFit(s), Grows(h, s),
              ~s.undefined /\ frame.for = "row" => k \in Waiting(s, w) \cup Shown(s, w)
       PROVE  Fits(s, None)
  <2>1. Grows(g, s)
    <3>1. SameTable(g, s, "public") /\ (g.undefined => s.undefined)
      BY <1>5, <1>6, <1>10 DEF Grows, SameTable
    <3>2. \A u \in KeyLists : s.widgets[u].state = g.widgets[u].state
      BY <1>6, <1>10 DEF Grows
    <3>3. \A u \in KeyLists : Shown(g, u) = Shown(h, u)
      BY <1>6 DEF Shown
    <3>4. ~s.undefined => \A u \in KeyLists : NoneIsLost(g, s, u)
      BY <1>5, <1>10, <3>3 DEF Grows, NoneIsLost
    <3>5. \A i \in DOMAIN s.loops : s.loops[i].for = "new_key" =>
            /\ i \in DOMAIN g.loops /\ g.loops[i].for = "new_key"
            /\ s.loops[i].list = g.loops[i].list
      BY <1>5, <1>10 DEF Grows
    <3> QED
      BY <3>1, <3>2, <3>4, <3>5 DEF Grows
  <2> QED
    BY <1>1, <1>10, <2>1, GrowingFits DEF Fits
<1>11. CASE w # None /\ h.widgets[w].state = "closed"
  <2>1. r = lost
    BY <1>3, <1>11
  <2>2. /\ SlotsAndListingsFit(lost) /\ Grows(h, lost)
        /\ \A t \in Tables : SameKeys(h, lost, t)
        /\ SecretsFit(h) => SecretsFit(lost)
        /\ lost.undefined
    BY <1>5, UndefinedFits DEF lost
  <2>3. Fits(lost, None)
    BY <1>10, <2>2
  <2> QED
    BY <1>5, <1>9, <2>1, <2>2, <2>3 DEF SameKeys
<1>12. CASE ~(w # None /\ h.widgets[w].state = "closed") /\ frame.for = "new_key"
  <2>1. r = gpa_keylist_new_key_goes_on(h, w, k, ok)
    BY <1>3, <1>12
  <2>2. Fits(h, None)
    BY <1>5, <1>10, <1>12, GrowsIsReflexive
  <2>3. w \in KeyLists /\ k \in AllKeys /\ h.widgets[w].state = "constructed"
    BY <1>5, <1>6, <1>12, KeyTableAssumption DEF ThereFor
  <2>4. Handled(h, r, ok)
    BY <2>1, <2>2, <2>3, NewKeyGoesOn
  <2> QED
    BY <1>5, <1>7, <2>4 DEF Handled, SameKeys
<1>13. CASE ~(w # None /\ h.widgets[w].state = "closed") /\ frame.for = "lookup"
  <2>1. r = h
    BY <1>3, <1>13
  <2>2. Fits(h, None)
    BY <1>5, <1>10, <1>13, GrowsIsReflexive
  <2> QED
    BY <1>5, <1>9, <2>1, <2>2
<1>14. CASE ~(w # None /\ h.widgets[w].state = "closed")
            /\ frame.for \in {"row", "cached_row"}
  <2>1. r = row_goes_on(h, frame, ok)
    BY <1>3, <1>14
  <2>2. /\ w \in KeyLists /\ w \in Widgets /\ k \in AllKeys /\ {k} \in SUBSET AllKeys
        /\ h.widgets[w].state # "closed"
        /\ frame.for = "cached_row" => h.tables["public"].next
    BY <1>5, <1>14, KeyTableAssumption DEF SameTable, Widgets
  <2>3. CASE frame.lookups = 1 /\ ~h.tables["secret"].initialized
    <3>1. r = row_lookup(h, w, k, frame.for, frame.at, 2, ok)
      BY <1>4, <2>1, <2>3
    <3>2. /\ SlotsAndListingsFit(r) /\ Grows(h, r)
          /\ \A t \in Tables : SameKeys(h, r, t)
          /\ frame.for = "row" => k \in Waiting(r, w)
          /\ ok = Engines /\ SecretsFit(h) => SecretsFit(r)
      BY <1>5, <1>8, <1>14, <2>2, <3>1, RowLookup
    <3>3. Fits(r, None)
      BY <1>10, <3>2
    <3> QED
      BY <1>5, <1>9, <3>2, <3>3 DEF SameKeys
  <2>4. CASE ~(frame.lookups = 1 /\ ~h.tables["secret"].initialized)
    <3>1. SameProgram(h, row) /\ {k} \subseteq Shown(row, w)
      BY <1>6, <2>2, AddRows DEF row
    <3>2. /\ SlotsAndListingsFit(row) /\ Grows(h, row)
          /\ \A t \in Tables : SameKeys(h, row, t)
      BY <1>5, <3>1, SameProgramFits
    <3>3. Fits(row, None)
      BY <1>10, <3>1, <3>2
    <3>6. SecretsFit(h) /\ g.tables["secret"].initialized => SecretsFit(row)
      BY <1>5, <3>1 DEF SecretsFit, NoRowsYet, SameProgram, SameKeys, Tables
    <3>4. CASE frame.for = "row"
      <4>1. r = row
        BY <1>4, <2>1, <2>4, <3>4
      <4> QED
        BY <1>5, <1>9, <3>2, <3>3, <3>6, <4>1 DEF SameKeys
    <3>5. CASE frame.for = "cached_row"
      <4> DEFINE l == list_cache(row, frame.at + 1, ok)
      <4>1. r = constructed(l, w, Len(h.loops))
        BY <1>4, <2>1, <2>4, <3>5
      <4>2. row.tables["public"].next
        BY <2>2, <3>1, <3>5 DEF SameProgram
      <4>3. Keeps(row, l, ok)
        BY <1>8, <3>2, <4>2, ListCache
      <4> HIDE DEF l
      <4>4. Fits(l, None)
        BY <3>3, <4>3, KeepsFits
      <4>5. l.widgets[w].state # "closed"
        BY <2>2, <3>1, <4>3 DEF Keeps, Grows, SameProgram
      <4>6. Len(h.loops) \in Nat
        BY <1>6 DEF GpaType
      <4>7. /\ Fits(r, None) /\ \A t \in Tables : SameKeys(l, r, t)
            /\ SecretsFit(l) => SecretsFit(r)
        BY <2>2, <4>1, <4>4, <4>5, <4>6, Constructed
      <4> QED
        BY <1>5, <1>9, <3>2, <3>6, <4>3, <4>7 DEF SameKeys, Keeps
    <3> QED
      BY <1>14, <3>4, <3>5
  <2> QED
    BY <2>3, <2>4
<1> QED
  BY <1>8, <1>11, <1>12, <1>13, <1>14

-----------------------------------------------------------------------------
(* GPGME's events.                                                         *)

LEMMA OneMore ==
  ASSUME NEW S, NEW s \in Seq(S), IsInjective(s), NEW e \in S, e \notin ToSet(s)
  PROVE  /\ Append(s, e) \in Seq(S) /\ IsInjective(Append(s, e))
         /\ ToSet(Append(s, e)) = ToSet(s) \cup {e}
<1>1. /\ Append(s, e) \in Seq(S) /\ Len(s) \in Nat
      /\ DOMAIN Append(s, e) = 1 .. Len(s) + 1 /\ DOMAIN s = 1 .. Len(s)
      /\ \A i \in DOMAIN s : Append(s, e)[i] = s[i] /\ i # Len(s) + 1
      /\ \A i \in DOMAIN Append(s, e) : i \in DOMAIN s \/ i = Len(s) + 1
      /\ Append(s, e)[Len(s) + 1] = e
  BY Appended
<1>2. IsInjective(Append(s, e))
  BY <1>1 DEF IsInjective, ToSet
<1>3. ToSet(Append(s, e)) = ToSet(s) \cup {e}
  <2>1. Len(s) + 1 \in DOMAIN Append(s, e) /\ \A i \in DOMAIN s : i \in DOMAIN Append(s, e)
    BY <1>1
  <2> QED
    BY <1>1, <2>1 DEF ToSet
<1> QED
  BY <1>1, <1>2, <1>3

\* A key of the listing of t comes in.
LEMMA KeyArrives ==
  ASSUME keyring \subseteq AllKeys, NEW g, Fits(g, None), NEW t \in Tables,
         NEW k \in g.listing[t].left, NEW ok
  PROVE  Handled(g, call_next([g EXCEPT !.listing[t].left = @ \ {k},
                                        !.tables[t].tmp_list = Append(@, k)], t, k, ok),
                 ok)
<1> DEFINE table == [g.tables[t] EXCEPT !.tmp_list = Append(@, k)]
           listing == [g.listing[t] EXCEPT !.left = @ \ {k}]
           f == [g EXCEPT !.listing[t].left = @ \ {k},
                          !.tables[t].tmp_list = Append(@, k)]
           h == call_next(f, t, k, ok)
<1>1. /\ SlotsAndListingsFit(g) /\ SlotsFit(g) /\ RowsFit(g, None) /\ QuitFits(g)
      /\ \A u \in Tables : ListingFits(g, u)
      /\ g \in GpaType /\ g.tables[t] \in TableType /\ g.listing[t] \in ListingType
  BY DEF Fits, SlotsAndListingsFit, SlotsFit, GpaType
<1>2. k \in AllKeys /\ k \notin Delivered(g, t) /\ g.tables[t].tmp_list \in Seq(AllKeys)
      /\ IsInjective(g.tables[t].tmp_list)
  BY <1>1 DEF ListingFits, ListingType, TableType
<1>3. /\ Append(g.tables[t].tmp_list, k) \in Seq(AllKeys)
      /\ IsInjective(Append(g.tables[t].tmp_list, k))
      /\ ToSet(Append(g.tables[t].tmp_list, k)) = Delivered(g, t) \cup {k}
  BY <1>2, OneMore DEF Delivered
<1>4. /\ table \in TableType /\ table.tmp_list = Append(g.tables[t].tmp_list, k)
      /\ table.next = g.tables[t].next /\ table.data = g.tables[t].data
      /\ table.end = g.tables[t].end
      /\ table.keys = g.tables[t].keys /\ table.initialized = g.tables[t].initialized
      /\ table.did_first_half = g.tables[t].did_first_half
      /\ table.first_half_err = g.tables[t].first_half_err
  BY <1>1, <1>3 DEF TableType
<1>5. /\ listing \in ListingType /\ listing.left = g.listing[t].left \ {k}
      /\ listing.for = g.listing[t].for /\ listing.asked = g.listing[t].asked
      /\ listing.running = g.listing[t].running /\ listing.failed = g.listing[t].failed
  BY <1>1 DEF ListingType
<1>6. f = [g EXCEPT !.listing[t] = listing, !.tables[t] = table]
  BY <1>1 DEF GpaType
<1> HIDE DEF table, listing, f
<1>7. /\ f \in GpaType
      /\ f.loops = g.loops /\ f.widgets = g.widgets /\ f.undefined = g.undefined
      /\ f.tables[t] = table /\ f.listing[t] = listing
      /\ \A u \in Tables \ {t} : f.tables[u] = g.tables[u] /\ f.listing[u] = g.listing[u]
  BY <1>1, <1>4, <1>5, <1>6 DEF GpaType
<1>8. \A u \in Tables : SameSlot(g, f, u) /\ SameKeys(g, f, u)
  BY <1>4, <1>7 DEF SameSlot, SameKeys
<1>9. SlotsFit(f)
  <2>1. SameLoops(g, f) /\ f.tables["public"].next = g.tables["public"].next
    BY <1>7, <1>8 DEF SameLoops, SameFrame, SameSlot, Tables
  <2>2. \A i \in DOMAIN f.loops :
           /\ f.loops[i].for # "lookup" =>
                f.loops[i].list \in KeyLists /\ f.loops[i].key \in AllKeys
           /\ f.loops[i].for = "lookup" => f.loops[i].list = None
           /\ f.loops[i].for = "cached_row" => f.tables["public"].next
    BY <1>1, <2>1, FramesKept
  <2>3. f.tables["public"].end \in {"none", "end"}
    BY <1>1, <1>8 DEF SlotsFit, SameSlot, Tables
  <2> QED
    BY <1>1, <1>7, <1>8, <2>2, <2>3 DEF SlotsFit, SameSlot
<1>10. ASSUME NEW u \in Tables
       PROVE  ListingFits(f, u)
  <2>1. CASE u = t
    <3>1. Delivered(f, t) = Delivered(g, t) \cup {k}
      BY <1>3, <1>4, <1>7 DEF Delivered
    <3>2. IsInjective(f.tables[t].tmp_list)
      BY <1>3, <1>4, <1>7
    <3>3. ListingFits(g, t)
      BY <1>1
    <3> QED
      BY <1>4, <1>5, <1>7, <2>1, <3>1, <3>2, <3>3 DEF ListingFits
  <2>2. CASE u # t
    BY <1>1, <1>7, <2>2, SameListing DEF SameTable
  <2> QED
    BY <2>1, <2>2
<1>11. QuitFits(f)
  <2>1. f.tables["secret"].end = g.tables["secret"].end
    BY <1>8 DEF SameSlot, Tables
  <2> QED
    BY <1>1, <1>7, <2>1 DEF QuitFits
<1>12. SlotsAndListingsFit(f)
  BY <1>9, <1>10, <1>11 DEF SlotsAndListingsFit
<1>13. SecretsFit(g) => SecretsFit(f)
  <2>1. f.tables["secret"].initialized = g.tables["secret"].initialized
    BY <1>8 DEF SameKeys, Tables
  <2> QED
    BY <1>7, <2>1 DEF NoRowsYet, SecretsFit
<1>14. /\ Keeps(f, h, ok)
       /\ f.tables[t].next /\ f.tables[t].data \in KeyLists
            /\ f.widgets[f.tables[t].data].state \in {"constructed", "closed"}
            /\ ~h.undefined
          => k \in Waiting(h, f.tables[t].data) \cup Shown(h, f.tables[t].data)
  BY <1>2, <1>12, CallNext
<1> HIDE DEF h
<1>15. RowsFit(h, None)
  <2>1. CASE t = "secret"
    <3>1. Grows(g, f)
      BY <1>7, <2>1 DEF Grows, SameTable, NoneIsLost, Waiting, Shown, Tables
    <3>2. Grows(g, h)
      BY <1>14, <3>1, GrowsIsTransitive DEF Keeps
    <3> QED
      BY <1>1, <3>2, GrowingFits
  <2>2. CASE t = "public"
    <3>1. /\ h.tables["public"] = table /\ h.listing["public"] = listing
          /\ g.undefined => h.undefined
          /\ \A w \in KeyLists : h.widgets[w].state = g.widgets[w].state
      BY <1>7, <1>14, <2>2 DEF Keeps, Grows, SameTable
    <3>2. NewKeysFit(h)
      <4>1. \A i \in DOMAIN h.loops : h.loops[i].for = "new_key" =>
              /\ i \in DOMAIN g.loops /\ g.loops[i].for = "new_key"
              /\ h.loops[i].list = g.loops[i].list
        BY <1>7, <1>14 DEF Keeps, Grows
      <4> QED
        BY <1>1, <3>1, <4>1 DEF RowsFit, NewKeysFit, SlotsFit, ThereFor
    <3>3. \A w \in KeyLists \ {None} : h.listing["public"].for = w => ThereFor(h, w)
      BY <1>1, <1>5, <2>2, <3>1 DEF RowsFit, ThereFor
    <3>4. ASSUME NEW w \in KeyLists, Serves(h, w)
          PROVE  /\ h.tables["public"].next
                 /\ h.listing["public"].asked \subseteq
                      h.listing["public"].left \cup Waiting(h, w) \cup Shown(h, w)
      <4>1. Serves(g, w) /\ ~h.undefined
        BY <1>4, <1>5, <2>2, <3>1, <3>4 DEF Serves
      <4>2. /\ g.tables["public"].next
            /\ g.listing["public"].asked \subseteq
                 g.listing["public"].left \cup Waiting(g, w) \cup Shown(g, w)
        BY <1>1, <4>1 DEF RowsFit
      <4>3. NoneIsLost(f, h, w) /\ Waiting(f, w) = Waiting(g, w) /\ Shown(f, w) = Shown(g, w)
        BY <1>7, <1>14, <4>1 DEF Keeps, Grows, Waiting, Shown
      <4>4. f.tables[t].next /\ f.tables[t].data = w /\ f.widgets[w].state = g.widgets[w].state
        BY <1>4, <1>7, <2>2, <4>1, <4>2 DEF Serves
      <4>5. ThereFor(g, w)
        BY <1>1, <4>1, KeyTableAssumption DEF RowsFit, Serves
      <4>6. k \in Waiting(h, w) \cup Shown(h, w)
        BY <1>14, <4>1, <4>4, <4>5 DEF ThereFor
      <4> QED
        BY <1>4, <1>5, <2>2, <3>1, <4>2, <4>3, <4>6 DEF NoneIsLost
    <3> QED
      BY <3>2, <3>3, <3>4 DEF RowsFit
  <2> QED
    BY <2>1, <2>2 DEF Tables
<1>16. Handled(g, h, ok)
  BY <1>8, <1>13, <1>14, <1>15 DEF Handled, Fits, Keeps, SameKeys
<1> QED
  BY <1>16 DEF h, f

\* end is called, which may quit a loop.
LEMMA CallEndFits ==
  ASSUME NEW g, Fits(g, None), NEW t \in Tables
  PROVE  LET h == call_end(g, t) IN
         /\ Fits(h, None)
         /\ h.tables = g.tables /\ h.listing = g.listing
         /\ (SecretsFit(g)
              /\ (g.tables[t].end = "gtk_main_quit" => g.tables["secret"].initialized))
            => Settled(h)
<1> DEFINE h == call_end(g, t)
<1>1. /\ SlotsFit(g) /\ RowsFit(g, None) /\ QuitFits(g)
      /\ \A u \in Tables : ListingFits(g, u)
      /\ EndFits(g, t) /\ g \in GpaType
  BY DEF Fits, SlotsAndListingsFit, SlotsFit, EndFits
<1>2. /\ h \in GpaType
      /\ h.tables = g.tables /\ h.listing = g.listing
      /\ SameLoops(g, h) /\ SameRows(g, h) /\ OnlyTheInnermost(g, h)
      /\ g.undefined => h.undefined
      /\ g.tables[t].end # "gtk_main_quit" => h.loops = g.loops
  BY <1>1, CallEnd
<1> HIDE DEF h
<1>3. SlotsFit(h)
  <2>1. \A i \in DOMAIN h.loops :
           /\ h.loops[i].for # "lookup" =>
                h.loops[i].list \in KeyLists /\ h.loops[i].key \in AllKeys
           /\ h.loops[i].for = "lookup" => h.loops[i].list = None
           /\ h.loops[i].for = "cached_row" => h.tables["public"].next
    BY <1>1, <1>2, FramesKept
  <2> QED
    BY <1>1, <1>2, <2>1 DEF SlotsFit
<1>4. \A u \in Tables : ListingFits(h, u)
  BY <1>1, <1>2 DEF ListingFits, Delivered
<1>5. QuitFits(h)
  BY <1>1, <1>2 DEF QuitFits, SameLoops, SameFrame
<1>6. RowsFit(h, None)
  BY <1>1, <1>2, RowsUntouched
<1>7. ASSUME SecretsFit(g),
             g.tables[t].end = "gtk_main_quit" => g.tables["secret"].initialized
      PROVE  Settled(h)
  <2>1. NoRowsYet(h)
    BY <1>2, <1>7 DEF NoRowsYet, SecretsFit, SameRows, Widgets
  <2>2. CASE g.tables[t].end # "gtk_main_quit"
    BY <1>2, <1>7, <2>1, <2>2 DEF SecretsFit, Settled
  <2>3. CASE g.tables[t].end = "gtk_main_quit"
    <3>1. t = "secret"
      BY <1>1, <2>3 DEF SlotsFit, Tables
    <3>2. g.loops[Len(g.loops)].for # "new_key"
      BY <1>1, <2>3, <3>1 DEF QuitFits
    <3>3. \A i \in DOMAIN h.loops : h.loops[i].quit => i = Len(h.loops)
      BY <1>2, <1>7 DEF OnlyTheInnermost, SecretsFit
    <3>4. \A i \in DOMAIN h.loops : h.loops[i].for = g.loops[i].for
      BY <1>2 DEF SameLoops, SameFrame
    <3>5. Len(h.loops) = Len(g.loops)
      BY <1>2 DEF SameLoops
    <3> QED
      BY <1>2, <1>7, <2>1, <2>3, <3>2, <3>3, <3>4, <3>5 DEF Settled
  <2> QED
    BY <2>2, <2>3
<1> QED
  BY <1>2, <1>3, <1>4, <1>5, <1>6, <1>7 DEF Fits, SlotsAndListingsFit, h

LEMMA SecretsSettle ==
  ASSUME NEW g, SecretsFit(g)
  PROVE  Settled(g)
BY DEF SecretsFit, Settled

\* The listing of t is through.
Ended(g, f, t, err) ==
  /\ f \in GpaType
  /\ f.tables = g.tables /\ f.loops = g.loops /\ f.widgets = g.widgets
  /\ f.undefined = g.undefined
  /\ \A u \in Tables \ {t} : f.listing[u] = g.listing[u]
  /\ f.listing[t].for = g.listing[t].for /\ f.listing[t].asked = g.listing[t].asked
  /\ ~f.listing[t].running /\ f.listing[t].left = {}
  /\ IF err THEN f.listing[t].failed
            ELSE f.listing[t].failed = g.listing[t].failed /\ g.listing[t].left = {}

\* All that a listing without errors was asked for has been delivered, and its first
\* half has delivered no X.509 keys.
Through(f, t, err) ==
  /\ ~err /\ ~f.tables[t].first_half_err =>
       f.listing[t].asked \subseteq Delivered(f, t)
  /\ ~f.tables[t].did_first_half =>
       ~f.tables[t].first_half_err /\ Delivered(f, t) \cap CmsKeys = {}

LEMMA ListingEnds ==
  ASSUME NEW g, Fits(g, None), NEW t \in Tables, g.listing[t].running,
         NEW err \in BOOLEAN, NEW f, Ended(g, f, t, err)
  PROVE  /\ Fits(f, None) /\ Through(f, t, err)
         /\ SecretsFit(g) => SecretsFit(f)
<1>1. /\ SlotsFit(g) /\ RowsFit(g, None) /\ QuitFits(g)
      /\ \A u \in Tables : ListingFits(g, u)
  BY DEF Fits, SlotsAndListingsFit
<1>2. SlotsFit(f)
  BY <1>1 DEF SlotsFit, Ended
<1>3. Delivered(f, t) = Delivered(g, t)
  BY DEF Delivered, Ended
<1>4. ASSUME NEW u \in Tables
      PROVE  ListingFits(f, u)
  <2>1. CASE u = t
    BY <1>1, <1>3, <2>1 DEF ListingFits, Ended
  <2>2. CASE u # t
    BY <1>1, <2>2, SameListing DEF Ended, SameTable
  <2> QED
    BY <2>1, <2>2
<1>5. QuitFits(f)
  BY <1>1 DEF QuitFits, Ended
<1>6. RowsFit(f, None)
  <2>1. NewKeysFit(f)
    BY <1>1 DEF RowsFit, NewKeysFit, ThereFor, Ended
  <2>2. /\ f.listing["public"].for = g.listing["public"].for
        /\ f.listing["public"].asked = g.listing["public"].asked
        /\ ~f.listing["public"].failed =>
             /\ f.listing["public"].left = g.listing["public"].left
             /\ ~g.listing["public"].failed
    BY DEF Ended, Tables
  <2>3. \A w \in KeyLists \ {None} : f.listing["public"].for = w => ThereFor(f, w)
    BY <1>1, <2>2 DEF RowsFit, ThereFor, Ended
  <2>4. ASSUME NEW w \in KeyLists, Serves(f, w)
        PROVE  /\ f.tables["public"].next
               /\ f.listing["public"].asked \subseteq
                    f.listing["public"].left \cup Waiting(f, w) \cup Shown(f, w)
    <3>1. Serves(g, w)
      BY <2>2, <2>4 DEF Serves, Ended
    <3>2. Waiting(f, w) = Waiting(g, w) /\ Shown(f, w) = Shown(g, w)
      BY DEF Waiting, Shown, Ended
    <3> QED
      BY <1>1, <2>2, <2>4, <3>1, <3>2 DEF RowsFit, Serves, Ended
  <2> QED
    BY <2>1, <2>3, <2>4 DEF RowsFit
<1>7. Through(f, t, err)
  BY <1>1, <1>3 DEF Through, ListingFits, Ended
<1>8. SecretsFit(g) => SecretsFit(f)
  BY DEF NoRowsYet, SecretsFit, Ended
<1> QED
  BY <1>2, <1>4, <1>5, <1>6, <1>7, <1>8 DEF Fits, SlotsAndListingsFit

\* From g to h, the table t, whose listing does not run, gets its keys or notes
\* that the first half is done.
Notes(g, h, t) ==
  /\ h \in GpaType
  /\ h.listing = g.listing /\ h.loops = g.loops /\ h.widgets = g.widgets
  /\ g.undefined => h.undefined
  /\ \A u \in Tables \ {t} : h.tables[u] = g.tables[u]
  /\ SameSlot(g, h, t) /\ h.tables[t].tmp_list = g.tables[t].tmp_list
  /\ g.tables[t].initialized => h.tables[t].initialized

LEMMA NotesFit ==
  ASSUME NEW g, Fits(g, None), NEW t \in Tables, ~g.listing[t].running,
         NEW h, Notes(g, h, t)
  PROVE  /\ Fits(h, None)
         /\ SecretsFit(g) => SecretsFit(h)
<1>1. /\ SlotsFit(g) /\ RowsFit(g, None) /\ QuitFits(g)
      /\ \A u \in Tables : ListingFits(g, u)
  BY DEF Fits, SlotsAndListingsFit
<1>2. \A u \in Tables : SameSlot(g, h, u)
  BY DEF Notes, SameSlot
<1>3. /\ SameSlot(g, h, "public") /\ SameSlot(g, h, "secret")
      /\ g.tables["secret"].initialized => h.tables["secret"].initialized
  BY <1>2 DEF Tables, Notes
<1>4. SameLoops(g, h) /\ SameRows(g, h)
  BY DEF Notes, SameLoops, SameFrame, SameRows
<1>5. SlotsFit(h)
  BY <1>1, <1>2, <1>3 DEF SlotsFit, SameSlot, Notes
<1>6. ASSUME NEW u \in Tables
      PROVE  ListingFits(h, u)
  <2>1. CASE u = t
    BY <1>1, <2>1 DEF ListingFits, Notes, Delivered
  <2>2. CASE u # t
    BY <1>1, <2>2, SameListing DEF Notes, SameTable
  <2> QED
    BY <2>1, <2>2
<1>7. QuitFits(h)
  BY <1>1, <1>3 DEF QuitFits, SameSlot, Notes
<1>8. RowsFit(h, None)
  BY <1>1, <1>3, <1>4, RowsUntouched DEF Notes, SameSlot
<1>9. SecretsFit(g) => SecretsFit(h)
  BY <1>3 DEF NoRowsYet, SecretsFit, Notes
<1> QED
  BY <1>5, <1>6, <1>7, <1>8, <1>9 DEF Fits, SlotsAndListingsFit

\* The second half starts.
LEMMA SecondHalf ==
  ASSUME keyring \subseteq AllKeys, NEW g, Fits(g, None), NEW t \in Tables,
         g.tables[t].did_first_half, Delivered(g, t) \cap CmsKeys = {},
         ~g.tables[t].first_half_err => g.listing[t].asked \subseteq Delivered(g, t),
         ~g.listing[t].running, NEW fpr, NEW ok
  PROVE  LET h == gpgme_op_keylist_start(g, t, "CMS", fpr, ok) IN
         /\ Fits(h, None)
         /\ h.tables = g.tables
         /\ SecretsFit(g) => SecretsFit(h)
<1> DEFINE h == gpgme_op_keylist_start(g, t, "CMS", fpr, ok)
           ks == Listed(t, "CMS", fpr)
<1>1. /\ SlotsFit(g) /\ RowsFit(g, None) /\ QuitFits(g) /\ g \in GpaType
      /\ \A u \in Tables : ListingFits(g, u)
  BY DEF Fits, SlotsAndListingsFit, SlotsFit
<1>2. /\ h \in GpaType
      /\ h.tables = g.tables /\ h.widgets = g.widgets /\ h.loops = g.loops
      /\ \A u \in Tables \ {t} : h.listing[u] = g.listing[u]
      /\ h.listing[t].for = g.listing[t].for
      /\ "CMS" \in ok => /\ h.listing[t].running /\ h.listing[t].left = ks
                         /\ h.listing[t].asked = g.listing[t].asked \cup ks
                         /\ h.listing[t].failed = g.listing[t].failed
      /\ "CMS" \notin ok => ~h.listing[t].running /\ h.listing[t].left = {}
                            /\ h.listing[t].failed
      /\ g.undefined => h.undefined
  <2>1. "CMS" \in Engines
    BY DEF Engines
  <2> QED
    BY <1>1, <2>1, Start
<1>3. ks \subseteq CmsKeys
  BY ListedKeys
<1> HIDE DEF h, ks
<1>4. SlotsFit(h)
  BY <1>1, <1>2 DEF SlotsFit
<1>5. ASSUME NEW u \in Tables
      PROVE  ListingFits(h, u)
  <2>1. Delivered(h, t) = Delivered(g, t)
    BY <1>2 DEF Delivered
  <2>2. ListingFits(g, t) /\ g.listing[t].left = {}
    BY <1>1 DEF ListingFits
  <2>3. CASE u = t
    BY <1>2, <1>3, <2>1, <2>2, <2>3 DEF ListingFits
  <2>4. CASE u # t
    BY <1>1, <1>2, <2>4, SameListing DEF SameTable
  <2> QED
    BY <2>3, <2>4
<1>6. QuitFits(h)
  BY <1>1, <1>2 DEF QuitFits
<1>7. RowsFit(h, None)
  <2>1. NewKeysFit(h)
    BY <1>1, <1>2 DEF RowsFit, NewKeysFit, ThereFor
  <2>2. h.listing["public"].for = g.listing["public"].for
    BY <1>2 DEF Tables
  <2>3. \A w \in KeyLists \ {None} : h.listing["public"].for = w => ThereFor(h, w)
    BY <1>1, <1>2, <2>2 DEF RowsFit, ThereFor
  <2>4. ASSUME NEW w \in KeyLists, Serves(h, w)
        PROVE  /\ h.tables["public"].next
               /\ h.listing["public"].asked \subseteq
                    h.listing["public"].left \cup Waiting(h, w) \cup Shown(h, w)
    <3>1. Serves(g, w)
      BY <1>2, <2>2, <2>4 DEF Serves, Tables
    <3>2. Waiting(h, w) = Waiting(g, w) /\ Shown(h, w) = Shown(g, w)
      BY <1>2 DEF Waiting, Shown
    <3>3. /\ g.tables["public"].next
          /\ g.listing["public"].asked \subseteq
               g.listing["public"].left \cup Waiting(g, w) \cup Shown(g, w)
      BY <1>1, <3>1 DEF RowsFit
    <3>4. CASE t = "public"
      <4>1. g.listing["public"].left = {} /\ "CMS" \in ok
        BY <1>1, <1>2, <2>4, <3>4 DEF ListingFits, Serves
      <4> QED
        BY <1>2, <3>2, <3>3, <3>4, <4>1
    <3>5. CASE t # "public"
      BY <1>2, <3>2, <3>3, <3>5 DEF Tables
    <3> QED
      BY <3>4, <3>5
  <2> QED
    BY <2>1, <2>3, <2>4 DEF RowsFit
<1>8. SecretsFit(g) => SecretsFit(h)
  BY <1>2 DEF NoRowsYet, SecretsFit
<1> QED
  BY <1>2, <1>4, <1>5, <1>6, <1>7, <1>8 DEF Fits, SlotsAndListingsFit, h

\* A cache that changes holds all that its listing was asked for.
Filled(g, h) ==
  \A u \in Tables : h.tables[u].keys # g.tables[u].keys =>
                      h.listing[u].asked \subseteq ToSet(h.tables[u].keys)

LEMMA EndOfConcatenation ==
  ASSUME NEW S, NEW a \in Seq(S), NEW b \in Seq(S)
  PROVE  a \o b \in Seq(S) /\ ToSet(b) \subseteq ToSet(a \o b)
<1>1. /\ a \o b \in Seq(S) /\ Len(a) \in Nat /\ Len(b) \in Nat
      /\ DOMAIN b = 1 .. Len(b) /\ DOMAIN (a \o b) = 1 .. Len(a) + Len(b)
  OBVIOUS
<1>2. ASSUME NEW i \in DOMAIN b
      PROVE  Len(a) + i \in DOMAIN (a \o b) /\ (a \o b)[Len(a) + i] = b[i]
  BY <1>1
<1> QED
  BY <1>1, <1>2 DEF ToSet

\* The listing is through: the cache gets what it has delivered.
LEMMA AllDone ==
  ASSUME NEW f, Fits(f, None), NEW t \in Tables, ~f.listing[t].running,
         NEW err \in BOOLEAN,
         ~err /\ ~f.tables[t].first_half_err =>
           f.listing[t].asked \subseteq Delivered(f, t)
  PROVE  LET h == done_cb(f, t, err) IN
         /\ Fits(h, None) /\ Filled(f, h)
         /\ SecretsFit(f) => Settled(h)
<1> DEFINE h == done_cb(f, t, err)
           table == f.tables[t]
           walked == t = "public" /\ \E i \in DOMAIN f.loops :
                                       f.loops[i].for = "cached_row"
           ks == IF table.new_key THEN table.keys \o table.tmp_list ELSE table.tmp_list
           v == [table EXCEPT !.keys = ks, !.initialized = TRUE]
           late == f.undefined \/ (walked /\ ~table.new_key)
           e == [f EXCEPT !.tables[t] = v, !.undefined = late]
<1>1. f \in GpaType /\ table \in TableType /\ SlotsFit(f)
  BY DEF Fits, SlotsAndListingsFit, SlotsFit, GpaType
<1>2. CASE err \/ table.first_half_err
  BY <1>2, SecretsSettle DEF done_cb, Filled
<1>3. CASE ~(err \/ table.first_half_err)
  <2>1. table.keys \in Seq(AllKeys) /\ table.tmp_list \in Seq(AllKeys)
    BY <1>1 DEF TableType
  <2>2. ks \in Seq(AllKeys) /\ f.listing[t].asked \subseteq ToSet(ks)
    BY <1>3, <2>1, EndOfConcatenation DEF Delivered
  <2>3. h = call_end(e, t)
    <3> DEFINE filled == [f EXCEPT !.tables[t].keys = ks,
                                   !.tables[t].initialized = TRUE,
                                   !.undefined = late]
    <3>1. h = call_end(filled, t)
      BY <1>3 DEF done_cb
    <3>2. filled = e
      <4> HIDE DEF ks, late
      <4> QED
        BY <1>1 DEF GpaType, TableType
    <3> QED
      BY <3>1, <3>2
  <2>4. late \in BOOLEAN /\ (f.undefined => late)
    BY <1>1 DEF GpaType
  <2> HIDE DEF ks, late, h
  <2>5. /\ v \in TableType /\ v.keys = ks /\ v.initialized
        /\ v.next = table.next /\ v.data = table.data /\ v.end = table.end
        /\ v.tmp_list = table.tmp_list
    BY <1>1, <2>2 DEF TableType
  <2> HIDE DEF v
  <2>6. /\ e \in GpaType
        /\ e.listing = f.listing /\ e.loops = f.loops /\ e.widgets = f.widgets
        /\ e.undefined = late /\ e.tables[t] = v
        /\ \A u \in Tables \ {t} : e.tables[u] = f.tables[u]
    BY <1>1, <2>4, <2>5 DEF GpaType
  <2> HIDE DEF e
  <2>7. Notes(f, e, t)
    BY <2>4, <2>5, <2>6 DEF Notes, SameSlot
  <2>8. Fits(e, None) /\ (SecretsFit(f) => SecretsFit(e))
    BY <2>7, NotesFit
  <2>9. e.tables[t].end = "gtk_main_quit" => e.tables["secret"].initialized
    <3>1. e.tables["public"].end # "gtk_main_quit"
      BY <2>8 DEF Fits, SlotsAndListingsFit, SlotsFit
    <3> QED
      BY <2>5, <2>6, <3>1 DEF Tables
  <2>10. /\ Fits(h, None) /\ h.tables = e.tables /\ h.listing = e.listing
         /\ SecretsFit(e) => Settled(h)
    BY <2>3, <2>8, <2>9, CallEndFits
  <2>11. Filled(f, h)
    BY <2>2, <2>5, <2>6, <2>10 DEF Filled
  <2> QED
    BY <2>8, <2>10, <2>11 DEF h
<1> QED
  BY <1>2, <1>3

\* A half is done.
LEMMA HalfDone ==
  ASSUME keyring \subseteq AllKeys, NEW f, Fits(f, None), NEW t \in Tables,
         ~f.listing[t].running, NEW err \in BOOLEAN, Through(f, t, err), NEW ok
  PROVE  LET h == first_half_done_cb(f, t, err, ok) IN
         /\ Fits(h, None) /\ Filled(f, h)
         /\ ok = Engines /\ SecretsFit(f) => Settled(h)
<1> DEFINE h == first_half_done_cb(f, t, err, ok)
           table == f.tables[t]
           last == [table EXCEPT !.fpr = None]
           first == [table EXCEPT !.first_half_err = err, !.did_first_half = TRUE,
                                  !.fpr = None]
           d == [f EXCEPT !.tables[t] = last]
           e == [f EXCEPT !.tables[t] = first]
           started == gpgme_op_keylist_start(e, t, "CMS", table.fpr, ok)
           disabled == [started EXCEPT !.cms_hack = "no CMS" \notin ok]
<1>1. f \in GpaType /\ table \in TableType
  BY DEF Fits, SlotsAndListingsFit, SlotsFit, GpaType
<1>2. CASE table.did_first_half \/ ~f.cms_hack
  <2>1. h = done_cb(d, t, err)
    BY <1>1, <1>2 DEF first_half_done_cb
  <2> HIDE DEF h
  <2>2. /\ last \in TableType
        /\ last.next = table.next /\ last.data = table.data /\ last.end = table.end
        /\ last.keys = table.keys /\ last.initialized = table.initialized
        /\ last.tmp_list = table.tmp_list /\ last.first_half_err = table.first_half_err
    BY <1>1 DEF TableType
  <2> HIDE DEF last
  <2>3. /\ d \in GpaType
        /\ d.widgets = f.widgets /\ d.listing = f.listing /\ d.loops = f.loops
        /\ d.undefined = f.undefined /\ d.tables[t] = last
        /\ \A u \in Tables \ {t} : d.tables[u] = f.tables[u]
    BY <1>1, <2>2, TableUpdate
  <2> HIDE DEF d
  <2>4. Notes(f, d, t)
    BY <2>2, <2>3 DEF Notes, SameSlot
  <2>5. Fits(d, None) /\ (SecretsFit(f) => SecretsFit(d))
    BY <2>4, NotesFit
  <2>6. ~err /\ ~d.tables[t].first_half_err => d.listing[t].asked \subseteq Delivered(d, t)
    BY <2>2, <2>3 DEF Through, Delivered
  <2>7. ~d.listing[t].running
    BY <2>3
  <2>8. Fits(h, None) /\ Filled(d, h) /\ (SecretsFit(d) => Settled(h))
    BY <2>1, <2>5, <2>6, <2>7, AllDone
  <2>9. \A u \in Tables : d.tables[u].keys = f.tables[u].keys
    BY <2>2, <2>3
  <2>10. Filled(f, h)
    BY <2>8, <2>9 DEF Filled
  <2> QED
    BY <2>5, <2>8, <2>10 DEF h
<1>3. CASE ~(table.did_first_half \/ ~f.cms_hack)
  <2>1. h = IF "CMS" \in ok THEN started ELSE call_end(disabled, t)
    <3> DEFINE noted == [f EXCEPT !.tables[t].first_half_err = err,
                                  !.tables[t].did_first_half = TRUE,
                                  !.tables[t].fpr = None]
               begun == gpgme_op_keylist_start(noted, t, "CMS", table.fpr, ok)
    <3>1. h = IF "CMS" \in ok THEN begun
              ELSE call_end([begun EXCEPT !.cms_hack = "no CMS" \notin ok], t)
      BY <1>3 DEF first_half_done_cb
    <3>2. noted = e
      BY <1>1 DEF GpaType, TableType
    <3> QED
      BY <3>1, <3>2
  <2> HIDE DEF h
  <2>2. /\ first \in TableType
        /\ first.next = table.next /\ first.data = table.data /\ first.end = table.end
        /\ first.keys = table.keys /\ first.initialized = table.initialized
        /\ first.tmp_list = table.tmp_list
        /\ first.first_half_err = err /\ first.did_first_half
    BY <1>1 DEF TableType
  <2> HIDE DEF first
  <2>3. /\ e \in GpaType
        /\ e.widgets = f.widgets /\ e.listing = f.listing /\ e.loops = f.loops
        /\ e.undefined = f.undefined /\ e.tables[t] = first
        /\ \A u \in Tables \ {t} : e.tables[u] = f.tables[u]
    BY <1>1, <2>2, TableUpdate
  <2> HIDE DEF e
  <2>4. Notes(f, e, t)
    BY <2>2, <2>3 DEF Notes, SameSlot
  <2>5. Fits(e, None) /\ (SecretsFit(f) => SecretsFit(e))
    BY <2>4, NotesFit
  <2>6. Delivered(e, t) = Delivered(f, t)
    BY <2>2, <2>3 DEF Delivered
  <2>7. Fits(started, None) /\ started.tables = e.tables
        /\ (SecretsFit(e) => SecretsFit(started))
    <3>1. /\ e.tables[t].did_first_half /\ ~e.listing[t].running
          /\ Delivered(e, t) \cap CmsKeys = {}
      BY <1>3, <2>2, <2>3, <2>6 DEF Through
    <3>2. ~e.tables[t].first_half_err => e.listing[t].asked \subseteq Delivered(e, t)
      BY <1>3, <2>2, <2>3, <2>6 DEF Through
    <3> HIDE DEF started
    <3> QED
      BY <2>5, <3>1, <3>2, SecondHalf DEF started
  <2>8. Filled(f, started)
    BY <2>2, <2>3, <2>7 DEF Filled
  <2>9. CASE "CMS" \in ok
    BY <2>1, <2>5, <2>7, <2>8, <2>9, SecretsSettle DEF h
  <2>10. CASE "CMS" \notin ok
    <3>1. "CMS" \in Engines
      BY DEF Engines
    <3>2. /\ started \in GpaType
          /\ ~started.listing[t].running
      BY <2>3, <2>10, <3>1, Start
    <3> DEFINE off == "no CMS" \notin ok
    <3>3. off \in BOOLEAN
      OBVIOUS
    <3> HIDE DEF started, off
    <3>4. /\ disabled \in GpaType
          /\ disabled.tables = started.tables /\ disabled.listing = started.listing
          /\ disabled.loops = started.loops /\ disabled.widgets = started.widgets
          /\ disabled.undefined = started.undefined
      BY <3>2, <3>3 DEF GpaType, off
    <3> HIDE DEF disabled
    <3>5. Notes(started, disabled, t)
      BY <3>4 DEF Notes, SameSlot
    <3>6. Fits(disabled, None)
      BY <2>7, <3>2, <3>5, NotesFit
    <3>7. /\ Fits(h, None) /\ h.tables = disabled.tables /\ h.listing = disabled.listing
      <4>1. h = call_end(disabled, t)
        BY <2>1, <2>10
      <4> QED
        BY <3>6, <4>1, CallEndFits
    <3>8. Filled(f, h)
      BY <2>8, <3>4, <3>7 DEF Filled
    <3> QED
      BY <2>10, <3>1, <3>7, <3>8 DEF h
  <2> QED
    BY <2>9, <2>10
<1> QED
  BY <1>2, <1>3

\* What a step keeps when ok is the set of engines that start.
Kept(g, h, ok) ==
  /\ Fits(h, None) /\ Filled(g, h)
  /\ ok = Engines /\ SecretsFit(g) => Settled(h)

LEMMA HandledIsKept ==
  ASSUME NEW g, NEW h, NEW ok, Handled(g, h, ok)
  PROVE  Kept(g, h, ok)
BY SecretsSettle DEF Handled, Kept, Filled

\* GPGME reports that the listing of t is through, or that it failed.
LEMMA ListingIsDone ==
  ASSUME keyring \subseteq AllKeys, NEW g, Fits(g, None), NEW t \in Tables,
         g.listing[t].running, NEW ok
  PROVE  /\ g.listing[t].left = {} =>
              Kept(g, first_half_done_cb([g EXCEPT !.listing[t].running = FALSE],
                                         t, FALSE, ok), ok)
         /\ Kept(g, first_half_done_cb(
                      [g EXCEPT !.listing[t].running = FALSE, !.listing[t].left = {},
                                !.listing[t].failed = TRUE], t, TRUE, ok), ok)
<1> DEFINE old == g.listing[t]
           done_v == [old EXCEPT !.running = FALSE]
           failed_v == [old EXCEPT !.running = FALSE, !.left = {}, !.failed = TRUE]
           d == [g EXCEPT !.listing[t].running = FALSE]
           e == [g EXCEPT !.listing[t].running = FALSE, !.listing[t].left = {},
                          !.listing[t].failed = TRUE]
<1>1. g \in GpaType /\ old \in ListingType
  BY DEF Fits, SlotsAndListingsFit, SlotsFit, GpaType
<1>2. ASSUME NEW err \in BOOLEAN, NEW f, Ended(g, f, t, err)
      PROVE  Kept(g, first_half_done_cb(f, t, err, ok), ok)
  <2> DEFINE h == first_half_done_cb(f, t, err, ok)
  <2>1. /\ Fits(f, None) /\ Through(f, t, err)
        /\ SecretsFit(g) => SecretsFit(f)
    BY <1>2, ListingEnds
  <2>2. ~f.listing[t].running /\ f.tables = g.tables
    BY <1>2 DEF Ended
  <2>3. /\ Fits(h, None) /\ Filled(f, h)
        /\ ok = Engines /\ SecretsFit(f) => Settled(h)
    BY <2>1, <2>2, HalfDone
  <2> HIDE DEF h
  <2>4. Filled(g, h)
    BY <2>2, <2>3 DEF Filled
  <2>5. Kept(g, h, ok)
    BY <2>1, <2>3, <2>4 DEF Kept
  <2> QED
    BY <2>5 DEF h
<1>3. ASSUME old.left = {}
      PROVE  Kept(g, first_half_done_cb(d, t, FALSE, ok), ok)
  <2>1. /\ done_v \in ListingType /\ ~done_v.running /\ done_v.left = {}
        /\ done_v.for = old.for /\ done_v.asked = old.asked
        /\ done_v.failed = old.failed
    BY <1>1, <1>3 DEF ListingType
  <2>2. d = [g EXCEPT !.listing[t] = done_v]
    OBVIOUS
  <2> HIDE DEF done_v, d
  <2>3. /\ d \in GpaType
        /\ d.tables = g.tables /\ d.loops = g.loops /\ d.widgets = g.widgets
        /\ d.undefined = g.undefined /\ d.listing[t] = done_v
        /\ \A u \in Tables \ {t} : d.listing[u] = g.listing[u]
    BY <1>1, <2>1, <2>2 DEF GpaType
  <2>4. Ended(g, d, t, FALSE)
    BY <1>3, <2>1, <2>3 DEF Ended
  <2>5. FALSE \in BOOLEAN
    OBVIOUS
  <2> QED
    BY <1>2, <2>4, <2>5
<1>4. Kept(g, first_half_done_cb(e, t, TRUE, ok), ok)
  <2>1. /\ failed_v \in ListingType /\ ~failed_v.running /\ failed_v.left = {}
        /\ failed_v.for = old.for /\ failed_v.asked = old.asked /\ failed_v.failed
    BY <1>1 DEF ListingType
  <2>2. e = [g EXCEPT !.listing[t] = failed_v]
    BY <1>1 DEF GpaType, ListingType
  <2> HIDE DEF failed_v, e
  <2>3. /\ e \in GpaType
        /\ e.tables = g.tables /\ e.loops = g.loops /\ e.widgets = g.widgets
        /\ e.undefined = g.undefined /\ e.listing[t] = failed_v
        /\ \A u \in Tables \ {t} : e.listing[u] = g.listing[u]
    BY <1>1, <2>1, <2>2 DEF GpaType
  <2>4. Ended(g, e, t, TRUE)
    BY <2>1, <2>3 DEF Ended
  <2>5. TRUE \in BOOLEAN
    OBVIOUS
  <2> QED
    BY <1>2, <2>4, <2>5
<1> QED
  BY <1>3, <1>4

-----------------------------------------------------------------------------
(* The steps.                                                              *)

LEMMA InitFits == Init => IInv
<1> SUFFICES ASSUME Init
             PROVE  IInv
  OBVIOUS
<1>1. /\ keyring = FirstKeys /\ requests = 0 /\ failures = 0
      /\ gpa.tables = [t \in Tables |-> gpa_keytable_init]
      /\ gpa.listing = [t \in Tables |-> no_listing(None)]
      /\ gpa.loops = <<>>
      /\ gpa.widgets = [w \in Widgets |-> [state |-> "none", waits |-> FALSE,
                                           rows |-> {}]]
  BY DEF Init
<1>2. <<>> \in Seq(AllKeys) /\ <<>> \in Seq(FrameType) /\ DOMAIN <<>> = {}
  OBVIOUS
<1>3. gpa_keytable_init \in TableType
  BY <1>2 DEF gpa_keytable_init, TableType
<1>4. no_listing(None) \in ListingType
  BY DEF no_listing, ListingType
<1>5. [state |-> "none", waits |-> FALSE, rows |-> {}] \in WidgetType
  BY DEF WidgetType
<1>6. gpa \in GpaType
  <2> HIDE DEF gpa_keytable_init, no_listing
  <2> QED
    BY <1>2, <1>3, <1>4, <1>5 DEF Init, GpaType
<1>7. \A t \in Tables : /\ gpa.tables[t] = gpa_keytable_init
                        /\ gpa.listing[t] = no_listing(None)
  BY <1>1
<1>8. "public" \in Tables /\ "secret" \in Tables
  BY DEF Tables
<1>9. SlotsFit(gpa)
  BY <1>1, <1>2, <1>6, <1>7, <1>8 DEF SlotsFit, gpa_keytable_init
<1>10. ASSUME NEW t \in Tables
       PROVE  ListingFits(gpa, t)
  <2>1. gpa.tables[t].tmp_list = <<>>
    BY <1>7 DEF gpa_keytable_init
  <2>2. Delivered(gpa, t) = {} /\ IsInjective(gpa.tables[t].tmp_list)
    BY <2>1, EmptyFits
  <2>3. ~gpa.listing[t].running /\ gpa.listing[t].left = {}
    BY <1>7 DEF no_listing
  <2> QED
    BY <2>2, <2>3 DEF ListingFits
<1>11. QuitFits(gpa)
  BY <1>7, <1>8 DEF QuitFits, gpa_keytable_init
<1>12. RowsFit(gpa, None)
  <2>1. gpa.listing["public"].for = None
    BY <1>7, <1>8 DEF no_listing
  <2> QED
    BY <1>1, <1>2, <2>1, KeyTableAssumption DEF RowsFit, NewKeysFit, Serves
<1>13. Settled(gpa)
  BY <1>1, <1>2, <1>7, <1>8 DEF NoRowsYet, Settled, Widgets, gpa_keytable_init
<1> QED
  BY <1>1, <1>9, <1>10, <1>11, <1>12, <1>13, KeyTableAssumption
     DEF IInv, Fits, SlotsAndListingsFit

\* The main loop dispatches only when the innermost loop goes on.
LEMMA DispatchedCalmly ==
  ASSUME Fits(gpa, None), Dispatching, Settled(gpa)
  PROVE  SecretsFit(gpa)
<1>1. gpa.loops \in Seq(FrameType)
  BY DEF Fits, SlotsAndListingsFit, SlotsFit, GpaType
<1>2. gpa.loops # <<>> => Last(gpa.loops) = gpa.loops[Len(gpa.loops)]
  BY <1>1, FrontOf
<1>3. ASSUME NEW i \in DOMAIN gpa.loops, gpa.loops[i].quit
      PROVE  FALSE
  <2>1. gpa.loops # <<>> /\ i = Len(gpa.loops)
    BY <1>1, <1>3 DEF Settled
  <2> QED
    BY <1>2, <1>3, <2>1 DEF Dispatching, Returning
<1> QED
  BY <1>3 DEF SecretsFit, Settled

\* A handler that is run keeps the invariant.
Keeping == IInv' /\ Filled(gpa, gpa')

LEMMA StepKeeps ==
  ASSUME IInv, Dispatching, (keyring \subseteq AllKeys)', (requests \in 0..MaxRequests)',
         NEW ok, failures' = (IF ok = Engines THEN failures ELSE failures + 1),
         failures' <= MaxFailures, Kept(gpa, gpa', ok)
  PROVE  Keeping
<1>1. failures \in Nat /\ failures' \in 0..MaxFailures
  BY KeyTableAssumption DEF IInv
<1>2. failures' = 0 => ok = Engines /\ failures = 0
  BY <1>1
<1>3. failures = 0 => SecretsFit(gpa)
  BY DispatchedCalmly DEF IInv
<1>4. Fits(gpa', None) /\ Filled(gpa, gpa') /\ (failures' = 0 => Settled(gpa'))
  BY <1>2, <1>3 DEF Kept
<1> QED
  BY <1>1, <1>4 DEF IInv, Keeping

LEMMA Requests ==
  ASSUME IInv, requests < MaxRequests, requests' = requests + 1
  PROVE  (requests \in 0..MaxRequests)'
BY KeyTableAssumption DEF IInv

\* Every step keeps the invariant, and fills the caches it changes.
LEMMA NextKeeps == IInv /\ Next => Keeping
<1> SUFFICES ASSUME IInv, Next
             PROVE  Keeping
  OBVIOUS
<1>1. keyring \subseteq AllKeys /\ Fits(gpa, None)
  BY DEF IInv
<1>2. (keyring = keyring') => (keyring \subseteq AllKeys)'
  BY <1>1
<1>3. requests' = requests => (requests \in 0..MaxRequests)'
  BY DEF IInv
<1>4. ASSUME NEW w \in KeyLists, open_list(w)
      PROVE  Keeping
  <2>1. PICK ok \in Starts :
          /\ failures' = IF ok = Engines THEN failures ELSE failures + 1
          /\ failures' <= MaxFailures
          /\ gpa' = gpa_keylist_init(gpa, w, ok)
    BY <1>4 DEF open_list, Requested, Runs
  <2>2. /\ Dispatching /\ requests < MaxRequests /\ requests' = requests + 1 /\ keyring' = keyring
        /\ gpa.widgets[w].state = "none"
    BY <1>4 DEF open_list, Requested
  <2>3. Kept(gpa, gpa', ok)
    BY <1>1, <2>1, <2>2, ListOpens, HandledIsKept
  <2> QED
    BY <1>2, <2>1, <2>2, <2>3, Requests, StepKeeps
<1>5. ASSUME NEW w \in Selectors, open_selector(w)
      PROVE  Keeping
  <2>1. PICK ok \in Starts :
          /\ failures' = IF ok = Engines THEN failures ELSE failures + 1
          /\ failures' <= MaxFailures
          /\ gpa' = gpa_key_selector_new(gpa, w, ok)
    BY <1>5 DEF open_selector, Requested, Runs
  <2>2. /\ Dispatching /\ requests < MaxRequests /\ requests' = requests + 1 /\ keyring' = keyring
        /\ gpa.widgets[w].state = "none"
    BY <1>5 DEF open_selector, Requested
  <2>3. Kept(gpa, gpa', ok)
    BY <1>1, <2>1, <2>2, SelectorOpens, HandledIsKept
  <2> QED
    BY <1>2, <2>1, <2>2, <2>3, Requests, StepKeeps
<1>6. ASSUME NEW w \in Widgets, close(w)
      PROVE  Keeping
  <2> DEFINE v == [gpa.widgets[w] EXCEPT !.state = "closed", !.rows = {},
                                         !.waits = FALSE]
             h == [gpa EXCEPT !.widgets[w] = v]
  <2>1. gpa \in GpaType /\ gpa.widgets[w] \in WidgetType
        /\ SlotsAndListingsFit(gpa) /\ NewKeysFit(gpa) /\ RowsFit(gpa, None)
    BY <1>1 DEF Fits, SlotsAndListingsFit, SlotsFit, RowsFit, GpaType
  <2>2. v \in WidgetType /\ v.state = "closed" /\ v.rows = {}
    BY <2>1 DEF WidgetType
  <2>3. gpa' = h
    BY <1>6, <2>1 DEF close, GpaType, WidgetType
  <2> HIDE DEF v
  <2>4. /\ SlotsAndListingsFit(h) /\ RowsFit(h, None) /\ h.tables = gpa.tables
        /\ SecretsFit(gpa) => SecretsFit(h)
    BY <2>1, <2>2, WidgetChanges
  <2> HIDE DEF h
  <2>5. failures = 0 => SecretsFit(gpa)
    BY <1>1, <1>6, DispatchedCalmly DEF close, IInv
  <2>6. Fits(gpa', None) /\ (failures = 0 => Settled(gpa')) /\ Filled(gpa, gpa')
    BY <2>3, <2>4, <2>5, SecretsSettle DEF Fits, Filled
  <2> QED
    BY <1>6, <2>6 DEF close, Keeping, IInv
<1>7. ASSUME NEW w \in KeyLists, NEW ks \in Imported, changed_wot(w, ks)
      PROVE  Keeping
  <2>1. PICK ok \in Starts :
          /\ failures' = IF ok = Engines THEN failures ELSE failures + 1
          /\ failures' <= MaxFailures
          /\ gpa' = gpa_keylist_start_reload(gpa, w, ok)
    BY <1>7 DEF changed_wot, Requested, Runs
  <2>2. /\ Dispatching /\ requests < MaxRequests /\ requests' = requests + 1
        /\ gpa.widgets[w].state = "constructed"
        /\ (keyring \subseteq AllKeys)'
    BY <1>1, <1>7 DEF changed_wot, Requested, Managers, Imported
  <2>3. Kept(gpa, gpa', ok)
    BY <1>1, <2>1, <2>2, ListReloads, HandledIsKept
  <2> QED
    BY <2>1, <2>2, <2>3, Requests, StepKeeps
<1>8. ASSUME NEW w \in KeyLists, NEW ks \in Imported, changed_wot_secret(w, ks)
      PROVE  Keeping
  <2>1. PICK ok \in Starts :
          /\ failures' = IF ok = Engines THEN failures ELSE failures + 1
          /\ failures' <= MaxFailures
          /\ gpa' = gpa_keylist_start_reload(
                      gpa_keylist_imported_secret_key(gpa, ok), w, ok)
    BY <1>8 DEF changed_wot_secret, Requested, Runs
  <2>2. /\ Dispatching /\ requests < MaxRequests /\ requests' = requests + 1
        /\ gpa.widgets[w].state = "constructed"
        /\ (keyring \subseteq AllKeys)'
    BY <1>1, <1>8 DEF changed_wot_secret, Requested, Managers, Imported
  <2> DEFINE g == gpa_keylist_imported_secret_key(gpa, ok)
  <2>3. Taken(gpa, g, "secret", None)
    <3>1. None \in AllKeys \cup {None}
      OBVIOUS
    <3> QED
      BY <1>1, <3>1, SecretKeysReload DEF gpa_keylist_imported_secret_key
  <2> HIDE DEF g
  <2>4. Handled(gpa, g, ok) /\ Fits(g, None) /\ g.widgets[w].state = "constructed"
    <3>1. "secret" \in Tables
      BY DEF Tables
    <3> QED
      BY <2>2, <2>3, <3>1, TakenIsHandled DEF Taken, SameRows, Widgets
  <2>5. Handled(g, gpa_keylist_start_reload(g, w, ok), ok)
    BY <1>1, <2>4, ListReloads
  <2>6. Kept(gpa, gpa', ok)
    BY <2>1, <2>4, <2>5, HandledIsTransitive, HandledIsKept DEF g
  <2> QED
    BY <2>1, <2>2, <2>6, Requests, StepKeeps
<1>9. ASSUME NEW w \in KeyLists, NEW k \in AllKeys, gpa_key_manager_new_key_cb(w, k)
      PROVE  Keeping
  <2>1. PICK ok \in Starts :
          /\ failures' = IF ok = Engines THEN failures ELSE failures + 1
          /\ failures' <= MaxFailures
          /\ gpa' = gpa_keylist_new_key(gpa, w, k, ok)
    BY <1>9 DEF gpa_key_manager_new_key_cb, Requested, Runs
  <2>2. /\ Dispatching /\ requests < MaxRequests /\ requests' = requests + 1
        /\ gpa.widgets[w].state = "constructed"
        /\ (keyring \subseteq AllKeys)'
    BY <1>1, <1>9 DEF gpa_key_manager_new_key_cb, Requested, Managers
  <2>3. Kept(gpa, gpa', ok)
    BY <1>1, <2>1, <2>2, NewKeyBegins, HandledIsKept
  <2> QED
    BY <2>1, <2>2, <2>3, Requests, StepKeeps
<1>10. ASSUME lookup
       PROVE  Keeping
  <2>1. PICK ok \in Starts :
          /\ failures' = IF ok = Engines THEN failures ELSE failures + 1
          /\ failures' <= MaxFailures
          /\ gpa' = gpa_keytable_lookup_key(gpa, ok)
    BY <1>10 DEF lookup, Requested, Runs
  <2>2. /\ Dispatching /\ requests < MaxRequests /\ requests' = requests + 1
        /\ keyring' = keyring
    BY <1>10 DEF lookup, Requested
  <2>3. Kept(gpa, gpa', ok)
    BY <1>1, <2>1, LookupKey, HandledIsKept
  <2> QED
    BY <1>2, <2>1, <2>2, <2>3, Requests, StepKeeps
<1>11. ASSUME NEW t \in Tables, NEW k \in AllKeys, next_key_cb(t, k)
       PROVE  Keeping
  <2>1. PICK ok \in Starts :
          /\ failures' = IF ok = Engines THEN failures ELSE failures + 1
          /\ failures' <= MaxFailures
          /\ gpa' = call_next([gpa EXCEPT !.listing[t].left = @ \ {k},
                                          !.tables[t].tmp_list = Append(@, k)],
                              t, k, ok)
    BY <1>11 DEF next_key_cb, Runs
  <2>2. /\ Dispatching /\ k \in gpa.listing[t].left
        /\ keyring' = keyring /\ requests' = requests
    BY <1>11 DEF next_key_cb
  <2>3. Kept(gpa, gpa', ok)
    BY <1>1, <2>1, <2>2, KeyArrives, HandledIsKept
  <2> QED
    BY <1>2, <1>3, <2>1, <2>2, <2>3, StepKeeps
<1>12. ASSUME NEW t \in Tables, done(t)
       PROVE  Keeping
  <2>1. PICK ok \in Starts :
          /\ failures' = IF ok = Engines THEN failures ELSE failures + 1
          /\ failures' <= MaxFailures
          /\ gpa' = first_half_done_cb([gpa EXCEPT !.listing[t].running = FALSE],
                                       t, FALSE, ok)
    BY <1>12 DEF done, Runs
  <2>2. /\ Dispatching /\ gpa.listing[t].running /\ gpa.listing[t].left = {}
        /\ keyring' = keyring /\ requests' = requests
    BY <1>12 DEF done
  <2>3. Kept(gpa, gpa', ok)
    BY <1>1, <2>1, <2>2, ListingIsDone
  <2> QED
    BY <1>2, <1>3, <2>1, <2>2, <2>3, StepKeeps
<1>13. ASSUME NEW t \in Tables, done_with_error(t)
       PROVE  Keeping
  <2>1. /\ gpa.listing[t].running
        /\ failures < MaxFailures /\ failures' = failures + 1
        /\ gpa' = first_half_done_cb(
                    [gpa EXCEPT !.listing[t].running = FALSE, !.listing[t].left = {},
                                !.listing[t].failed = TRUE], t, TRUE, Engines)
        /\ keyring' = keyring /\ requests' = requests
    BY <1>13 DEF done_with_error
  <2>2. Kept(gpa, gpa', Engines)
    BY <1>1, <2>1, ListingIsDone
  <2>3. failures' \in 0..MaxFailures /\ failures' # 0
    BY <2>1, KeyTableAssumption DEF IInv
  <2> QED
    BY <1>2, <1>3, <2>1, <2>2, <2>3 DEF Keeping, Kept, IInv
<1>14. ASSUME return
       PROVE  Keeping
  <2>1. PICK ok \in Starts :
          /\ failures' = IF ok = Engines THEN failures ELSE failures + 1
          /\ failures' <= MaxFailures
          /\ gpa' = loop_returns(gpa, ok)
    BY <1>14 DEF return, Runs
  <2>2. /\ gpa.loops # <<>> /\ Last(gpa.loops).quit
        /\ keyring' = keyring /\ requests' = requests
    BY <1>14 DEF return, Returning
  <2>3. /\ Fits(gpa', None)
        /\ \A t \in Tables : gpa'.tables[t].keys = gpa.tables[t].keys
        /\ ok = Engines /\ Settled(gpa) => SecretsFit(gpa')
    BY <1>1, <2>1, <2>2, LoopReturns
  <2>4. /\ failures' \in 0..MaxFailures
        /\ failures' = 0 => ok = Engines /\ failures = 0
    BY <2>1, KeyTableAssumption DEF IInv
  <2>5. Filled(gpa, gpa')
    BY <2>3 DEF Filled
  <2>6. failures' = 0 => Settled(gpa')
    BY <2>3, <2>4, SecretsSettle DEF IInv
  <2> QED
    BY <1>2, <1>3, <2>2, <2>3, <2>4, <2>5, <2>6 DEF Keeping, IInv
<1> QED
  BY <1>4, <1>5, <1>6, <1>7, <1>8, <1>9, <1>10, <1>11, <1>12, <1>13, <1>14 DEF Next

LEMMA StuttersKeep == IInv /\ UNCHANGED vars => Keeping
BY DEF IInv, vars, Keeping, Filled

-----------------------------------------------------------------------------
(* What the key tables promise.                                            *)

\* In every state the slots, the listings, the loops and the rows fit each other.
THEOREM InductiveInvariant == Spec => []IInv
<1>1. Init => IInv
  BY InitFits
<1>2. IInv /\ [Next]_vars => IInv'
  BY NextKeeps, StuttersKeep DEF Keeping
<1> QED
  BY <1>1, <1>2, PTL DEF Spec

\* Every variable keeps its type, and no listing ever delivers a key twice or has a
\* key of the listing it replaced: reload_cache and next_key_cb keep them apart.
THEOREM ListingsAreApart == Spec => []NoListingIsMixed
<1>1. IInv => NoListingIsMixed
  <2> SUFFICES ASSUME IInv
               PROVE  NoListingIsMixed
    OBVIOUS
  <2>1. gpa \in GpaType /\ \A t \in Tables : ListingFits(gpa, t)
    BY DEF IInv, Fits, SlotsAndListingsFit, SlotsFit
  <2>2. TypeOK
    BY <2>1 DEF TypeOK, GpaType, IInv
  <2>3. \A t \in Tables : IsInjective(gpa.tables[t].tmp_list)
    BY <2>1 DEF ListingFits
  <2> QED
    BY <2>2, <2>3 DEF NoListingIsMixed
<1> QED
  BY <1>1, InductiveInvariant, PTL

\* The end function that quits the main loop is set only while the innermost
\* loop is of a caller of gpa_keytable_ensure, which unsets it when its loop
\* returns; and while no listing has failed, a loop that was told to quit is
\* such a one, and the innermost.  reload_cache calling end before the caller's
\* loop runs is outside the claim: it takes a listing that cannot be started.
THEOREM QuitsAreForEnsure == Spec => []QuitIsForEnsure
<1>1. IInv => QuitIsForEnsure
  <2> SUFFICES ASSUME IInv
               PROVE  QuitIsForEnsure
    OBVIOUS
  <2>1. QuitFits(gpa) /\ gpa.loops \in Seq(FrameType)
    BY DEF IInv, Fits, SlotsAndListingsFit, SlotsFit, GpaType
  <2>2. gpa.loops # <<>> => Last(gpa.loops) = gpa.loops[Len(gpa.loops)]
    BY <2>1, FrontOf
  <2>3. failures = 0 => \A i \in DOMAIN gpa.loops :
          gpa.loops[i].quit => i = Len(gpa.loops) /\ gpa.loops[i].for # "new_key"
    BY DEF IInv, Settled
  <2> QED
    BY <2>1, <2>2, <2>3 DEF QuitFits, QuitIsForEnsure
<1> QED
  BY <1>1, InductiveInvariant, PTL

\* Unless a listing failed, a list that shows which keys are secret has no row
\* before the secret keys are cached: gpa_keylist_next waits for them.
THEOREM SecretKeysAreFirst == Spec => []SecretKeysComeFirst
<1>1. IInv => SecretKeysComeFirst
  BY DEF IInv, NoRowsYet, Settled, SecretKeysComeFirst, Managers
<1> QED
  BY <1>1, InductiveInvariant, PTL

\* A list whose listing came to its end has a row for every key of it, whatever
\* waited in nested loops meanwhile and whoever else reloaded in between.
THEOREM ListingsAreShown == Spec => []ListShowsItsListing
<1>1. IInv => ListShowsItsListing
  <2> DEFINE listing == gpa.listing["public"]
             w == listing.for
  <2> SUFFICES ASSUME IInv,
                      ~gpa.undefined, ~listing.running, ~listing.failed,
                      ~InCallback(gpa, "public"),
                      w \in KeyLists, w = gpa.tables["public"].data,
                      gpa.widgets[w].state = "constructed"
               PROVE  listing.asked \subseteq {r.key : r \in gpa.widgets[w].rows}
    BY DEF ListShowsItsListing
  <2>1. RowsFit(gpa, None) /\ ListingFits(gpa, "public")
    BY DEF IInv, Fits, SlotsAndListingsFit, Tables
  <2>2. Serves(gpa, w)
    BY DEF Serves
  <2>3. listing.asked \subseteq listing.left \cup Waiting(gpa, w) \cup Shown(gpa, w)
    BY <2>1, <2>2 DEF RowsFit
  <2>4. listing.left = {}
    BY <2>1 DEF ListingFits
  <2>5. Waiting(gpa, w) = {}
    BY DEF InCallback, Waiting
  <2> QED
    BY <2>3, <2>4, <2>5 DEF Shown
<1> QED
  BY <1>1, InductiveInvariant, PTL

\* done_cb, and nothing else, changes a cache, and only when both halves of the
\* listing have delivered all they were asked for.
THEOREM CachesAreFilled == Spec => CacheHoldsWhatWasAsked
<1>1. IInv /\ [Next]_vars =>
        [\A t \in Tables :
           gpa'.tables[t].keys # gpa.tables[t].keys =>
             gpa'.listing[t].asked \subseteq ToSet(gpa'.tables[t].keys)]_vars
  BY NextKeeps DEF Keeping, Filled
<1> QED
  BY <1>1, InductiveInvariant, PTL DEF Spec, CacheHoldsWhatWasAsked

=============================================================================
