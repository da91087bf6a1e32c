---------------------------- MODULE WindowsProofs ----------------------------
(***************************************************************************)
(* What the main windows offer applies to what is selected in them, for    *)
(* any desks, keys and files, and whatever the user and the clients do.    *)
(*                                                                         *)
(* The inductive invariant adds to the two properties                      *)
(*   - what a listing of one key may still deliver is the key that is      *)
(*     selected, as soon as one is (KeysFit);                              *)
(*   - who changes the actions of a window later, a listing or an          *)
(*     operation, is there only if they were registered (KeysFit, OpsFit). *)
(* A window that updates its actions either has them all, and then no      *)
(* other window offers them, or uses one that was replaced, which ends the *)
(* program: so OffersFit is only about a program without a fault.          *)
(***************************************************************************)
EXTENDS Windows, FiniteSetTheorems, TLAPS

Boxes == {"warning", "generate?", "backup?", "encoding"}
OpType == [window : MainWindows \cup {"keyedit"}, orphan : BOOLEAN,
           kind : {"wot", "import", "quiet", "generate", "file"}]

Registered(w) == \A n \in Names[w] : owner[n] # NoWindow

OwnersFit ==
  /\ open \subseteq MainWindows
  /\ owner \in [AllNames -> MainWindows \cup {NoWindow}]
  /\ \A n \in AllNames : owner[n] = NoWindow \/ n \in Names[owner[n]]
  /\ \A w \in open : Registered(w)
  /\ \A n \in enabled : n \in AllNames /\ owner[n] # NoWindow

ProgramFits ==
  /\ desk \in Desks /\ start_only_server \in BOOLEAN
  /\ backend \in BOOLEAN /\ activated \in BOOLEAN
  /\ connection_counter \in 0 .. MaxConnections
  /\ shutdown_pending \in BOOLEAN /\ quit \in BOOLEAN /\ stuck \in BOOLEAN
  /\ clicks \in 0 .. MaxClicks

BoxesFit == boxes \in Seq(Boxes)

OpsFit == ops \subseteq OpType /\ \A o \in ops : o.window = "fileman" => Registered("fileman")

KeysFit ==
  /\ selection \subseteq Keys
  /\ {current_key, listing, default_key, status, editing} \subseteq Keys \cup {NoKey}
  /\ has_single_selection(selection) => {current_key, listing} \subseteq selection \cup {NoKey}
  /\ listing # NoKey => Registered("keymanager")

FilesFit == list_files \in Seq(Files) /\ IsInjective(list_files) /\ picked \subseteq ToSet(list_files)

\* A request that the clipboard window makes finds its action.
RequestType == [window : {"window", "dead"}, text : BOOLEAN, now : BOOLEAN]
AsksFit ==
  /\ offered \in BOOLEAN /\ asks \in Seq(RequestType)
  /\ Asks("window") => Registered("clipboard")

TextFits ==
  /\ marked \in BOOLEAN /\ (marked => text # "")
  /\ AsksFit

\* The actions that the window w itself enables and that are enabled now.
Offered(w) == {n \in enabled : n \in Sensitive[w] /\ owner[n] = w}

KeyOffersFit ==
  "keymanager" \in open =>
    \/ "warning" \in ToSet(boxes)
    \/ \A n \in Offered("keymanager") : Applies(n, selection, current_key, default_key)
FileOffersFit == "fileman" \in open => picked # {} \/ Offered("fileman") = {}
TextOffersFit == "clipboard" \in open => marked \/ Offered("clipboard") = {}

OffersFit == fault = "none" => KeyOffersFit /\ FileOffersFit /\ TextOffersFit

IInv ==
  /\ OwnersFit /\ ProgramFits /\ BoxesFit /\ OpsFit
  /\ KeysFit /\ FilesFit /\ TextFits /\ OffersFit

-----------------------------------------------------------------------------
(* The parts that a step leaves alone.                                     *)

\* What is made of requests are requests.
LEMMA RequestsTyped ==
  ASSUME NEW window \in {"window", "dead"}, NEW content \in BOOLEAN
  PROVE  Request(window, content) \in RequestType
BY DEF Request, RequestType

LEMMA RequestsChanged ==
  ASSUME NEW s \in Seq(RequestType)
  PROVE  LET gone == [i \in DOMAIN s |-> [s[i] EXCEPT !.window = "dead"]]
             old == [i \in DOMAIN s |-> [s[i] EXCEPT !.now = FALSE]]
         IN /\ gone \in Seq(RequestType)
            /\ old \in Seq(RequestType) /\ DOMAIN old = DOMAIN s
            /\ \A i \in DOMAIN old : old[i].window = s[i].window
<1> DEFINE gone == [i \in DOMAIN s |-> [s[i] EXCEPT !.window = "dead"]]
<1> DEFINE old == [i \in DOMAIN s |-> [s[i] EXCEPT !.now = FALSE]]
<1>1. DOMAIN s = 1 .. Len(s) /\ Len(s) \in Nat /\ \A i \in DOMAIN s : s[i] \in RequestType
  OBVIOUS
<1>2. \A i \in DOMAIN s : /\ gone[i] \in RequestType
                        /\ old[i] \in RequestType /\ old[i].window = s[i].window
  BY <1>1 DEF RequestType
<1>3. DOMAIN gone = 1 .. Len(s) /\ DOMAIN old = 1 .. Len(s)
  BY <1>1
<1>4. gone \in [1 .. Len(s) -> RequestType] /\ old \in [1 .. Len(s) -> RequestType]
  BY <1>1, <1>2, <1>3
<1>5. gone \in Seq(RequestType) /\ old \in Seq(RequestType)
  <2> HIDE DEF gone, old
  <2> QED
    BY <1>1, <1>4
<1> QED
  BY <1>1, <1>2, <1>3, <1>5

\* A step after which only the window that was open asks more.
AsksStay ==
  /\ offered' \in BOOLEAN /\ asks' \in Seq(RequestType)
  /\ (Asks("window"))' => Asks("window") \/ "clipboard" \in open

LEMMA AsksLeft ==
  ASSUME AsksFit, UNCHANGED <<offered, asks>>
  PROVE  AsksStay
BY DEF AsksFit, AsksStay, Asks

LEMMA AsksCarried ==
  ASSUME OwnersFit, AsksFit, AsksStay, Registered("clipboard") => Registered("clipboard")'
  PROVE  AsksFit'
<1>1. "clipboard" \in open => Registered("clipboard")
  BY DEF OwnersFit
<1> QED
  BY <1>1 DEF AsksFit, AsksStay

LEMMA Kept ==
  /\ OwnersFit /\ UNCHANGED <<open, owner, enabled>> => OwnersFit'
  /\ BoxesFit /\ UNCHANGED boxes => BoxesFit'
  /\ OpsFit /\ UNCHANGED <<ops, owner>> => OpsFit'
  /\ KeysFit /\ UNCHANGED <<selection, current_key, listing, default_key, status, editing, owner>>
       => KeysFit'
  /\ FilesFit /\ UNCHANGED <<list_files, picked>> => FilesFit'
  /\ TextFits /\ UNCHANGED <<marked, text, offered, asks, owner>> => TextFits'
<1>1. OwnersFit /\ UNCHANGED <<open, owner, enabled>> => OwnersFit'
  BY DEF OwnersFit, Registered
<1>2. BoxesFit /\ UNCHANGED boxes => BoxesFit'
  BY DEF BoxesFit
<1>3. OpsFit /\ UNCHANGED <<ops, owner>> => OpsFit'
  BY DEF OpsFit, Registered
<1>4. KeysFit /\ UNCHANGED <<selection, current_key, listing, default_key, status, editing, owner>>
        => KeysFit'
  BY DEF KeysFit, Registered, has_single_selection
<1>5. FilesFit /\ UNCHANGED <<list_files, picked>> => FilesFit'
  BY DEF FilesFit
<1>6. TextFits /\ UNCHANGED <<marked, text, offered, asks, owner>> => TextFits'
  <2> SUFFICES ASSUME TextFits, marked' = marked, text' = text, offered' = offered, asks' = asks,
                      owner' = owner
               PROVE  TextFits'
    OBVIOUS
  <2>1. AsksFit'
    BY DEF TextFits, AsksFit, Asks, Registered
  <2> QED
    BY <2>1, Zenon DEF TextFits
<1> QED
  BY <1>1, <1>2, <1>3, <1>4, <1>5, <1>6

\* w does not come to offer anything.
OffersNoMore(w) ==
  /\ w \in open' => w \in open
  /\ Offered(w)' \subseteq Offered(w)

LEMMA KeyOffersKept ==
  ASSUME KeyOffersFit, OffersNoMore("keymanager"),
         "warning" \in ToSet(boxes) => "warning" \in ToSet(boxes'),
         UNCHANGED <<selection, current_key, default_key>>
  PROVE  KeyOffersFit'
BY DEF KeyOffersFit, OffersNoMore

LEMMA FileOffersKept ==
  ASSUME FileOffersFit, OffersNoMore("fileman"), UNCHANGED picked
  PROVE  FileOffersFit'
BY DEF FileOffersFit, OffersNoMore

LEMMA TextOffersKept ==
  ASSUME TextOffersFit, OffersNoMore("clipboard"), UNCHANGED marked
  PROVE  TextOffersFit'
BY DEF TextOffersFit, OffersNoMore

LEMMA NothingMore ==
  ASSUME open' \subseteq open, enabled' \subseteq enabled, UNCHANGED owner
  PROVE  \A w : OffersNoMore(w)
BY DEF OffersNoMore, Offered

\* A step of the application, or of an operation that only adds others.
LEMMA OffersKept ==
  ASSUME OffersFit, fault' = "none" => fault = "none",
         open' \subseteq open, enabled' \subseteq enabled,
         "warning" \in ToSet(boxes) => "warning" \in ToSet(boxes'),
         UNCHANGED <<owner, selection, current_key, default_key, picked, marked>>
  PROVE  OffersFit'
<1>1. \A w : OffersNoMore(w)
  BY NothingMore
<1> QED
  BY <1>1, KeyOffersKept, FileOffersKept, TextOffersKept DEF OffersFit

-----------------------------------------------------------------------------
(* Windows come and go, and update their actions.                          *)

LEMMA SensitiveNames ==
  ASSUME NEW w \in MainWindows
  PROVE  Sensitive[w] \subseteq Names[w] /\ Names[w] \subseteq AllNames
<1>1. Sensitive[w] \subseteq Names[w]
  BY DEF MainWindows, Sensitive, Names, KeyManagerEntries, FileManagerEntries, ClipboardEntries,
         CardManagerEntries
<1> QED
  BY <1>1 DEF AllNames

LEMMA Constructs ==
  ASSUME OwnersFit, NEW w \in MainWindows, Construct(w)
  PROVE  /\ OwnersFit' /\ Registered(w)' /\ w \in open'
         /\ \A v \in MainWindows : Registered(v) => Registered(v)'
         /\ Offered(w)' = {}
         /\ \A v : v # w => OffersNoMore(v)
<1>1. /\ open' = open \cup {w}
      /\ owner' = [n \in AllNames |-> IF n \in Names[w] THEN w ELSE owner[n]]
      /\ enabled' = (enabled \cup Names[w]) \ Sensitive[w]
  BY DEF Construct, action_new
<1>2. /\ owner' \in [AllNames -> MainWindows \cup {NoWindow}]
      /\ \A n \in AllNames : owner'[n] = IF n \in Names[w] THEN w ELSE owner[n]
      /\ w # NoWindow
  BY <1>1 DEF OwnersFit, MainWindows, NoWindow
<1>3. \A v \in MainWindows : Sensitive[v] \subseteq Names[v] /\ Names[v] \subseteq AllNames
  BY SensitiveNames
<1>4. Registered(w)'
  BY <1>2, <1>3 DEF Registered
<1>5. \A v \in MainWindows : Registered(v) => Registered(v)'
  BY <1>2, <1>3 DEF Registered
<1>6. OwnersFit'
  BY <1>1, <1>2, <1>3, <1>4, <1>5 DEF OwnersFit
<1>7. Offered(w)' = {}
  BY <1>1 DEF Offered
<1>8. ASSUME NEW v, v # w
      PROVE  OffersNoMore(v)
  <2>1. v \in open' => v \in open
    BY <1>1, <1>8
  <2>2. ASSUME NEW n \in Offered(v)'
        PROVE  n \in Offered(v)
    <3>1. n \in enabled' /\ n \in Sensitive[v] /\ owner'[n] = v
      BY <2>2 DEF Offered
    <3>2. n \in AllNames
      BY <1>6, <3>1 DEF OwnersFit
    <3>3. n \notin Names[w] /\ owner[n] = v
      BY <1>2, <1>8, <3>1, <3>2
    <3> QED
      BY <1>1, <3>1, <3>3 DEF Offered
  <2> QED
    BY <2>1, <2>2 DEF OffersNoMore
<1> QED
  BY <1>1, <1>4, <1>5, <1>6, <1>7, <1>8


LEMMA Destroys ==
  ASSUME OwnersFit, OpsFit, NEW w \in MainWindows, Destroy(w)
  PROVE  /\ OwnersFit' /\ OpsFit'
         /\ UNCHANGED <<backend, activated, connection_counter, boxes, stuck, owner, enabled>>
         /\ open' \subseteq open /\ shutdown_pending' \in BOOLEAN /\ quit' \in BOOLEAN
<1>1. /\ open' = open \ {w} /\ UNCHANGED <<backend, activated, owner, enabled, connection_counter,
                                           boxes, stuck>>
      /\ \A o \in ops' : \E p \in ops : \E b \in BOOLEAN : o = [p EXCEPT !.orphan = b]
  BY DEF Destroy
<1>2. OwnersFit'
  BY <1>1 DEF OwnersFit, Registered
<1>3. ASSUME NEW o \in ops'
      PROVE  o \in OpType /\ (o.window = "fileman" => Registered("fileman")')
  <2>1. PICK p \in ops : \E b \in BOOLEAN : o = [p EXCEPT !.orphan = b]
    BY <1>1
  <2>2. o \in OpType /\ o.window = p.window
    BY <2>1 DEF OpsFit, OpType
  <2> QED
    BY <1>1, <2>1, <2>2 DEF OpsFit, Registered
<1>4. OpsFit'
  BY <1>3 DEF OpsFit
<1>5. shutdown_pending' \in BOOLEAN /\ quit' \in BOOLEAN
  BY DEF Destroy, quit_if_no_window
<1> QED
  BY <1>1, <1>2, <1>4, <1>5

LEMMA Updates ==
  ASSUME OwnersFit, NEW w \in MainWindows, NEW S, Registered(w) \/ S = {},
         enabled' = update_selection_sensitive_actions(w, S), UNCHANGED <<open, owner>>
  PROVE  /\ OwnersFit' /\ Offered(w)' \subseteq S
         /\ ~Replaced(w) => \A v : v # w => OffersNoMore(v)
<1>1. enabled' = (enabled \ Sensitive[w]) \cup (S \cap Sensitive[w])
  BY DEF update_selection_sensitive_actions
<1>2. Sensitive[w] \subseteq Names[w] /\ Names[w] \subseteq AllNames
  BY SensitiveNames
<1>3. OwnersFit'
  BY <1>1, <1>2 DEF OwnersFit, Registered
<1>4. Offered(w)' \subseteq S
  BY <1>1 DEF Offered
<1>5. ~Replaced(w) => \A v : v # w => OffersNoMore(v)
  BY <1>1 DEF Replaced, OffersNoMore, Offered
<1> QED
  BY <1>3, <1>4, <1>5

\* The key manager updates its actions, for selection S, current key k, default key d.
LEMMA ActionsUpdated ==
  ASSUME OwnersFit, OffersFit, Registered("keymanager"), NEW S, NEW k, NEW d,
         update_actions(S, k, d), selection' = S, current_key' = k, default_key' = d,
         UNCHANGED <<open, owner, boxes, picked, marked>>
  PROVE  OwnersFit' /\ OffersFit'
<1>1. /\ enabled' = update_selection_sensitive_actions("keymanager", Applicable(S, k, d))
      /\ fault' = "none" => fault = "none" /\ ~Replaced("keymanager")
  BY DEF update_actions
<1>2. /\ OwnersFit' /\ Offered("keymanager")' \subseteq Applicable(S, k, d)
      /\ ~Replaced("keymanager") => \A v : v # "keymanager" => OffersNoMore(v)
  BY <1>1, Updates DEF MainWindows
<1>3. KeyOffersFit'
  BY <1>2 DEF KeyOffersFit, Applicable
<1>4. ASSUME fault' = "none"
      PROVE  FileOffersFit' /\ TextOffersFit'
  <2>1. FileOffersFit /\ TextOffersFit
    BY <1>1, <1>4 DEF OffersFit
  <2>2. OffersNoMore("fileman") /\ OffersNoMore("clipboard")
    BY <1>1, <1>2, <1>4
  <2> QED
    BY <2>1, <2>2, FileOffersKept, TextOffersKept
<1> QED
  BY <1>2, <1>3, <1>4 DEF OffersFit

\* The list of the file manager changes its selection to S.
LEMMA FilesSelected ==
  ASSUME OwnersFit, OffersFit, NEW S, Registered("fileman") \/ S = {}, SelectFiles(S),
         UNCHANGED <<open, owner, boxes, selection, current_key, default_key, marked>>
  PROVE  OwnersFit' /\ OffersFit'
<1>1. CASE S = picked
  <2>1. UNCHANGED <<picked, enabled, fault>>
    BY <1>1 DEF SelectFiles
  <2> QED
    BY <2>1, Kept, OffersKept
<1>2. CASE S # picked
  <2>1. /\ picked' = S
        /\ enabled' = update_selection_sensitive_actions("fileman", fileman_has_selection(S))
        /\ fault' = "none" => fault = "none" /\ ~Replaced("fileman")
    BY <1>2 DEF SelectFiles
  <2>2. S = {} => fileman_has_selection(S) = {}
    BY DEF fileman_has_selection
  <2>3. /\ OwnersFit' /\ Offered("fileman")' \subseteq fileman_has_selection(S)
        /\ ~Replaced("fileman") => \A v : v # "fileman" => OffersNoMore(v)
    BY <2>1, <2>2, Updates DEF MainWindows
  <2>4. FileOffersFit'
    BY <2>1, <2>2, <2>3 DEF FileOffersFit
  <2>5. ASSUME fault' = "none"
        PROVE  KeyOffersFit' /\ TextOffersFit'
    <3>1. KeyOffersFit /\ TextOffersFit
      BY <2>1, <2>5 DEF OffersFit
    <3>2. OffersNoMore("keymanager") /\ OffersNoMore("clipboard")
      BY <2>1, <2>3, <2>5
    <3> QED
      BY <3>1, <3>2, KeyOffersKept, TextOffersKept
  <2> QED
    BY <2>3, <2>4, <2>5 DEF OffersFit
<1> QED
  BY <1>1, <1>2

\* The text of the clipboard window is marked, or not.
LEMMA TextMarked ==
  ASSUME OwnersFit, OffersFit, NEW m \in BOOLEAN, Registered("clipboard") \/ m = FALSE, Marks(m),
         UNCHANGED <<open, owner, selection, current_key, default_key, picked>>,
         "warning" \in ToSet(boxes) => "warning" \in ToSet(boxes')
  PROVE  OwnersFit' /\ OffersFit' /\ marked' = m
<1>1. CASE m = marked
  <2>1. UNCHANGED <<marked, enabled, fault>>
    BY <1>1 DEF Marks
  <2> QED
    BY <1>1, <2>1, Kept, OffersKept
<1>2. CASE m # marked
  <2>1. /\ marked' = m
        /\ enabled' = update_selection_sensitive_actions("clipboard", clipboard_has_selection(m))
        /\ fault' = "none" => fault = "none" /\ ~Replaced("clipboard")
    BY <1>2 DEF Marks
  <2>2. m = FALSE => clipboard_has_selection(m) = {}
    BY DEF clipboard_has_selection
  <2>3. /\ OwnersFit' /\ Offered("clipboard")' \subseteq clipboard_has_selection(m)
        /\ ~Replaced("clipboard") => \A v : v # "clipboard" => OffersNoMore(v)
    BY <2>1, <2>2, Updates DEF MainWindows
  <2>4. TextOffersFit'
    BY <2>1, <2>2, <2>3 DEF TextOffersFit
  <2>5. ASSUME fault' = "none"
        PROVE  KeyOffersFit' /\ FileOffersFit'
    <3>1. KeyOffersFit /\ FileOffersFit
      BY <2>1, <2>5 DEF OffersFit
    <3>2. OffersNoMore("keymanager") /\ OffersNoMore("fileman")
      BY <2>1, <2>3, <2>5
    <3> QED
      BY <3>1, <3>2, KeyOffersKept, FileOffersKept
  <2> QED
    BY <2>1, <2>3, <2>4, <2>5 DEF OffersFit
<1> QED
  BY <1>1, <1>2

-----------------------------------------------------------------------------
(* The boxes, and the selection of the key manager.                        *)

LEMMA AppendMembers ==
  ASSUME NEW S, NEW s \in Seq(S), NEW e
  PROVE  ToSet(Append(s, e)) = ToSet(s) \cup {e}
<1>1. /\ Len(s) \in Nat /\ DOMAIN s = 1 .. Len(s)
      /\ DOMAIN Append(s, e) = 1 .. Len(s) + 1
      /\ \A i \in 1 .. Len(s) : Append(s, e)[i] = s[i]
      /\ Append(s, e)[Len(s) + 1] = e
  OBVIOUS
<1>2. 1 .. Len(s) + 1 = (1 .. Len(s)) \cup {Len(s) + 1}
  BY <1>1
<1> QED
  BY <1>1, <1>2, Zenon DEF ToSet

LEMMA FrontMembers ==
  ASSUME NEW S, NEW s \in Seq(S), s # <<>>
  PROVE  /\ Front(s) \in Seq(S) /\ Last(s) \in S
         /\ ToSet(s) = ToSet(Front(s)) \cup {Last(s)}
<1> DEFINE n == Len(s)
<1>1. /\ n \in Nat /\ n > 0 /\ DOMAIN s = 1 .. n
      /\ Front(s) \in Seq(S) /\ DOMAIN Front(s) = 1 .. n - 1
      /\ \A i \in 1 .. n - 1 : Front(s)[i] = s[i]
      /\ Last(s) = s[n] /\ Last(s) \in S
  BY DEF Front, Last
<1>2. 1 .. n = (1 .. n - 1) \cup {n}
  BY <1>1
<1> HIDE DEF n
<1>3. ToSet(s) = ToSet(Front(s)) \cup {Last(s)}
  BY <1>1, <1>2, Zenon DEF ToSet
<1> QED
  BY <1>1, <1>3

LEMMA BoxShown ==
  ASSUME BoxesFit, NEW b \in Boxes, boxes' = Append(boxes, b)
  PROVE  BoxesFit' /\ ToSet(boxes') = ToSet(boxes) \cup {b}
BY AppendMembers DEF BoxesFit

LEMMA BoxClosed ==
  ASSUME BoxesFit, boxes # <<>>, boxes' = Front(boxes)
  PROVE  BoxesFit' /\ ToSet(boxes) = ToSet(boxes') \cup {Last(boxes)}
BY FrontMembers DEF BoxesFit

LEMMA SelectionChanges ==
  ASSUME OwnersFit, BoxesFit, KeysFit, OffersFit, Registered("keymanager"),
         NEW S \in SUBSET Keys, selection_changed(S),
         UNCHANGED <<open, owner, default_key, status, editing, picked, marked>>
  PROVE  OwnersFit' /\ BoxesFit' /\ KeysFit' /\ OffersFit'
<1>1. selection' = S /\ current_key' = NoKey
  BY DEF selection_changed, NoCurrentKey
<1>2. CASE /\ has_single_selection(S) /\ listing' \in S /\ boxes' = boxes
           /\ enabled' = disable_selection_sensitive_actions
           /\ fault' = IF Replaced("keymanager") /\ boxes' = boxes THEN "replaced action" ELSE fault
  <2>1. KeysFit'
    BY <1>1, <1>2 DEF KeysFit, Registered
  <2>2. enabled' \subseteq enabled /\ Offered("keymanager")' = {}
    BY <1>2 DEF disable_selection_sensitive_actions, Offered
  <2>3. OwnersFit'
    BY <2>2 DEF OwnersFit, Registered
  <2>4. \A w : OffersNoMore(w)
    BY <2>2, NothingMore
  <2>5. KeyOffersFit'
    BY <2>2 DEF KeyOffersFit
  <2>6. OffersFit'
    BY <1>2, <2>4, <2>5, FileOffersKept, TextOffersKept DEF OffersFit
  <2> QED
    BY <1>2, <2>1, <2>3, <2>6, Kept
<1>3. CASE /\ listing' = NoKey /\ enabled' = enabled /\ boxes' = Append(boxes, "warning")
           /\ fault' = IF Replaced("keymanager") /\ boxes' = boxes THEN "replaced action" ELSE fault
  <2>1. KeysFit'
    BY <1>1, <1>3 DEF KeysFit
  <2>2. BoxesFit' /\ "warning" \in ToSet(boxes')
    BY <1>3, BoxShown DEF Boxes
  <2>3. OwnersFit'
    BY <1>3, Kept
  <2>4. \A w : OffersNoMore(w)
    BY <1>3, NothingMore
  <2>5. OffersFit'
    BY <1>3, <2>2, <2>4, FileOffersKept, TextOffersKept DEF OffersFit, KeyOffersFit
  <2> QED
    BY <2>1, <2>2, <2>3, <2>5
<1>4. CASE /\ ~has_single_selection(S) /\ UNCHANGED <<listing, boxes>>
           /\ keyring_selection_update_actions(S, NoCurrentKey)
  <2>1. KeysFit'
    BY <1>1, <1>4 DEF KeysFit, Registered
  <2>2. update_actions(S, NoKey, default_key) /\ default_key' = default_key
    BY <1>4 DEF keyring_selection_update_actions, NoCurrentKey
  <2>3. OwnersFit' /\ OffersFit'
    BY <1>1, <1>4, <2>2, ActionsUpdated
  <2> QED
    BY <1>4, <2>1, <2>3, Kept
<1> QED
  BY <1>2, <1>3, <1>4 DEF selection_changed

LEMMA SelectionMayChange ==
  ASSUME OwnersFit, BoxesFit, KeysFit, OffersFit, Registered("keymanager"),
         NEW S \in SUBSET Keys, Selects(S),
         UNCHANGED <<open, owner, default_key, status, editing, picked, marked>>
  PROVE  OwnersFit' /\ BoxesFit' /\ KeysFit' /\ OffersFit'
<1>1. CASE S = selection
  <2>1. UNCHANGED <<selection, current_key, listing, enabled, boxes, fault>>
    BY <1>1 DEF Selects
  <2> QED
    BY <2>1, Kept, OffersKept
<1>2. CASE S # selection
  BY <1>2, SelectionChanges DEF Selects
<1> QED
  BY <1>1, <1>2

-----------------------------------------------------------------------------
(* The steps: the application, and the windows that come and go.           *)


LEMMA ApplicationSteps ==
  ASSUME IInv, Application, UNCHANGED <<args, keymanager, fileman, clipboard>>
  PROVE  IInv'
<1>1. /\ UNCHANGED <<open, activated, owner, enabled, ops, boxes, stuck>>
        \/ (activated' = TRUE /\ UNCHANGED <<open, owner, enabled, ops, boxes, stuck>>)
      /\ backend' \in BOOLEAN /\ connection_counter' \in 0 .. MaxConnections
      /\ shutdown_pending' \in BOOLEAN /\ quit' \in BOOLEAN
      /\ clicks' \in 0 .. MaxClicks
      /\ fault' = "none" => fault = "none"
  <2>0. ProgramFits /\ MaxClicks \in Nat /\ MaxConnections \in Nat
    BY BoundsAssumption DEF IInv
  <2>c. UserActs => clicks' \in 0 .. MaxClicks
    BY <2>0 DEF UserActs, ProgramFits
  <2>1. CASE gpa_open_backend_config_dialog
    BY <2>0, <2>1, <2>c DEF gpa_open_backend_config_dialog, doing, ProgramFits
  <2>2. CASE close_main_window
    BY <2>0, <2>2, <2>c DEF close_main_window, quit_if_no_window, doing, ProgramFits
  <2>3. CASE connection_startup
    BY <2>0, <2>3 DEF connection_startup, doing, ProgramFits
  <2>4. CASE connection_finish
    BY <2>0, <2>4 DEF connection_finish, doing, ProgramFits
  <2>5. CASE \E w \in {"keymanager", "fileman", "cardman"} \cap open : file_quit(w)
    BY <2>0, <2>5, <2>c DEF file_quit, Chooses, doing, ProgramFits
  <2>6. CASE DeadAction
    <3>1. PICK w \in MainWindows, n \in AllNames :
            /\ Chooses(w, n)
            /\ fault' = "action of a dead window" \/ fault' = fault
            /\ quit' \in BOOLEAN
            /\ UNCHANGED <<open, backend, activated, owner, enabled, connection_counter,
                           shutdown_pending>>
            /\ UNCHANGED doing
      BY <2>0, <2>6 DEF DeadAction, ProgramFits
    <3> QED
      BY <2>0, <2>c, <3>1 DEF Chooses, doing, ProgramFits
  <2>7. CASE ActivateDaemon
    BY <2>0, <2>7 DEF ActivateDaemon, doing, ProgramFits
  <2> QED
    BY <2>1, <2>2, <2>3, <2>4, <2>5, <2>6, <2>7 DEF Application
<1>2. ProgramFits'
  BY <1>1 DEF ProgramFits, args, IInv
<1>3. /\ UNCHANGED <<open, owner, enabled, ops, boxes, selection, current_key, listing, default_key,
                     status, editing, list_files, picked, marked, text, offered, asks>>
      /\ fault' = "none" => fault = "none"
  BY <1>1 DEF keymanager, keylist, panes, fileman, clipboard
<1>4. OwnersFit' /\ BoxesFit' /\ OpsFit' /\ KeysFit' /\ FilesFit' /\ TextFits'
  BY <1>3, Kept DEF IInv
<1>5. OffersFit'
  BY <1>3, OffersKept DEF IInv
<1> QED
  BY <1>2, <1>4, <1>5 DEF IInv

LEMMA OpsStay ==
  ASSUME OpsFit, UNCHANGED ops, \A v \in MainWindows : Registered(v) => Registered(v)'
  PROVE  OpsFit'
BY DEF OpsFit, MainWindows

LEMMA QuestionsFit ==
  ASSUME BoxesFit, boxes' = boxes \o Questions
  PROVE  BoxesFit' /\ ToSet(boxes) \subseteq ToSet(boxes')
<1>1. Questions \in Seq(Boxes)
  <2>1. <<>> \in Seq(Boxes) /\ <<"generate?">> \in Seq(Boxes) /\ <<"backup?">> \in Seq(Boxes)
    BY DEF Boxes
  <2>2. Questions = <<>> \/ Questions = <<"generate?">> \/ Questions = <<"backup?">>
    BY Zenon DEF Questions
  <2> QED
    BY <2>1, <2>2
<1>2. /\ boxes' \in Seq(Boxes) /\ Len(boxes) \in Nat /\ Len(boxes') \in Nat
      /\ Len(boxes) <= Len(boxes')
      /\ \A i \in 1 .. Len(boxes) : boxes'[i] = boxes[i]
      /\ DOMAIN boxes = 1 .. Len(boxes) /\ DOMAIN boxes' = 1 .. Len(boxes')
  BY <1>1 DEF BoxesFit
<1>3. ToSet(boxes) \subseteq ToSet(boxes')
  BY <1>2 DEF ToSet
<1> QED
  BY <1>2, <1>3 DEF BoxesFit

LEMMA OpeningSteps ==
  ASSUME IInv, NEW w \in MainWindows, OpenWindow(w), UNCHANGED args,
         activated' \in BOOLEAN, clicks' \in 0 .. MaxClicks
  PROVE  IInv'
<1>0. IInv /\ OwnersFit /\ OffersFit /\ OpsFit /\ KeysFit /\ FilesFit /\ TextFits /\ ProgramFits /\ BoxesFit
  BY DEF IInv
<1>1. /\ Construct(w)
      /\ UNCHANGED <<ops, stuck, fault, default_key, editing>>
  BY DEF OpenWindow, gpa_open_key_manager, gpa_open_filemanager, gpa_open_clipboard,
         gpa_open_cardmanager, doing, keymanager, panes
<1>2. /\ OwnersFit' /\ Registered(w)' /\ w \in open'
      /\ \A v \in MainWindows : Registered(v) => Registered(v)'
      /\ Offered(w)' = {}
      /\ \A v : v # w => OffersNoMore(v)
  BY <1>0, <1>1, Constructs
<1>3. ProgramFits' /\ OpsFit'
  BY <1>0, <1>1, <1>2, OpsStay DEF Construct, ProgramFits, args
<1>4. w # "keymanager" => UNCHANGED <<keymanager, boxes>>
  BY <1>1 DEF OpenWindow, gpa_open_filemanager, gpa_open_clipboard, gpa_open_cardmanager, doing
<1>5. w # "fileman" => UNCHANGED fileman
  BY DEF OpenWindow
<1>6. w # "clipboard" => UNCHANGED clipboard
  BY DEF OpenWindow
<1>7. KeysFit' /\ BoxesFit' /\ ToSet(boxes) \subseteq ToSet(boxes')
  <2>1. CASE w = "keymanager"
    <3>1. gpa_open_key_manager
      BY <2>1 DEF OpenWindow
    <3>2. KeysFit'
      BY <1>0, <3>1 DEF gpa_open_key_manager, KeysFit
    <3> QED
      BY <1>0, <3>1, <3>2, QuestionsFit DEF gpa_open_key_manager
  <2>2. CASE w # "keymanager"
    <3>1. UNCHANGED <<selection, current_key, listing, default_key, status, editing, boxes>>
      BY <1>4, <2>2 DEF keymanager, keylist, panes
    <3> QED
      BY <1>0, <1>2, <3>1 DEF KeysFit, BoxesFit, has_single_selection, MainWindows
  <2> QED
    BY <2>1, <2>2
<1>8. FilesFit'
  <2>1. CASE w = "fileman"
    BY <2>1 DEF OpenWindow, gpa_open_filemanager, FilesFit, IsInjective, ToSet
  <2>2. CASE w # "fileman"
    BY <1>0, <1>5, <2>2, Kept DEF fileman
  <2> QED
    BY <2>1, <2>2
<1>9. TextFits'
  <2>1. CASE w = "clipboard"
    <3>1. gpa_open_clipboard
      BY <2>1 DEF OpenWindow
    <3>2. offered' = offered /\ asks' = Append(asks, Request("window", offered)) /\ marked' = FALSE
      BY <3>1 DEF gpa_open_clipboard
    <3>3. asks \in Seq(RequestType) /\ Request("window", offered) \in RequestType
      BY <1>0, RequestsTyped DEF TextFits, AsksFit
    <3>4. asks' \in Seq(RequestType)
      BY <3>2, <3>3
    <3> QED
      BY <1>0, <1>2, <2>1, <3>2, <3>4 DEF TextFits, AsksFit
  <2>2. CASE w # "clipboard"
    <3>1. UNCHANGED <<marked, text, offered, asks>>
      BY <1>6, <2>2 DEF clipboard
    <3>2. AsksFit'
      BY <1>0, <1>2, <3>1, AsksLeft, AsksCarried DEF TextFits, MainWindows
    <3> QED
      BY <1>0, <3>1, <3>2, Zenon DEF TextFits
  <2> QED
    BY <2>1, <2>2
<1>10. ASSUME fault' = "none"
       PROVE  KeyOffersFit' /\ FileOffersFit' /\ TextOffersFit'
  <2>1. KeyOffersFit /\ FileOffersFit /\ TextOffersFit
    BY <1>0, <1>1, <1>10 DEF OffersFit
  <2>2. KeyOffersFit'
    <3>1. CASE w = "keymanager"
      BY <1>2, <3>1 DEF KeyOffersFit
    <3>2. CASE w # "keymanager"
      BY <1>2, <1>4, <1>7, <2>1, <3>2, KeyOffersKept DEF keymanager, keylist
    <3> QED
      BY <3>1, <3>2
  <2>3. FileOffersFit'
    <3>1. CASE w = "fileman"
      BY <1>2, <3>1 DEF FileOffersFit
    <3>2. CASE w # "fileman"
      BY <1>2, <1>5, <2>1, <3>2, FileOffersKept DEF fileman
    <3> QED
      BY <3>1, <3>2
  <2>4. TextOffersFit'
    <3>1. CASE w = "clipboard"
      BY <1>2, <3>1 DEF TextOffersFit
    <3>2. CASE w # "clipboard"
      BY <1>2, <1>6, <2>1, <3>2, TextOffersKept DEF clipboard
    <3> QED
      BY <3>1, <3>2
  <2> QED
    BY <2>2, <2>3, <2>4
<1> QED
  BY <1>2, <1>3, <1>7, <1>8, <1>9, <1>10 DEF IInv, OffersFit

\* activate, OpenFromMenu and OpenForClient.
LEMMA Openings ==
  ASSUME IInv, activate \/ OpenFromMenu \/ OpenForClient
  PROVE  IInv'
<1>1. ProgramFits /\ MaxClicks \in Nat
  BY BoundsAssumption DEF IInv
<1>2. /\ activated' \in BOOLEAN /\ clicks' \in 0 .. MaxClicks
      /\ UNCHANGED args
      /\ \E w \in desk : OpenWindow(w)
  <2>1. CASE activate
    BY <1>1, <2>1 DEF activate, ProgramFits
  <2>2. CASE OpenFromMenu
    BY <1>1, <2>2 DEF OpenFromMenu, UserActs, ProgramFits
  <2>3. CASE OpenForClient
    BY <1>1, <2>3 DEF OpenForClient, ProgramFits
  <2> QED
    BY <2>1, <2>2, <2>3
<1>3. \A w \in desk : w \in MainWindows
  BY <1>1, DesksAssumption DEF ProgramFits
<1> QED
  BY <1>2, <1>3, OpeningSteps

LEMMA Clicks ==
  ASSUME IInv, UserActs
  PROVE  clicks' \in 0 .. MaxClicks
BY BoundsAssumption DEF IInv, ProgramFits, UserActs

\* A window of the four is closed.
LEMMA Closes ==
  ASSUME IInv, NEW w \in MainWindows, NEW n, Chooses(w, n), Destroy(w), UNCHANGED <<args, fault>>
  PROVE  OwnersFit' /\ ProgramFits' /\ BoxesFit' /\ OpsFit'
<1>1. /\ OwnersFit' /\ OpsFit'
      /\ UNCHANGED <<backend, activated, connection_counter, boxes, stuck, owner, enabled>>
      /\ shutdown_pending' \in BOOLEAN /\ quit' \in BOOLEAN
  BY Destroys DEF IInv
<1>2. clicks' \in 0 .. MaxClicks
  BY Clicks DEF Chooses
<1> QED
  BY <1>1, <1>2, Kept DEF IInv, ProgramFits, args

LEMMA ClosingSteps ==
  ASSUME IInv, UNCHANGED args,
         \/ CloseCardManager /\ UNCHANGED <<keymanager, fileman, clipboard>>
         \/ key_manager_close /\ UNCHANGED <<fileman, clipboard>>
         \/ file_manager_close /\ UNCHANGED <<keymanager, clipboard>>
         \/ \E n \in {"file_close", "file_quit"} : clipboard_close(n) /\ UNCHANGED <<keymanager, fileman>>
  PROVE  IInv'
<1>1. /\ \E w \in MainWindows, n \in AllNames : Chooses(w, n) /\ Destroy(w)
      /\ UNCHANGED <<fault, selection, current_key, default_key, status, list_files, picked, marked, text>>
      /\ listing' \in {listing, NoKey} /\ editing' \in {editing, NoKey}
      /\ offered' = offered
      /\ asks' = asks \/ asks' = [i \in DOMAIN asks |-> [asks[i] EXCEPT !.window = "dead"]]
  <2>1. "file_close" \in AllNames /\ "file_quit" \in AllNames
    BY DEF AllNames, Names, MainWindows
  <2>2. {"keymanager", "fileman", "clipboard", "cardman"} = MainWindows
    BY DEF MainWindows
  <2>3. CASE CloseCardManager /\ UNCHANGED <<keymanager, fileman, clipboard>>
    BY <2>1, <2>2, <2>3 DEF CloseCardManager, keymanager, keylist, panes, fileman, clipboard
  <2>4. CASE key_manager_close /\ UNCHANGED <<fileman, clipboard>>
    BY <2>1, <2>2, <2>4 DEF key_manager_close, fileman, clipboard
  <2>5. CASE file_manager_close /\ UNCHANGED <<keymanager, clipboard>>
    BY <2>1, <2>2, <2>5 DEF file_manager_close, keymanager, keylist, panes, fileman, clipboard
  <2>6. CASE \E n \in {"file_close", "file_quit"} : clipboard_close(n) /\ UNCHANGED <<keymanager, fileman>>
    BY <2>1, <2>2, <2>6 DEF clipboard_close, keymanager, keylist, panes, fileman
  <2> QED
    BY <2>3, <2>4, <2>5, <2>6
<1>2. PICK w \in MainWindows, n \in AllNames : Chooses(w, n) /\ Destroy(w)
  BY <1>1
<1>3. OwnersFit' /\ ProgramFits' /\ BoxesFit' /\ OpsFit'
  BY <1>1, <1>2, Closes
<1>4. UNCHANGED <<boxes, owner, enabled>> /\ open' \subseteq open
  BY <1>2, Destroys DEF IInv
<1>5. KeysFit'
  BY <1>1, <1>4 DEF IInv, KeysFit, Registered, has_single_selection
<1>6. FilesFit'
  BY <1>1, Kept DEF IInv
<1>7. TextFits'
  <2>1. Registered("clipboard")' = Registered("clipboard") /\ AsksFit
    BY <1>4 DEF Registered, IInv, TextFits
  <2>2. AsksStay
    <3>1. CASE asks' = asks
      BY <1>1, <2>1, <3>1, AsksLeft
    <3>2. CASE asks' = [i \in DOMAIN asks |-> [asks[i] EXCEPT !.window = "dead"]]
      <4>1. asks' \in Seq(RequestType)
        BY <2>1, <3>2, RequestsChanged DEF AsksFit
      <4>2. DOMAIN asks' = DOMAIN asks /\ \A i \in DOMAIN asks : asks[i] \in RequestType
        BY <2>1, <3>2 DEF AsksFit
      <4>3. \A i \in DOMAIN asks' : asks'[i].window = "dead"
        BY <3>2, <4>2 DEF RequestType
      <4>4. (Asks("window"))' <=> \E i \in DOMAIN asks' : asks'[i].window = "window"
        BY DEF Asks
      <4> QED
        BY <1>1, <2>1, <4>1, <4>3, <4>4 DEF AsksFit, AsksStay
    <3> QED
      BY <1>1, <3>1, <3>2
  <2>3. AsksFit'
    BY <2>1, <2>2, AsksCarried DEF IInv
  <2> QED
    BY <1>1, <2>3, Zenon DEF IInv, TextFits
<1>8. OffersFit'
  BY <1>1, <1>4, OffersKept DEF IInv
<1> QED
  BY <1>3, <1>5, <1>6, <1>7, <1>8 DEF IInv

-----------------------------------------------------------------------------
(* The steps of the key manager.                                           *)

\* A step that changes no selection, no action and no window.
LEMMA QuietSteps ==
  ASSUME IInv, BoxesFit', OpsFit',
         UNCHANGED <<args, open, backend, activated, owner, enabled, connection_counter,
                     shutdown_pending, quit>>,
         UNCHANGED <<selection, current_key, listing, default_key, status, fileman, text, marked,
                     offered, asks>>,
         editing' \in Keys \cup {NoKey}, stuck' \in BOOLEAN, clicks' \in 0 .. MaxClicks,
         "warning" \in ToSet(boxes) => "warning" \in ToSet(boxes'),
         fault' = "none" => fault = "none"
  PROVE  IInv'
<1>1. OwnersFit'
  BY Kept DEF IInv
<1>2. ProgramFits'
  BY DEF IInv, ProgramFits, args
<1>3. KeysFit'
  BY DEF IInv, KeysFit, Registered, has_single_selection
<1>4. FilesFit'
  BY Kept DEF IInv, fileman
<1>5. TextFits'
  BY Kept DEF IInv
<1>6. OffersFit'
  BY OffersKept DEF IInv, fileman
<1> QED
  BY <1>1, <1>2, <1>3, <1>4, <1>5, <1>6 DEF IInv

LEMMA OpsStart ==
  ASSUME OpsFit, UNCHANGED owner, NEW w \in MainWindows \cup {"keyedit"},
         NEW kind \in {"wot", "import", "quiet", "generate", "file"},
         ops' = ops \cup {Operation(w, kind)}, w = "fileman" => Registered("fileman")
  PROVE  OpsFit'
<1>1. Operation(w, kind) \in OpType /\ Operation(w, kind).window = w
  BY DEF Operation, OpType
<1>2. Registered("fileman")' = Registered("fileman")
  BY DEF Registered
<1> QED
  BY <1>1, <1>2 DEF OpsFit

LEMMA OpsEnd ==
  ASSUME OpsFit, UNCHANGED owner, ops' \subseteq ops
  PROVE  OpsFit'
BY DEF OpsFit, Registered

LEMMA KeyManagerStarts ==
  ASSUME IInv, UNCHANGED <<args, fileman, clipboard>>,
         \/ key_manager_delete \/ key_manager_sign \/ key_manager_trust \/ key_manager_import
         \/ key_manager_paste \/ key_manager_export \/ key_manager_copy \/ key_manager_send
         \/ key_manager_backup \/ key_manager_generate_key \/ gpa_key_edit_change
  PROVE  IInv'
<1>1. /\ UserActs
      /\ \E w \in {"keymanager", "keyedit"}, kind \in {"wot", "import", "quiet", "generate"} :
           ops' = ops \cup {Operation(w, kind)}
      /\ UNCHANGED <<keymanager, desktop, boxes, stuck, fault>>
  <2>1. ASSUME NEW n, NEW kind \in {"wot", "import", "quiet", "generate"}, Starts(n, kind)
        PROVE  /\ UserActs
               /\ ops' = ops \cup {Operation("keymanager", kind)}
               /\ UNCHANGED <<keymanager, desktop, boxes, stuck, fault>>
    BY <2>1 DEF Starts, Chooses
  <2>2. CASE gpa_key_edit_change
    BY <2>2 DEF gpa_key_edit_change
  <2>3. CASE ~gpa_key_edit_change
    <3>1. \E kind \in {"wot", "import", "quiet", "generate"} : \E n : Starts(n, kind)
      BY <2>3 DEF key_manager_delete, key_manager_sign, key_manager_trust, key_manager_import,
                  key_manager_paste, key_manager_export, key_manager_copy, key_manager_send,
                  key_manager_backup, key_manager_generate_key
    <3>2. PICK kind \in {"wot", "import", "quiet", "generate"} : \E n : Starts(n, kind)
      BY <3>1
    <3> QED
      BY <2>1, <3>2
  <2> QED
    BY <2>2, <2>3
<1>2. clicks' \in 0 .. MaxClicks
  BY <1>1, Clicks
<1>3. OpsFit'
  <2>1. PICK w \in {"keymanager", "keyedit"}, kind \in {"wot", "import", "quiet", "generate"} :
          ops' = ops \cup {Operation(w, kind)}
    BY <1>1
  <2>2. /\ w \in MainWindows \cup {"keyedit"} /\ w # "fileman"
        /\ kind \in {"wot", "import", "quiet", "generate", "file"}
    BY DEF MainWindows
  <2>3. UNCHANGED owner
    BY <1>1 DEF desktop
  <2> QED
    BY <2>1, <2>2, <2>3, OpsStart DEF IInv
<1>4. BoxesFit'
  BY <1>1, Kept DEF IInv
<1> QED
  BY <1>1, <1>2, <1>3, <1>4, QuietSteps
  DEF desktop, keymanager, keylist, panes, clipboard, IInv, KeysFit, ProgramFits

\* The other steps that leave the selection and the actions alone.
LEMMA KeyManagerRests ==
  ASSUME IInv, UNCHANGED <<args, fileman, clipboard>>,
         \/ gpa_keylist_end \/ idle_update_details \/ key_manager_mapped \/ Leftover
         \/ key_manager_edit \/ gpa_key_edit_dialog_close
  PROVE  IInv'
<1>0. /\ OpsFit /\ BoxesFit /\ KeysFit /\ ProgramFits
      /\ editing \in Keys \cup {NoKey} /\ current_key \in Keys \cup {NoKey}
      /\ stuck \in BOOLEAN /\ clicks \in 0 .. MaxClicks
  BY DEF IInv, KeysFit, ProgramFits
<1>1. CASE gpa_keylist_end \/ idle_update_details \/ Leftover
  <2>1. /\ UNCHANGED <<desktop, ops, boxes, stuck, clicks>>
        /\ UNCHANGED <<selection, current_key, listing, default_key, status, editing>>
        /\ fault' = "none" => fault = "none"
    BY <1>1 DEF gpa_keylist_end, idle_update_details, Leftover, doing, panes, keymanager, keylist
  <2>2. BoxesFit' /\ OpsFit'
    BY <1>0, <2>1, Kept DEF desktop
  <2> QED
    BY <1>0, <2>1, <2>2, QuietSteps DEF desktop, clipboard
<1>2. CASE key_manager_mapped
  <2>1. /\ UNCHANGED <<desktop, stuck, clicks, fault>>
        /\ UNCHANGED <<selection, current_key, listing, default_key, status, editing>>
        /\ boxes # <<>> /\ boxes' = Front(boxes) /\ Last(boxes) # "warning"
        /\ ops' = ops \/ ops' = ops \cup {Operation("keymanager", "generate")}
    BY <1>2 DEF key_manager_mapped, keylist
  <2>2. BoxesFit' /\ ToSet(boxes) = ToSet(boxes') \cup {Last(boxes)}
    BY <1>0, <2>1, BoxClosed
  <2>3. OpsFit'
    BY <1>0, <2>1, Kept, OpsStart DEF desktop, MainWindows
  <2> QED
    BY <1>0, <2>1, <2>2, <2>3, QuietSteps DEF desktop, clipboard
<1>3. CASE key_manager_edit
  <2>1. /\ UserActs
        /\ UNCHANGED <<desktop, ops, boxes, stuck, fault>>
        /\ UNCHANGED <<selection, current_key, listing, default_key, status>>
        /\ editing' = current_key
    BY <1>3 DEF key_manager_edit, Chooses, doing, keylist
  <2>2. BoxesFit' /\ OpsFit' /\ clicks' \in 0 .. MaxClicks
    BY <1>0, <2>1, Kept, Clicks DEF desktop
  <2> QED
    BY <1>0, <2>1, <2>2, QuietSteps DEF desktop, clipboard
<1>4. CASE gpa_key_edit_dialog_close
  <2>1. /\ UserActs
        /\ UNCHANGED <<desktop, boxes, stuck, fault>>
        /\ UNCHANGED <<selection, current_key, listing, default_key, status>>
        /\ editing' = NoKey
        /\ \A o \in ops' : \E p \in ops : \E b \in BOOLEAN : o = [p EXCEPT !.orphan = b]
    <3>1. \A op \in ops : (op.orphan \/ op.window = "keyedit") \in BOOLEAN
      OBVIOUS
    <3> QED
      BY <1>4, <3>1 DEF gpa_key_edit_dialog_close, keylist
  <2>2. BoxesFit' /\ clicks' \in 0 .. MaxClicks
    BY <1>0, <2>1, Kept, Clicks
  <2>3. ASSUME NEW o \in ops'
        PROVE  o \in OpType /\ (o.window = "fileman" => Registered("fileman")')
    <3>1. PICK p \in ops : \E b \in BOOLEAN : o = [p EXCEPT !.orphan = b]
      BY <2>1
    <3>2. o \in OpType /\ o.window = p.window
      BY <1>0, <3>1 DEF OpsFit, OpType
    <3> QED
      BY <1>0, <2>1, <3>1, <3>2 DEF OpsFit, Registered, desktop
  <2>4. OpsFit'
    BY <2>3 DEF OpsFit
  <2> QED
    BY <1>0, <2>1, <2>2, <2>4, QuietSteps DEF desktop, clipboard
<1> QED
  BY <1>1, <1>2, <1>3, <1>4

\* A step that selects other keys, or updates the actions.
LEMMA KeyManagerUpdates ==
  ASSUME IInv, UNCHANGED <<args, fileman, clipboard>>,
         OwnersFit', BoxesFit', OpsFit', KeysFit', OffersFit',
         UNCHANGED <<desktop_but_enabled>>, stuck' \in BOOLEAN, clicks' \in 0 .. MaxClicks
  PROVE  IInv'
<1>1. ProgramFits'
  BY DEF IInv, ProgramFits, args, desktop_but_enabled
<1>2. FilesFit' /\ TextFits'
  BY Kept DEF IInv, fileman, clipboard, desktop_but_enabled
<1> QED
  BY <1>1, <1>2 DEF IInv

LEMMA KeyManagerSelects ==
  ASSUME IInv, UNCHANGED <<args, fileman, clipboard>>,
         gtk_tree_selection \/ key_manager_select_all \/ key_manager_refresh
  PROVE  IInv'
<1>1. /\ UserActs /\ "keymanager" \in open
      /\ UNCHANGED <<default_key, status, editing, desktop_but_enabled, ops, stuck>>
      /\ \E S \in SUBSET Keys : selection_changed(S) \/ Selects(S)
  <2>1. CASE gtk_tree_selection
    BY <2>1 DEF gtk_tree_selection, panes
  <2>2. CASE key_manager_select_all
    <3>1. (IF rows THEN Keys ELSE {}) \in SUBSET Keys
      OBVIOUS
    <3> QED
      BY <2>2, <3>1 DEF key_manager_select_all, Chooses, panes
  <2>3. CASE key_manager_refresh
    BY <2>3 DEF key_manager_refresh, gpa_keylist_start_reload, Chooses, panes
  <2> QED
    BY <2>1, <2>2, <2>3
<1>2. PICK S \in SUBSET Keys : selection_changed(S) \/ Selects(S)
  BY <1>1
<1>3. Registered("keymanager")
  BY <1>1 DEF IInv, OwnersFit
<1>4. UNCHANGED <<open, owner, default_key, status, editing, picked, marked>>
  BY <1>1 DEF desktop_but_enabled, fileman, clipboard
<1>5. OwnersFit' /\ BoxesFit' /\ KeysFit' /\ OffersFit'
  <2>1. CASE selection_changed(S)
    BY <1>3, <1>4, <2>1, SelectionChanges DEF IInv
  <2>2. CASE Selects(S)
    BY <1>3, <1>4, <2>2, SelectionMayChange DEF IInv
  <2> QED
    BY <1>2, <2>1, <2>2
<1>6. OpsFit' /\ stuck' \in BOOLEAN /\ clicks' \in 0 .. MaxClicks
  BY <1>1, <1>4, Kept, Clicks DEF IInv, ProgramFits
<1> QED
  BY <1>1, <1>5, <1>6, KeyManagerUpdates

LEMMA WarningAnswered ==
  ASSUME IInv, UNCHANGED <<args, fileman, clipboard>>, gpa_gpgme_warning
  PROVE  IInv'
<1>1. /\ boxes # <<>> /\ boxes' = Front(boxes)
      /\ enabled' = enabled \ Sensitive["keymanager"]
      /\ fault' = "none" => fault = "none"
      /\ UNCHANGED <<keymanager, desktop_but_enabled, ops, stuck, clicks>>
  BY DEF gpa_gpgme_warning, disable_selection_sensitive_actions
<1>2. BoxesFit'
  BY <1>1, BoxClosed DEF IInv
<1>3. OwnersFit'
  BY <1>1 DEF IInv, OwnersFit, Registered, desktop_but_enabled
<1>4. OpsFit' /\ KeysFit'
  BY <1>1, Kept DEF IInv, desktop_but_enabled, keymanager, keylist, panes
<1>5. enabled' \subseteq enabled /\ Offered("keymanager")' = {}
  BY <1>1 DEF Offered
<1>6. \A w : OffersNoMore(w)
  BY <1>1, <1>5, NothingMore DEF desktop_but_enabled
<1>7. KeyOffersFit'
  BY <1>5 DEF KeyOffersFit
<1>8. OffersFit'
  BY <1>1, <1>6, <1>7, FileOffersKept, TextOffersKept DEF IInv, OffersFit, fileman, clipboard
<1>9. stuck' \in BOOLEAN /\ clicks' \in 0 .. MaxClicks
  BY <1>1 DEF IInv, ProgramFits
<1> QED
  BY <1>1, <1>2, <1>3, <1>4, <1>8, <1>9, KeyManagerUpdates

\* The listing delivers the key, which is the one selected, or nothing.
LEMMA KeyListed ==
  ASSUME IInv, UNCHANGED <<args, fileman, clipboard>>, key_manager_key_listed
  PROVE  IInv'
<1>1. /\ listing # NoKey /\ listing' = NoKey
      /\ UNCHANGED <<selection, status, editing, default_key, desktop_but_enabled, ops, boxes, stuck,
                     clicks>>
      /\ \/ current_key' = listing /\ update_actions(selection, listing, default_key)
         \/ UNCHANGED <<current_key, enabled, fault>>
  BY DEF key_manager_key_listed, keyring_selection_update_actions, panes, doing
<1>2. Registered("keymanager") /\ OwnersFit /\ OffersFit /\ KeysFit
  BY <1>1 DEF IInv, KeysFit
<1>3. UNCHANGED <<open, owner, picked, marked>>
  BY <1>1 DEF desktop_but_enabled, fileman, clipboard
<1>4. KeysFit'
  BY <1>1, <1>2, <1>3 DEF KeysFit, has_single_selection
<1>5. OwnersFit' /\ OffersFit'
  <2>1. CASE current_key' = listing /\ update_actions(selection, listing, default_key)
    BY <1>1, <1>2, <1>3, <2>1, ActionsUpdated
  <2>2. CASE UNCHANGED <<current_key, enabled, fault>>
    BY <1>1, <1>2, <1>3, <2>2, Kept, OffersKept
  <2> QED
    BY <1>1, <2>1, <2>2
<1>6. BoxesFit' /\ OpsFit' /\ stuck' \in BOOLEAN /\ clicks' \in 0 .. MaxClicks
  BY <1>1, <1>3, Kept DEF IInv, ProgramFits
<1> QED
  BY <1>1, <1>4, <1>5, <1>6, KeyManagerUpdates

LEMMA DefaultKeyChanges ==
  ASSUME IInv, UNCHANGED <<args, fileman, clipboard>>, keyring_default_key_changed
  PROVE  IInv'
<1>1. PICK d \in Private \cup {NoKey} :
        /\ UserActs
        /\ default_key' = d
        /\ \/ fault' = "handler of a dead window" /\ UNCHANGED <<status, enabled>>
           \/ "keymanager" \in open /\ status' = d /\ update_actions(selection, current_key, d)
           \/ "keymanager" \notin open /\ UNCHANGED <<status, enabled, fault>>
        /\ UNCHANGED <<selection, current_key, listing, editing, desktop_but_enabled, ops, boxes, stuck>>
  BY DEF keyring_default_key_changed, keylist, doing
<1>2. OwnersFit /\ OffersFit /\ KeysFit /\ d \in Keys \cup {NoKey}
  BY KeysAssumption DEF IInv
<1>3. UNCHANGED <<open, owner, picked, marked>>
  BY <1>1 DEF desktop_but_enabled, fileman, clipboard
<1>4. KeysFit'
  BY <1>1, <1>2, <1>3 DEF KeysFit, Registered, has_single_selection
<1>5. OwnersFit' /\ OffersFit'
  <2>1. CASE fault' = "handler of a dead window" /\ UNCHANGED <<status, enabled>>
    BY <1>2, <1>3, <2>1, Kept DEF OffersFit
  <2>2. CASE "keymanager" \in open /\ update_actions(selection, current_key, d)
    <3>1. Registered("keymanager")
      BY <1>2, <2>2 DEF OwnersFit
    <3> QED
      BY <1>1, <1>2, <1>3, <2>2, <3>1, ActionsUpdated
  <2>3. CASE "keymanager" \notin open /\ UNCHANGED <<status, enabled, fault>>
    <3>1. OwnersFit'
      BY <1>2, <1>3, <2>3, Kept
    <3>2. \A w : OffersNoMore(w)
      BY <1>3, <2>3, NothingMore
    <3>3. KeyOffersFit'
      BY <1>3, <2>3 DEF KeyOffersFit
    <3> QED
      BY <1>2, <1>3, <2>3, <3>1, <3>2, <3>3, FileOffersKept, TextOffersKept DEF OffersFit
  <2> QED
    BY <1>1, <2>1, <2>2, <2>3
<1>6. BoxesFit' /\ OpsFit' /\ stuck' \in BOOLEAN /\ clicks' \in 0 .. MaxClicks
  BY <1>1, <1>3, Kept, Clicks DEF IInv, ProgramFits
<1> QED
  BY <1>1, <1>4, <1>5, <1>6, KeyManagerUpdates

\* An operation of the key manager, or of its dialog, ends.
LEMMA OperationSignals ==
  ASSUME IInv, UNCHANGED <<args, fileman, clipboard>>, gpa_key_manager_changed_wot_cb
  PROVE  IInv'
<1>1. /\ ops' \subseteq ops /\ stuck' \in {stuck, TRUE}
      /\ UNCHANGED <<status, editing, default_key, desktop_but_enabled, clicks>>
      /\ \/ /\ UNCHANGED <<selection, current_key, listing, enabled, boxes>>
            /\ fault' = "none" => fault = "none"
         \/ "keymanager" \in open /\ Selects({})
  BY DEF gpa_key_manager_changed_wot_cb, Signals, gpa_keylist_start_reload, panes, keylist
<1>2. OwnersFit /\ OffersFit /\ KeysFit /\ BoxesFit /\ OpsFit
  BY DEF IInv
<1>3. UNCHANGED <<open, owner, picked, marked>>
  BY <1>1 DEF desktop_but_enabled, fileman, clipboard
<1>4. OwnersFit' /\ BoxesFit' /\ KeysFit' /\ OffersFit'
  <2>1. CASE /\ UNCHANGED <<selection, current_key, listing, enabled, boxes>>
             /\ fault' = "none" => fault = "none"
    BY <1>1, <1>2, <1>3, <2>1, Kept, OffersKept
  <2>2. CASE "keymanager" \in open /\ Selects({})
    <3>1. Registered("keymanager")
      BY <1>2, <2>2 DEF OwnersFit
    <3> QED
      BY <1>1, <1>2, <1>3, <2>2, <3>1, SelectionMayChange
  <2> QED
    BY <1>1, <2>1, <2>2
<1>5. OpsFit' /\ stuck' \in BOOLEAN /\ clicks' \in 0 .. MaxClicks
  BY <1>1, <1>2, <1>3, OpsEnd DEF IInv, ProgramFits
<1> QED
  BY <1>1, <1>4, <1>5, KeyManagerUpdates

-----------------------------------------------------------------------------
(* The steps of the file manager.                                          *)

LEMMA FileAdded ==
  ASSUME FilesFit, NEW f \in Files, add_file(f)
  PROVE  /\ FilesFit'
         /\ \/ UNCHANGED <<list_files, picked, enabled, fault>>
            \/ SelectFiles(picked \cup {f})
<1>1. CASE Listed(f)
  <2>1. UNCHANGED <<list_files, picked, enabled, fault>>
    BY <1>1 DEF add_file
  <2> QED
    BY <2>1, Kept
<1>2. CASE ~Listed(f)
  <2>1. list_files' = Append(list_files, f) /\ SelectFiles(picked \cup {f})
    BY <1>2 DEF add_file
  <2>2. ToSet(list_files') = ToSet(list_files) \cup {f}
    BY <2>1, AppendMembers DEF FilesFit
  <2> DEFINE n == Len(list_files)
  <2>3. /\ list_files' \in Seq(Files) /\ n \in Nat
        /\ DOMAIN list_files = 1 .. n /\ DOMAIN list_files' = 1 .. n + 1
        /\ \A i \in 1 .. n : list_files'[i] = list_files[i]
        /\ list_files'[n + 1] = f
    BY <2>1 DEF FilesFit
  <2>4. \A i \in 1 .. n : list_files[i] # f
    BY <1>2, <2>3 DEF Listed, ToSet
  <2> HIDE DEF n
  <2>5. ASSUME NEW i \in 1 .. n + 1, NEW j \in 1 .. n + 1, list_files'[i] = list_files'[j]
        PROVE  i = j
    <3>1. (i \in 1 .. n \/ i = n + 1) /\ (j \in 1 .. n \/ j = n + 1)
      BY <2>3
    <3> QED
      BY <2>3, <2>4, <2>5, <3>1 DEF FilesFit, IsInjective
  <2>6. IsInjective(list_files')
    BY <2>3, <2>5 DEF IsInjective
  <2>7. picked' \subseteq ToSet(list_files')
    BY <2>1, <2>2 DEF SelectFiles, FilesFit
  <2> QED
    BY <2>1, <2>3, <2>6, <2>7 DEF FilesFit
<1> QED
  BY <1>1, <1>2

\* A step that selects other files, or none, while the window may be gone.
LEMMA FileManagerSelects ==
  ASSUME IInv, UNCHANGED <<args, keymanager, clipboard>>,
         FilesFit', OpsFit', UNCHANGED fileman_rest, clicks' \in 0 .. MaxClicks,
         \/ UNCHANGED <<picked, enabled>> /\ (fault' = "none" => fault = "none")
         \/ \E S : SelectFiles(S) /\ (Registered("fileman") \/ S = {})
  PROVE  IInv'
<1>1. UNCHANGED <<open, owner, boxes, selection, current_key, listing, default_key, status, editing,
                  marked, text, offered, asks>>
  BY DEF fileman_rest, keymanager, keylist, panes, clipboard
<1>2. OwnersFit' /\ OffersFit'
  <2>1. CASE UNCHANGED <<picked, enabled>> /\ (fault' = "none" => fault = "none")
    BY <1>1, <2>1, Kept, OffersKept DEF IInv
  <2>2. CASE \E S : SelectFiles(S) /\ (Registered("fileman") \/ S = {})
    BY <1>1, <2>2, FilesSelected DEF IInv
  <2> QED
    BY <2>1, <2>2
<1>3. KeysFit' /\ TextFits' /\ BoxesFit'
  BY <1>1, Kept DEF IInv
<1>4. ProgramFits'
  BY DEF IInv, ProgramFits, args, fileman_rest
<1> QED
  BY <1>2, <1>3, <1>4 DEF IInv

LEMMA FileManagerSteps ==
  ASSUME IInv, UNCHANGED <<args, keymanager, clipboard>>, FileManagerActs, ~file_manager_close
  PROVE  IInv'
<1>0. OwnersFit /\ FilesFit /\ OpsFit /\ clicks \in 0 .. MaxClicks
  BY DEF IInv, ProgramFits
<1>1. CASE file_open_list \/ dnd_data_received_handler
  <2>1. /\ UserActs /\ "fileman" \in open /\ UNCHANGED <<fileman_rest, ops>>
        /\ \E f \in Files : add_file(f)
    BY <1>1 DEF file_open_list, dnd_data_received_handler, Chooses
  <2>2. PICK f \in Files : add_file(f)
    BY <2>1
  <2>3. OpsFit' /\ Registered("fileman") /\ clicks' \in 0 .. MaxClicks
    BY <1>0, <2>1, Kept, Clicks DEF OwnersFit, fileman_rest
  <2> QED
    BY <1>0, <2>1, <2>2, <2>3, FileAdded, FileManagerSelects
<1>2. CASE file_clear_list \/ edit_select_all_files \/ PickFiles
  <2>1. /\ UserActs /\ "fileman" \in open /\ UNCHANGED <<fileman_rest, ops>>
        /\ \/ list_files' = <<>> /\ SelectFiles({})
           \/ UNCHANGED list_files /\ \E S \in SUBSET ToSet(list_files) : SelectFiles(S)
    BY <1>2 DEF file_clear_list, edit_select_all_files, PickFiles, Chooses
  <2>2. OpsFit' /\ Registered("fileman") /\ clicks' \in 0 .. MaxClicks
    BY <1>0, <2>1, Kept, Clicks DEF OwnersFit, fileman_rest
  <2>3. FilesFit'
    <3>1. CASE list_files' = <<>> /\ SelectFiles({})
      <4>1. list_files' \in Seq(Files) /\ DOMAIN list_files' = 1 .. 0
        BY <3>1
      <4>2. picked' = {}
        BY <3>1 DEF SelectFiles
      <4> QED
        BY <4>1, <4>2 DEF FilesFit, IsInjective
    <3>2. CASE UNCHANGED list_files /\ \E S \in SUBSET ToSet(list_files) : SelectFiles(S)
      <4>1. picked' \subseteq ToSet(list_files)
        BY <3>2 DEF SelectFiles
      <4> QED
        BY <1>0, <3>2, <4>1 DEF FilesFit
    <3> QED
      BY <2>1, <3>1, <3>2
  <2> QED
    BY <2>1, <2>2, <2>3, FileManagerSelects
<1>3. CASE file_operation
  <2>1. /\ UserActs /\ "fileman" \in open
        /\ ops' = ops \cup {Operation("fileman", "file")}
        /\ UNCHANGED <<fileman, fileman_rest, enabled, fault>>
    BY <1>3 DEF file_operation, Chooses
  <2>2. Registered("fileman") /\ clicks' \in 0 .. MaxClicks
    BY <1>0, <2>1, Clicks DEF OwnersFit
  <2>3. OpsFit'
    BY <1>0, <2>1, <2>2, OpsStart DEF fileman_rest, MainWindows
  <2>4. FilesFit'
    BY <1>0, <2>1, Kept DEF fileman
  <2> QED
    BY <2>1, <2>2, <2>3, <2>4, FileManagerSelects DEF fileman
<1>4. CASE file_created_in_list
  <2>1. PICK op \in ops :
          /\ op.window = "fileman"
          /\ ops' = ops \ {op}
          /\ \/ UNCHANGED <<fileman, enabled, fault>>
             \/ \E f \in Files : add_file(f)
             \/ fault' = "operation of a dead window" /\ UNCHANGED <<fileman, enabled>>
          /\ UNCHANGED <<fileman_rest, clicks>>
    BY <1>4 DEF file_created_in_list
  <2>2. OpsFit' /\ Registered("fileman")
    BY <1>0, <2>1, OpsEnd DEF OpsFit, fileman_rest
  <2>3. CASE \E f \in Files : add_file(f)
    <3>1. PICK f \in Files : add_file(f)
      BY <2>3
    <3> QED
      BY <1>0, <2>1, <2>2, <3>1, FileAdded, FileManagerSelects
  <2>4. CASE UNCHANGED <<fileman, enabled>> /\ (fault' = "none" => fault = "none")
    <3>1. FilesFit'
      BY <1>0, <2>4, Kept DEF fileman
    <3> QED
      BY <1>0, <2>1, <2>2, <2>4, <3>1, FileManagerSelects DEF fileman
  <2> QED
    BY <2>1, <2>3, <2>4
<1> QED
  BY <1>1, <1>2, <1>3, <1>4 DEF FileManagerActs

-----------------------------------------------------------------------------
(* The steps of the clipboard.                                             *)

ClipboardMarks ==
  \/ UNCHANGED <<marked, enabled>> /\ (fault' = "none" => fault = "none")
  \/ \E m \in BOOLEAN : Marks(m) /\ (Registered("clipboard") \/ m = FALSE)

LEMMA MarkingSteps ==
  ASSUME IInv, UNCHANGED <<args, keymanager, fileman, clipboard_rest>>,
         BoxesFit', OpsFit', clicks' \in 0 .. MaxClicks,
         "warning" \in ToSet(boxes) => "warning" \in ToSet(boxes'),
         AsksStay,
         marked' => text' # "", ClipboardMarks
  PROVE  IInv'
<1>1. UNCHANGED <<open, owner, selection, current_key, listing, default_key, status, editing,
                  list_files, picked>>
  BY DEF clipboard_rest, keymanager, keylist, panes, fileman
<1>2. OwnersFit' /\ OffersFit' /\ marked' \in BOOLEAN
  <2>1. CASE UNCHANGED <<marked, enabled>> /\ (fault' = "none" => fault = "none")
    BY <1>1, <2>1, Kept, OffersKept DEF IInv, TextFits
  <2>2. CASE \E m \in BOOLEAN : Marks(m) /\ (Registered("clipboard") \/ m = FALSE)
    BY <1>1, <2>2, TextMarked DEF IInv
  <2> QED
    BY <2>1, <2>2 DEF ClipboardMarks
<1>3. KeysFit' /\ FilesFit'
  BY <1>1, Kept DEF IInv
<1>4. ProgramFits'
  BY DEF IInv, ProgramFits, args, clipboard_rest
<1>5. TextFits'
  <2>1. Registered("clipboard")' = Registered("clipboard")
    BY <1>1 DEF Registered
  <2>2. AsksFit'
    BY <2>1, AsksCarried DEF IInv, TextFits
  <2> QED
    BY <1>2, <2>2, Zenon DEF IInv, TextFits
<1> QED
  BY <1>2, <1>3, <1>4, <1>5 DEF IInv

\* Only a window that is open asks the new owner.
LEMMA OwnerFits ==
  ASSUME AsksFit, NEW content \in BOOLEAN, NewOwner(content)
  PROVE  AsksStay
<1> DEFINE older == [i \in DOMAIN asks |-> [asks[i] EXCEPT !.now = FALSE]]
<1> DEFINE mine == IF "clipboard" \in open THEN <<Request("window", content)>> ELSE <<>>
<1> DEFINE left == IF clip_leftovers THEN <<Request("dead", content)>> ELSE <<>>
<1>1. offered' = content /\ asks' = older \o mine \o left
  BY DEF NewOwner
<1>2. asks \in Seq(RequestType)
  BY DEF AsksFit
<1>3. /\ older \in Seq(RequestType) /\ DOMAIN older = DOMAIN asks
      /\ \A i \in DOMAIN older : older[i].window = asks[i].window
  BY <1>2, RequestsChanged
<1>4. Request("window", content) \in RequestType /\ Request("dead", content) \in RequestType
      /\ Request("dead", content).window = "dead"
  BY RequestsTyped DEF Request
<1> HIDE DEF older
<1>5. mine \in Seq(RequestType) /\ left \in Seq(RequestType)
  BY <1>4
<1>6. \A i \in DOMAIN left : left[i].window = "dead"
  BY <1>4
<1>7. "clipboard" \notin open => mine = <<>>
  OBVIOUS
<1> HIDE DEF mine, left
<1>8. asks' \in Seq(RequestType)
  BY <1>1, <1>3, <1>5
<1>9. (Asks("window"))' <=> \E i \in DOMAIN asks' : asks'[i].window = "window"
  BY DEF Asks
<1>10. ASSUME "clipboard" \notin open, NEW i \in DOMAIN asks', asks'[i].window = "window"
       PROVE  Asks("window")
  <2>1. asks' = older \o left
    BY <1>1, <1>3, <1>5, <1>7, <1>10
  <2>2. i \in DOMAIN older /\ asks'[i] = older[i]
    BY <1>3, <1>5, <1>6, <1>10, <2>1
  <2> QED
    BY <1>3, <1>10, <2>2 DEF Asks
<1> QED
  BY <1>1, <1>8, <1>9, <1>10 DEF AsksStay

\* What the user does with the text.

LEMMA TextSteps ==
  ASSUME IInv, UNCHANGED <<args, keymanager, fileman>>,
         \/ Write \/ Mark \/ edit_select_all_text \/ file_open_text \/ file_clear_text
         \/ edit_cut \/ edit_delete \/ edit_copy \/ edit_paste \/ OwnerChange
  PROVE  IInv'
<1>0. OwnersFit /\ TextFits /\ BoxesFit /\ OpsFit
  BY DEF IInv
<1>1. /\ UserActs
      /\ UNCHANGED <<clipboard_rest, ops, boxes>>
      /\ UNCHANGED <<offered, asks>> \/ \E content \in BOOLEAN : NewOwner(content)
      /\ \/ UNCHANGED <<text, marked, enabled, fault>>
         \/ \E t : gtk_text_buffer_set_text(t)
         \/ /\ "clipboard" \in open /\ UNCHANGED text
            /\ \E m \in BOOLEAN : Marks(m) /\ (m => text # "")
  <2>1. CASE Write
    BY <2>1 DEF Write, desktop_clip
  <2>2. CASE Mark
    <3>1. (~marked) \in BOOLEAN
      OBVIOUS
    <3> QED
      BY <2>2, <3>1 DEF Mark, desktop_clip
  <2>3. CASE edit_select_all_text
    <3>1. (text # "") \in BOOLEAN
      OBVIOUS
    <3> QED
      BY <2>3, <3>1 DEF edit_select_all_text, Chooses, desktop_clip
  <2>4. CASE file_open_text
    BY <2>4 DEF file_open_text, Chooses, desktop_clip
  <2>5. CASE file_clear_text
    BY <2>5 DEF file_clear_text, Chooses, desktop_clip
  <2>6. CASE edit_cut
    BY <2>6 DEF edit_cut, Chooses
  <2>7. CASE edit_delete
    BY <2>7 DEF edit_delete, Chooses, desktop_clip
  <2>8. CASE edit_copy
    BY <2>8 DEF edit_copy, Chooses
  <2>9. CASE edit_paste
    BY <2>9 DEF edit_paste, Chooses, desktop_clip
  <2>10. CASE OwnerChange
    <3>1. (~offered) \in BOOLEAN
      OBVIOUS
    <3> QED
      BY <2>10, <3>1 DEF OwnerChange
  <2> QED
    BY <2>1, <2>2, <2>3, <2>4, <2>5, <2>6, <2>7, <2>8, <2>9, <2>10
<1>2. /\ OpsFit' /\ BoxesFit' /\ clicks' \in 0 .. MaxClicks
      /\ AsksStay
  BY <1>0, <1>1, Kept, Clicks, AsksLeft, OwnerFits DEF clipboard_rest, TextFits
<1>3. ClipboardMarks /\ (marked' => text' # "")
  <2>1. CASE UNCHANGED <<text, marked, enabled, fault>>
    BY <1>0, <2>1, Zenon DEF ClipboardMarks, TextFits
  <2>2. CASE \E t : gtk_text_buffer_set_text(t)
    <3>1. Marks(FALSE)
      BY <2>2 DEF gtk_text_buffer_set_text
    <3>2. marked' = FALSE
      BY <3>1 DEF Marks
    <3> QED
      BY <3>1, <3>2 DEF ClipboardMarks
  <2>3. CASE /\ "clipboard" \in open /\ UNCHANGED text
             /\ \E m \in BOOLEAN : Marks(m) /\ (m => text # "")
    <3>1. PICK m \in BOOLEAN : Marks(m) /\ (m => text # "")
      BY <2>3
    <3>2. Registered("clipboard")
      BY <1>0, <2>3 DEF OwnersFit
    <3>3. marked' = m /\ text' = text
      BY <2>3, <3>1 DEF Marks
    <3>4. marked' => text' # ""
      BY <3>1, <3>3, Zenon
    <3> QED
      BY <3>1, <3>2, <3>4 DEF ClipboardMarks
  <2> QED
    BY <1>1, <2>1, <2>2, <2>3
<1> QED
  BY <1>1, <1>2, <1>3, MarkingSteps

LEMMA ResultSteps ==
  ASSUME IInv, UNCHANGED <<args, keymanager, fileman>>,
         ClipboardLeftover \/ text_operation \/ file_created_cb \/ gpa_window_message
  PROVE  IInv'
<1>0. OwnersFit /\ TextFits /\ BoxesFit /\ OpsFit /\ clicks \in 0 .. MaxClicks
  BY DEF IInv, ProgramFits
<1>t. ASSUME NEW t, gtk_text_buffer_set_text(t)
      PROVE  ClipboardMarks /\ (marked' => text' # "")
  <2>1. Marks(FALSE)
    BY <1>t DEF gtk_text_buffer_set_text
  <2>2. marked' = FALSE
    BY <2>1 DEF Marks
  <2> QED
    BY <2>1, <2>2 DEF ClipboardMarks
<1>u. ASSUME UNCHANGED <<text, marked, enabled>>, fault' = "none" => fault = "none"
      PROVE  ClipboardMarks /\ (marked' => text' # "")
  <2>1. ClipboardMarks
    BY <1>u DEF ClipboardMarks
  <2>2. marked' => text' # ""
    BY <1>0, <1>u, Zenon DEF TextFits
  <2> QED
    BY <2>1, <2>2
<1>1. CASE ClipboardLeftover
  <2>1. /\ UNCHANGED <<clipboard, clipboard_rest, enabled, ops, boxes, clicks>>
        /\ fault' # "none"
    BY <1>1 DEF ClipboardLeftover
  <2>2. OpsFit' /\ BoxesFit'
    BY <1>0, <2>1, Kept DEF clipboard_rest
  <2> QED
    BY <1>0, <1>u, <2>1, <2>2, AsksLeft, MarkingSteps DEF clipboard, TextFits
<1>2. CASE text_operation
  <2>1. /\ UserActs
        /\ ops' = ops \cup {Operation("clipboard", "file")}
        /\ UNCHANGED <<clipboard, clipboard_rest, enabled, boxes, fault>>
    BY <1>2 DEF text_operation, Chooses
  <2>2. OpsFit' /\ BoxesFit' /\ clicks' \in 0 .. MaxClicks
    BY <1>0, <2>1, Kept, OpsStart, Clicks DEF clipboard_rest, MainWindows
  <2> QED
    BY <1>0, <1>u, <2>1, <2>2, AsksLeft, MarkingSteps DEF clipboard, TextFits
<1>3. CASE file_created_cb
  <2>1. /\ ops' \subseteq ops
        /\ \/ UNCHANGED <<text, marked, enabled>> /\ (fault' = "none" => fault = "none")
           \/ gtk_text_buffer_set_text("result")
        /\ boxes' = boxes \/ boxes' = Append(boxes, "encoding")
        /\ UNCHANGED <<offered, asks, clipboard_rest, clicks>>
    BY <1>3 DEF file_created_cb, desktop_clip
  <2>2. BoxesFit' /\ ToSet(boxes) \subseteq ToSet(boxes')
    BY <1>0, <2>1, Kept, BoxShown DEF Boxes
  <2>3. OpsFit'
    BY <1>0, <2>1, OpsEnd DEF clipboard_rest
  <2>4. ClipboardMarks /\ (marked' => text' # "")
    BY <1>t, <1>u, <2>1
  <2> QED
    BY <1>0, <2>1, <2>2, <2>3, <2>4, AsksLeft, MarkingSteps DEF TextFits
<1>4. CASE gpa_window_message
  <2>1. /\ boxes # <<>> /\ Last(boxes) = "encoding" /\ boxes' = Front(boxes)
        /\ gtk_text_buffer_set_text(unread)
        /\ UNCHANGED <<offered, asks, clipboard_rest, ops, clicks>>
    BY <1>4 DEF gpa_window_message, desktop_clip
  <2>2. BoxesFit' /\ ToSet(boxes) = ToSet(boxes') \cup {"encoding"}
    BY <1>0, <2>1, BoxClosed
  <2>3. OpsFit'
    BY <1>0, <2>1, Kept DEF clipboard_rest
  <2> QED
    BY <1>0, <1>t, <2>1, <2>2, <2>3, AsksLeft, MarkingSteps DEF TextFits
<1> QED
  BY <1>1, <1>2, <1>3, <1>4

\* The targets arrive.
LEMMA TargetsArrive ==
  ASSUME IInv, UNCHANGED <<args, keymanager, fileman>>, update_paste_sensitive_actions
  PROVE  IInv'
<1>1. /\ offered' = offered
      /\ \E i \in DOMAIN asks : asks[i].window = "window" /\ asks' = RemoveAt(asks, i)
      /\ enabled' \subseteq enabled \cup {"edit_paste"}
      /\ fault' = "none" => fault = "none"
      /\ UNCHANGED <<text, marked, clipboard_rest, ops, boxes, clicks>>
  BY DEF update_paste_sensitive_actions, PasteEnabled
<1>2. "edit_paste" \in Names["clipboard"] /\ "edit_paste" \in AllNames
  BY DEF Names, AllNames, MainWindows, ClipboardEntries
<1>3. \A w \in MainWindows : "edit_paste" \notin Sensitive[w]
  BY DEF Sensitive, MainWindows
<1>4. UNCHANGED <<open, owner, selection, current_key, listing, default_key, status, editing,
                  list_files, picked>>
  BY <1>1 DEF clipboard_rest, keymanager, keylist, panes, fileman
<1>r. Registered("clipboard")
  BY <1>1 DEF IInv, TextFits, AsksFit, Asks
<1>5. OwnersFit'
  BY <1>1, <1>2, <1>4, <1>r DEF IInv, OwnersFit, Registered
<1>6. \A w \in MainWindows : OffersNoMore(w)
  BY <1>1, <1>3, <1>4 DEF OffersNoMore, Offered
<1>7. OffersFit'
  BY <1>1, <1>4, <1>6, KeyOffersKept, FileOffersKept, TextOffersKept
  DEF IInv, OffersFit, MainWindows
<1>8. BoxesFit' /\ OpsFit' /\ KeysFit' /\ FilesFit'
  BY <1>1, <1>4, Kept DEF IInv
<1>9. TextFits'
  <2>1. Registered("clipboard")' = Registered("clipboard")
    BY <1>4 DEF Registered
  <2>2. asks \in Seq(RequestType) /\ offered \in BOOLEAN
    BY DEF IInv, TextFits, AsksFit
  <2>3. PICK i \in DOMAIN asks : asks' = RemoveAt(asks, i)
    BY <1>1
  <2>4. i \in 1 .. Len(asks) /\ Len(asks) \in Nat
    BY <2>2, <2>3
  <2>5. SubSeq(asks, 1, i - 1) \in Seq(RequestType) /\ SubSeq(asks, i + 1, Len(asks)) \in Seq(RequestType)
    BY <2>2, <2>4
  <2>6. asks' \in Seq(RequestType)
    BY <2>3, <2>5 DEF RemoveAt
  <2>7. AsksFit'
    BY <1>1, <1>r, <2>1, <2>2, <2>6 DEF AsksFit
  <2> QED
    BY <1>1, <2>7, Zenon DEF IInv, TextFits
<1>10. ProgramFits'
  BY <1>1 DEF IInv, ProgramFits, args, clipboard_rest
<1> QED
  BY <1>5, <1>7, <1>8, <1>9, <1>10 DEF IInv

-----------------------------------------------------------------------------
LEMMA InitIInv == Init => IInv
<1> SUFFICES ASSUME Init
             PROVE  IInv
  OBVIOUS
<1>1. InitDesktop /\ InitKeyManager /\ InitFileManager /\ InitClipboard
  BY DEF Init
<1>2. /\ open = {} /\ enabled = {} /\ owner = [n \in AllNames |-> NoWindow]
      /\ ops = {} /\ boxes = <<>>
  BY <1>1 DEF InitDesktop
<1>3. OwnersFit
  BY <1>2 DEF OwnersFit, Registered
<1>4. ProgramFits
  <2>1. /\ desk \in Desks /\ start_only_server \in BOOLEAN
        /\ backend = FALSE /\ activated = FALSE /\ shutdown_pending = FALSE /\ quit = FALSE
        /\ stuck = FALSE /\ connection_counter = 0 /\ clicks = 0
    BY <1>1, Zenon DEF InitDesktop
  <2>2. connection_counter \in 0 .. MaxConnections /\ clicks \in 0 .. MaxClicks
    BY <2>1, BoundsAssumption
  <2> QED
    BY <2>1, <2>2, Zenon DEF ProgramFits
<1>5. BoxesFit /\ OpsFit
  BY <1>2 DEF BoxesFit, OpsFit
<1>6. KeysFit
  BY <1>1, KeysAssumption DEF InitKeyManager, KeysFit
<1>7. FilesFit
  <2>1. list_files \in Seq(Files) /\ DOMAIN list_files = 1 .. 0 /\ picked = {}
    BY <1>1 DEF InitFileManager
  <2> QED
    BY <2>1 DEF FilesFit, IsInjective
<1>8. TextFits
  <2>1. marked = FALSE /\ asks = <<>> /\ offered = FALSE
    BY <1>1, Zenon DEF InitClipboard
  <2>2. asks \in Seq(RequestType)
    BY <2>1
  <2>3. DOMAIN asks = 1 .. 0
    BY <2>1
  <2>4. ~Asks("window")
    BY <2>3 DEF Asks
  <2>5. AsksFit
    BY <2>1, <2>2, <2>4 DEF AsksFit
  <2> QED
    BY <2>1, <2>5 DEF TextFits
<1>9. OffersFit
  BY <1>2 DEF OffersFit, KeyOffersFit, FileOffersFit, TextOffersFit
<1> QED
  BY <1>3, <1>4, <1>5, <1>6, <1>7, <1>8, <1>9 DEF IInv

LEMMA NextIInv == IInv /\ [Next]_vars => IInv'
<1> SUFFICES ASSUME IInv, [Next]_vars
             PROVE  IInv'
  OBVIOUS
<1>1. CASE activate \/ OpenFromMenu \/ OpenForClient
  BY <1>1, Openings
<1>2. CASE Application /\ UNCHANGED <<args, keymanager, fileman, clipboard>>
  BY <1>2, ApplicationSteps
<1>3. CASE CloseCardManager /\ UNCHANGED <<args, keymanager, fileman, clipboard>>
  BY <1>3, ClosingSteps
<1>4. CASE KeyManagerActs /\ UNCHANGED <<args, fileman, clipboard>>
  BY <1>4, WarningAnswered, KeyManagerRests, KeyManagerSelects, KeyListed, DefaultKeyChanges,
     ClosingSteps, KeyManagerStarts, OperationSignals
  DEF KeyManagerActs
<1>5. CASE FileManagerActs /\ UNCHANGED <<args, keymanager, clipboard>>
  BY <1>5, FileManagerSteps, ClosingSteps
<1>6. CASE ClipboardActs /\ UNCHANGED <<args, keymanager, fileman>>
  BY <1>6, TextSteps, ResultSteps, TargetsArrive, ClosingSteps DEF ClipboardActs
<1>7. CASE UNCHANGED vars
  <2>1. /\ UNCHANGED <<args, desktop, doing, clicks, fault, keymanager, fileman, clipboard>>
    BY <1>7 DEF vars
  <2>2. BoxesFit' /\ OpsFit'
    BY <2>1, Kept DEF IInv, desktop, doing
  <2> QED
    BY <2>1, <2>2, QuietSteps
    DEF desktop, doing, keymanager, keylist, panes, clipboard, IInv, KeysFit, ProgramFits
<1> QED
  BY <1>1, <1>2, <1>3, <1>4, <1>5, <1>6, <1>7 DEF Next

\* The inductive invariant holds in every run.
THEOREM InductiveInvariant == Spec => []IInv
<1> QED
  BY InitIInv, NextIInv, PTL DEF Spec

LEMMA PartsHaveTheirTypes == IInv => TypeOK
<1>1. IInv => OwnersFit /\ ProgramFits /\ BoxesFit /\ OpsFit /\ KeysFit /\ FilesFit
  BY DEF IInv
<1>2. IInv => (marked => text # "") /\ offered \in BOOLEAN /\ asks \in Seq(RequestType)
  BY DEF IInv, TextFits, AsksFit
<1> QED
  BY <1>1, <1>2 DEF OwnersFit, Registered, ProgramFits, BoxesFit, Boxes, OpsFit, OpType, KeysFit, FilesFit,
                    RequestType, TypeOK

\* As long as one key is selected in the key manager there is no other
\* current key, which its actions take: the listing of a key that was selected
\* before is given up, or its result is (key_manager_selection_changed).
THEOREM ActionsMeanTheSelectedKey == Spec => []CurrentKeyIsTheSelected
<1>1. IInv => CurrentKeyIsTheSelected
  <2> SUFFICES ASSUME IInv, has_single_selection(selection)
               PROVE  current_key = NoKey \/ selection = {current_key}
    BY PartsHaveTheirTypes DEF CurrentKeyIsTheSelected
  <2>1. selection \subseteq Keys /\ current_key \in selection \cup {NoKey}
    BY DEF IInv, KeysFit
  <2>2. IsFiniteSet(selection)
    BY <2>1, KeysAssumption, FS_Subset
  <2>3. PICK k : selection = {k}
    BY <2>2, FS_Singleton DEF has_single_selection
  <2> QED
    BY <2>1, <2>3
<1> QED
  BY <1>1, InductiveInvariant, PTL

\* The key manager, the file manager and the clipboard enable an action only
\* while it applies to what is selected in them, as long as no window has used
\* an action that another one replaced (the selection_sensitive_actions).
THEOREM OffersApply == Spec => []EnabledActionsApply
<1>1. IInv => EnabledActionsApply
  <2> SUFFICES ASSUME IInv, Alive, NEW w \in open, NEW n \in enabled, n \in Sensitive[w], owner[n] = w
               PROVE  CASE w = "keymanager" -> "warning" \in ToSet(boxes)
                                                \/ Applies(n, selection, current_key, default_key)
                        [] w = "fileman" -> picked # {}
                        [] w = "clipboard" -> marked
    BY DEF EnabledActionsApply
  <2>1. KeyOffersFit /\ FileOffersFit /\ TextOffersFit
    BY DEF IInv, OffersFit, Alive, Ended
  <2>2. n \in Offered(w)
    BY DEF Offered
  <2>3. w \in {"keymanager", "fileman", "clipboard"}
    BY DEF IInv, OwnersFit, MainWindows, Sensitive
  <2>4. CASE w = "keymanager"
    BY <2>1, <2>2, <2>4 DEF KeyOffersFit
  <2>5. CASE w = "fileman"
    BY <2>1, <2>2, <2>5 DEF FileOffersFit
  <2>6. CASE w = "clipboard"
    BY <2>1, <2>2, <2>6, Zenon DEF TextOffersFit
  <2> QED
    BY <2>3, <2>4, <2>5, <2>6
<1> QED
  BY <1>1, InductiveInvariant, PTL

=============================================================================
