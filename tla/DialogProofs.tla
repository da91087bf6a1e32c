---------------------------- MODULE DialogProofs ----------------------------
(***************************************************************************)
(* The safety properties of the dialogs that stay open while others work:  *)
(* RecipientDialog, for any keyring and any finite set of certificates and *)
(* recipients, and Preferences, for any options of GnuPG, any configuration*)
(* that GPA finds and any text that the user types.                        *)
(*                                                                         *)
(* The recipients: neither property is inductive.  That the answer is      *)
(* sound rests on OK being usable only for certificates that are, and on   *)
(* the hint having been computed for the radio button that is active       *)
(* (HintFits).  An answer keeps what it was given for (AnswerFits).        *)
(*                                                                         *)
(* The preferences: that the settings survive rests on gpa.conf having     *)
(* what the user wanted even while the program does not run (Remembered).  *)
(* That a save keeps what nobody edited rests on the widgets: an untouched *)
(* one is the one of the value that was loaded (BackendHolds), and reading *)
(* it gives that value back (Shown).  The second is true of what is stored *)
(* only because every text that a widget may get is read as a value that   *)
(* is shown in turn, or is refused by gpgconf (Kept): texts of the user's, *)
(* what was loaded, the default, and each again after a choice of the      *)
(* combo box brought it back.                                              *)
(***************************************************************************)
EXTENDS RecipientDialog, Preferences, FiniteSetTheorems, SequenceTheorems, TLAPS

(* The recipients.                                                         *)

\* The list holds certificates of the protocol of their column.
InfoFits == \A r \in rows, p \in Protocols : \A c \in info[r][p] : ProtocolOf(c) = p

\* OK and the selected protocol belong to the certificates and the radio button.
HintFits ==
  dialog # "new" =>
    /\ usable = okay(info, radio)
    /\ selected_protocol = sel_protocol(info, radio)

\* The answer was given while OK could be pressed.
AnswerFits == dialog = "ok" => usable /\ keys = get_keys(selected_protocol)

DialogInv ==
  /\ DialogTypeOK
  /\ InfoFits
  /\ HintFits
  /\ AnswerFits
  /\ popup => dialog = "shown"

-----------------------------------------------------------------------------
(* What okay says of the certificates I.                                   *)

\* The certificates of a list, by recipient and protocol.
Info(I, R) == I \in [R -> [Protocols -> SUBSET Certs]]

\* A set that is finite, has an element and no second one has exactly one.
LEMMA OneCertificate ==
  ASSUME NEW S, IsFiniteSet(S), S # {}, ~ Cardinality(S) > 1
  PROVE  \E c \in S : S = {c}
<1>1. Cardinality(S) \in Nat
  BY FS_CardinalityType
<1>2. Cardinality(S) # 0
  BY FS_EmptySet
<1>3. Cardinality(S) = 1
  BY <1>1, <1>2
<1> QED BY <1>3, FS_Singleton

\* Whoever has a certificate for the requested protocol is counted, and so has
\* exactly one if the dialog is okay.
LEMMA NobodyIsAmbiguous ==
  ASSUME NEW R, NEW I, Info(I, R),
         NEW req \in Protocols \cup {"auto"}, okay(I, req),
         NEW r \in R, has(I, r, sel_protocol(I, req))
  PROVE  \E c \in I[r][sel_protocol(I, req)] : I[r][sel_protocol(I, req)] = {c}
<1> DEFINE p == sel_protocol(I, req)
<1>1. p \in Protocols /\ (req = "auto" \/ p = req)
  BY DEF sel_protocol, Protocols
<1>2. r \in counted(I, req)
  <2>1. r \in DOMAIN I /\ r \notin missing_keys(I)
    BY <1>1 DEF Info, missing_keys
  <2> QED BY <1>1, <2>1 DEF counted
<1>3. ~ Cardinality(I[r][p]) > 1
  BY <1>2 DEF okay, ambiguous_keys
<1>4. IsFiniteSet(I[r][p])
  <2>1. I[r][p] \in SUBSET Certs
    BY <1>1 DEF Info
  <2> QED BY <2>1, CertsAssumption, FS_Subset
<1>5. I[r][p] # {}
  BY DEF has
<1> HIDE DEF p
<1>6. \E c \in I[r][p] : I[r][p] = {c}
  BY <1>3, <1>4, <1>5, OneCertificate
<1> QED BY <1>6 DEF p

\* If the dialog selects the protocol and is okay, every recipient has a
\* certificate for it: as many have one as are counted, and all are.
LEMMA EveryoneIsServed ==
  ASSUME NEW R, IsFiniteSet(R), NEW I, Info(I, R), okay(I, "auto"),
         NEW r \in R
  PROVE  has(I, r, sel_protocol(I, "auto"))
<1> DEFINE p == sel_protocol(I, "auto")
           C == counted(I, "auto")
           S == {q \in C : has(I, q, p)}
<1>1. missing_keys(I) = {} /\ Cardinality(S) = Cardinality(C)
  BY DEF okay, n_keys
<1>2. C = R
  BY <1>1 DEF counted, Info
<1>3. S \subseteq C /\ IsFiniteSet(C)
  BY <1>2
<1> HIDE DEF S, C, p
<1>4. S = C
  BY <1>1, <1>3, FS_Subset
<1>5. r \in S
  BY <1>2, <1>4
<1> QED BY <1>5 DEF S, p

-----------------------------------------------------------------------------
(* The invariant.                                                          *)

LEMMA InitDialogInv == DialogInit => DialogInv
<1> SUFFICES ASSUME DialogInit PROVE DialogInv
  OBVIOUS
<1>1. DialogTypeOK
  <2>1. info \in [rows -> [Protocols -> SUBSET (Certs \ Unusable)]]
    BY DEF DialogInit
  <2>2. {sensitive, usable, popup, fault} \subseteq BOOLEAN
    BY DEF DialogInit
  <2> QED BY <2>1, <2>2 DEF DialogInit, DialogTypeOK, Protocols
<1> QED BY <1>1 DEF DialogInit, DialogInv, InfoFits, HintFits, AnswerFits

\* The selected protocol is one of the two.
LEMMA SelectedType ==
  ASSUME NEW I, NEW req \in Protocols \cup {"auto"}
  PROVE  sel_protocol(I, req) \in Protocols
BY DEF sel_protocol, Protocols

\* okay is a truth value.
LEMMA OkayType ==
  ASSUME NEW I, NEW req
  PROVE  okay(I, req) \in BOOLEAN
BY DEF okay

LEMMA SetRecipientsStep ==
  ASSUME DialogInv, recipient_dlg_set_recipients
  PROVE  DialogInv'
<1>1. PICK protocol \in Protocols \cup {"auto"}, R \in SUBSET Mailboxes \ {{}} :
        /\ radio' = protocol /\ sensitive' = (protocol = "auto") /\ rows' = R
        /\ \E failed \in SUBSET (R \X Protocols) :
             info' = [r \in R |-> [p \in Protocols |-> parse_one_recipient(r, p, failed)]]
        /\ usable' = okay(info', protocol)
        /\ selected_protocol' = sel_protocol(info', protocol)
  BY DEF recipient_dlg_set_recipients, update_statushint
<1>0. PICK failed \in SUBSET (R \X Protocols) :
        info' = [r \in R |-> [p \in Protocols |-> parse_one_recipient(r, p, failed)]]
  BY <1>1
<1>2. \A r \in R, p \in Protocols :
        /\ parse_one_recipient(r, p, failed) \in SUBSET (Certs \ Unusable)
        /\ \A c \in parse_one_recipient(r, p, failed) : ProtocolOf(c) = p
  BY DEF parse_one_recipient, append_key_to_keyinfo, DialogInv, DialogTypeOK
<1>3. /\ info' \in [rows' -> [Protocols -> SUBSET (Certs \ Unusable)]]
      /\ InfoFits'
  BY <1>1, <1>0, <1>2 DEF InfoFits
<1>4. dialog' = "shown" /\ UNCHANGED <<found, freeze_key_selection, popup, keys, fault>>
  BY DEF recipient_dlg_set_recipients
<1>5. usable' \in BOOLEAN /\ selected_protocol' \in Protocols
  BY <1>1, SelectedType, OkayType
<1>6. DialogTypeOK'
  BY <1>1, <1>3, <1>4, <1>5 DEF DialogInv, DialogTypeOK
<1>7. HintFits'
  BY <1>1 DEF HintFits
<1>8. AnswerFits' /\ (popup => dialog = "shown")'
  BY <1>4 DEF AnswerFits
<1> QED BY <1>3, <1>6, <1>7, <1>8 DEF DialogInv

LEMMA ToggleStep ==
  ASSUME DialogInv, Toggle
  PROVE  DialogInv'
<1>1. PICK p \in Protocols \cup {"auto"} :
        radio' = p /\ usable' = okay(info, p) /\ selected_protocol' = sel_protocol(info, p)
  BY DEF Toggle, rbutton_toggled_cb, update_statushint
<1>2. /\ dialog = "shown"
      /\ UNCHANGED <<found, dialog, rows, info, sensitive, freeze_key_selection, popup, keys, fault>>
  BY DEF Toggle
<1>3. usable' \in BOOLEAN /\ selected_protocol' \in Protocols
  BY <1>1, SelectedType, OkayType
<1>4. DialogTypeOK'
  BY <1>1, <1>2, <1>3 DEF DialogInv, DialogTypeOK
<1>5. InfoFits'
  BY <1>2 DEF DialogInv, InfoFits
<1>6. HintFits'
  BY <1>1, <1>2 DEF HintFits
<1>7. AnswerFits' /\ (popup => dialog = "shown")'
  BY <1>2 DEF AnswerFits
<1> QED BY <1>4, <1>5, <1>6, <1>7 DEF DialogInv

\* The popup menu changes nothing the answer depends on.
LEMMA PopupStep ==
  ASSUME DialogInv, recplist_display_popup_menu \/ dismiss_popup \/ recplist_popup
  PROVE  DialogInv'
<1>1. /\ dialog = "shown"
      /\ UNCHANGED <<found, dialog, rows, info, radio, sensitive, usable, selected_protocol, keys>>
  BY DEF DialogInv, recplist_display_popup_menu, dismiss_popup, recplist_popup
<1>2. popup' \in BOOLEAN /\ fault' \in BOOLEAN /\ freeze_key_selection' \in 0 .. 1
  <2>1. fault \in BOOLEAN /\ freeze_key_selection \in 0 .. 1
    BY DEF DialogInv, DialogTypeOK
  <2>2. /\ popup' \in BOOLEAN
        /\ fault' = fault \/ fault' = TRUE
        /\ freeze_key_selection' = freeze_key_selection \/ freeze_key_selection' = 1
    BY DEF recplist_display_popup_menu, dismiss_popup, recplist_popup
  <2>3. popup' \in BOOLEAN /\ fault' \in BOOLEAN
    BY <2>1, <2>2, Zenon
  <2>4. freeze_key_selection' \in 0 .. 1
    BY <2>1, <2>2, SMT
  <2> QED BY <2>3, <2>4
<1>3. DialogTypeOK'
  BY <1>1, <1>2 DEF DialogInv, DialogTypeOK
<1>4. InfoFits'
  BY <1>1 DEF DialogInv, InfoFits
<1>5. HintFits'
  <2>1. usable' = okay(info, radio) /\ selected_protocol' = sel_protocol(info, radio)
    BY <1>1 DEF DialogInv, HintFits
  <2> QED BY <1>1, <2>1 DEF HintFits
<1>6. AnswerFits' /\ (popup => dialog = "shown")'
  BY <1>1 DEF AnswerFits
<1> QED BY <1>3, <1>4, <1>5, <1>6 DEF DialogInv

\* The keys of an answer are certificates of the rows.
LEMMA KeysType ==
  ASSUME DialogTypeOK, NEW p \in Protocols
  PROVE  get_keys(p) \in SUBSET Certs
<1>1. ASSUME NEW r \in rows, has(info, r, p)
      PROVE  (CHOOSE c \in info[r][p] : TRUE) \in Certs
  <2>1. info[r][p] \in SUBSET Certs
    BY DEF DialogTypeOK
  <2> QED BY <1>1, <2>1 DEF has
<1> QED BY <1>1 DEF get_keys

LEMMA RespondStep ==
  ASSUME DialogInv, Respond
  PROVE  DialogInv'
<1>1. /\ dialog = "shown" /\ ~popup
      /\ UNCHANGED <<found, rows, info, radio, sensitive, usable, selected_protocol,
                     freeze_key_selection, popup, fault>>
  BY DEF Respond
<1>2. \/ usable /\ dialog' = "ok" /\ keys' = get_keys(selected_protocol)
      \/ dialog' = "cancel" /\ keys' = keys
  BY DEF Respond
<1>3. keys' \in SUBSET Certs
  BY <1>2, KeysType DEF DialogInv, DialogTypeOK
<1>4. DialogTypeOK'
  BY <1>1, <1>2, <1>3 DEF DialogInv, DialogTypeOK
<1>5. InfoFits'
  BY <1>1 DEF DialogInv, InfoFits
<1>6. HintFits'
  <2>1. usable' = okay(info, radio) /\ selected_protocol' = sel_protocol(info, radio)
    BY <1>1 DEF DialogInv, HintFits
  <2> QED BY <1>1, <2>1 DEF HintFits
<1>7. AnswerFits'
  BY <1>1, <1>2 DEF AnswerFits, get_keys
<1> QED BY <1>1, <1>4, <1>5, <1>6, <1>7 DEF DialogInv

LEMMA NextDialogInv == DialogInv /\ [DialogNext]_dialog_vars => DialogInv'
<1> SUFFICES ASSUME DialogInv, [DialogNext]_dialog_vars PROVE DialogInv'
  OBVIOUS
<1>1. CASE recipient_dlg_set_recipients
  BY <1>1, SetRecipientsStep
<1>2. CASE Toggle
  BY <1>2, ToggleStep
<1>3. CASE recplist_display_popup_menu \/ dismiss_popup \/ recplist_popup
  BY <1>3, PopupStep
<1>4. CASE Respond
  BY <1>4, RespondStep
<1>5. CASE UNCHANGED dialog_vars
  <2>1. DialogTypeOK'
    BY <1>5 DEF DialogInv, DialogTypeOK, dialog_vars, state
  <2>2. InfoFits' /\ AnswerFits' /\ (popup => dialog = "shown")'
    BY <1>5 DEF DialogInv, InfoFits, AnswerFits, get_keys, dialog_vars, state
  <2>3. HintFits'
    <3>1. dialog # "new" => usable' = okay(info, radio) /\ selected_protocol' = sel_protocol(info, radio)
      BY <1>5 DEF DialogInv, HintFits, dialog_vars, state
    <3>2. info' = info /\ radio' = radio /\ dialog' = dialog
      BY <1>5 DEF dialog_vars, state
    <3> QED BY <3>1, <3>2 DEF HintFits
  <2> QED BY <2>1, <2>2, <2>3 DEF DialogInv
<1> QED BY <1>1, <1>2, <1>3, <1>4, <1>5 DEF DialogNext

\* The invariant holds of every behaviour of the dialog.
THEOREM DialogInductive == DialogSpec => []DialogInv
<1> QED BY InitDialogInv, NextDialogInv, PTL DEF DialogSpec

-----------------------------------------------------------------------------
\* What DialogInv says about an answer.
LEMMA AnswerIsOkay ==
  ASSUME DialogInv, dialog = "ok"
  PROVE  /\ Info(info, rows)
         /\ radio \in Protocols \cup {"auto"}
         /\ okay(info, radio)
         /\ selected_protocol = sel_protocol(info, radio)
         /\ keys = get_keys(selected_protocol)
<1>1. Info(info, rows)
  BY DEF DialogInv, DialogTypeOK, Info
<1> QED BY <1>1 DEF DialogInv, DialogTypeOK, HintFits, AnswerFits

\* The key taken for a recipient who has one is the only candidate.
LEMMA OnlyCandidate ==
  ASSUME DialogInv, dialog = "ok", NEW r \in rows, has(info, r, selected_protocol)
  PROVE  info[r][selected_protocol] = {CHOOSE c \in info[r][selected_protocol] : TRUE}
<1>1. PICK c \in info[r][selected_protocol] : info[r][selected_protocol] = {c}
  BY AnswerIsOkay, NobodyIsAmbiguous
<1>2. (CHOOSE d \in info[r][selected_protocol] : TRUE) \in info[r][selected_protocol]
  BY <1>1
<1> QED BY <1>1, <1>2

\* Whichever buttons were toggled, the answer holds usable certificates of the
\* protocol asked for, each the only candidate of a recipient (recipientdlg.c,
\* update_statushint and recipient_dlg_get_keys).
THEOREM NothingIsGuessed == DialogSpec => []KeysAreUnambiguous
<1>1. DialogInv => KeysAreUnambiguous
  <2> SUFFICES ASSUME DialogInv, dialog = "ok"
               PROVE  /\ radio \in {"auto", selected_protocol}
                      /\ \A c \in keys :
                           /\ c \notin Unusable
                           /\ ProtocolOf(c) = selected_protocol
                           /\ \E r \in rows : info[r][selected_protocol] = {c}
    BY DEF DialogInv, KeysAreUnambiguous
  <2>1. radio \in {"auto", selected_protocol}
    BY AnswerIsOkay DEF sel_protocol
  <2>2. ASSUME NEW c \in keys
        PROVE  /\ c \notin Unusable
               /\ ProtocolOf(c) = selected_protocol
               /\ \E r \in rows : info[r][selected_protocol] = {c}
    <3>1. PICK r \in rows : /\ has(info, r, selected_protocol)
                            /\ c = CHOOSE d \in info[r][selected_protocol] : TRUE
      BY <2>2, AnswerIsOkay DEF get_keys
    <3>2. info[r][selected_protocol] = {c}
      BY <3>1, OnlyCandidate
    <3>3. selected_protocol \in Protocols
      BY DEF DialogInv, DialogTypeOK
    <3>4. info[r][selected_protocol] \in SUBSET (Certs \ Unusable)
      BY <3>3 DEF DialogInv, DialogTypeOK
    <3>5. ProtocolOf(c) = selected_protocol
      BY <3>2, <3>3 DEF DialogInv, InfoFits
    <3> QED BY <3>2, <3>4, <3>5
  <2> QED BY <2>1, <2>2
<1> QED BY <1>1, DialogInductive, PTL

\* With automatic selection the message is encrypted to one certificate of every
\* recipient.
THEOREM EverybodyIsServed == DialogSpec => []AutoSelectionServesEveryone
<1>1. DialogInv => AutoSelectionServesEveryone
  <2> SUFFICES ASSUME DialogInv, dialog = "ok", radio = "auto", NEW r \in rows
               PROVE  \E c \in keys : info[r][selected_protocol] = {c}
    BY DEF AutoSelectionServesEveryone
  <2>1. IsFiniteSet(rows)
    BY CertsAssumption, FS_Subset DEF DialogInv, DialogTypeOK
  <2>2. has(info, r, selected_protocol)
    BY <2>1, AnswerIsOkay, EveryoneIsServed
  <2>3. info[r][selected_protocol] = {CHOOSE c \in info[r][selected_protocol] : TRUE}
    BY <2>2, OnlyCandidate
  <2>4. (CHOOSE c \in info[r][selected_protocol] : TRUE) \in keys
    BY <2>2, AnswerIsOkay DEF get_keys
  <2> QED BY <2>3, <2>4
<1> QED BY <1>1, DialogInductive, PTL

-----------------------------------------------------------------------------
(* Sequences of sequences joined.                                          *)

\* A set of numbers that is not empty has a least one.
LEMMA LeastNumber ==
  ASSUME NEW T \in SUBSET Nat, T # {}
  PROVE  \E n \in T : \A m \in T : n <= m
<1> DEFINE Below == {1 .. n : n \in T}
<1>1. IsWellFoundedOn(StrictSubsetOrdering(Nat), FiniteSubsetsOf(Nat))
  BY FS_StrictSubsetOrderingWellFounded
<1>2. \A n \in T : IsFiniteSet(1 .. n) /\ 1 .. n \in SUBSET Nat
  BY FS_Interval
<1>3. Below \subseteq FiniteSubsetsOf(Nat) /\ Below # {}
  BY <1>2 DEF FiniteSubsetsOf
<1>4. \E x \in Below : \A y \in Below : ~ (<<y, x>> \in StrictSubsetOrdering(Nat))
  <2> HIDE DEF Below
  <2> QED BY <1>1, <1>3, WFMin
<1>5. PICK n \in T : \A m \in T : ~ (<<1 .. m, 1 .. n>> \in StrictSubsetOrdering(Nat))
  BY <1>4
<1>6. ASSUME NEW m \in T, ~ n <= m
      PROVE  FALSE
  <2>1. 1 .. m \in SUBSET Nat /\ 1 .. n \in SUBSET Nat
    BY <1>2
  <2>2. 1 .. m \subseteq 1 .. n
    BY <1>6
  <2>3. n \in 1 .. n /\ n \notin 1 .. m
    BY <1>6
  <2>4. <<1 .. m, 1 .. n>> \in (SUBSET Nat) \X (SUBSET Nat)
    BY <2>1
  <2>5. 1 .. m # 1 .. n
    BY <2>3
  <2>6. <<1 .. m, 1 .. n>> \in StrictSubsetOrdering(Nat)
    BY <2>4, <2>2, <2>5 DEF StrictSubsetOrdering
  <2> QED BY <2>6, <1>5
<1> QED
  BY <1>6, <1>5

\* The function that FlattenSeq defines: f[i] joins the first i sequences of s.
Joins(s, n, f) ==
  f = [i \in 1 .. n |-> IF i = 1 THEN s[i] ELSE f[i - 1] \o s[i]]

\* There is such a function, for any number of sequences.
LEMMA JoinsExists ==
  ASSUME NEW s, NEW n \in Nat
  PROVE  \E f : Joins(s, n, f)
<1> DEFINE Bad == {m \in Nat : ~ \E f : Joins(s, m, f)}
<1> SUFFICES ASSUME Bad # {}
             PROVE  FALSE
  OBVIOUS
<1>1. PICK m \in Bad : \A k \in Bad : m <= k
  BY LeastNumber
<1>2. m # 0
  <2>1. 1 .. 0 = {}
    OBVIOUS
  <2>2. Joins(s, 0, [i \in {} |-> <<>>])
    BY <2>1 DEF Joins
  <2> QED BY <2>2
<1>3. m - 1 \in Nat /\ m - 1 \notin Bad
  BY <1>1, <1>2
<1>4. PICK g : Joins(s, m - 1, g)
  BY <1>3
<1> DEFINE f == [i \in 1 .. m |-> IF i = 1 THEN s[i] ELSE IF i = m THEN g[m - 1] \o s[m] ELSE g[i]]
<1>5. \A i \in 1 .. (m - 1) : f[i] = g[i]
  <2> TAKE i \in 1 .. (m - 1)
  <2>1. g[i] = IF i = 1 THEN s[i] ELSE g[i - 1] \o s[i]
    BY <1>4 DEF Joins
  <2>2. i \in 1 .. m /\ i # m
    BY <1>3
  <2> QED BY <2>1, <2>2
<1>6. \A i \in 1 .. m : f[i] = IF i = 1 THEN s[i] ELSE f[i - 1] \o s[i]
  <2> TAKE i \in 1 .. m
  <2>1. CASE i = 1
    BY <2>1
  <2>2. CASE i # 1 /\ i = m
    <3>1. f[i] = g[m - 1] \o s[m]
      BY <2>2
    <3>2. m - 1 \in 1 .. (m - 1)
      BY <2>2
    <3>3. f[i - 1] = g[m - 1]
      <4> HIDE DEF f
      <4> QED BY <3>2, <1>5, <2>2
    <3> HIDE DEF f
    <3> QED BY <3>1, <3>3, <2>2
  <2>3. CASE i # 1 /\ i # m
    <3>1. i \in 1 .. (m - 1) /\ i - 1 \in 1 .. (m - 1)
      BY <2>3
    <3>2. g[i] = g[i - 1] \o s[i]
      BY <3>1, <2>3, <1>4 DEF Joins
    <3>3. f[i] = g[i] /\ f[i - 1] = g[i - 1]
      <4> HIDE DEF f
      <4> QED BY <3>1, <1>5
    <3> HIDE DEF f
    <3> QED BY <3>2, <3>3, <2>3
  <2> QED BY <2>1, <2>2, <2>3
<1>7. Joins(s, m, f)
  <2>1. f = [i \in 1 .. m |-> f[i]]
    OBVIOUS
  <2> HIDE DEF f
  <2>2. [i \in 1 .. m |-> f[i]] = [i \in 1 .. m |-> IF i = 1 THEN s[i] ELSE f[i - 1] \o s[i]]
    BY <1>6
  <2> QED BY <2>1, <2>2 DEF Joins
<1> QED
  BY <1>7

\* FlattenSeq is the last value of that function.
LEMMA FlattenJoins ==
  ASSUME NEW S, NEW s \in Seq(S), s # <<>>
  PROVE  \E f : /\ \A i \in 1 .. Len(s) : f[i] = IF i = 1 THEN s[i] ELSE f[i - 1] \o s[i]
                /\ FlattenSeq(s) = f[Len(s)]
<1> DEFINE g == CHOOSE f : f = [i \in 1 .. Len(s) |-> IF i = 1 THEN s[i] ELSE f[i - 1] \o s[i]]
<1>1. Len(s) \in Nat /\ Len(s) # 0
  OBVIOUS
<1>2. \E f : f = [i \in 1 .. Len(s) |-> IF i = 1 THEN s[i] ELSE f[i - 1] \o s[i]]
  BY <1>1, JoinsExists DEF Joins
<1>3. g = [i \in 1 .. Len(s) |-> IF i = 1 THEN s[i] ELSE g[i - 1] \o s[i]]
  BY <1>2
<1>4. FlattenSeq(s) = g[Len(s)]
  BY <1>1 DEF FlattenSeq
<1> HIDE DEF g
<1>5. \A i \in 1 .. Len(s) : g[i] = IF i = 1 THEN s[i] ELSE g[i - 1] \o s[i]
  BY <1>3
<1> QED BY <1>5, <1>4

\* joined sequence's type
LEMMA FlattenType ==
  ASSUME NEW S, NEW s \in Seq(Seq(S)), s # <<>>, s[1] # <<>>
  PROVE  FlattenSeq(s) \in Seq(S) \ {<<>>}
<1>1. PICK f : /\ \A i \in 1 .. Len(s) : f[i] = IF i = 1 THEN s[i] ELSE f[i - 1] \o s[i]
               /\ FlattenSeq(s) = f[Len(s)]
  BY FlattenJoins
<1> DEFINE Bad == {i \in 1 .. Len(s) : f[i] \notin Seq(S) \ {<<>>}}
<1>2. ASSUME Bad # {}
      PROVE  FALSE
  <2>1. Bad \in SUBSET Nat
    OBVIOUS
  <2>2. PICK i \in Bad : \A j \in Bad : i <= j
    <3> HIDE DEF Bad
    <3> QED BY <2>1, <1>2, LeastNumber
  <2>3. i \in 1 .. Len(s) /\ s[i] \in Seq(S)
    OBVIOUS
  <2>4. i # 1
    BY <1>1, <2>3
  <2>5. i - 1 \in 1 .. Len(s) /\ i - 1 \notin Bad
    BY <2>3, <2>4, <2>2
  <2>6. f[i - 1] \in Seq(S) /\ f[i - 1] # <<>>
    BY <2>5
  <2>7. f[i] = f[i - 1] \o s[i]
    BY <1>1, <2>3, <2>4
  <2>8. f[i] \in Seq(S) /\ f[i] # <<>>
    <3>1. f[i - 1] \o s[i] \in Seq(S)
      BY <2>3, <2>6, ConcatProperties
    <3>2. f[i - 1] \o s[i] # <<>>
      BY <2>3, <2>6, ConcatEqualIffEmpty
    <3> QED BY <3>1, <3>2, <2>7
  <2> QED BY <2>8
<1>3. Len(s) \in 1 .. Len(s)
  OBVIOUS
<1> QED BY <1>1, <1>2, <1>3

\* The first elements of sequences.
LEMMA FirstsType ==
  ASSUME NEW S, NEW m \in Nat, NEW s, \A i \in 1 .. m : s[i][1] \in S
  PROVE  [i \in 1 .. m |-> s[i][1]] \in Seq(S) /\ Len([i \in 1 .. m |-> s[i][1]]) = m
  OBVIOUS

\* Sequences of one element each are joined to the sequence of their elements.
LEMMA FlattenSingles ==
  ASSUME NEW S, NEW s \in Seq(Seq(S)), s # <<>>, \A i \in 1 .. Len(s) : Len(s[i]) = 1
  PROVE  FlattenSeq(s) = [i \in 1 .. Len(s) |-> s[i][1]]
<1>1. PICK f : /\ \A i \in 1 .. Len(s) : f[i] = IF i = 1 THEN s[i] ELSE f[i - 1] \o s[i]
               /\ FlattenSeq(s) = f[Len(s)]
  BY FlattenJoins
<1> DEFINE firsts(n) == [i \in 1 .. n |-> s[i][1]]
<1> DEFINE Bad == {n \in 1 .. Len(s) : f[n] # firsts(n)}
<1>a. \A n \in 1 .. Len(s) : s[n] \in Seq(S) /\ s[n] = <<s[n][1]>> /\ s[n][1] \in S
  <2> TAKE n \in 1 .. Len(s)
  <2>1. s[n] \in Seq(S) /\ Len(s[n]) = 1
    OBVIOUS
  <2>2. s[n][1] \in S
    BY <2>1
  <2> QED BY <2>1, <2>2
<1>2. ASSUME Bad # {}
      PROVE  FALSE
  <2>1. Bad \in SUBSET Nat
    OBVIOUS
  <2>2. PICK n \in Bad : \A j \in Bad : n <= j
    <3> HIDE DEF Bad
    <3> QED BY <2>1, <1>2, LeastNumber
  <2>3. n \in 1 .. Len(s) /\ f[n] # firsts(n)
    OBVIOUS
  <2>4. n # 1
    <3>1. firsts(1) = <<s[1][1]>>
      OBVIOUS
    <3> HIDE DEF firsts
    <3> QED BY <1>1, <1>a, <2>3, <3>1
  <2>5. n - 1 \in 1 .. Len(s) /\ n - 1 \notin Bad
    BY <2>3, <2>4, <2>2
  <2>6. f[n - 1] = firsts(n - 1)
    BY <2>5
  <2>7. f[n] = firsts(n - 1) \o <<s[n][1]>>
    <3> HIDE DEF firsts
    <3> QED BY <1>1, <1>a, <2>3, <2>4, <2>6
  <2>8. firsts(n - 1) \in Seq(S) /\ Len(firsts(n - 1)) = n - 1
    <3> HIDE DEF firsts, Bad
    <3>1. n - 1 \in Nat /\ \A i \in 1 .. (n - 1) : i \in 1 .. Len(s)
      BY <2>3, <2>5
    <3>2. PICK m \in Nat : m = n - 1
      BY <3>1
    <3>3. \A i \in 1 .. m : s[i][1] \in S
      BY <1>a, <3>1, <3>2
    <3>4. [i \in 1 .. m |-> s[i][1]] \in Seq(S) /\ Len([i \in 1 .. m |-> s[i][1]]) = m
      BY <3>3, FirstsType
    <3>5. firsts(m) \in Seq(S) /\ Len(firsts(m)) = m
      BY <3>4 DEF firsts
    <3> QED BY <3>5, <3>2
  <2>9. firsts(n - 1) \o <<s[n][1]>> = firsts(n)
    <3>1. firsts(n) \in Seq(S) /\ Len(firsts(n)) = n
      BY <1>a, <2>3
    <3>2. <<s[n][1]>> \in Seq(S)
      BY <1>a, <2>3
    <3>3. \A i \in 1 .. n : (firsts(n - 1) \o <<s[n][1]>>)[i] = firsts(n)[i]
      BY <2>8, <3>2, <2>3, <2>5
    <3>4. firsts(n - 1) \o <<s[n][1]>> \in Seq(S) /\ Len(firsts(n - 1) \o <<s[n][1]>>) = n
      <4> HIDE DEF firsts
      <4> QED BY <2>8, <3>2, <2>3
    <3> HIDE DEF firsts
    <3> QED BY <3>1, <3>3, <3>4, SeqEqual
  <2> HIDE DEF firsts
  <2> QED BY <2>3, <2>7, <2>9
<1>3. Len(s) \in 1 .. Len(s)
  OBVIOUS
<1> QED BY <1>1, <1>2, <1>3

-----------------------------------------------------------------------------
(* The widgets of the options of GnuPG: types.                             *)

Conf == [Options -> Value]

\* A sequence of one element.
LEMMA OneElement ==
  ASSUME NEW S, NEW a \in S
  PROVE  /\ <<a>> \in Seq(S)
         /\ <<a>> # <<>>
         /\ Len(<<a>>) = 1
         /\ <<a>>[1] = a
  OBVIOUS

\* A sequence that is not empty and no longer than one.
LEMMA AtMostOne ==
  ASSUME NEW S, NEW v \in Seq(S), Len(v) <= 1, v # <<>>
  PROVE  /\ Len(v) = 1
         /\ DOMAIN v = 1 .. 1
         /\ v[1] \in S
         /\ v = <<v[1]>>
<1>a. Len(v) \in Nat /\ DOMAIN v = 1 .. Len(v) /\ Len(v) # 0
  OBVIOUS
<1>1. Len(v) = 1 /\ DOMAIN v = 1 .. 1 /\ v[1] \in S
  BY <1>a
<1>2. v = [i \in 1 .. 1 |-> v[i]]
  BY <1>1
<1> QED BY <1>1, <1>2

\* A single sequence joined is that sequence.
LEMMA FlattenOne ==
  ASSUME NEW S, NEW t \in Seq(S)
  PROVE  FlattenSeq(<<t>>) = t
<1> DEFINE s == <<t>>
<1>1. s \in Seq(Seq(S)) /\ s # <<>> /\ Len(s) = 1 /\ s[1] = t
  BY OneElement
<1>2. PICK f : /\ \A i \in 1 .. Len(s) : f[i] = IF i = 1 THEN s[i] ELSE f[i - 1] \o s[i]
               /\ FlattenSeq(s) = f[Len(s)]
  <2> HIDE DEF s
  <2> QED BY <1>1, FlattenJoins
<1> HIDE DEF s
<1>3. FlattenSeq(s) = t
  BY <1>1, <1>2
<1> QED BY <1>3 DEF s

\* The words that the program itself writes.
LEMMA KnownTexts ==
  /\ EmptyWord \in Words /\ NoServer \in Words
  /\ <<EmptyWord>> \in Text /\ <<EmptyWord>> # NoText
  /\ FirstCount \in Text /\ FirstCount # NoText
  /\ NoText \in Text
  /\ NoValue \in Value
  /\ <<NoText>> \in Value
<1>1. EmptyWord \in Words /\ NoServer \in Words /\ "1" \in Words
  BY WordsAssumption
<1>2. <<EmptyWord>> \in Text /\ <<EmptyWord>> # NoText
  BY <1>1, OneElement DEF Text, NoText
<1>3. FirstCount \in Text /\ FirstCount # NoText
  <2> DEFINE one == "1"
  <2>1. one \in Words /\ FirstCount = <<one>>
    BY <1>1, Zenon DEF FirstCount
  <2> HIDE DEF one
  <2> QED BY <2>1, OneElement DEF Text, NoText
<1>4. NoText \in Text
  BY DEF Text, NoText
<1>5. NoValue \in Value
  BY DEF Value, NoValue
<1>6. <<NoText>> \in Value
  BY <1>4, OneElement DEF Value
<1> QED BY <1>1, <1>2, <1>3, <1>4, <1>5, <1>6

\* What a value looks like in an entry.
LEMMA ArgToStrType ==
  ASSUME NEW v \in Value, v # <<>>
  PROVE  arg_to_str(v) \in Text \ {NoText}
<1> DEFINE shown == [i \in DOMAIN v |-> IF v[i] = <<>> THEN <<EmptyWord>> ELSE v[i]]
<1>1. Len(v) \in Nat \ {0} /\ DOMAIN v = 1 .. Len(v) /\ \A i \in 1 .. Len(v) : v[i] \in Seq(Words)
  BY DEF Value, Text
<1>2. <<EmptyWord>> \in Seq(Words) /\ <<EmptyWord>> # <<>>
  BY WordsAssumption
<1>3. shown \in Seq(Seq(Words)) /\ Len(shown) = Len(v)
  BY <1>1, <1>2
<1>4. shown # <<>> /\ shown[1] # <<>>
  BY <1>1, <1>2, <1>3
<1>5. FlattenSeq(shown) \in Seq(Words) \ {<<>>}
  <2> HIDE DEF shown
  <2> QED BY <1>3, <1>4, FlattenType
<1> QED BY <1>5 DEF arg_to_str, Text, NoText

\* One argument is shown as it is, and none as an empty word.
LEMMA ArgToStrOfOne ==
  ASSUME NEW v \in Value, Len(v) = 1
  PROVE  arg_to_str(v) = IF v[1] = <<>> THEN <<EmptyWord>> ELSE v[1]
<1>1. DOMAIN v = 1 .. 1 /\ v[1] \in Seq(Words) /\ <<EmptyWord>> \in Seq(Words)
  BY WordsAssumption DEF Value, Text
<1> DEFINE t == IF v[1] = <<>> THEN <<EmptyWord>> ELSE v[1]
<1>2. [i \in DOMAIN v |-> IF v[i] = <<>> THEN <<EmptyWord>> ELSE v[i]] = <<t>>
  BY <1>1
<1>3. t \in Seq(Words)
  BY <1>1
<1>4. FlattenSeq(<<t>>) = t
  <2> HIDE DEF t
  <2> QED BY <1>3, FlattenOne
<1> QED BY <1>2, <1>4 DEF arg_to_str, NoText

\* The fields of a text.
LEMMA FieldsType ==
  ASSUME NEW t \in Text, t # NoText
  PROVE  /\ Fields(t) \in Text \ {NoText}
         /\ DOMAIN Fields(t) = 1 .. Len(Fields(t))
         /\ Len(Fields(t)) \in Nat \ {0}
         /\ \A i \in 1 .. Len(Fields(t)) : Fields(t)[i] \in Words
<1>1. Len(t) \in Nat \ {0}
  BY DEF Text, NoText
<1>2. Fields(t) \in Seq(Words) /\ Fields(t) # <<>>
  <2>1. CASE Len(t) > 1 /\ Last(t) = EmptyWord
    <3>1. Fields(t) = SubSeq(t, 1, Len(t) - 1)
      BY <2>1 DEF Fields, Front
    <3>2. Len(t) - 1 \in Nat /\ \A i \in 1 .. (Len(t) - 1) : t[i] \in Words
      BY <1>1, <2>1 DEF Text
    <3>3. SubSeq(t, 1, Len(t) - 1) \in Seq(Words) /\ Len(SubSeq(t, 1, Len(t) - 1)) = Len(t) - 1
      BY <3>2, <1>1, <2>1, SubSeqProperties
    <3> DEFINE front == SubSeq(t, 1, Len(t) - 1)
    <3>4. front \in Seq(Words) /\ Len(front) # 0
      BY <3>3, <1>1, <2>1
    <3> HIDE DEF front
    <3>5. front # <<>>
      BY <3>4
    <3> QED BY <3>1, <3>4, <3>5 DEF front
  <2>2. CASE ~ (Len(t) > 1 /\ Last(t) = EmptyWord)
    BY <2>2 DEF Fields, Text, NoText
  <2> QED BY <2>1, <2>2
<1> QED BY <1>2 DEF Text, NoText

\* Every word of a text is one argument.
LEMMA ArgsOfType ==
  ASSUME NEW o, NEW t \in Text, t # NoText
  PROVE  /\ ArgsOf(o, t) \in Value
         /\ Len(ArgsOf(o, t)) = Len(Fields(t))
         /\ ArgsOf(o, t) # NoValue
         /\ DOMAIN ArgsOf(o, t) = 1 .. Len(Fields(t))
<1> DEFINE f == Fields(t)
<1>1. DOMAIN f = 1 .. Len(f) /\ Len(f) \in Nat \ {0} /\ \A i \in 1 .. Len(f) : f[i] \in Words
  BY FieldsType
<1>2. ArgsOf(o, t) = [i \in 1 .. Len(f) |-> IF f[i] = EmptyWord /\ Option[o].optional THEN <<>> ELSE <<f[i]>>]
  BY <1>1 DEF ArgsOf, NoText
<1> HIDE DEF f
<1>3. \A i \in 1 .. Len(f) : (IF f[i] = EmptyWord /\ Option[o].optional THEN <<>> ELSE <<f[i]>>) \in Seq(Words)
  BY <1>1
<1>4. ArgsOf(o, t) \in Seq(Seq(Words)) /\ Len(ArgsOf(o, t)) = Len(f)
  BY <1>1, <1>2, <1>3
<1> QED BY <1>1, <1>2, <1>4 DEF f, Value, Text, NoValue

\* The widgets of an option of its type.
WidgetFits(o, w) ==
  IF toggle(o) THEN w.combo \in {"on", "off"} /\ w.saved = NoText
  ELSE w.combo \in {"default", "custom", "no arg"} /\ (w.text = NoText <=> w.combo # "custom")

\* An entry is a widget as its type wants it, whatever was saved or loaded.
LEMMA EntryFits ==
  ASSUME NEW o \in Options, ~toggle(o), NEW combo \in {"default", "custom", "no arg"},
         NEW saved \in Text, NEW v \in Value
  PROVE  Entry(o, combo, saved, v) \in Widget /\ WidgetFits(o, Entry(o, combo, saved, v))
<1>1. Option[o].default \in Value
  BY OptionAssumption
<1>2. <<EmptyWord>> \in Text /\ NoText \in Text /\ <<EmptyWord>> # NoText
  BY KnownTexts
<1>3. combo = "custom" => EntryText(o, combo, saved, v) \in Text \ {NoText}
  BY <1>1, <1>2, ArgToStrType DEF EntryText, NoValue
<1>4. combo # "custom" => EntryText(o, combo, saved, v) = NoText
  BY DEF EntryText
<1>5. EntryText(o, combo, saved, v) \in Text
  BY <1>2, <1>3, <1>4
<1>6. Entry(o, combo, saved, v) = [combo |-> combo, saved |-> saved, text |-> EntryText(o, combo, saved, v)]
  BY DEF Entry
<1> HIDE DEF Widget
<1> DEFINE text == EntryText(o, combo, saved, v)
<1> HIDE DEF text
<1>7. [combo |-> combo, saved |-> saved, text |-> text] \in Widget
  BY <1>5 DEF Widget, text
<1>8. WidgetFits(o, [combo |-> combo, saved |-> saved, text |-> text])
  <2> DEFINE w == [combo |-> combo, saved |-> saved, text |-> text]
  <2>1. w.combo = combo /\ w.text = text
    OBVIOUS
  <2>2. text = NoText <=> combo # "custom"
    BY <1>3, <1>4 DEF text
  <2> HIDE DEF w
  <2>3. WidgetFits(o, w)
    BY <2>1, <2>2 DEF WidgetFits
  <2> QED BY <2>3 DEF w
<1> QED BY <1>6, <1>7, <1>8 DEF text

\* So is any new widget.
LEMMA OptionWidgetFits ==
  ASSUME NEW o \in Options, NEW v \in Value
  PROVE  option_widget(o, v) \in Widget /\ WidgetFits(o, option_widget(o, v))
<1>1. FirstCount \in Text /\ NoText \in Text
  BY KnownTexts
<1>2. CASE ~toggle(o)
  <2>1. InitialCombo(v) \in {"default", "custom", "no arg"}
    BY DEF InitialCombo
  <2>2. option_widget(o, v) = Entry(o, InitialCombo(v), NoText, v)
    BY <1>2 DEF option_widget
  <2> QED BY <1>1, <1>2, <2>1, <2>2, EntryFits
<1>3. CASE toggle(o)
  <2> DEFINE text == IF v = NoValue THEN FirstCount ELSE v[1]
  <2>1. option_widget(o, v) = [combo |-> CheckState(v), text |-> text, saved |-> NoText]
    BY <1>3 DEF option_widget
  <2>2. text \in Text
    BY <1>1 DEF Value, NoValue
  <2>3. CheckState(v) \in {"on", "off"}
    BY DEF CheckState
  <2> HIDE DEF text
  <2> DEFINE w == [combo |-> CheckState(v), text |-> text, saved |-> NoText]
  <2>4. w \in Widget
    BY <1>1, <2>2, <2>3 DEF Widget
  <2>5. w.combo \in {"on", "off"} /\ w.saved = NoText
    BY <2>3
  <2> HIDE DEF w
  <2> QED BY <1>3, <2>1, <2>4, <2>5 DEF WidgetFits, w
<1> QED BY <1>2, <1>3

\* What a widget is read as.
LEMMA ReadType ==
  ASSUME NEW o \in Options, NEW w \in Widget, WidgetFits(o, w)
  PROVE  option_widget_to_arg(o, w) \in Value
<1>1. w.text \in Text /\ NoValue \in Value /\ <<NoText>> \in Value
  BY KnownTexts DEF Widget
<1>2. CASE w.combo = "custom"
  <2>1. w.text # NoText
    BY <1>2 DEF WidgetFits
  <2>2. option_widget_to_arg(o, w) = ArgsOf(o, w.text)
    BY <1>2 DEF option_widget_to_arg
  <2> QED BY <1>1, <2>1, <2>2, ArgsOfType
<1>3. CASE w.combo = "on"
  <2>1. <<w.text>> \in Value
    BY <1>1, OneElement DEF Value
  <2> QED BY <1>3, <2>1 DEF option_widget_to_arg
<1>4. CASE w.combo = "no arg"
  BY <1>1, <1>4 DEF option_widget_to_arg, NoText
<1>5. CASE w.combo \in {"off", "default"}
  BY <1>1, <1>5 DEF option_widget_to_arg
<1> QED BY <1>2, <1>3, <1>4, <1>5 DEF WidgetFits

-----------------------------------------------------------------------------
(* What a widget shows is what it is read as.                              *)

\* A value is shown truly when its widget is read back as it, or as what gpgconf
\* refuses; it is kept when it is shown truly or cannot be stored.
Read(o, value) == option_widget_to_arg(o, option_widget(o, value))
Refused(o, value) == ~Option[o].list /\ Len(value) > 1
Shown(o, value) == Read(o, value) = value \/ Refused(o, Read(o, value))
Kept(o, value) == Shown(o, value) \/ Refused(o, value)
TextKept(o, text) == Kept(o, ArgsOf(o, text))

\* A check button and a spin button show no value or one.
LEMMA ToggleShown ==
  ASSUME NEW o \in Options, NEW v \in Value, toggle(o), Len(v) <= 1
  PROVE  Shown(o, v)
<1> DEFINE text == IF v = NoValue THEN FirstCount ELSE v[1]
<1> DEFINE w == [combo |-> CheckState(v), text |-> text, saved |-> NoText]
<1>1. option_widget(o, v) = w
  BY DEF option_widget
<1>2. w.combo = CheckState(v) /\ w.text = text
  OBVIOUS
<1> HIDE DEF w
<1>3. CASE v = NoValue
  BY <1>1, <1>2, <1>3 DEF Shown, Read, option_widget_to_arg, CheckState
<1>4. CASE v # NoValue
  <2>1. Read(o, v) = <<v[1]>>
    BY <1>1, <1>2, <1>4 DEF Read, option_widget_to_arg, CheckState
  <2>2. v = <<v[1]>>
    BY <1>4, AtMostOne DEF Value, NoValue
  <2> QED BY <2>1, <2>2 DEF Shown
<1> QED BY <1>3, <1>4

\* How an entry shows a value: no value by "default", an option without
\* argument by "no arg", all others by their text.
LEMMA EntryRead ==
  ASSUME NEW o \in Options, NEW v \in Value, ~toggle(o)
  PROVE  /\ v = NoValue => Read(o, v) = v
         /\ v = <<NoText>> => Read(o, v) = v
         /\ v # NoValue /\ v # <<NoText>> => Read(o, v) = ArgsOf(o, arg_to_str(v))
<1> DEFINE w == [combo |-> InitialCombo(v), saved |-> NoText, text |-> EntryText(o, InitialCombo(v), NoText, v)]
<1>1. option_widget(o, v) = w
  BY DEF option_widget, Entry
<1>2. w.combo = InitialCombo(v) /\ w.text = EntryText(o, InitialCombo(v), NoText, v)
  OBVIOUS
<1> HIDE DEF w
<1>3. v = NoValue => Read(o, v) = v
  BY <1>1, <1>2 DEF Read, option_widget_to_arg, InitialCombo
<1>4. ASSUME v = <<NoText>>
      PROVE  Read(o, v) = v
  <2>1. v # NoValue
    BY <1>4, KnownTexts, OneElement DEF NoValue
  <2>2. InitialCombo(v) = "no arg"
    BY <1>4, <2>1 DEF InitialCombo, NoText
  <2> QED BY <1>1, <1>2, <1>4, <2>2 DEF Read, option_widget_to_arg, NoText
<1>5. ASSUME v # NoValue, v # <<NoText>>
      PROVE  Read(o, v) = ArgsOf(o, arg_to_str(v))
  <2>1. InitialCombo(v) = "custom"
    BY <1>5 DEF InitialCombo, NoText
  <2>2. EntryText(o, InitialCombo(v), NoText, v) = arg_to_str(v)
    BY <2>1, <1>5 DEF EntryText
  <2> QED BY <1>1, <1>2, <2>1, <2>2 DEF Read, option_widget_to_arg
<1> QED BY <1>3, <1>4, <1>5

\* A text without an empty word at its end is the one argument it was.
LEMMA SingleShown ==
  ASSUME NEW o \in Options, ~toggle(o), ~Option[o].list, NEW t \in Text, t # NoText,
         Fields(t) = t, t = <<EmptyWord>> => ~Option[o].optional
  PROVE  Shown(o, <<t>>)
<1> DEFINE v == <<t>>
<1>1. v \in Value /\ Len(v) = 1 /\ v[1] = t /\ v # NoValue
  BY OneElement DEF Value, NoValue
<1>2. v # <<NoText>>
  BY <1>1
<1> HIDE DEF v
<1>3. arg_to_str(v) = t
  BY <1>1, ArgToStrOfOne DEF NoText
<1>4. Read(o, v) = ArgsOf(o, t)
  BY <1>1, <1>2, <1>3, EntryRead
<1>5. Len(ArgsOf(o, t)) = Len(t) /\ Len(t) \in Nat \ {0}
  BY ArgsOfType, FieldsType
<1>6. CASE Len(t) > 1
  BY <1>4, <1>5, <1>6 DEF Shown, Refused, v
<1>7. CASE Len(t) = 1
  <2>1. t = <<t[1]>>
    BY <1>7 DEF Text
  <2>2. ArgsOf(o, t) = [i \in 1 .. 1 |-> IF t[i] = EmptyWord /\ Option[o].optional THEN NoText ELSE <<t[i]>>]
    BY <1>7, FieldsType DEF ArgsOf
  <2>3. ~ (t[1] = EmptyWord /\ Option[o].optional)
    BY <2>1
  <2>4. ArgsOf(o, t) = << <<t[1]>> >>
    BY <2>2, <2>3
  <2>5. ArgsOf(o, t) = <<t>>
    BY <2>1, <2>4
  <2> QED BY <1>4, <2>5 DEF Shown, v
<1> QED BY <1>5, <1>6, <1>7

\* The arguments of a text, shown again, are its words.
LEMMA ArgToStrOfArgs ==
  ASSUME NEW o \in Options, NEW t \in Text, t # NoText
  PROVE  arg_to_str(ArgsOf(o, t)) = Fields(t)
<1> DEFINE f == Fields(t)
<1> DEFINE v == ArgsOf(o, t)
<1> DEFINE singles == [i \in 1 .. Len(f) |-> <<f[i]>>]
<1>1. f \in Seq(Words) /\ Len(f) \in Nat \ {0} /\ DOMAIN f = 1 .. Len(f) /\ \A i \in 1 .. Len(f) : f[i] \in Words
  BY FieldsType DEF Text
<1>2. v = [i \in 1 .. Len(f) |-> IF f[i] = EmptyWord /\ Option[o].optional THEN NoText ELSE <<f[i]>>]
  BY <1>1 DEF ArgsOf
<1>3. DOMAIN v = 1 .. Len(f)
  BY ArgsOfType
<1> HIDE DEF f, v
<1>4. \A i \in 1 .. Len(f) : (IF v[i] = NoText THEN <<EmptyWord>> ELSE v[i]) = <<f[i]>>
  <2> TAKE i \in 1 .. Len(f)
  <2>1. CASE f[i] = EmptyWord /\ Option[o].optional
    BY <1>2, <2>1
  <2>2. CASE ~ (f[i] = EmptyWord /\ Option[o].optional)
    <3>1. v[i] = <<f[i]>>
      BY <1>2, <2>2
    <3>2. <<f[i]>> # NoText
      BY OneElement, <1>1 DEF NoText
    <3> QED BY <3>1, <3>2
  <2> QED BY <2>1, <2>2
<1>5. [i \in DOMAIN v |-> IF v[i] = NoText THEN <<EmptyWord>> ELSE v[i]] = singles
  BY <1>3, <1>4
<1>6. singles \in Seq(Seq(Words)) /\ Len(singles) = Len(f) /\ \A i \in 1 .. Len(f) : Len(singles[i]) = 1 /\ singles[i][1] = f[i]
  BY <1>1
<1> HIDE DEF singles
<1>7. singles # <<>>
  BY <1>1, <1>6
<1>8. FlattenSeq(singles) = [i \in 1 .. Len(singles) |-> singles[i][1]]
  BY <1>6, <1>7, FlattenSingles
<1>9. [i \in 1 .. Len(singles) |-> singles[i][1]] = [i \in 1 .. Len(f) |-> f[i]]
  BY <1>6
<1>10. f = [i \in 1 .. Len(f) |-> f[i]]
  BY <1>1
<1> QED BY <1>5, <1>8, <1>9, <1>10 DEF arg_to_str, f, v

\* Any text is kept or refused, in a list unless it ends with two commas.
LEMMA TextsKept ==
  ASSUME NEW o \in Options, ~toggle(o), NEW t \in Text, t # NoText,
         Option[o].list => Fields(Fields(t)) = Fields(t)
  PROVE  TextKept(o, t)
<1> DEFINE f == Fields(t)
<1> DEFINE v == ArgsOf(o, t)
<1>1. f \in Text /\ f # NoText /\ Len(f) \in Nat \ {0} /\ DOMAIN f = 1 .. Len(f)
      /\ \A i \in 1 .. Len(f) : f[i] \in Words
  BY FieldsType
<1>2. v \in Value /\ v # NoValue /\ Len(v) = Len(f)
  BY ArgsOfType
<1>3. v = [i \in 1 .. Len(f) |-> IF f[i] = EmptyWord /\ Option[o].optional THEN NoText ELSE <<f[i]>>]
  BY <1>1 DEF ArgsOf
<1>4. arg_to_str(v) = f
  BY ArgToStrOfArgs
<1>5. Option[o].list => Fields(f) = f
  OBVIOUS
<1> HIDE DEF f
<1>6. SUFFICES Kept(o, v)
  BY DEF TextKept
<1>7. Option[o].list => ArgsOf(o, f) = v
  BY <1>1, <1>3, <1>5 DEF ArgsOf
<1> HIDE DEF v
<1>8. CASE v = <<NoText>>
  BY <1>2, <1>8, EntryRead DEF Kept, Shown
<1>9. CASE v # <<NoText>> /\ Option[o].list
  BY <1>2, <1>4, <1>7, <1>9, EntryRead DEF Kept, Shown
<1>10. CASE v # <<NoText>> /\ ~Option[o].list
  <2>1. CASE Len(f) > 1
    BY <1>2, <1>10, <2>1 DEF Kept, Refused
  <2>2. CASE Len(f) = 1
    <3>1. v = <<IF f[1] = EmptyWord /\ Option[o].optional THEN NoText ELSE <<f[1]>> >>
      BY <1>3, <2>2
    <3>2. ~ (f[1] = EmptyWord /\ Option[o].optional)
      BY <1>10, <3>1
    <3>3. f = <<f[1]>>
      BY <1>1, <2>2 DEF Text
    <3>4. v = <<f>>
      BY <3>1, <3>2, <3>3
    <3>5. Fields(f) = f
      BY <2>2 DEF Fields
    <3>6. f = <<EmptyWord>> => ~Option[o].optional
      BY <3>2
    <3> QED BY <1>1, <1>10, <3>4, <3>5, <3>6, SingleShown DEF Kept
  <2> QED BY <1>1, <2>1, <2>2
<1> QED BY <1>8, <1>9, <1>10

\* So is the empty text, which an entry shows when there is nothing else.
LEMMA EmptyTextKept ==
  ASSUME NEW o \in Options, ~toggle(o)
  PROVE  TextKept(o, <<EmptyWord>>)
<1> DEFINE t == <<EmptyWord>>
<1>1. t \in Text /\ t # NoText /\ Len(t) = 1
  BY KnownTexts, OneElement
<1> HIDE DEF t
<1>2. Fields(t) = t
  BY <1>1 DEF Fields
<1>3. TextKept(o, t)
  BY <1>1, <1>2, TextsKept
<1> QED BY <1>3 DEF t

\* The text of a value that is shown is kept.
LEMMA LoadedTextKept ==
  ASSUME NEW o \in Options, ~toggle(o), NEW v \in Value, v # NoValue, Shown(o, v)
  PROVE  TextKept(o, arg_to_str(v))
<1>1. CASE v = <<NoText>>
  <2>1. Len(v) = 1 /\ v[1] = NoText
    BY <1>1, KnownTexts, OneElement
  <2>2. arg_to_str(v) = <<EmptyWord>>
    BY <2>1, ArgToStrOfOne DEF NoText
  <2> QED BY <2>2, EmptyTextKept
<1>2. CASE v # <<NoText>>
  <2>1. Read(o, v) = ArgsOf(o, arg_to_str(v))
    BY <1>2, EntryRead
  <2> QED BY <2>1 DEF TextKept, Kept, Shown
<1> QED BY <1>1, <1>2

\* A plain value is shown as it is.
LEMMA PlainShown ==
  ASSUME NEW o \in Options, NEW v \in Value, Plain(o, v)
  PROVE  Shown(o, v)
<1>1. CASE toggle(o)
  BY <1>1, ToggleShown DEF Plain
<1>2. CASE ~toggle(o) /\ v \in {NoValue, <<NoText>>}
  BY <1>2, EntryRead DEF Shown
<1>3. CASE ~toggle(o) /\ Option[o].list /\ v \notin {NoValue, <<NoText>>}
  <2>1. DOMAIN v = 1 .. Len(v) /\ Len(v) \in Nat \ {0} /\ v \in Seq(Seq(Words)) /\ v # <<>>
    BY <1>3 DEF Value, Text, NoValue
  <2>2. \A i \in 1 .. Len(v) : Len(v[i]) = 1 /\ v[i][1] # EmptyWord
    BY <1>3, <2>1 DEF Plain
  <2>3. \A i \in 1 .. Len(v) : v[i] \in Seq(Words) /\ v[i] # NoText /\ v[i][1] \in Words /\ v[i] = <<v[i][1]>>
    <3> TAKE i \in 1 .. Len(v)
    <3>1. v[i] \in Seq(Words) /\ Len(v[i]) = 1
      BY <2>1, <2>2
    <3>2. v[i] # NoText /\ v[i][1] \in Words /\ v[i] = <<v[i][1]>>
      BY <3>1 DEF NoText
    <3> QED BY <3>1, <3>2
  <2> DEFINE t == [i \in 1 .. Len(v) |-> v[i][1]]
  <2>4. [i \in DOMAIN v |-> IF v[i] = NoText THEN <<EmptyWord>> ELSE v[i]] = v
    <3>1. v = [i \in 1 .. Len(v) |-> v[i]]
      BY <2>1
    <3> QED BY <2>1, <2>3, <3>1
  <2>5. arg_to_str(v) = t
    <3>1. FlattenSeq(v) = t
      BY <2>1, <2>2, FlattenSingles
    <3> QED BY <2>4, <3>1 DEF arg_to_str
  <2>6. t \in Text /\ Len(t) = Len(v) /\ DOMAIN t = 1 .. Len(v) /\ \A i \in 1 .. Len(v) : t[i] = v[i][1]
    BY <2>1, <2>3 DEF Text
  <2> HIDE DEF t
  <2>7. t[Len(t)] # EmptyWord
    BY <2>1, <2>2, <2>6
  <2>8. Fields(t) = t
    BY <2>7 DEF Fields, Last
  <2>9. ArgsOf(o, t) = [i \in 1 .. Len(v) |-> IF t[i] = EmptyWord /\ Option[o].optional THEN NoText ELSE <<t[i]>>]
    BY <2>6, <2>8 DEF ArgsOf
  <2>10. \A i \in 1 .. Len(v) : (IF t[i] = EmptyWord /\ Option[o].optional THEN NoText ELSE <<t[i]>>) = v[i]
    BY <2>2, <2>3, <2>6
  <2>11. v = [i \in 1 .. Len(v) |-> v[i]]
    BY <2>1
  <2>12. ArgsOf(o, t) = v
    BY <2>9, <2>10, <2>11
  <2> QED BY <1>3, <2>5, <2>12, EntryRead DEF Shown
<1>4. CASE ~toggle(o) /\ ~Option[o].list /\ v \notin {NoValue, <<NoText>>}
  <2>1. Len(v) <= 1 /\ v \in Seq(Text) /\ v # <<>>
    BY <1>4 DEF Plain, Value, NoValue
  <2>2. v = <<v[1]>> /\ DOMAIN v = 1 .. 1 /\ v[1] \in Text
    BY <2>1, AtMostOne
  <2>3. v[1] # NoText
    BY <1>4, <2>2
  <2>4. Fields(v[1]) = v[1] /\ (v[1] = <<EmptyWord>> => ~Option[o].optional)
    BY <1>4, <2>2, <2>3 DEF Plain
  <2> QED BY <1>4, <2>2, <2>3, <2>4, SingleShown
<1> QED BY <1>1, <1>2, <1>3, <1>4

-----------------------------------------------------------------------------
(* The dialog for the options of GnuPG.                                    *)

\* A widget of the dialog for an option of which v was loaded.
WidgetHolds(o, w, v) ==
  /\ w \in Widget
  /\ WidgetFits(o, w)
  /\ PlainInputs(o) =>
       /\ Shown(o, v)
       /\ ~toggle(o) => \A text \in {w.saved, w.text} \ {NoText} : TextKept(o, text)

\* What a widget is read as: a value that is shown again, or refused.
LEMMA WidgetRead ==
  ASSUME NEW o \in Options, NEW w, NEW v, WidgetHolds(o, w, v)
  PROVE  /\ option_widget_to_arg(o, w) \in Value
         /\ PlainInputs(o) => Kept(o, option_widget_to_arg(o, w))
<1>1. w \in Widget /\ WidgetFits(o, w) /\ w.text \in Text
  BY DEF WidgetHolds, Widget
<1>2. option_widget_to_arg(o, w) \in Value
  BY <1>1, ReadType
<1>3. CASE toggle(o)
  <2>1. Len(option_widget_to_arg(o, w)) <= 1
    <3>1. CASE w.combo = "off"
      BY <3>1 DEF option_widget_to_arg, NoValue
    <3>2. CASE w.combo = "on"
      <4>1. option_widget_to_arg(o, w) = <<w.text>>
        BY <3>2 DEF option_widget_to_arg
      <4> QED BY <4>1, <1>1, OneElement
    <3> QED BY <1>1, <1>3, <3>1, <3>2 DEF WidgetFits
  <2> QED BY <1>2, <1>3, <2>1, ToggleShown DEF Kept
<1>4. CASE ~toggle(o)
  <2>1. CASE w.combo = "default"
    BY <1>4, <2>1, EntryRead, KnownTexts DEF option_widget_to_arg, Kept, Shown
  <2>2. CASE w.combo = "no arg"
    <3>1. option_widget_to_arg(o, w) = <<NoText>>
      BY <2>2 DEF option_widget_to_arg, NoText
    <3> QED BY <1>4, <3>1, EntryRead, KnownTexts DEF Kept, Shown
  <2>3. CASE w.combo = "custom"
    <3>1. w.text # NoText
      BY <1>1, <1>4, <2>3 DEF WidgetFits
    <3>2. PlainInputs(o) => TextKept(o, w.text)
      BY <1>4, <3>1 DEF WidgetHolds
    <3>3. option_widget_to_arg(o, w) = ArgsOf(o, w.text)
      BY <2>3 DEF option_widget_to_arg
    <3> QED BY <1>2, <3>2, <3>3 DEF TextKept
  <2> QED BY <1>1, <1>4, <2>1, <2>2, <2>3 DEF WidgetFits
<1> QED BY <1>2, <1>3, <1>4

\* The text of an entry is kept, wherever it came from.
LEMMA EntryTextKept ==
  ASSUME NEW o \in Options, ~toggle(o), PlainInputs(o), NEW combo, NEW saved, NEW v \in Value, Shown(o, v),
         saved # NoText => TextKept(o, saved), EntryText(o, combo, saved, v) # NoText
  PROVE  TextKept(o, EntryText(o, combo, saved, v))
<1>1. Option[o].default \in Value /\ Shown(o, Option[o].default)
  BY OptionAssumption, PlainShown DEF PlainInputs
<1>2. v # NoValue => TextKept(o, arg_to_str(v))
  BY LoadedTextKept
<1>3. Option[o].default # NoValue => TextKept(o, arg_to_str(Option[o].default))
  BY <1>1, LoadedTextKept
<1> QED BY <1>2, <1>3, EmptyTextKept DEF EntryText

\* So an entry is fine for every choice of its combo box.
LEMMA EntryHolds ==
  ASSUME NEW o \in Options, ~toggle(o), NEW combo \in {"default", "custom", "no arg"},
         NEW saved \in Text, NEW v \in Value,
         PlainInputs(o) => Shown(o, v) /\ (saved # NoText => TextKept(o, saved))
  PROVE  WidgetHolds(o, Entry(o, combo, saved, v), v)
<1> DEFINE w == Entry(o, combo, saved, v)
<1>1. w \in Widget /\ WidgetFits(o, w)
  BY EntryFits
<1>2. w.saved = saved /\ w.text = EntryText(o, combo, saved, v)
  BY DEF Entry
<1> HIDE DEF w
<1>3. PlainInputs(o) => \A text \in {w.saved, w.text} \ {NoText} : TextKept(o, text)
  BY <1>2, EntryTextKept
<1>4. WidgetHolds(o, w, v)
  BY <1>1, <1>3 DEF WidgetHolds
<1> QED BY <1>4 DEF w

\* A new widget is fine.
LEMMA NewWidgetHolds ==
  ASSUME NEW o \in Options, NEW v \in Value, PlainInputs(o) => Shown(o, v)
  PROVE  WidgetHolds(o, option_widget(o, v), v)
<1>1. option_widget(o, v) \in Widget /\ WidgetFits(o, option_widget(o, v))
  BY OptionWidgetFits
<1>2. CASE toggle(o)
  BY <1>1, <1>2 DEF WidgetHolds
<1>3. CASE ~toggle(o)
  <2>1. InitialCombo(v) \in {"default", "custom", "no arg"}
    BY DEF InitialCombo
  <2>2. option_widget(o, v) = Entry(o, InitialCombo(v), NoText, v)
    BY <1>3 DEF option_widget
  <2> QED BY <1>3, <2>1, <2>2, EntryHolds, KnownTexts
<1> QED BY <1>2, <1>3

\* A widget stays fine when the user chooses from its combo box.
LEMMA UpdatedHolds ==
  ASSUME NEW o \in Options, ~toggle(o), NEW combo \in {"default", "custom", "no arg"},
         NEW w, NEW v \in Value, WidgetHolds(o, w, v)
  PROVE  WidgetHolds(o, update_option(o, w, combo, v), v)
<1> DEFINE saved == IF w.combo = "custom" THEN w.text ELSE w.saved
<1>1. w.text \in Text /\ w.saved \in Text /\ (PlainInputs(o) => Shown(o, v))
  BY DEF WidgetHolds, Widget
<1>2. PlainInputs(o) /\ saved # NoText => TextKept(o, saved)
  <2>1. saved \in {w.saved, w.text}
    OBVIOUS
  <2> HIDE DEF saved
  <2> QED BY <2>1 DEF WidgetHolds
<1>3. saved \in Text
  BY <1>1
<1>4. update_option(o, w, combo, v) = Entry(o, combo, saved, v)
  BY DEF update_option
<1> HIDE DEF saved
<1> QED BY <1>1, <1>2, <1>3, <1>4, EntryHolds

\* "Reset" keeps a widget fine, and changes no untouched one.
LEMMA ResetHolds ==
  ASSUME NEW o \in Options, NEW w, NEW v \in Value, WidgetHolds(o, w, v)
  PROVE  /\ WidgetHolds(o, reset_option(o, w, v), v)
         /\ w = option_widget(o, v) => reset_option(o, w, v) = w
<1>1. w \in Widget /\ (PlainInputs(o) => Shown(o, v)) /\ w.text \in Text /\ w.saved \in Text
  BY DEF WidgetHolds, Widget
<1>2. CASE toggle(o)
  <2> DEFINE u == [w EXCEPT !.combo = CheckState(v)]
  <2>1. reset_option(o, w, v) = u
    BY <1>2 DEF reset_option
  <2>2. CheckState(v) \in {"on", "off"}
    BY DEF CheckState
  <2>3. u \in Widget /\ u.combo = CheckState(v) /\ u.saved = w.saved
    BY <1>1, <2>2 DEF Widget
  <2>4. w.combo = CheckState(v) => u = w
    BY <1>1 DEF Widget
  <2> HIDE DEF u
  <2>5. WidgetHolds(o, u, v)
    BY <1>1, <1>2, <2>2, <2>3 DEF WidgetHolds, WidgetFits
  <2>6. w = option_widget(o, v) => w.combo = CheckState(v)
    BY <1>2 DEF option_widget
  <2> QED BY <2>1, <2>4, <2>5, <2>6
<1>3. CASE ~toggle(o)
  <2>1. reset_option(o, w, v) = Entry(o, InitialCombo(v), w.saved, v)
    BY <1>3 DEF reset_option
  <2>2. InitialCombo(v) \in {"default", "custom", "no arg"}
    BY DEF InitialCombo
  <2>3. PlainInputs(o) /\ w.saved # NoText => TextKept(o, w.saved)
    BY <1>3 DEF WidgetHolds
  <2>4. WidgetHolds(o, reset_option(o, w, v), v)
    BY <1>1, <1>3, <2>1, <2>2, <2>3, EntryHolds
  <2>5. ASSUME w = option_widget(o, v)
        PROVE  reset_option(o, w, v) = w
    <3>1. w = Entry(o, InitialCombo(v), NoText, v)
      BY <1>3, <2>5 DEF option_widget
    <3>2. w.saved = NoText
      BY <3>1 DEF Entry
    <3> QED BY <2>1, <3>1, <3>2
  <2> QED BY <2>4, <2>5
<1> QED BY <1>2, <1>3

\* The dialog b with the options "edited" in it: a widget nobody edited is the
\* one of the value that was loaded.
BackendRecord(widgets) ==
  [open : BOOLEAN, modified : BOOLEAN, level : Nat, loaded : {<<>>} \cup [Options -> Value], widgets : {widgets}]

BackendHolds(b, edited) ==
  /\ b \in BackendRecord(b.widgets)
  /\ b.open \/ b = ClosedBackend
  /\ DOMAIN b.widgets \subseteq Options
  /\ b.widgets \in [DOMAIN b.widgets -> Widget]
  /\ DOMAIN b.widgets # {} => b.loaded # <<>>
  /\ edited \subseteq DOMAIN b.widgets
  /\ \A o \in DOMAIN b.widgets : WidgetHolds(o, b.widgets[o], b.loaded[o])
  /\ \A o \in DOMAIN b.widgets \ edited : b.widgets[o] = option_widget(o, b.loaded[o])

\* What gpgconf has is shown truly, where the inputs are plain.
ConfHolds(conf) == conf \in [Options -> Value] /\ \A o \in Options : PlainInputs(o) => Shown(o, conf[o])

\* The dialog when it is closed.
LEMMA ClosedBackendHolds == BackendHolds(ClosedBackend, {})
<1> DEFINE none == <<>>
<1>1. DOMAIN none = {} /\ none \in [{} -> Widget] /\ none = <<>>
  OBVIOUS
<1> HIDE DEF none
<1>2. ClosedBackend = [open |-> FALSE, modified |-> FALSE, level |-> 0, loaded |-> none, widgets |-> none]
  BY <1>1 DEF ClosedBackend
<1>3. ClosedBackend.widgets = none /\ ClosedBackend \in BackendRecord(none)
  BY <1>1, <1>2 DEF BackendRecord
<1> QED BY <1>1, <1>3 DEF BackendHolds

\* What was loaded for a widget of the dialog.
LEMMA LoadedType ==
  ASSUME NEW b, NEW edited, BackendHolds(b, edited), NEW o \in DOMAIN b.widgets
  PROVE  /\ o \in Options
         /\ b.loaded \in [Options -> Value]
         /\ b.loaded[o] \in Value
         /\ WidgetHolds(o, b.widgets[o], b.loaded[o])
<1>1. b.loaded \in {<<>>} \cup [Options -> Value] /\ b.loaded # <<>> /\ o \in Options
  BY DEF BackendHolds, BackendRecord
<1> QED BY <1>1 DEF BackendHolds

\* The dialog with new tabs.
LEMMA TabsHold ==
  ASSUME NEW b, NEW conf, NEW c, b \in BackendRecord(b.widgets), b.open = TRUE, ConfHolds(conf),
         c = [b EXCEPT !.modified = FALSE, !.loaded = conf, !.widgets = Tabs(b.level, conf)]
  PROVE  BackendHolds(c, {})
<1> DEFINE tabs == Tabs(b.level, conf)
<1>1. tabs = [o \in Visible(b.level) |-> option_widget(o, conf[o])] /\ DOMAIN tabs = Visible(b.level)
      /\ Visible(b.level) \subseteq Options
  BY DEF Tabs, Visible
<1>2. \A o \in Visible(b.level) : conf[o] \in Value /\ WidgetHolds(o, tabs[o], conf[o]) /\ tabs[o] \in Widget
  BY <1>1, NewWidgetHolds, OptionWidgetFits DEF ConfHolds
<1>3. tabs \in [DOMAIN tabs -> Widget]
  BY <1>1, <1>2
<1> HIDE DEF tabs
<1>4. c.widgets = tabs /\ c.loaded = conf /\ c.open
  BY DEF BackendRecord, tabs
<1>5. c \in BackendRecord(c.widgets)
  <2>1. conf \in [Options -> Value]
    BY DEF ConfHolds
  <2> QED BY <2>1, <1>4 DEF BackendRecord, tabs
<1>6. conf # <<>>
  <2>1. akl \in DOMAIN conf
    BY OptionAssumption DEF ConfHolds
  <2> QED BY <2>1
<1>7. \A o \in DOMAIN tabs : tabs[o] = option_widget(o, conf[o])
  BY <1>1
<1> QED BY <1>1, <1>2, <1>3, <1>4, <1>5, <1>6, <1>7 DEF BackendHolds

\* A change of a widget.
LEMMA TouchHolds ==
  ASSUME NEW b, NEW edited, BackendHolds(b, edited), b.open, NEW o \in DOMAIN b.widgets, NEW w,
         WidgetHolds(o, w, b.loaded[o]), NEW c,
         c = [b EXCEPT !.modified = TRUE, !.widgets = [@ EXCEPT ![o] = w]]
  PROVE  BackendHolds(c, edited \cup {o})
<1> DEFINE ws == [b.widgets EXCEPT ![o] = w]
<1>1. b \in BackendRecord(b.widgets) /\ b.widgets \in [DOMAIN b.widgets -> Widget] /\ w \in Widget
  BY DEF BackendHolds, WidgetHolds
<1>2. DOMAIN ws = DOMAIN b.widgets /\ ws \in [DOMAIN b.widgets -> Widget] /\ ws[o] = w
      /\ \A p \in DOMAIN b.widgets \ {o} : ws[p] = b.widgets[p]
  BY <1>1
<1> HIDE DEF ws
<1>3. c = [b EXCEPT !.modified = TRUE, !.widgets = ws]
  BY DEF ws
<1>4. c.widgets = ws /\ c.loaded = b.loaded /\ c.open = b.open /\ c \in BackendRecord(c.widgets)
  BY <1>1, <1>3 DEF BackendRecord
<1> QED BY <1>2, <1>4 DEF BackendHolds

\* "Reset"
LEMMA ResetAllHolds ==
  ASSUME NEW b, NEW edited, BackendHolds(b, edited), b.open, NEW c,
         c = [b EXCEPT !.modified = FALSE, !.widgets = [o \in DOMAIN @ |-> reset_option(o, @[o], b.loaded[o])]]
  PROVE  BackendHolds(c, edited)
<1> DEFINE ws == [o \in DOMAIN b.widgets |-> reset_option(o, b.widgets[o], b.loaded[o])]
<1>1. b \in BackendRecord(b.widgets)
  BY DEF BackendHolds
<1>2. \A o \in DOMAIN b.widgets : /\ WidgetHolds(o, ws[o], b.loaded[o])
                                  /\ ws[o] \in Widget
                                  /\ b.widgets[o] = option_widget(o, b.loaded[o]) => ws[o] = b.widgets[o]
  BY LoadedType, ResetHolds DEF WidgetHolds
<1>3. DOMAIN ws = DOMAIN b.widgets /\ ws \in [DOMAIN b.widgets -> Widget]
  BY <1>2
<1> HIDE DEF ws
<1>4. c = [b EXCEPT !.modified = FALSE, !.widgets = ws]
  BY DEF ws
<1>5. c.widgets = ws /\ c.loaded = b.loaded /\ c.open = b.open /\ c \in BackendRecord(c.widgets)
  BY <1>1, <1>4 DEF BackendRecord
<1> QED BY <1>2, <1>3, <1>5 DEF BackendHolds

-----------------------------------------------------------------------------
(* The configuration of GnuPG, and the settings dialog.                    *)

\* A save that changes an untouched option found a value that its widget does
\* not show, which plain inputs exclude.
LEMMA SaveTouchesEdited ==
  ASSUME NEW b, NEW edited, b = backend, BackendHolds(b, edited), NEW failing, NEW o \in Options \ edited,
         save_all_options(failing)[o] # gpg_conf[o]
  PROVE  /\ o \in DOMAIN backend.widgets
         /\ ~Shown(o, backend.loaded[o])
         /\ ~PlainInputs(o)
<1> DEFINE saved == UNION {Changed(c) : c \in {d \in Components \ failing : ~GpgconfRefuses(d)}}
<1>1. save_all_options(failing)[o] =
        IF o \in saved THEN option_widget_to_arg(o, backend.widgets[o]) ELSE gpg_conf[o]
  BY DEF save_all_options
<1>2. PICK c \in Components \ failing : ~GpgconfRefuses(c) /\ o \in Changed(c)
  BY <1>1
<1>3. o \in DOMAIN backend.widgets /\ option_widget_to_arg(o, backend.widgets[o]) # backend.loaded[o]
  BY <1>2 DEF Changed
<1>4. backend.widgets[o] = option_widget(o, backend.loaded[o])
  BY <1>3 DEF BackendHolds
<1>5. ~Refused(o, option_widget_to_arg(o, backend.widgets[o]))
  BY <1>2 DEF GpgconfRefuses, Refused
<1>6. ~Shown(o, backend.loaded[o])
  BY <1>3, <1>4, <1>5 DEF Shown, Read
<1> QED BY <1>3, <1>6 DEF BackendHolds, WidgetHolds

\* A save stores only values that are shown, since gpgconf refuses the others.
LEMMA SaveHolds ==
  ASSUME BackendHolds(backend, touched), ConfHolds(gpg_conf), NEW failing
  PROVE  ConfHolds(save_all_options(failing))
<1> DEFINE saved == UNION {Changed(c) : c \in {d \in Components \ failing : ~GpgconfRefuses(d)}}
<1>1. save_all_options(failing) =
        [o \in Options |-> IF o \in saved THEN option_widget_to_arg(o, backend.widgets[o]) ELSE gpg_conf[o]]
  BY DEF save_all_options
<1>2. ASSUME NEW o \in saved
      PROVE  /\ option_widget_to_arg(o, backend.widgets[o]) \in Value
             /\ PlainInputs(o) => Shown(o, option_widget_to_arg(o, backend.widgets[o]))
  <2>1. PICK c \in Components \ failing : ~GpgconfRefuses(c) /\ o \in Changed(c)
    OBVIOUS
  <2>2. o \in DOMAIN backend.widgets
    BY <2>1 DEF Changed
  <2>3. o \in Options /\ WidgetHolds(o, backend.widgets[o], backend.loaded[o])
    BY <2>2, LoadedType
  <2>4. option_widget_to_arg(o, backend.widgets[o]) \in Value
        /\ (PlainInputs(o) => Kept(o, option_widget_to_arg(o, backend.widgets[o])))
    BY <2>3, WidgetRead
  <2>5. ~Refused(o, option_widget_to_arg(o, backend.widgets[o]))
    BY <2>1 DEF GpgconfRefuses, Refused
  <2> QED BY <2>4, <2>5 DEF Kept
<1> HIDE DEF saved
<1> QED BY <1>1, <1>2 DEF ConfHolds

\* GPA's own way to store an option of gpg stores a value that is shown.
LEMMA StoredHolds ==
  ASSUME NEW conf, ConfHolds(conf), NEW o \in {akl, "keyserver"}, NEW t \in Text, t # NoText, Fields(t) = t
  PROVE  ConfHolds(Stored(conf, o, t))
<1>1. o \in Options /\ Option[o].type = "ENTRY" /\ ~Option[o].list
  BY OptionAssumption
<1>2. ~toggle(o) /\ ~Option[o].optional
  <2>1. ~toggle(o)
    BY <1>1 DEF toggle
  <2>2. (Option[o].type = "OPT_ENTRY") = (Option[o].optional /\ ~Option[o].list)
    BY <1>1, OptionAssumption
  <2>3. Option[o].optional \in BOOLEAN
    BY <1>1, OptionAssumption
  <2> QED BY <2>1, <2>2, <2>3, <1>1
<1>3. Shown(o, <<t>>)
  BY <1>1, <1>2, SingleShown
<1>4. <<t>> \in Value
  BY OneElement DEF Value
<1>5. Stored(conf, o, t) = [conf EXCEPT ![o] = <<t>>]
  BY DEF Stored
<1> QED BY <1>1, <1>3, <1>4, <1>5 DEF ConfHolds

\* A keyserver is one word.
LEMMA StoredWordHolds ==
  ASSUME NEW conf, ConfHolds(conf), NEW w \in Words
  PROVE  ConfHolds(Stored(conf, "keyserver", <<w>>))
<1> DEFINE t == <<w>>
<1>1. t \in Text /\ t # NoText /\ Len(t) = 1
  BY OneElement DEF Text, NoText
<1> HIDE DEF t
<1>2. Fields(t) = t
  BY <1>1 DEF Fields
<1>3. ConfHolds(Stored(conf, "keyserver", t))
  BY <1>1, <1>2, StoredHolds
<1> QED BY <1>3 DEF t

\* A save of the options may store the keyserver of an older gpg.
LEMMA KeyserverStoredHolds ==
  ASSUME NEW conf, ConfHolds(conf), NEW opts, opts.keyserver \in Words
  PROVE  ConfHolds(KeyserverStored(conf, opts))
  BY StoredWordHolds DEF KeyserverStored

\* The lists of the methods' table.
LEMMA RowsOfLetters ==
  ASSUME NEW l, NEW k, NEW p, NEW n, NEW D, NEW lists,
         lists = << <<l>>, <<l, k>>, <<l, p>>, <<l, p, k>>, <<l, k, p>>, <<l, D>>, <<l, D, k>>, <<n, p>>, <<n, D>> >>
  PROVE  \A i \in 1 .. 9 : lists[i] # <<>> /\ lists[i] \in Seq({l, k, p, n, D})
<1> DEFINE S == {l, k, p, n, D}
<1> DEFINE Lists == Seq(S) \ {<<>>}
<1>1. \A a \in S : <<a>> \in Lists
  BY OneElement
<1>2. \A a, b \in S : <<a, b>> \in Lists
  OBVIOUS
<1>3. \A a, b, c \in S : <<a, b, c>> \in Lists
  OBVIOUS
<1>4. {l, k, p, n, D} \subseteq S
  OBVIOUS
<1> HIDE DEF S, Lists
<1>5. \A i \in 1 .. 9 : lists[i] \in Lists
  BY <1>1, <1>2, <1>3, <1>4
<1> QED BY <1>5 DEF S, Lists

\* The table has nine lists, none empty and none beginning with "p", for which
\* nothing would be stored.
LEMMA TableRows ==
  /\ DOMAIN akl_table = 1 .. 9
  /\ Custom = 10
  /\ MethodRows = 1 .. 10
  /\ \A i \in 1 .. 9 : akl_table[i] # <<>> /\ akl_table[i] \in Seq({"l", "k", "p", "n", "D"}) /\ akl_table[i][1] \in {"l", "n"}
<1>1. DOMAIN akl_table = 1 .. 9 /\ Len(akl_table) = 9
  BY DEF akl_table
<1>2. \A i \in 1 .. 9 : akl_table[i][1] \in {"l", "n"}
  BY DEF akl_table
<1> DEFINE l == "l"  k == "k"  p == "p"  n == "n"  D == "D"
<1>3. akl_table = << <<l>>, <<l, k>>, <<l, p>>, <<l, p, k>>, <<l, k, p>>, <<l, D>>, <<l, D, k>>, <<n, p>>, <<n, D>> >>
  BY DEF akl_table
<1>4. \A i \in 1 .. 9 : akl_table[i] # <<>> /\ akl_table[i] \in Seq({l, k, p, n, D})
  <2> HIDE DEF l, k, p, n, D
  <2> QED BY <1>3, RowsOfLetters
<1> QED BY <1>1, <1>2, <1>4 DEF Custom, MethodRows

\* There is a word for the kDNS server at every address.
LEMMA KdnsWordType ==
  ASSUME NEW addr \in Addresses
  PROVE  KdnsWord(addr) \in Words \ {EmptyWord}
<1>1. \E w \in DOMAIN Uri : IsKdns(w) /\ Uri[w].host = addr
  BY KdnsAssumption
<1>2. KdnsWord(addr) \in DOMAIN Uri
  BY <1>1 DEF KdnsWord
<1> QED BY <1>2, UriAssumption

\* The list of methods stored for a row is not empty and has no empty word, so
\* that an entry shows it.
LEMMA NewListHolds ==
  ASSUME NEW method \in MethodRows, method # Custom, NEW addr, require_addr(method) => addr \in Addresses
  PROVE  newakl(method, addr) \in Text \ {NoText} /\ Fields(newakl(method, addr)) = newakl(method, addr)
<1> DEFINE methods == akl_table[method]
<1> DEFINE parts == [i \in DOMAIN methods |-> IF methods[i] = "p" THEN <<>> ELSE <<StoredWord(methods[i], addr)>>]
<1> DEFINE S == Words \ {EmptyWord}
<1>1. method \in 1 .. 9
  BY TableRows
<1>2. methods # <<>> /\ methods \in Seq({"l", "k", "p", "n", "D"}) /\ methods[1] \in {"l", "n"}
  BY <1>1, TableRows
<1>3. DOMAIN methods = 1 .. Len(methods) /\ Len(methods) \in Nat \ {0}
      /\ \A i \in 1 .. Len(methods) : methods[i] \in {"l", "k", "p", "n", "D"}
  BY <1>2
<1>4. \A i \in 1 .. Len(methods) : methods[i] = "D" => addr \in Addresses
  BY DEF require_addr, Contains
<1> HIDE DEF methods
<1>5. \A i \in 1 .. Len(methods) : methods[i] # "p" => StoredWord(methods[i], addr) \in S
  <2>1. {"nodefault", "local", "keyserver"} \subseteq S
    BY WordsAssumption DEF EmptyWord
  <2> QED BY <1>3, <1>4, <2>1, KdnsWordType DEF StoredWord
<1> HIDE DEF S
<1>6. \A i \in 1 .. Len(methods) : parts[i] \in Seq(S)
  BY <1>3, <1>5
<1>7. parts \in Seq(Seq(S)) /\ Len(parts) = Len(methods)
  BY <1>3, <1>6
<1>8. parts[1] # <<>>
  <2>1. 1 \in DOMAIN methods /\ methods[1] # "p"
    BY <1>2, <1>3 DEF methods
  <2>2. parts[1] = <<StoredWord(methods[1], addr)>>
    BY <2>1
  <2> QED BY <2>2, OneElement
<1>9. parts # <<>>
  BY <1>3, <1>7
<1>10. newakl(method, addr) = FlattenSeq(parts)
  BY DEF newakl, methods
<1> HIDE DEF parts
<1> DEFINE t == newakl(method, addr)
<1>11. t \in Seq(S) /\ t # <<>>
  BY <1>7, <1>8, <1>9, <1>10, FlattenType
<1> HIDE DEF t
<1>12. t \in Seq(Words)
  BY <1>11 DEF S
<1>13. Len(t) \in Nat \ {0} /\ t[Len(t)] # EmptyWord
  <2>1. Len(t) \in 1 .. Len(t)
    BY <1>11
  <2>2. t[Len(t)] \in S
    BY <1>11, <2>1
  <2> QED BY <2>1, <2>2 DEF S
<1>14. Fields(t) = t
  BY <1>13 DEF Fields, Last
<1> QED BY <1>11, <1>12, <1>14 DEF t, Text, NoText

\* What the settings dialog stores as the methods is shown.
LEMMA StoredMethodsHolds ==
  ASSUME NEW conf, ConfHolds(conf), settings.method \in MethodRows, check_akl, gpg21 \in BOOLEAN
  PROVE  ConfHolds(StoredMethods(conf))
<1>1. CASE gpg21 /\ settings.method # Custom
  <2>1. require_addr(settings.method) => settings.addr \in Addresses
    BY <1>1 DEF check_akl
  <2>2. newakl(settings.method, settings.addr) \in Text \ {NoText}
        /\ Fields(newakl(settings.method, settings.addr)) = newakl(settings.method, settings.addr)
    BY <1>1, <2>1, NewListHolds
  <2>3. ConfHolds(Stored(conf, akl, newakl(settings.method, settings.addr)))
    BY <2>2, StoredHolds
  <2> QED BY <1>1, <2>3 DEF StoredMethods
<1>2. CASE ~ (gpg21 /\ settings.method # Custom)
  BY <1>2 DEF StoredMethods
<1> QED BY <1>1, <1>2

\* A dialog shows the row of the list it loaded until the user picks another.
SettingsRecord(addr) ==
  [open : BOOLEAN, modified : BOOLEAN, key : SomeKey, method : MethodRows, addr : {addr}, url : Words, words : Text]

ShownRow(words) == IF words = NoText THEN 1 ELSE Row(words)

SettingsHolds(dlg, chosen) ==
  /\ dlg \in SettingsRecord(dlg.addr)
  /\ dlg.open \/ dlg = ClosedSettings
  /\ chosen = TRUE \/ dlg.method = ShownRow(dlg.words)

\* The settings dialog when it is closed.
LEMMA ClosedSettingsHolds ==
  ASSUME NEW chosen
  PROVE  SettingsHolds(ClosedSettings, chosen)
<1>1. 1 \in MethodRows /\ NoServer \in Words /\ NoKey \in SomeKey /\ NoText \in Text
  BY TableRows, KnownTexts DEF SomeKey
<1>2. ShownRow(NoText) = 1
  BY DEF ShownRow
<1> QED BY <1>1, <1>2 DEF ClosedSettings, SettingsHolds, SettingsRecord

\* A list of methods has a row of the table, "Custom" if it has no name.
LEMMA RowType ==
  ASSUME NEW words
  PROVE  Row(words) \in MethodRows /\ (~Named(words) => Row(words) = Custom)
<1>1. CASE Named(words)
  <2>1. \E i \in DOMAIN akl_table : akl_table[i] = Letters(words)
    BY <1>1 DEF Named
  <2>2. Row(words) \in DOMAIN akl_table
    BY <1>1, <2>1 DEF Row
  <2> QED BY <1>1, <2>2, TableRows
<1>2. CASE ~Named(words)
  BY <1>2, TableRows DEF Row
<1> QED BY <1>1, <1>2

\* What is read from gpgconf is a text, whether gpgconf answers or not.
LEMMA LoadedText ==
  ASSUME NEW conf, NEW name \in Options, ConfHolds(conf), NEW failed
  PROVE  gpa_load_gpgconf_string(conf, name, failed) \in Text
<1>1. conf[name] \in Value
  BY DEF ConfHolds
<1> QED BY <1>1, KnownTexts DEF gpa_load_gpgconf_string, Value, NoValue

\* The dialog after load_settings shows the row of the list it was given.
LEMMA LoadHolds ==
  ASSUME NEW dlg, NEW conf, NEW failed, dlg \in SettingsRecord(dlg.addr), ConfHolds(conf)
  PROVE  SettingsHolds(load_settings(dlg, conf, failed), FALSE)
<1> DEFINE words == IF gpg21 THEN gpa_load_gpgconf_string(conf, akl, failed) ELSE NoText
<1> DEFINE parsed == IF gpg21 THEN parse_akl(words, dlg.addr) ELSE [method |-> 1, addr |-> ""]
<1>1. words \in Text
  BY LoadedText, KnownTexts, OptionAssumption
<1>2. parsed.method = ShownRow(words)
  <2> HIDE DEF words
  <2>1. CASE gpg21
    BY <2>1 DEF parse_akl, ShownRow
  <2>2. CASE ~gpg21
    BY <2>2 DEF ShownRow, words
  <2> QED BY <2>1, <2>2
<1>3. ShownRow(words) \in MethodRows
  BY RowType, TableRows DEF ShownRow
<1> DEFINE c == [dlg EXCEPT !.open = TRUE, !.modified = FALSE, !.method = parsed.method,
                            !.addr = parsed.addr, !.words = words]
<1>4. load_settings(dlg, conf, failed) = c
  BY DEF load_settings
<1> HIDE DEF parsed, words
<1>5. c \in SettingsRecord(c.addr) /\ c.open = TRUE /\ c.method = parsed.method /\ c.words = words
  BY <1>1, <1>2, <1>3 DEF SettingsRecord
<1> HIDE DEF c
<1>6. SettingsHolds(c, FALSE)
  BY <1>2, <1>5 DEF SettingsHolds
<1> QED BY <1>4, <1>6

-----------------------------------------------------------------------------
(* The invariant.                                                          *)

\* gpa.conf has what the user wanted when it was written, and so has the
\* instance while the program runs.
OptionsRecord == [flags : SUBSET Flags, default_key : SomeKey, fpr : SomeKey, keyserver : Words]
FileRecord == [flags : SUBSET Flags, key : SomeKey]
WantedRecord == [flags : SUBSET Flags, key : SomeKey, written : BOOLEAN]

Remembered(opts, file, want, run) ==
  /\ opts \in OptionsRecord
  /\ file \in FileRecord
  /\ want \in WantedRecord
  /\ want.written => file.flags = want.flags /\ file.key = want.key
  /\ run /\ want.written => opts.flags = want.flags /\ opts.default_key = want.key

\* The inductive invariant: the dialogs, the file and what gpgconf has.
IInv ==
  /\ running \in BOOLEAN /\ gpg21 \in BOOLEAN /\ picked \in BOOLEAN
  /\ keyring \in Seq(Keys)
  /\ ConfHolds(gpg_conf)
  /\ Remembered(options, gpa_conf, wanted, running)
  /\ SettingsHolds(settings, picked)
  /\ BackendHolds(backend, touched)

\* The invariant says all that the run checks.
LEMMA InvImplies == IInv => SettingsSurviveARestart
<1> SUFFICES ASSUME IInv
             PROVE  SettingsSurviveARestart
  OBVIOUS
<1>1. running \in BOOLEAN /\ gpg21 \in BOOLEAN /\ picked \in BOOLEAN /\ keyring \in Seq(Keys) /\ gpg_conf \in [Options -> Value]
  BY DEF IInv, ConfHolds
<1>2. gpa_conf \in FileRecord /\ options \in OptionsRecord /\ wanted \in WantedRecord
      /\ (running /\ wanted.written => options.flags = wanted.flags /\ options.default_key = wanted.key)
  BY DEF IInv, Remembered
<1>3. settings \in SettingsRecord(settings.addr) /\ (settings.open \/ settings = ClosedSettings)
  BY DEF IInv, SettingsHolds
<1>4. /\ backend \in BackendRecord(backend.widgets)
      /\ backend.open \/ backend = ClosedBackend
      /\ DOMAIN backend.widgets \subseteq Options
      /\ backend.widgets \in [DOMAIN backend.widgets -> Widget]
      /\ DOMAIN backend.widgets # {} => backend.loaded # <<>>
      /\ touched \subseteq DOMAIN backend.widgets
  BY DEF IInv, BackendHolds
<1>5. \A o \in DOMAIN backend.widgets : WidgetFits(o, backend.widgets[o])
  BY DEF IInv, BackendHolds, WidgetHolds
<1>6. \A o \in DOMAIN backend.widgets :
        LET w == backend.widgets[o]
        IN IF toggle(o) THEN w.combo \in {"on", "off"} /\ w.saved = NoText
           ELSE w.combo \in {"default", "custom", "no arg"} /\ (w.text = NoText <=> w.combo # "custom")
  BY <1>5 DEF WidgetFits
<1>7. TypeOK
  <2> USE DEF TypeOK
  <2>1. {running, gpg21, picked} \subseteq BOOLEAN
    BY <1>1
  <2>2. wanted \in [flags : SUBSET Flags, key : SomeKey, written : BOOLEAN] /\ gpa_conf \in [flags : SUBSET Flags, key : SomeKey]
        /\ options \in [flags : SUBSET Flags, default_key : SomeKey, fpr : SomeKey, keyserver : Words]
    BY <1>2 DEF WantedRecord, FileRecord, OptionsRecord
  <2>3. settings \in [open : BOOLEAN, modified : BOOLEAN, key : SomeKey, method : MethodRows,
                   addr : {settings.addr}, url : Words, words : Text]
    BY <1>3 DEF SettingsRecord
  <2>4. backend \in [open : BOOLEAN, modified : BOOLEAN, level : Nat,
                  loaded : {<<>>} \cup [Options -> Value], widgets : {backend.widgets}]
    BY <1>4 DEF BackendRecord
  <2> QED BY <1>1, <1>3, <1>4, <1>6, <2>1, <2>2, <2>3, <2>4, Zenon DEF TypeOK
<1> QED BY <1>2, <1>7 DEF SettingsSurviveARestart

\* The invariant holds when GPA is started for the first time.
LEMMA InitInv == Init => IInv
<1> SUFFICES ASSUME Init
             PROVE  IInv
  OBVIOUS
<1>1. running \in BOOLEAN /\ gpg21 \in BOOLEAN /\ picked \in BOOLEAN
  BY DEF Init
<1>2. keyring \in Seq(Keys)
  <2> DEFINE n == Cardinality(Keys)
  <2>1. n \in Nat /\ IsFiniteSet(Keys)
    BY KeysAssumption, FS_CardinalityType
  <2>2. \E f : f \in Bijection(1 .. n, Keys)
    BY <2>1, FS_CardinalityType DEF ExistsBijection
  <2>3. PICK f : f \in Bijection(1 .. n, Keys)
    BY <2>2
  <2>4. f \in [1 .. n -> Keys] /\ IsInjective(f)
    BY <2>3 DEF Bijection, Injection, IsInjective
  <2>5. SetToSeq(Keys) \in [1 .. n -> Keys]
    BY <2>4 DEF SetToSeq
  <2> HIDE DEF n
  <2>6. SetToSeq(Keys) \in Seq(Keys)
    BY <2>1, <2>5
  <2> QED BY <2>6 DEF Init
<1>3. ConfHolds(gpg_conf)
  <2>1. gpg_conf \in FirstConf /\ gpg_conf \in [Options -> Value]
    BY InputsAssumption DEF Init
  <2>2. \A o \in Options : PlainInputs(o) => Plain(o, gpg_conf[o])
    BY <2>1 DEF PlainInputs
  <2> QED BY <2>1, <2>2, PlainShown DEF ConfHolds
<1>4. Remembered(options, gpa_conf, wanted, running)
  <2>1. options \in OptionsRecord
    BY KnownTexts DEF Init, NoOptions, OptionsRecord, SomeKey
  <2>2. gpa_conf \in FileRecord
    BY DEF Init, FileRecord, SomeKey, Flags
  <2>3. wanted = [flags |-> gpa_conf.flags, key |-> gpa_conf.key, written |-> TRUE]
    BY DEF Init
  <2>4. wanted \in WantedRecord
    BY <2>2, <2>3 DEF FileRecord, WantedRecord
  <2>5. running = FALSE
    BY DEF Init
  <2> QED BY <2>1, <2>2, <2>3, <2>4, <2>5 DEF Remembered
<1>5. SettingsHolds(settings, picked)
  BY ClosedSettingsHolds DEF Init
<1>6. BackendHolds(backend, touched)
  BY ClosedBackendHolds DEF Init
<1> QED BY <1>1, <1>2, <1>3, <1>4, <1>5, <1>6 DEF IInv

-----------------------------------------------------------------------------
(* What the program remembers.                                             *)

\* What the setters make of the options, and what a save remembers.
LEMMA SettersType ==
  ASSUME NEW opts \in OptionsRecord, gpg21 \in BOOLEAN
  PROVE  /\ \A key \in SomeKey : gpa_options_set_default_key(opts, key) \in OptionsRecord
         /\ \A url \in Words : gpa_options_set_default_keyserver(opts, url) \in OptionsRecord
         /\ opts.keyserver \in Words
<1>1. \A key \in SomeKey : gpa_options_set_default_key(opts, key) \in OptionsRecord
  BY DEF gpa_options_set_default_key, OptionsRecord
<1>2. \A url \in Words : gpa_options_set_default_keyserver(opts, url) \in OptionsRecord
  BY DEF gpa_options_set_default_keyserver, OptionsRecord
<1> QED BY <1>1, <1>2 DEF OptionsRecord

\* What is written to gpa.conf has the flags and the default key.
LEMMA WrittenType ==
  ASSUME NEW opts \in OptionsRecord
  PROVE  /\ Written(opts) \in FileRecord
         /\ Written(opts).flags = opts.flags
         /\ Written(opts).key = opts.default_key
  BY DEF Written, OptionsRecord, FileRecord

\* After a save gpa.conf has what is wanted, unless it could not be written.
LEMMA SaveRemembers ==
  ASSUME NEW opts \in OptionsRecord, NEW broken \in BOOLEAN, gpa_conf \in FileRecord,
         gpa_options_save_settings(opts, broken), NowWanted(opts, broken)
  PROVE  Remembered(options', gpa_conf', wanted', TRUE)
<1> DEFINE want == [flags |-> opts.flags, key |-> opts.default_key, written |-> ~broken]
<1>1. options' = opts /\ wanted' = want
  BY DEF gpa_options_save_settings, NowWanted
<1>2. gpa_conf' = IF broken THEN gpa_conf ELSE Written(opts)
  BY DEF gpa_options_save_settings
<1>3. want \in WantedRecord /\ want.flags = opts.flags /\ want.key = opts.default_key /\ (want.written <=> ~broken)
  BY DEF WantedRecord, OptionsRecord
<1> HIDE DEF want
<1>4. gpa_conf' \in FileRecord
  BY <1>2, WrittenType
<1>5. ~broken => gpa_conf'.flags = opts.flags /\ gpa_conf'.key = opts.default_key
  BY <1>2, WrittenType
<1> QED BY <1>1, <1>3, <1>4, <1>5 DEF Remembered

\* What is remembered outlives the program.
LEMMA StoppedRemembers ==
  ASSUME NEW opts, NEW file, NEW want, NEW run, Remembered(opts, file, want, run)
  PROVE  Remembered(NoOptions, file, want, FALSE)
<1>1. NoOptions \in OptionsRecord
  BY KnownTexts DEF NoOptions, OptionsRecord, SomeKey
<1> QED BY <1>1 DEF Remembered

\* The list of keyservers is never empty and has words only.
LEMMA ServersType == Head(Servers) \in Words /\ ToSet(Servers) \subseteq Words
<1>1. Servers = BuiltIn /\ BuiltIn \in Seq(Words) /\ BuiltIn # <<>>
  BY InputsAssumption DEF Servers, keyserver_read_list, read_list, Text
<1> QED BY <1>1 DEF ToSet

\* The keyserver read from gpgconf is a word.
LEMMA LoadedServer ==
  ASSUME ConfHolds(gpg_conf), NEW failed
  PROVE  gpa_load_configured_keyserver(failed) \in Words
<1> DEFINE text == gpa_load_gpgconf_string(gpg_conf, "keyserver", failed)
<1>1. "keyserver" \in Options
  BY OptionAssumption
<1>2. text \in Text
  BY <1>1, LoadedText
<1>3. gpa_load_configured_keyserver(failed) = IF text = NoText THEN NoServer ELSE text[1]
  BY DEF gpa_load_configured_keyserver
<1> HIDE DEF text
<1>4. text # NoText => text[1] \in Words
  BY <1>2 DEF Text, NoText
<1> QED BY <1>3, <1>4, KnownTexts

\* What is read at the start.
LEMMA ReadSettingsType ==
  ASSUME IInv, NEW failed
  PROVE  gpa_options_read_settings(failed) \in OptionsRecord
<1>1. gpa_conf \in FileRecord /\ ConfHolds(gpg_conf) /\ gpg21 \in BOOLEAN
  BY DEF IInv, Remembered
<1> DEFINE server == IF gpg21 THEN NoServer ELSE gpa_load_configured_keyserver(failed)
<1>2. server \in Words
  BY <1>1, LoadedServer, KnownTexts
<1>3. gpa_options_read_settings(failed) = [flags |-> gpa_conf.flags, default_key |-> NoKey, fpr |-> gpa_conf.key, keyserver |-> server]
  BY DEF gpa_options_read_settings
<1> HIDE DEF server
<1> QED BY <1>1, <1>2, <1>3 DEF OptionsRecord, FileRecord, SomeKey

\* The keyserver an older gpg gets changes nothing else.
LEMMA StartWithType ==
  ASSUME NEW opts \in OptionsRecord, gpg21 \in BOOLEAN
  PROVE  /\ StartWith(opts) \in OptionsRecord
         /\ StartWith(opts).flags = opts.flags
         /\ StartWith(opts).default_key = opts.default_key
         /\ StartWith(opts).fpr = opts.fpr
         /\ NeedsServer(opts) \/ StartWith(opts) = opts
<1> DEFINE served == gpa_options_set_default_keyserver(opts, Head(Servers))
<1>1. served \in OptionsRecord
  BY SettersType, ServersType
<1>2. served.flags = opts.flags /\ served.default_key = opts.default_key /\ served.fpr = opts.fpr
  BY DEF gpa_options_set_default_keyserver, OptionsRecord
<1> HIDE DEF served
<1>3. StartWith(opts) = IF NeedsServer(opts) THEN served ELSE opts
  BY DEF StartWith, served
<1> QED BY <1>1, <1>2, <1>3

\* The key gpg would use, if there is one, is a secret key.
LEMMA KeyType ==
  ASSUME keyring \in Seq(Keys)
  PROVE  determine_default_key \in SomeKey /\ ~Contains(keyring, NoKey)
<1>1. determine_default_key \in SomeKey
  BY DEF determine_default_key, SomeKey
<1>2. \A i \in 1 .. Len(keyring) : keyring[i] \in Keys
  OBVIOUS
<1> QED BY <1>1, <1>2, KeysAssumption DEF Contains

\* main: what was wanted is what is in memory, and in the file unless it is broken.
LEMMA MainRemembers ==
  ASSUME IInv, NEW broken \in BOOLEAN, NEW failed, main(broken, failed)
  PROVE  Remembered(options', gpa_conf', wanted', TRUE) /\ ConfHolds(gpg_conf')
<1> DEFINE read == gpa_options_read_settings(failed)
<1> DEFINE keyed == IF MustDetermine(read) THEN gpa_options_set_default_key(read, determine_default_key)
                    ELSE [read EXCEPT !.default_key = read.fpr]
<1> DEFINE opts == StartWith(keyed)
<1> DEFINE saved == MustDetermine(read) \/ NeedsServer(keyed)
<1>1. /\ broken => saved
      /\ IF saved THEN gpa_options_save_settings(opts, broken) /\ gpg_conf' = KeyserverStored(gpg_conf, opts)
                  ELSE options' = opts /\ UNCHANGED <<gpa_conf, gpg_conf>>
      /\ wanted' = IF wanted.written
                   THEN [flags |-> wanted.flags, key |-> WantedKey, written |-> ~broken]
                   ELSE [flags |-> opts.flags, key |-> opts.default_key, written |-> ~broken]
  BY DEF main
<1>2. /\ gpa_conf \in FileRecord /\ wanted \in WantedRecord /\ gpg21 \in BOOLEAN /\ keyring \in Seq(Keys)
      /\ ConfHolds(gpg_conf)
      /\ wanted.written => gpa_conf.flags = wanted.flags /\ gpa_conf.key = wanted.key
  BY DEF IInv, Remembered
<1>3. read \in OptionsRecord
  BY ReadSettingsType
<1>4. read.flags = gpa_conf.flags /\ read.fpr = gpa_conf.key
  BY DEF gpa_options_read_settings
<1>5. determine_default_key \in SomeKey /\ ~Contains(keyring, NoKey)
  BY <1>2, KeyType
<1> HIDE DEF read
<1>6. keyed \in OptionsRecord /\ keyed.flags = read.flags
      /\ keyed.default_key = IF MustDetermine(read) THEN determine_default_key ELSE read.fpr
  BY <1>3, <1>5, SettersType DEF gpa_options_set_default_key, OptionsRecord
<1> HIDE DEF keyed
<1>7. opts \in OptionsRecord /\ opts.flags = gpa_conf.flags /\ opts.keyserver \in Words
      /\ opts.default_key = IF MustDetermine(read) THEN determine_default_key ELSE gpa_conf.key
  BY <1>2, <1>4, <1>6, StartWithType, SettersType
<1> HIDE DEF opts
<1>8. MustDetermine(read) <=> gpa_conf.key = NoKey \/ ~Contains(keyring, gpa_conf.key)
  BY <1>4 DEF MustDetermine
<1>9. wanted.written => wanted.flags = opts.flags /\ WantedKey = opts.default_key
  BY <1>2, <1>5, <1>7, <1>8 DEF WantedKey
<1>10. wanted' = [flags |-> opts.flags, key |-> opts.default_key, written |-> ~broken]
  BY <1>1, <1>9
<1>11. CASE saved
  <2>1. gpa_options_save_settings(opts, broken) /\ NowWanted(opts, broken) /\ gpg_conf' = KeyserverStored(gpg_conf, opts)
    BY <1>1, <1>10, <1>11 DEF NowWanted
  <2> QED BY <1>2, <1>7, <2>1, SaveRemembers, KeyserverStoredHolds
<1>12. CASE ~saved
  <2>1. options' = opts /\ gpa_conf' = gpa_conf /\ gpg_conf' = gpg_conf /\ broken = FALSE
    BY <1>1, <1>12
  <2>2. opts.default_key = gpa_conf.key
    BY <1>7, <1>12
  <2> DEFINE want == [flags |-> opts.flags, key |-> opts.default_key, written |-> ~broken]
  <2>3. want \in WantedRecord /\ want.flags = opts.flags /\ want.key = opts.default_key
    BY <1>7 DEF WantedRecord, OptionsRecord
  <2>4. wanted' = want
    BY <1>10
  <2> HIDE DEF want
  <2> QED BY <1>2, <1>7, <2>1, <2>2, <2>3, <2>4 DEF Remembered
<1> QED BY <1>11, <1>12

-----------------------------------------------------------------------------
(* The steps.                                                              *)

\* The start of the program, with its failures.
LEMMA StartInv == ASSUME IInv, Start PROVE IInv'
<1>1. gpg21' = gpg21 /\ keyring' = keyring
  BY DEF Start
<1>2. CASE \E broken, failed \in BOOLEAN : main(broken, failed)
  <2>1. PICK broken \in BOOLEAN, failed \in BOOLEAN : main(broken, failed)
    BY <1>2
  <2>2. running' = TRUE /\ UNCHANGED <<settings, backend, touched, picked>>
    BY <2>1 DEF main
  <2>3. Remembered(options', gpa_conf', wanted', TRUE) /\ ConfHolds(gpg_conf')
    BY <2>1, MainRemembers
  <2> QED BY <1>1, <2>2, <2>3 DEF IInv
<1>3. CASE \E failed \in BOOLEAN : KeyLookupFails(failed)
  <2> PICK failed \in BOOLEAN : KeyLookupFails(failed)
    BY <1>3
  <2> DEFINE opts == StartWith(gpa_options_read_settings(failed))
  <2>1. /\ running' = TRUE
        /\ options' = opts
        /\ IF NeedsServer(gpa_options_read_settings(failed))
           THEN gpa_conf' = Written(opts) /\ gpg_conf' = KeyserverStored(gpg_conf, opts)
           ELSE UNCHANGED <<gpa_conf, gpg_conf>>
        /\ wanted' = [wanted EXCEPT !.written = FALSE]
        /\ UNCHANGED <<settings, backend, touched, picked>>
    BY DEF KeyLookupFails
  <2>2. opts \in OptionsRecord /\ opts.keyserver \in Words
    BY ReadSettingsType, StartWithType, SettersType DEF IInv
  <2> HIDE DEF opts
  <2>3. gpa_conf \in FileRecord /\ wanted \in WantedRecord /\ ConfHolds(gpg_conf)
    BY DEF IInv, Remembered
  <2>4. gpa_conf' \in FileRecord
    BY <2>1, <2>2, <2>3, WrittenType
  <2>5. ConfHolds(gpg_conf')
    BY <2>1, <2>2, <2>3, KeyserverStoredHolds
  <2>6. wanted' \in WantedRecord /\ wanted'.written = FALSE
    BY <2>1, <2>3 DEF WantedRecord
  <2>7. Remembered(options', gpa_conf', wanted', TRUE)
    BY <2>1, <2>2, <2>4, <2>6 DEF Remembered
  <2> QED BY <1>1, <2>1, <2>5, <2>7 DEF IInv
<1>4. CASE StartFails
  BY <1>1, <1>4 DEF StartFails, IInv
<1> QED BY <1>2, <1>3, <1>4 DEF Start

\* The end of the program.
LEMMA EndedInv ==
  ASSUME IInv, Ended, gpg21' = gpg21, keyring' \in Seq(Keys), ConfHolds(gpg_conf'), NEW opts, NEW run,
         Remembered(opts, gpa_conf', wanted', run)
  PROVE  IInv'
<1>1. running' = FALSE /\ options' = NoOptions /\ settings' = ClosedSettings /\ backend' = ClosedBackend
      /\ touched' = {} /\ picked' = FALSE
  BY DEF Ended
<1>2. Remembered(NoOptions, gpa_conf', wanted', FALSE)
  BY StoppedRemembers
<1> QED BY <1>1, <1>2, ClosedSettingsHolds, ClosedBackendHolds DEF IInv

\* The program ends.
LEMMA QuitInv == ASSUME IInv, Quit PROVE IInv'
<1>1. Ended /\ gpg21' = gpg21 /\ keyring' = keyring /\ gpg_conf' = gpg_conf /\ gpa_conf' = gpa_conf /\ wanted' = wanted
  BY DEF Quit, files
<1>2. Remembered(options, gpa_conf', wanted', running)
  BY <1>1 DEF IInv
<1> QED BY <1>1, <1>2, EndedInv DEF IInv

\* A secret key is deleted behind the program.
LEMMA KeyDeletedInv == ASSUME IInv, KeyDeleted PROVE IInv'
<1>1. UNCHANGED <<running, gpg21, gpg_conf, gpa_conf, options, settings, backend, touched, picked, wanted>>
  BY DEF KeyDeleted
<1>2. keyring' \in Seq(Keys)
  <2>1. keyring \in Seq(Keys)
    BY DEF IInv
  <2>2. PICK i \in DOMAIN keyring : keyring' = RemoveAt(keyring, i)
    BY DEF KeyDeleted
  <2>3. i \in 1 .. Len(keyring) /\ Len(keyring) \in Nat /\ \A j \in 1 .. Len(keyring) : keyring[j] \in Keys
    BY <2>1, <2>2
  <2>4. SubSeq(keyring, 1, i - 1) \in Seq(Keys)
    BY <2>1, <2>3, SubSeqProperties
  <2>5. SubSeq(keyring, i + 1, Len(keyring)) \in Seq(Keys)
    BY <2>1, <2>3, SubSeqProperties
  <2> QED BY <2>2, <2>4, <2>5, ConcatProperties DEF RemoveAt
<1> QED BY <1>1, <1>2 DEF IInv

\* The settings dialog is opened.
LEMMA SettingsNewInv == ASSUME IInv, settings_dlg_new PROVE IInv'
<1>1. PICK failed \in BOOLEAN : settings' = load_settings(ClosedSettings, gpg_conf, failed)
  BY DEF settings_dlg_new, settings_dlg_constructor
<1>2. picked' = FALSE /\ UNCHANGED <<running, gpg21, files, options, backend, touched, wanted>>
  BY DEF settings_dlg_new
<1>3. ClosedSettings \in SettingsRecord(ClosedSettings.addr) /\ ConfHolds(gpg_conf)
  BY ClosedSettingsHolds DEF SettingsHolds, IInv
<1>4. SettingsHolds(load_settings(ClosedSettings, gpg_conf, failed), FALSE)
  BY <1>3, LoadHolds
<1> QED BY <1>1, <1>2, <1>4 DEF IInv, files

\* A save of the options, with what follows in the dialogs.
LEMMA SavedInv ==
  ASSUME IInv, NEW opts \in OptionsRecord, NEW broken \in BOOLEAN, running = TRUE, running' = running,
         gpa_options_save_settings(opts, broken), NowWanted(opts, broken),
         UNCHANGED <<gpg21, keyring, backend, touched>>, ConfHolds(gpg_conf'), picked' \in BOOLEAN,
         SettingsHolds(settings', picked')
  PROVE  IInv'
<1>1. gpa_conf \in FileRecord
  BY DEF IInv, Remembered
<1>2. Remembered(options', gpa_conf', wanted', TRUE)
  BY <1>1, SaveRemembers
<1> QED BY <1>2 DEF IInv

\* A flag is toggled or set.
LEMMA FlagsType ==
  ASSUME NEW opts \in OptionsRecord
  PROVE  /\ \A flag \in Flags : [opts EXCEPT !.flags = SymDiff(@, {flag})] \in OptionsRecord
         /\ \A flag \in Flags : [opts EXCEPT !.flags = @ \cup {flag}] \in OptionsRecord
  BY DEF OptionsRecord, SymDiff

\* A check button of the settings dialog saves at once.
LEMMA AdvancedInv == ASSUME IInv, advanced_mode_toggled PROVE IInv'
<1>1. PICK flag \in {"advanced-ui", "show-advanced-options"}, broken \in BOOLEAN :
        LET opts == [options EXCEPT !.flags = SymDiff(@, {flag})]
        IN /\ gpa_options_save_settings(opts, broken)
           /\ NowWanted(opts, broken)
           /\ gpg_conf' = KeyserverStored(gpg_conf, opts)
  BY DEF advanced_mode_toggled
<1>2. UNCHANGED <<running, gpg21, keyring, settings, backend, touched, picked>> /\ running = TRUE
  BY DEF advanced_mode_toggled, Edit, IInv
<1> DEFINE opts == [options EXCEPT !.flags = SymDiff(@, {flag})]
<1>3. opts \in OptionsRecord
  BY FlagsType DEF IInv, Remembered, Flags
<1>4. gpa_options_save_settings(opts, broken) /\ NowWanted(opts, broken) /\ gpg_conf' = KeyserverStored(gpg_conf, opts)
  BY <1>1
<1> HIDE DEF opts
<1>5. ConfHolds(gpg_conf')
  BY <1>3, <1>4, KeyserverStoredHolds, SettersType DEF IInv
<1>6. picked' \in BOOLEAN /\ SettingsHolds(settings', picked')
  BY <1>2 DEF IInv
<1> QED BY <1>2, <1>3, <1>4, <1>5, <1>6, SavedInv

\* A backup is remembered.
LEMMA BackupInv == ASSUME IInv, gpa_options_set_backup_generated PROVE IInv'
<1>1. PICK broken \in BOOLEAN :
        LET opts == [options EXCEPT !.flags = @ \cup {"backup-generated"}]
        IN /\ gpa_options_save_settings(opts, broken)
           /\ NowWanted(opts, broken)
           /\ gpg_conf' = KeyserverStored(gpg_conf, opts)
  BY DEF gpa_options_set_backup_generated
<1>2. UNCHANGED <<running, gpg21, keyring, settings, backend, touched, picked>> /\ running = TRUE
  BY DEF gpa_options_set_backup_generated, Edit, IInv
<1> DEFINE opts == [options EXCEPT !.flags = @ \cup {"backup-generated"}]
<1>3. opts \in OptionsRecord
  BY FlagsType DEF IInv, Remembered, Flags
<1>4. gpa_options_save_settings(opts, broken) /\ NowWanted(opts, broken) /\ gpg_conf' = KeyserverStored(gpg_conf, opts)
  BY <1>1
<1> HIDE DEF opts
<1>5. ConfHolds(gpg_conf')
  BY <1>3, <1>4, KeyserverStoredHolds, SettersType DEF IInv
<1>6. picked' \in BOOLEAN /\ SettingsHolds(settings', picked')
  BY <1>2 DEF IInv
<1> QED BY <1>2, <1>3, <1>4, <1>5, <1>6, SavedInv

\* A widget of the settings dialog.
LEMMA ChangeInv ==
  ASSUME IInv, NEW dlg, dlg \in SettingsRecord(dlg.addr), Change(dlg), dlg.open = settings.open,
         picked' \in BOOLEAN, picked' = TRUE \/ dlg.method = ShownRow(dlg.words)
  PROVE  IInv'
<1>1. settings.open /\ settings' = [dlg EXCEPT !.modified = TRUE]
      /\ UNCHANGED <<running, gpg21, files, options, backend, touched, wanted>>
  BY DEF Change
<1> DEFINE c == [dlg EXCEPT !.modified = TRUE]
<1>2. c \in SettingsRecord(c.addr) /\ c.open = dlg.open /\ c.words = dlg.words /\ c.method = dlg.method
  BY DEF SettingsRecord
<1> HIDE DEF c
<1>3. SettingsHolds(c, picked')
  BY <1>1, <1>2 DEF SettingsHolds
<1>4. settings' = c
  BY <1>1 DEF c
<1> QED BY <1>1, <1>3, <1>4 DEF IInv, files

\* The default key is selected.
LEMMA KeySelectedInv == ASSUME IInv, key_selected_cb PROVE IInv'
<1>1. PICK k \in ToSet(keyring) \cup {NoKey} : Change([settings EXCEPT !.key = k])
  BY DEF key_selected_cb
<1>2. k \in SomeKey
  BY DEF IInv, ToSet, SomeKey
<1> DEFINE dlg == [settings EXCEPT !.key = k]
<1>3. settings \in SettingsRecord(settings.addr) /\ (picked = TRUE \/ settings.method = ShownRow(settings.words))
  BY DEF IInv, SettingsHolds
<1>4. dlg \in SettingsRecord(dlg.addr) /\ dlg.open = settings.open /\ dlg.words = settings.words /\ dlg.method = settings.method
  BY <1>2, <1>3 DEF SettingsRecord
<1>5. Change(dlg)
  BY <1>1
<1> HIDE DEF dlg
<1>6. picked' = picked /\ picked' \in BOOLEAN
  BY DEF key_selected_cb, IInv
<1> QED BY <1>3, <1>4, <1>5, <1>6, ChangeInv

\* A keyserver is selected.
LEMMA ServerSelectedInv == ASSUME IInv, keyserver_selected_from_list_cb PROVE IInv'
<1>1. PICK url \in ToSet(Servers) : Change([settings EXCEPT !.url = url])
  BY DEF keyserver_selected_from_list_cb
<1>2. url \in Words
  BY ServersType
<1> DEFINE dlg == [settings EXCEPT !.url = url]
<1>3. settings \in SettingsRecord(settings.addr) /\ (picked = TRUE \/ settings.method = ShownRow(settings.words))
  BY DEF IInv, SettingsHolds
<1>4. dlg \in SettingsRecord(dlg.addr) /\ dlg.open = settings.open /\ dlg.words = settings.words /\ dlg.method = settings.method
  BY <1>2, <1>3 DEF SettingsRecord
<1>5. Change(dlg)
  BY <1>1
<1> HIDE DEF dlg
<1>6. picked' = picked /\ picked' \in BOOLEAN
  BY DEF keyserver_selected_from_list_cb, IInv
<1> QED BY <1>3, <1>4, <1>5, <1>6, ChangeInv

\* A method is picked, which is what CustomLocateIsKept asks for.
LEMMA MethodChangedInv == ASSUME IInv, akl_method_changed_cb PROVE IInv'
<1>1. PICK m \in (MethodRows \cap Picks) \ {settings.method} : Change([settings EXCEPT !.method = m])
  BY DEF akl_method_changed_cb
<1> DEFINE dlg == [settings EXCEPT !.method = m]
<1>3. settings \in SettingsRecord(settings.addr) /\ gpg21
  BY DEF IInv, SettingsHolds, akl_method_changed_cb
<1>4. dlg \in SettingsRecord(dlg.addr) /\ dlg.open = settings.open
  BY <1>3 DEF SettingsRecord
<1>5. Change(dlg)
  BY <1>1
<1> HIDE DEF dlg
<1>6. picked' = TRUE
  BY DEF akl_method_changed_cb
<1> QED BY <1>3, <1>4, <1>5, <1>6, ChangeInv

\* The address of the kDNS server is changed.
LEMMA AddrChangedInv == ASSUME IInv, akl_addr_changed_cb PROVE IInv'
<1>1. PICK a \in Addresses : Change([settings EXCEPT !.addr = a])
  BY DEF akl_addr_changed_cb
<1> DEFINE dlg == [settings EXCEPT !.addr = a]
<1>3. settings \in SettingsRecord(settings.addr) /\ gpg21
  BY DEF IInv, SettingsHolds, akl_addr_changed_cb
<1>4. dlg \in SettingsRecord(dlg.addr) /\ dlg.open = settings.open
  BY <1>3 DEF SettingsRecord
<1>5. Change(dlg)
  BY <1>1
<1> HIDE DEF dlg
<1>6. picked' = TRUE
  BY DEF akl_addr_changed_cb
<1> QED BY <1>3, <1>4, <1>5, <1>6, ChangeInv

\* What the settings dialog saves.
LEMMA SettingsOptions ==
  ASSUME IInv, NEW opts,
         opts = gpa_options_set_default_keyserver(gpa_options_set_default_key(options, settings.key), settings.url)
  PROVE  opts \in OptionsRecord /\ opts.keyserver \in Words
<1>1. options \in OptionsRecord /\ settings.key \in SomeKey /\ settings.url \in Words /\ gpg21 \in BOOLEAN
  BY DEF IInv, Remembered, SettingsHolds, SettingsRecord
<1>2. gpa_options_set_default_key(options, settings.key) \in OptionsRecord
  BY <1>1, SettersType
<1>3. opts \in OptionsRecord
  BY <1>1, <1>2, SettersType
<1> QED BY <1>1, <1>3, SettersType

\* What gpgconf has after a save of the settings is shown.
LEMMA SavedConf ==
  ASSUME IInv, NEW broken \in BOOLEAN, NEW failed, NEW done, save_settings(broken, failed, done)
  PROVE  ConfHolds(gpg_conf')
<1> DEFINE opts == gpa_options_set_default_keyserver(gpa_options_set_default_key(options, settings.key), settings.url)
<1>1. gpg_conf' = StoredMethods(KeyserverStored(gpg_conf, opts)) /\ check_akl
  BY DEF save_settings
<1>2. opts \in OptionsRecord /\ opts.keyserver \in Words
  BY SettingsOptions
<1> HIDE DEF opts
<1>3. ConfHolds(KeyserverStored(gpg_conf, opts))
  BY <1>2, KeyserverStoredHolds DEF IInv
<1>4. settings.method \in MethodRows /\ gpg21 \in BOOLEAN
  BY DEF IInv, SettingsHolds, SettingsRecord
<1> QED BY <1>1, <1>3, <1>4, StoredMethodsHolds

\* The settings dialog saves the options, then GnuPG's methods.
LEMMA SaveSettingsInv ==
  ASSUME IInv, NEW broken \in BOOLEAN, NEW failed, NEW done, save_settings(broken, failed, done), running = TRUE,
         running' = running, UNCHANGED <<gpg21, keyring, backend, touched>>, picked' = FALSE,
         SettingsHolds(done, FALSE)
  PROVE  IInv'
<1> DEFINE opts == gpa_options_set_default_keyserver(gpa_options_set_default_key(options, settings.key), settings.url)
<1>1. /\ gpa_options_save_settings(opts, broken)
      /\ NowWanted(opts, broken)
      /\ settings' = done
  BY DEF save_settings
<1>2. opts \in OptionsRecord
  BY SettingsOptions
<1> HIDE DEF opts
<1>3. ConfHolds(gpg_conf')
  BY SavedConf
<1> QED BY <1>1, <1>2, <1>3, SavedInv

\* "OK" saves and closes.
LEMMA OkInv == ASSUME IInv, dialog_response_ok PROVE IInv'
<1>1. UNCHANGED <<running, gpg21, keyring, backend, touched>> /\ running = TRUE /\ picked' = FALSE
  BY DEF dialog_response_ok, Response, Edit, IInv
<1>2. SettingsHolds(ClosedSettings, FALSE)
  BY ClosedSettingsHolds
<1>3. CASE \E broken \in BOOLEAN : save_settings(broken, FALSE, ClosedSettings)
  BY <1>1, <1>2, <1>3, SaveSettingsInv
<1>4. CASE ~settings.modified /\ settings' = ClosedSettings /\ UNCHANGED <<gpg_conf, gpa_conf, options, wanted, failures>>
  BY <1>1, <1>2, <1>4 DEF IInv
<1> QED BY <1>3, <1>4 DEF dialog_response_ok

\* "Apply" saves and loads again.
LEMMA ApplySettingsInv == ASSUME IInv, dialog_response_apply_settings PROVE IInv'
<1>1. UNCHANGED <<running, gpg21, keyring, backend, touched>> /\ running = TRUE /\ picked' = FALSE
  BY DEF dialog_response_apply_settings, Response, Edit, IInv
<1>2. settings \in SettingsRecord(settings.addr)
  BY DEF IInv, SettingsHolds
<1>3. PICK broken \in BOOLEAN, failed \in BOOLEAN :
        save_settings(broken, failed, load_settings(settings, gpg_conf', failed))
  BY DEF dialog_response_apply_settings
<1>4. ConfHolds(gpg_conf')
  BY <1>3, SavedConf
<1>5. SettingsHolds(load_settings(settings, gpg_conf', failed), FALSE)
  BY <1>2, <1>4, LoadHolds
<1> QED BY <1>1, <1>3, <1>5, SaveSettingsInv

\* "Cancel" closes.
LEMMA CancelInv == ASSUME IInv, dialog_response_cancel PROVE IInv'
<1>1. settings' = ClosedSettings /\ picked' = FALSE /\ UNCHANGED <<running, gpg21, files, options, backend, touched, wanted>>
  BY DEF dialog_response_cancel
<1> QED BY <1>1, ClosedSettingsHolds DEF IInv, files

\* gpgconf fails after the options were saved, and the program ends.
LEMMA StoreFailsInv == ASSUME IInv, StoreFails PROVE IInv'
<1> DEFINE opts == gpa_options_set_default_keyserver(gpa_options_set_default_key(options, settings.key), settings.url)
<1> DEFINE want == [flags |-> opts.flags, key |-> opts.default_key, written |-> TRUE]
<1>1. Ended /\ UNCHANGED <<gpg21, keyring, gpg_conf>> /\ gpa_conf' = Written(opts) /\ wanted' = want
  BY DEF StoreFails
<1>2. opts \in OptionsRecord
  BY SettingsOptions
<1> HIDE DEF opts
<1>3. want \in WantedRecord /\ want.flags = opts.flags /\ want.key = opts.default_key
  BY <1>2 DEF WantedRecord, OptionsRecord
<1> HIDE DEF want
<1>4. Remembered(opts, gpa_conf', wanted', TRUE)
  BY <1>1, <1>2, <1>3, WrittenType DEF Remembered
<1>5. ConfHolds(gpg_conf') /\ keyring' \in Seq(Keys)
  BY <1>1 DEF IInv
<1> QED BY <1>1, <1>4, <1>5, EndedInv

\* create_dialog_tabs: what BackendHolds needs, whether gpgconf answers or not.
LEMMA CreateTabsHold ==
  ASSUME NEW dlg, NEW conf, NEW failed \in BOOLEAN, NEW b, NEW edited,
         dlg \in BackendRecord(dlg.widgets), dlg.open = TRUE, ConfHolds(conf), BackendHolds(dlg, touched),
         create_dialog_tabs(dlg, conf, failed), b = backend', edited = touched'
  PROVE  BackendHolds(b, edited)
<1>1. CASE failed
  BY <1>1 DEF create_dialog_tabs
<1>2. CASE ~failed
  <2>1. b = [dlg EXCEPT !.modified = FALSE, !.loaded = conf, !.widgets = Tabs(dlg.level, conf)] /\ edited = {}
    BY <1>2 DEF create_dialog_tabs
  <2> QED BY <2>1, TabsHold
<1> QED BY <1>1, <1>2

\* The dialog with another level, before its tabs are made.
LEMMA LevelHolds ==
  ASSUME NEW b, NEW edited, BackendHolds(b, edited), b.open, NEW level \in Nat, NEW c,
         c = [b EXCEPT !.level = level]
  PROVE  BackendHolds(c, edited) /\ c \in BackendRecord(c.widgets) /\ c.open = TRUE
<1>1. b \in BackendRecord(b.widgets)
  BY DEF BackendHolds
<1>2. c \in BackendRecord(c.widgets) /\ c.open = TRUE /\ c.widgets = b.widgets /\ c.loaded = b.loaded
  BY <1>1 DEF BackendRecord
<1> QED BY <1>2 DEF BackendHolds

\* The dialog for the options of GnuPG is opened.
LEMMA CreateInv == ASSUME IInv, create_dialog PROVE IInv'
<1> DEFINE level == IF "advanced-ui" \in options.flags THEN 1 ELSE 0
<1> DEFINE dlg == [ClosedBackend EXCEPT !.open = TRUE, !.level = level]
<1>1. PICK failed \in BOOLEAN : create_dialog_tabs(dlg, gpg_conf, failed)
  BY DEF create_dialog
<1>2. UNCHANGED <<running, gpg21, files, options, settings, picked, wanted>> /\ ~backend.open
  BY DEF create_dialog
<1>3. BackendHolds(backend, touched) /\ backend = ClosedBackend /\ ConfHolds(gpg_conf)
  BY <1>2 DEF IInv, BackendHolds
<1>4. dlg \in BackendRecord(dlg.widgets) /\ dlg.open = TRUE /\ dlg.widgets = ClosedBackend.widgets /\ dlg.loaded = ClosedBackend.loaded
  BY DEF ClosedBackend, BackendRecord
<1> HIDE DEF dlg
<1>5. BackendHolds(dlg, touched)
  BY <1>3, <1>4 DEF BackendHolds
<1>6. BackendHolds(backend', touched')
  BY <1>1, <1>3, <1>4, <1>5, CreateTabsHold
<1> QED BY <1>2, <1>6 DEF IInv, files

\* One widget is changed.
LEMMA TouchInv ==
  ASSUME IInv, backend.open, NEW o \in DOMAIN backend.widgets, NEW w, Touch(o, w), WidgetHolds(o, w, backend.loaded[o]),
         UNCHANGED <<running, gpg21, files, options, settings, picked, wanted>>
  PROVE  IInv'
<1> DEFINE c == [backend EXCEPT !.modified = TRUE, !.widgets = [@ EXCEPT ![o] = w]]
<1>1. backend' = c /\ touched' = touched \cup {o}
  BY DEF Touch
<1>2. BackendHolds(backend, touched)
  BY DEF IInv
<1>3. BackendHolds(c, touched \cup {o})
  BY <1>2, TouchHolds
<1> HIDE DEF c
<1> QED BY <1>1, <1>3 DEF IInv, files

\* The user edits a widget of any kind.
LEMMA EditInv == ASSUME IInv, EditOption PROVE IInv'
<1>1. PICK o \in DOMAIN backend.widgets :
        \/ option_checkbutton_toggled(o)
        \/ SpinChanged(o)
        \/ option_combobox_changed(o)
        \/ EntryEdited(o)
  BY DEF EditOption
<1>2. backend.open /\ UNCHANGED <<running, gpg21, files, options, settings, picked, wanted>>
  BY DEF EditOption
<1> DEFINE w == backend.widgets[o]
<1> DEFINE v == backend.loaded[o]
<1>3. o \in Options /\ v \in Value /\ WidgetHolds(o, w, v)
  BY LoadedType DEF IInv
<1>4. w \in Widget /\ WidgetFits(o, w) /\ (PlainInputs(o) => Shown(o, v))
  BY <1>3 DEF WidgetHolds
<1>5. CASE option_checkbutton_toggled(o)
  <2> DEFINE u == [w EXCEPT !.combo = IF @ = "on" THEN "off" ELSE "on"]
  <2>1. toggle(o) /\ Touch(o, u)
    BY <1>5 DEF option_checkbutton_toggled
  <2>2. u \in Widget /\ u.combo \in {"on", "off"} /\ u.saved = w.saved
    BY <1>4 DEF Widget
  <2> HIDE DEF u
  <2>3. WidgetHolds(o, u, v)
    BY <1>4, <2>1, <2>2 DEF WidgetHolds, WidgetFits
  <2> QED BY <1>2, <2>1, <2>3, TouchInv
<1>6. CASE SpinChanged(o)
  <2> DEFINE u == [w EXCEPT !.text = IF @ = FirstCount THEN <<"2">> ELSE FirstCount]
  <2>1. Option[o].type = "SPIN" /\ Touch(o, u)
    BY <1>6 DEF SpinChanged
  <2>2. toggle(o)
    BY <2>1 DEF toggle
  <2>3. <<"2">> \in Text
    <3> DEFINE two == "2"
    <3>1. two \in Words
      BY WordsAssumption
    <3> HIDE DEF two
    <3>2. <<two>> \in Text
      BY <3>1, OneElement DEF Text
    <3> QED BY <3>2 DEF two
  <2>4. u \in Widget /\ u.combo = w.combo /\ u.saved = w.saved
    BY <1>4, <2>3, KnownTexts DEF Widget
  <2> HIDE DEF u
  <2>5. WidgetHolds(o, u, v)
    BY <1>4, <2>2, <2>4 DEF WidgetHolds, WidgetFits
  <2> QED BY <1>2, <2>1, <2>5, TouchInv
<1>7. CASE option_combobox_changed(o)
  <2>1. ~toggle(o)
    BY <1>7 DEF option_combobox_changed
  <2>2. PICK combo \in {"default", "custom", "no arg"} : Touch(o, update_option(o, w, combo, v))
    BY <1>7 DEF option_combobox_changed
  <2>3. WidgetHolds(o, update_option(o, w, combo, v), v)
    BY <1>3, <2>1, UpdatedHolds
  <2> QED BY <1>2, <2>2, <2>3, TouchInv
<1>8. CASE EntryEdited(o)
  <2>1. ~toggle(o) /\ w.combo = "custom"
    BY <1>8 DEF EntryEdited
  <2>2. PICK text \in Typed[o] : Touch(o, [w EXCEPT !.text = text])
    BY <1>8 DEF EntryEdited
  <2>3. text \in Text /\ text # NoText /\ (PlainInputs(o) /\ Option[o].list => Fields(Fields(text)) = Fields(text))
    BY <1>3, InputsAssumption DEF PlainInputs
  <2>4. PlainInputs(o) => TextKept(o, text)
    BY <1>3, <2>1, <2>3, TextsKept
  <2> DEFINE u == [w EXCEPT !.text = text]
  <2>5. u \in Widget /\ u.combo = w.combo /\ u.saved = w.saved /\ u.text = text
    BY <1>4, <2>3 DEF Widget
  <2>6. Touch(o, u)
    BY <2>2
  <2> HIDE DEF u
  <2>7. WidgetFits(o, u)
    BY <1>4, <2>1, <2>3, <2>5 DEF WidgetFits
  <2>8. PlainInputs(o) => \A t \in {w.saved, w.text} \ {NoText} : TextKept(o, t)
    BY <1>3, <2>1 DEF WidgetHolds
  <2>9. PlainInputs(o) => \A t \in {u.saved, u.text} \ {NoText} : TextKept(o, t)
    BY <2>4, <2>5, <2>8
  <2>10. WidgetHolds(o, u, v)
    BY <1>4, <2>5, <2>7, <2>9 DEF WidgetHolds
  <2> QED BY <1>2, <2>6, <2>10, TouchInv
<1> QED BY <1>1, <1>5, <1>6, <1>7, <1>8

\* The dialog is closed without a save.
LEMMA CloseInv == ASSUME IInv, dialog_response_close PROVE IInv'
<1>1. backend' = ClosedBackend /\ touched' = {} /\ UNCHANGED <<running, gpg21, files, options, settings, picked, wanted>>
  BY DEF dialog_response_close, hide_backend_config
<1> QED BY <1>1, ClosedBackendHolds DEF IInv, files

\* "Reset" changes widgets only.
LEMMA ResetInv == ASSUME IInv, dialog_response_reset PROVE IInv'
<1> DEFINE c == [backend EXCEPT !.modified = FALSE,
                   !.widgets = [o \in DOMAIN @ |-> reset_option(o, @[o], backend.loaded[o])]]
<1>1. backend' = c /\ backend.open
      /\ UNCHANGED <<running, gpg21, keyring, gpg_conf, gpa_conf, options, settings, picked, wanted, touched>>
  BY DEF dialog_response_reset, BackendResponse
<1>2. BackendHolds(c, touched)
  BY <1>1, ResetAllHolds DEF IInv
<1> HIDE DEF c
<1> QED BY <1>1, <1>2 DEF IInv

\* "OK" saves and closes.
LEMMA AcceptInv == ASSUME IInv, dialog_response_accept PROVE IInv'
<1>1. UNCHANGED <<running, gpg21, keyring, gpa_conf, options, settings, picked, wanted>>
  BY DEF dialog_response_accept, BackendResponse
<1>2. backend' = ClosedBackend /\ touched' = {}
  BY DEF dialog_response_accept, hide_backend_config
<1>3. PICK failing \in SUBSET Components : gpg_conf' = save_all_options(failing)
  BY DEF dialog_response_accept
<1>4. ConfHolds(gpg_conf')
  BY <1>3, SaveHolds DEF IInv
<1> QED BY <1>1, <1>2, <1>4, ClosedBackendHolds DEF IInv

\* "Apply" saves and makes new tabs, or keeps the old ones when gpgconf fails.
LEMMA ApplyInv == ASSUME IInv, dialog_response_apply PROVE IInv'
<1>1. backend.open /\ UNCHANGED <<running, gpg21, keyring, gpa_conf, options, settings, picked, wanted>>
  BY DEF dialog_response_apply, BackendResponse
<1>2. PICK failing \in SUBSET Components, failed \in BOOLEAN :
        gpg_conf' = save_all_options(failing) /\ create_dialog_tabs(backend, gpg_conf', failed)
  BY DEF dialog_response_apply
<1>3. ConfHolds(gpg_conf')
  BY <1>2, SaveHolds DEF IInv
<1>4. BackendHolds(backend, touched) /\ backend \in BackendRecord(backend.widgets) /\ backend.open = TRUE
  BY <1>1 DEF IInv, BackendHolds, BackendRecord
<1>5. BackendHolds(backend', touched')
  BY <1>2, <1>3, <1>4, CreateTabsHold
<1> QED BY <1>1, <1>3, <1>5 DEF IInv

\* A change of the level saves and makes other tabs.
LEMMA ChooseLevelInv == ASSUME IInv, dialog_level_chooser_cb PROVE IInv'
<1>1. backend.open /\ UNCHANGED <<running, gpg21, keyring, gpa_conf, options, settings, picked, wanted>>
  BY DEF dialog_level_chooser_cb, BackendResponse
<1>2. PICK level \in {Option[o].level : o \in Options}, failing \in SUBSET Components, failed \in BOOLEAN :
        gpg_conf' = save_all_options(failing)
        /\ create_dialog_tabs([backend EXCEPT !.level = level], gpg_conf', failed)
  BY DEF dialog_level_chooser_cb
<1>3. ConfHolds(gpg_conf')
  BY <1>2, SaveHolds DEF IInv
<1>4. level \in Nat
  BY OptionAssumption
<1> DEFINE dlg == [backend EXCEPT !.level = level]
<1>5. BackendHolds(dlg, touched) /\ dlg \in BackendRecord(dlg.widgets) /\ dlg.open = TRUE
  BY <1>1, <1>4, LevelHolds DEF IInv
<1>6. create_dialog_tabs(dlg, gpg_conf', failed)
  BY <1>2
<1> HIDE DEF dlg
<1>7. BackendHolds(backend', touched')
  BY <1>3, <1>5, <1>6, CreateTabsHold
<1> QED BY <1>1, <1>3, <1>7 DEF IInv

\* A keyserver is configured behind the dialogs.
LEMMA ConfigureInv == ASSUME IInv, gpa_configure_keyserver PROVE IInv'
<1>1. gpg_conf' = Stored(gpg_conf, "keyserver", <<Head(Servers)>>)
      /\ UNCHANGED <<running, gpg21, keyring, gpa_conf, options, settings, backend, touched, picked, wanted>>
  BY DEF gpa_configure_keyserver
<1>2. ConfHolds(gpg_conf')
  BY <1>1, ServersType, StoredWordHolds DEF IInv
<1> QED BY <1>1, <1>2 DEF IInv

\* Every step keeps the invariant.
LEMMA NextInv == IInv /\ [Next]_vars => IInv'
<1> SUFFICES ASSUME IInv, [Next]_vars
             PROVE  IInv'
  OBVIOUS
<1>1. CASE Start
  BY <1>1, StartInv
<1>2. CASE Quit
  BY <1>2, QuitInv
<1>3. CASE KeyDeleted
  BY <1>3, KeyDeletedInv
<1>4. CASE SettingsEdit
  BY <1>4, SettingsNewInv, AdvancedInv, KeySelectedInv, ServerSelectedInv, MethodChangedInv, AddrChangedInv DEF SettingsEdit
<1>5. CASE SettingsResponse
  BY <1>5, OkInv, ApplySettingsInv, CancelInv DEF SettingsResponse
<1>6. CASE StoreFails
  BY <1>6, StoreFailsInv
<1>7. CASE BackendEdit
  BY <1>7, CreateInv, EditInv, CloseInv, ResetInv DEF BackendEdit
<1>8. CASE BackendSave
  BY <1>8, AcceptInv, ApplyInv, ChooseLevelInv DEF BackendSave
<1>9. CASE gpa_configure_keyserver
  BY <1>9, ConfigureInv
<1>10. CASE gpa_options_set_backup_generated
  BY <1>10, BackupInv
<1>11. CASE UNCHANGED vars
  BY <1>11 DEF vars, files, IInv
<1> QED BY <1>1, <1>2, <1>3, <1>4, <1>5, <1>6, <1>7, <1>8, <1>9, <1>10, <1>11 DEF Next

\* The invariant holds in every state.
THEOREM Inductive == Spec => []IInv
  BY InitInv, NextInv, PTL DEF Spec

\* What the user set last is in force in this run of the program and in the
\* next ones, for any keys, deleted behind the program or not, and any failure
\* of gpa.conf, gpg or gpgconf (options.c, gpa.c). Every state has its types.
THEOREM SettingsSurvive == Spec => []SettingsSurviveARestart
  BY Inductive, InvImplies, PTL

\* A save of the dialog for the options of GnuPG changes an option that the
\* user did not edit only where what it loaded is not plain and not all inputs
\* of the option are, whatever the other dialog or the question for a keyserver
\* stored in between (confdialog.c, save_options and option_widget_to_arg).
THEOREM UntouchedKept == Spec => UntouchedOptionsAreKept
<1>1. ASSUME IInv, BackendSave, NEW o \in Options \ touched, gpg_conf'[o] # gpg_conf[o]
      PROVE  ~PlainInputs(o) /\ o \in DOMAIN backend.widgets /\ ~Plain(o, backend.loaded[o])
  <2>1. PICK failing : gpg_conf' = save_all_options(failing)
    BY <1>1 DEF BackendSave, dialog_response_accept, dialog_response_apply, dialog_level_chooser_cb
  <2>2. BackendHolds(backend, touched) /\ save_all_options(failing)[o] # gpg_conf[o]
    BY <1>1, <2>1 DEF IInv
  <2>3. o \in DOMAIN backend.widgets /\ ~Shown(o, backend.loaded[o]) /\ ~PlainInputs(o)
    BY <2>2, SaveTouchesEdited
  <2>4. backend.loaded[o] \in Value
    BY <2>2, <2>3, LoadedType
  <2> QED BY <2>3, <2>4, PlainShown
<1>2. IInv /\ [Next]_vars =>
        [gpg_conf' # gpg_conf /\ BackendSave =>
           \A o \in Options \ touched :
             gpg_conf'[o] # gpg_conf[o] =>
               ~PlainInputs(o) /\ o \in DOMAIN backend.widgets /\ ~Plain(o, backend.loaded[o])]_vars
  BY <1>1
<1> QED BY <1>2, Inductive, PTL DEF Spec, UntouchedOptionsAreKept

\* The keyserver is another option than the methods.
LEMMA NotMethods ==
  ASSUME NEW conf, NEW opts
  PROVE  KeyserverStored(conf, opts)[akl] = conf[akl]
<1>1. akl # "keyserver"
  BY DEF akl
<1> QED BY <1>1 DEF KeyserverStored, Stored

\* Without a choice of the user the settings dialog stores the row of the list
\* that it loaded, and keeps what gpgconf has if that list has no row ("Custom"),
\* whatever the lists are, however often the dialog loads and whether or not
\* gpgconf fails in that (settingsdlg.c, parse_akl and save_settings).
THEOREM CustomLocate == Spec => CustomLocateIsKept
<1>1. ASSUME IInv, gpg_conf'[akl] # gpg_conf[akl], SettingsResponse, ~picked
      PROVE  /\ ~Unnamed(settings.words)
             /\ gpg_conf'[akl] = << newakl(parse_akl(settings.words, settings.addr).method, settings.addr) >>
  <2>1. gpg_conf' # gpg_conf
    BY <1>1
  <2>2. PICK opts : gpg_conf' = StoredMethods(KeyserverStored(gpg_conf, opts))
    BY <1>1, <2>1 DEF SettingsResponse, dialog_response_ok, dialog_response_apply_settings,
                      dialog_response_cancel, save_settings, files
  <2> DEFINE conf == KeyserverStored(gpg_conf, opts)
  <2> DEFINE list == << newakl(settings.method, settings.addr) >>
  <2>3. conf[akl] = gpg_conf[akl]
    BY NotMethods
  <2>4. ConfHolds(gpg_conf) /\ gpg_conf \in [Options -> Value] /\ akl \in Options
    BY <1>1, OptionAssumption DEF IInv, ConfHolds
  <2>5. akl \in DOMAIN conf
    BY <2>4 DEF KeyserverStored, Stored
  <2>6. gpg_conf' = IF gpg21 /\ settings.method # Custom THEN [conf EXCEPT ![akl] = list] ELSE conf
    BY <2>2 DEF StoredMethods, Stored
  <2> HIDE DEF conf, list
  <2>7. settings.method # Custom /\ gpg_conf'[akl] = list
    BY <1>1, <2>3, <2>5, <2>6
  <2>8. settings.method = ShownRow(settings.words)
    BY <1>1 DEF IInv, SettingsHolds
  <2>9. parse_akl(settings.words, settings.addr).method = ShownRow(settings.words)
    BY DEF parse_akl, ShownRow
  <2>10. ~Unnamed(settings.words)
    BY <2>7, <2>8, RowType DEF ShownRow, Unnamed
  <2> QED BY <2>7, <2>8, <2>9, <2>10 DEF list
<1>2. IInv /\ [Next]_vars =>
        [gpg_conf'[akl] # gpg_conf[akl] /\ SettingsResponse /\ ~picked =>
           /\ ~Unnamed(settings.words)
           /\ LET shown == parse_akl(settings.words, settings.addr)
              IN gpg_conf'[akl] = << newakl(shown.method, settings.addr) >>]_vars
  BY <1>1
<1> QED BY <1>2, Inductive, PTL DEF Spec, CustomLocateIsKept
==============================================================================
