--------------------------- MODULE RecipientDialog ---------------------------
(***************************************************************************)
(* The dialog that assigns a certificate to every recipient of a message   *)
(* (src/src/recipientdlg.c), as the stream encryption uses it.  UiServer   *)
(* takes its answer as some choice; this module says which choices there   *)
(* are.                                                                    *)
(*                                                                         *)
(* The list of recipients is filled from both keyrings, once.  The popup   *)
(* menu should let the user select another certificate or ignore a         *)
(* recipient, but its handlers take the list's widget, with which they are *)
(* registered, for the dialog.  Nothing after that is defined.             *)
(***************************************************************************)
EXTENDS Naturals, FiniteSets

CONSTANTS Mailboxes,   \* the recipients clients name
          Certs,       \* the certificates there are
          Unusable,    \* those that are revoked, disabled, expired or cannot encrypt
          Smime        \* those for S/MIME

Protocols == {"OpenPGP", "CMS"}

ASSUME CertsAssumption == IsFiniteSet(Certs) /\ IsFiniteSet(Mailboxes)

VARIABLES
  found,       \* the certificates gpg and gpgsm find for each mailbox
  dialog,      \* "new", "shown", or the response it got: "ok" or "cancel"
  rows,        \* the recipients in the list
  info,        \* the certificates of each row, by protocol (struct userdata_s)
  radio,       \* the protocol of the active radio button, or "auto"
  sensitive,   \* can the user toggle the radio buttons?
  usable,      \* is the button OK sensitive?
  selected_protocol,
  freeze_key_selection,
  popup,       \* is the popup menu open?
  keys,        \* the answer
  fault        \* a handler took the list for the dialog

state == <<dialog, rows, info, radio, sensitive, usable, selected_protocol, freeze_key_selection, popup, keys, fault>>
dialog_vars == <<found, state>>

ProtocolOf(c) == IF c \in Smime THEN "CMS" ELSE "OpenPGP"

\* The certificates a listing leaves out.
append_key_to_keyinfo(c) == c \notin Unusable

\* parse_one_recipient, where the listings in "failed" cannot be started.  A
\* listing that breaks off after TRUNCATE_KEYSEARCH_AT certificates is as
\* ambiguous as it would be with all of them.
parse_one_recipient(m, p, failed) ==
  IF <<m, p>> \in failed THEN {}
  ELSE {c \in found[m] : ProtocolOf(c) = p /\ append_key_to_keyinfo(c)}

\* update_recplist_row: the columns that show whether there is a certificate.
has(I, r, p) == I[r][p] # {}

\* update_statushint counts the recipients, for a protocol that is requested
\* or "auto".
missing_keys(I) == {r \in DOMAIN I : \A p \in Protocols : ~has(I, r, p)}
counted(I, req) == {r \in DOMAIN I \ missing_keys(I) : req = "auto" \/ has(I, r, req)}
n_keys(I, req, p) == Cardinality({r \in counted(I, req) : has(I, r, p)})
ambiguous_keys(I, req, p) == {r \in counted(I, req) : Cardinality(I[r][p]) > 1}

\* "We select the protocol with the most available keys, preferring PGP."
sel_protocol(I, req) ==
  IF req # "auto" THEN req
  ELSE IF n_keys(I, req, "OpenPGP") >= n_keys(I, req, "CMS") THEN "OpenPGP" ELSE "CMS"

\* Mutant: it is enough that every recipient has some certificate.
okay_if_any(I, req) ==
  LET p == sel_protocol(I, req)
  IN missing_keys(I) = {} /\ ambiguous_keys(I, req, p) = {} /\ n_keys(I, req, p) > 0
okay(I, req) ==
  LET p == sel_protocol(I, req)
  IN /\ missing_keys(I) = {}
     /\ ambiguous_keys(I, req, p) = {}
     /\ n_keys(I, req, p) = Cardinality(counted(I, req))
     /\ n_keys(I, req, p) > 0

update_statushint(I, req) ==
  /\ usable' = okay(I, req)
  /\ selected_protocol' = sel_protocol(I, req)

\* recipient_dlg_new: the structure is zeroed.
DialogInit ==
  /\ found \in [Mailboxes -> SUBSET Certs]
  /\ dialog = "new"
  /\ rows = {}
  /\ info = [r \in rows |-> {}]
  /\ radio = "auto"
  /\ sensitive = TRUE
  /\ usable = FALSE
  /\ selected_protocol = "OpenPGP"
  /\ freeze_key_selection = 0
  /\ popup = FALSE
  /\ keys = {}
  /\ fault = FALSE

\* recipient_dlg_set_recipients, for what the client of the server named; the
\* hint is frozen meanwhile.  With a protocol given the radio buttons are fixed.
recipient_dlg_set_recipients ==
  /\ dialog = "new"
  /\ dialog' = "shown"
  /\ \E protocol \in Protocols \cup {"auto"}, R \in SUBSET Mailboxes \ {{}} :
       /\ radio' = protocol
       /\ sensitive' = (protocol = "auto")
       /\ rows' = R
       /\ \E failed \in SUBSET (R \X Protocols) :
            info' = [r \in R |-> [p \in Protocols |-> parse_one_recipient(r, p, failed)]]
       /\ update_statushint(info', protocol)
  /\ UNCHANGED <<found, freeze_key_selection, popup, keys, fault>>

\* The user toggles a radio button.
\* Mutant: only the columns change.
toggle_columns_only(p) ==
  /\ radio' = p
  /\ UNCHANGED <<usable, selected_protocol>>
rbutton_toggled_cb(p) ==
  /\ radio' = p
  /\ update_statushint(info, p)

Toggle ==
  /\ dialog = "shown" /\ ~popup /\ ~fault
  /\ sensitive
  /\ \E p \in (Protocols \cup {"auto"}) \ {radio} : rbutton_toggled_cb(p)
  /\ UNCHANGED <<found, dialog, rows, info, sensitive, freeze_key_selection, popup, keys, fault>>

\* recplist_display_popup_menu, with the right button on a row.  The left one
\* freezes and thaws (recplist_default_action).
recplist_display_popup_menu ==
  /\ dialog = "shown" /\ ~popup /\ ~fault
  /\ freeze_key_selection = 0
  /\ freeze_key_selection' = 1
  /\ popup' = TRUE
  /\ UNCHANGED <<found, dialog, rows, info, radio, sensitive, usable, selected_protocol, keys, fault>>

\* The menu is dismissed: nobody thaws the selection.  "Select PGP key" names
\* an action there is not (select_pgp_key).
dismiss_popup ==
  /\ popup
  /\ popup' = FALSE
  /\ UNCHANGED <<found, dialog, rows, info, radio, sensitive, usable, selected_protocol, freeze_key_selection, keys, fault>>

\* recplist_popup_x509 and recplist_popup_ignore get the list.
recplist_popup ==
  /\ popup
  /\ popup' = FALSE
  /\ fault' = TRUE
  /\ UNCHANGED <<found, dialog, rows, info, radio, sensitive, usable, selected_protocol, freeze_key_selection, keys>>

\* recipient_dlg_get_keys: the first certificate of each recipient who has one.
get_keys(p) == {CHOOSE c \in info[r][p] : TRUE : r \in {q \in rows : has(info, q, p)}}

\* The response, as response_cb of the encryption takes it.
Respond ==
  /\ dialog = "shown" /\ ~popup /\ ~fault
  /\ \/ /\ usable
        /\ dialog' = "ok"
        /\ keys' = get_keys(selected_protocol)
     \/ /\ dialog' = "cancel"
        /\ keys' = keys
  /\ UNCHANGED <<found, rows, info, radio, sensitive, usable, selected_protocol, freeze_key_selection, popup, fault>>

DialogNext ==
  \/ recipient_dlg_set_recipients
  \/ Toggle
  \/ recplist_display_popup_menu
  \/ dismiss_popup
  \/ recplist_popup
  \/ Respond

DialogSpec == DialogInit /\ [][DialogNext]_dialog_vars

-----------------------------------------------------------------------------
DialogTypeOK ==
  /\ found \in [Mailboxes -> SUBSET Certs]
  /\ dialog \in {"new", "shown", "ok", "cancel"}
  /\ rows \subseteq Mailboxes
  /\ info \in [rows -> [Protocols -> SUBSET (Certs \ Unusable)]]
  /\ radio \in Protocols \cup {"auto"}
  /\ {sensitive, usable, popup, fault} \subseteq BOOLEAN
  /\ selected_protocol \in Protocols
  /\ freeze_key_selection \in 0 .. 1
  /\ keys \subseteq Certs

\* As long as the dialog selects the protocol, nobody is left out: the message
\* is encrypted to one certificate of every recipient, all of one protocol, and
\* each one was the only candidate.  (recipientdlg.c:166: "A key needs to be
\* assigned to each recipient.")
AutoSelectionServesEveryone ==
  dialog = "ok" /\ radio = "auto" =>
    \A r \in rows : \E c \in keys : info[r][selected_protocol] = {c}

\* Whichever buttons were toggled, the protocol that is asked for is used, no
\* certificate was picked among several and none is unusable: the operation trusts
\* them all, "because the recipient selection dialog has already sorted unusable
\* out" (gpastreamencryptop.c:370).
\* DialogTypeOK is a part of it.
KeysAreUnambiguous ==
  /\ DialogTypeOK
  /\ dialog = "ok" =>
       /\ radio \in {"auto", selected_protocol}
       /\ \A c \in keys :
            /\ c \notin Unusable
            /\ ProtocolOf(c) = selected_protocol
            /\ \E r \in rows : info[r][selected_protocol] = {c}

\* The hint "You need to select a key for each recipient" is not over before
\* every recipient has a key that will be used.
EveryRecipientGetsAKey ==
  dialog = "ok" => \A r \in rows : info[r][selected_protocol] \cap keys # {}
==============================================================================
