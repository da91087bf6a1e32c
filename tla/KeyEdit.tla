------------------------------ MODULE KeyEdit ------------------------------
(***************************************************************************)
(* The edit machines (src/src/gpgmeedit.c): how GPA talks to the prompts of *)
(* "gpg --edit-key" and "gpg --card-edit".                                 *)
(*                                                                         *)
(* gpg reports statuses, some of which are prompts it waits at for a line. *)
(* GPGME hands each to edit_fnc, which moves a state machine (transit) and *)
(* types the line that belongs to the new state (action).  Each kind of    *)
(* edit has its own machine.  A machine is written as the set of its arcs  *)
(* <<state, status, next state, error>>; what happens to a status without  *)
(* an arc is the machine's default.                                        *)
(*                                                                         *)
(* This module has the machines and, as an external part, the dialogue gpg *)
(* leads; it has no variables.  KeyOperation puts both to work.            *)
(***************************************************************************)
EXTENDS Naturals, Sequences, SequencesExt

EditKinds == {"sign", "trust", "expire", "passwd", "card"}

(***************************************************************************)
(* Statuses and lines.                                                     *)
(***************************************************************************)
Status(code, arg) == [code |-> code, arg |-> arg]
Line(prompt) == Status("GET_LINE", prompt)
Bool(prompt) == Status("GET_BOOL", prompt)
Alert(err) == Status("ERROR", err)
CardFailure(reason) == Status("SC_OP_FAILURE", reason)

AsksForLine(status) == status.code \in {"GET_LINE", "GET_BOOL"}

Prompts ==
  {"keyedit.prompt", "keyedit.save.okay", "keygen.valid", "edit_ownertrust.value",
   "edit_ownertrust.set_ultimate.okay", "keyedit.sign_all.okay", "sign_uid.okay",
   "sign_uid.expire", "sign_uid.class", "siggen.valid", "cardedit.prompt",
   "cardedit.genkeys.backup_enc", "cardedit.genkeys.replace_keys",
   "cardedit.genkeys.size", "keygen.name", "keygen.email", "keygen.comment"}

Lines == {"", "expire", "date", "trust", "value", "5", "sign", "lsign", "0", "passwd", "admin",
          "generate", "days", "name", "email", "comment", "Y", "N", "quit"}

EditErrors == {"none", "GENERAL", "INV_TIME", "CONFLICT", "UNUSABLE_PUBKEY",
               "BAD_PASSPHRASE", "CANCELED", "BAD_PIN", "CARD", "EAGAIN", "BUG"}

States == {"START", "COMMAND", "DATE", "QUIT", "SAVE", "ERROR", "VALUE",
           "REALLY_ULTIMATE", "UIDS", "SET_EXPIRE", "SET_CHECK_LEVEL", "CONFIRM",
           "DEFAULT", "ADMIN_COMMAND", "BACKUP", "REPLACE_KEYS", "VALIDITY",
           "NAME", "EMAIL", "COMMENT", "DONE"}

(***************************************************************************)
(* The machines.                                                           *)
(***************************************************************************)
To(state, err) == [state |-> state, err |-> err]

\* The arc for this status if there is one, else the default.
Move(arcs, state, status, default) ==
  LET fits == {a \in arcs : a[1] = state /\ a[2] = status}
  IN IF fits = {} THEN default
     ELSE LET arc == CHOOSE a \in fits : TRUE IN To(arc[3], arc[4])

\* Mutant: an unexpected status is not recorded as an error.
ForgivingLost(state, err) == To("ERROR", err)

\* In the state ERROR the machine waits for the main prompt, elsewhere a status
\* it does not expect is an error.
Lost(state, err) == IF state = "ERROR" THEN To("ERROR", err) ELSE To("ERROR", "GENERAL")

edit_expire_fnc_transit(state, status, err) ==
  Move({<<"START", Line("keyedit.prompt"), "COMMAND", err>>,
        <<"COMMAND", Line("keygen.valid"), "DATE", err>>,
        <<"DATE", Line("keyedit.prompt"), "QUIT", err>>,
        <<"DATE", Line("keygen.valid"), "ERROR", "INV_TIME">>,
        <<"QUIT", Bool("keyedit.save.okay"), "SAVE", err>>,
        <<"ERROR", Line("keyedit.prompt"), "QUIT", err>>},
       state, status, Lost(state, err))

edit_trust_fnc_transit(state, status, err) ==
  Move({<<"START", Line("keyedit.prompt"), "COMMAND", err>>,
        <<"COMMAND", Line("edit_ownertrust.value"), "VALUE", err>>,
        <<"VALUE", Line("keyedit.prompt"), "QUIT", err>>,
        <<"VALUE", Bool("edit_ownertrust.set_ultimate.okay"), "REALLY_ULTIMATE", err>>,
        <<"REALLY_ULTIMATE", Line("keyedit.prompt"), "QUIT", err>>,
        <<"QUIT", Bool("keyedit.save.okay"), "SAVE", err>>,
        <<"ERROR", Line("keyedit.prompt"), "QUIT", err>>},
       state, status, Lost(state, err))

edit_passwd_fnc_transit(state, status, err) ==
  Move({<<"START", Line("keyedit.prompt"), "COMMAND", err>>,
        <<"COMMAND", Line("keyedit.prompt"), "QUIT", err>>,
        <<"QUIT", Bool("keyedit.save.okay"), "SAVE", err>>,
        <<"ERROR", Line("keyedit.prompt"), "QUIT", err>>},
       state, status, Lost(state, err))

\* While it signs, the machine gives a prompt it does not know the default answer
\* and stays where it is, also when the prompt is one it knows in another state.
edit_sign_fnc_transit(state, status, err) ==
  LET asking == {"COMMAND", "UIDS", "SET_EXPIRE", "SET_CHECK_LEVEL", "CONFIRM"}
  IN Move({<<"START", Line("keyedit.prompt"), "COMMAND", err>>,
           <<"COMMAND", Bool("keyedit.sign_all.okay"), "UIDS", err>>,
           <<"COMMAND", Status("ALREADY_SIGNED", "none"), "ERROR", "CONFLICT">>,
           <<"SET_EXPIRE", Line("sign_uid.class"), "SET_CHECK_LEVEL", err>>,
           <<"SET_CHECK_LEVEL", Bool("sign_uid.okay"), "CONFIRM", err>>,
           <<"CONFIRM", Line("keyedit.prompt"), "QUIT", err>>,
           <<"QUIT", Bool("keyedit.save.okay"), "SAVE", err>>,
           <<"ERROR", Line("keyedit.prompt"), "QUIT", err>>}
          \cup UNION {{<<s, Bool("sign_uid.okay"), "CONFIRM", err>>,
                       <<s, Line("sign_uid.expire"), "SET_EXPIRE", err>>,
                       <<s, Line("sign_uid.class"), "SET_CHECK_LEVEL", err>>,
                       <<s, Line("keyedit.prompt"), "ERROR", "UNUSABLE_PUBKEY">>} :
                      s \in {"COMMAND", "UIDS"}},
          state, status,
          IF state \in asking /\ AsksForLine(status) THEN To(state, "EAGAIN")
          ELSE IF state = "CONFIRM" /\ status.code = "ERROR" THEN To("ERROR", status.arg)
          ELSE Lost(state, err))

\* The card's machine: a prompt it does not know in the states of the key
\* generation is answered by the default (an empty line) and the machine goes on
\* from the state it was in, kept in post.  Result: [state, err, post].
card_edit_genkey_fnc_transit(current, status, err, post) ==
  LET state == IF current = "DEFAULT" THEN post ELSE current
      asked == IF AsksForLine(status) THEN status.arg ELSE "none"
      generating == {"ADMIN_COMMAND", "BACKUP", "REPLACE_KEYS", "VALIDITY", "NAME",
                     "EMAIL", "DONE"}
      again == [NAME |-> "keygen.name", EMAIL |-> "keygen.email"]
      arcs == {<<"START", "cardedit.prompt", "COMMAND">>,
               <<"COMMAND", "cardedit.prompt", "ADMIN_COMMAND">>,
               <<"ADMIN_COMMAND", "cardedit.genkeys.backup_enc", "BACKUP">>,
               <<"BACKUP", "cardedit.genkeys.replace_keys", "REPLACE_KEYS">>,
               <<"BACKUP", "keygen.valid", "VALIDITY">>,
               <<"REPLACE_KEYS", "keygen.valid", "VALIDITY">>,
               <<"VALIDITY", "keygen.name", "NAME">>,
               <<"NAME", "keygen.email", "EMAIL">>,
               <<"EMAIL", "keygen.comment", "COMMENT">>,
               <<"DONE", "cardedit.prompt", "QUIT">>}
      fits == {a \in arcs : a[1] = state /\ a[2] = asked}
  IN IF fits # {}
       THEN [state |-> (CHOOSE a \in fits : TRUE)[3], err |-> err, post |-> post]
     ELSE IF state = "COMMENT" /\ status.code = "KEY_CREATED"
       THEN [state |-> "DONE", err |-> err, post |-> post]
     ELSE IF /\ state \in generating /\ asked # "none"
             /\ asked # "cardedit.prompt"
             /\ state \in DOMAIN again => asked # again[state]
       THEN [state |-> "DEFAULT", err |-> err, post |-> state]
     ELSE [state |-> "ERROR", err |-> "GENERAL", post |-> post]

\* The lines of the states.  "nothing" is typed in the state ERROR, and "bug"
\* stands for a state the action has no case for.
edit_expire_fnc_action(state, date) ==
  CASE state = "COMMAND" -> "expire" [] state = "DATE" -> date
    [] state = "QUIT" -> "quit" [] state = "SAVE" -> "Y"
    [] state = "ERROR" -> "nothing" [] OTHER -> "bug"

edit_trust_fnc_action(state, trust) ==
  CASE state = "COMMAND" -> "trust" [] state = "VALUE" -> trust
    [] state = "REALLY_ULTIMATE" -> "Y" [] state = "QUIT" -> "quit"
    [] state = "SAVE" -> "Y" [] state = "ERROR" -> "nothing" [] OTHER -> "bug"

edit_sign_fnc_action(state, command) ==
  CASE state = "COMMAND" -> command [] state \in {"UIDS", "SET_EXPIRE", "CONFIRM"} -> "Y"
    [] state = "SET_CHECK_LEVEL" -> "0" [] state = "QUIT" -> "quit"
    [] state = "SAVE" -> "Y" [] state = "ERROR" -> "nothing" [] OTHER -> "bug"

edit_passwd_fnc_action(state) ==
  CASE state = "COMMAND" -> "passwd" [] state = "QUIT" -> "quit"
    [] state = "SAVE" -> "Y" [] state = "ERROR" -> "nothing" [] OTHER -> "bug"

\* Mutant: the report that the key was created is answered like a prompt.
MutantCardAction(state, backup) ==
  CASE state = "COMMAND" -> {"admin"} [] state = "ADMIN_COMMAND" -> {"generate"}
    [] state = "BACKUP" -> {backup} [] state = "REPLACE_KEYS" -> {"Y", "N"}
    [] state = "VALIDITY" -> {"days"} [] state = "NAME" -> {"name"}
    [] state = "EMAIL" -> {"email"} [] state = "COMMENT" -> {"comment"}
    [] state = "QUIT" -> {"quit"} [] OTHER -> {""}

\* A set: the user decides in a box on replacing the keys of the card.
card_edit_genkey_fnc_action(state, backup) ==
  CASE state = "DEFAULT" -> {""} [] state = "COMMAND" -> {"admin"}
    [] state = "ADMIN_COMMAND" -> {"generate"}
    [] state = "BACKUP" -> {backup} [] state = "REPLACE_KEYS" -> {"Y", "N"}
    [] state = "VALIDITY" -> {"days"} [] state = "NAME" -> {"name"}
    [] state = "EMAIL" -> {"email"} [] state = "COMMENT" -> {"comment"}
    [] state = "DONE" -> {"nothing"} [] state = "QUIT" -> {"quit"} [] OTHER -> {"bug"}

(***************************************************************************)
(* edit_fnc.  parms is the state of one edit; the result is a set of pairs *)
(* of the new parms and of what is typed, a sequence of at most one line.  *)
(***************************************************************************)
\* data is what the user chose in the dialog: the command for a signature or a local
\* one, the trust, the date (or "0", never), whether to back up the card's key.
ParmsType ==
  [kind : EditKinds, data : Lines, state : States, post : States, err : EditErrors]

NewParms(kind, data) ==
  [kind |-> kind, data |-> data, state |-> "START", post |-> "START", err |-> "none"]
sign_parms_new(command) == NewParms("sign", command)
trust_parms_new(trust) == NewParms("trust", trust)
expire_parms_new(date) == NewParms("expire", date)
passwd_parms_new == NewParms("passwd", "passwd")
card_parms_new(backup) == NewParms("card", backup)

\* The statuses on the whitelist; NEED_PASSPHRASE_SYM is on it too, but is only
\* passed on if a flag is set that nothing sets.
Known == {"ALREADY_SIGNED", "ERROR", "GET_BOOL", "GET_LINE", "KEY_CREATED", "SC_OP_FAILURE"}

Statuses == [code : Known \cup {"NEED_PASSPHRASE_SYM"}, arg : Prompts \cup EditErrors]

transit(parms, status) ==
  LET Plain(moved) == [state |-> moved.state, err |-> moved.err, post |-> parms.post]
  IN CASE parms.kind = "expire" -> Plain(edit_expire_fnc_transit(parms.state, status, parms.err))
       [] parms.kind = "trust" -> Plain(edit_trust_fnc_transit(parms.state, status, parms.err))
       [] parms.kind = "sign" -> Plain(edit_sign_fnc_transit(parms.state, status, parms.err))
       [] parms.kind = "passwd" -> Plain(edit_passwd_fnc_transit(parms.state, status, parms.err))
       [] OTHER -> card_edit_genkey_fnc_transit(parms.state, status, parms.err, parms.post)

action(parms) ==
  CASE parms.kind = "expire" -> {edit_expire_fnc_action(parms.state, parms.data)}
    [] parms.kind = "trust" -> {edit_trust_fnc_action(parms.state, parms.data)}
    [] parms.kind = "sign" -> {edit_sign_fnc_action(parms.state, parms.data)}
    [] parms.kind = "passwd" -> {edit_passwd_fnc_action(parms.state)}
    [] OTHER -> card_edit_genkey_fnc_action(parms.state, parms.data)

\* An error stays: from then on nothing is typed.
edit_fnc(parms, status) ==
  LET moved == [parms EXCEPT !.state = transit(parms, status).state,
                             !.post = transit(parms, status).post,
                             !.err = transit(parms, status).err]
      Result(p, typed) == [parms |-> p, typed |-> typed]
  IN CASE status.code \notin Known -> {Result(parms, <<>>)}
       [] status.code = "SC_OP_FAILURE" ->
            {Result([parms EXCEPT !.err = IF @ = "none" THEN status.arg ELSE @], <<>>)}
       [] OTHER ->
            IF moved.err = "EAGAIN" THEN {Result([moved EXCEPT !.err = "none"], <<"">>)}
            ELSE IF moved.err # "none" THEN {Result(moved, <<>>)}
            ELSE {CASE line = "nothing" -> Result(moved, <<>>)
                    [] line = "bug" -> Result([moved EXCEPT !.err = "BUG"], <<>>)
                    [] OTHER -> Result(moved, <<line>>) : line \in action(moved)}

(***************************************************************************)
(* gpg, an external program.  settings are those of gpg.conf and of the    *)
(* card that decide what it asks.  A reaction is what gpg reports next,    *)
(* whether it ends then, what it did with the key, and whether it declined *)
(* to do it without saying so.                                             *)
(***************************************************************************)
SettingsType == [ask_cert_expire : BOOLEAN, ask_cert_level : BOOLEAN, card_imports : BOOLEAN]

Reports(burst) ==
  [burst |-> burst, ends |-> FALSE, changes |-> FALSE, saves |-> FALSE, declines |-> FALSE]
Changes(r) == [r EXCEPT !.changes = TRUE]
Saves(r) == [r EXCEPT !.changes = TRUE, !.saves = TRUE]
Declines(r) == [r EXCEPT !.declines = TRUE]
Ends == [Reports(<<>>) EXCEPT !.ends = TRUE]
Main == Reports(<<Line("keyedit.prompt")>>)
CardMain == Reports(<<Line("cardedit.prompt")>>)
FailsWith(status, prompt) == Reports(<<status, Line(prompt)>>)

GpgStarts(kind) ==
  IF kind = "card" THEN {CardMain} ELSE {Main, Reports(<<Alert("GENERAL")>>)}

\* The questions of the command "sign", in their order.
SignAsks(settings) ==
  (IF settings.ask_cert_expire THEN {"sign_uid.expire", "siggen.valid"}
   ELSE IF settings.ask_cert_level THEN {"sign_uid.class"} ELSE {"sign_uid.okay"})

AfterExpire(settings) == IF settings.ask_cert_level THEN "sign_uid.class" ELSE "sign_uid.okay"

Asked(prompt) ==
  Reports(<<IF prompt = "sign_uid.okay" THEN Bool(prompt) ELSE Line(prompt)>>)

SignReacts(at, line, changed, settings) ==
  CASE at = "keyedit.prompt" /\ line \in {"sign", "lsign"} ->
         {Asked(q) : q \in SignAsks(settings)}
           \cup {Reports(<<Bool("keyedit.sign_all.okay")>>), Main,
                 FailsWith(Status("ALREADY_SIGNED", "none"), "keyedit.prompt")}
    [] at = "keyedit.sign_all.okay" /\ line = "Y" -> {Asked(q) : q \in SignAsks(settings)}
    [] at \in {"sign_uid.expire", "siggen.valid"} -> {Asked(AfterExpire(settings))}
    [] at = "sign_uid.class" -> {Asked("sign_uid.okay")}
    [] at = "sign_uid.okay" /\ line = "Y" ->
         {Changes(Main), FailsWith(Alert("BAD_PASSPHRASE"), "keyedit.prompt")}
    [] OTHER -> {Main}

ExpireReacts(at, line, changed, settings) ==
  CASE at = "keyedit.prompt" /\ line = "expire" -> {Reports(<<Line("keygen.valid")>>), Main}
    [] at = "keygen.valid" ->
         {Changes(Main), Reports(<<Line("keygen.valid")>>), Declines(Main),
          FailsWith(Alert("BAD_PASSPHRASE"), "keyedit.prompt")}
    [] OTHER -> {Main}

\* The trust database is written at once.
TrustReacts(at, line, changed, settings) ==
  CASE at = "keyedit.prompt" /\ line = "trust" -> {Reports(<<Line("edit_ownertrust.value")>>)}
    [] at = "edit_ownertrust.value" ->
         IF line = "5" THEN {Reports(<<Bool("edit_ownertrust.set_ultimate.okay")>>)}
         ELSE {Saves(Main)}
    [] at = "edit_ownertrust.set_ultimate.okay" /\ line = "Y" -> {Saves(Main)}
    [] OTHER -> {Main}

\* The passphrase is asked for and changed by the agent.
PasswdReacts(at, line, changed, settings) ==
  IF at = "keyedit.prompt" /\ line = "passwd"
  THEN {Saves(Reports(<<Status("NEED_PASSPHRASE_SYM", "none"), Line("keyedit.prompt")>>)), Declines(Main),
        FailsWith(Alert("BAD_PASSPHRASE"), "keyedit.prompt")}
  ELSE {Main}

\* A card that cannot import keys is not asked about a backup.
CardReacts(at, line, changed, settings) ==
  LET asksKey == {Reports(<<Line("keygen.valid")>>), Reports(<<Line("cardedit.genkeys.size")>>),
                  FailsWith(CardFailure("BAD_PIN"), "cardedit.prompt")}
      asksReplace == asksKey \cup {Reports(<<Bool("cardedit.genkeys.replace_keys")>>)}
  IN CASE at = "cardedit.prompt" /\ line = "generate" ->
            IF settings.card_imports THEN {Reports(<<Line("cardedit.genkeys.backup_enc")>>)}
            ELSE asksReplace
       [] at = "cardedit.genkeys.backup_enc" -> asksReplace
       [] at = "cardedit.genkeys.replace_keys" /\ line = "Y" -> asksKey
       [] at = "cardedit.genkeys.size" -> {Reports(<<Line("keygen.valid")>>)}
       [] at = "keygen.valid" -> {Reports(<<Line("keygen.name")>>)}
       [] at = "keygen.name" -> {Reports(<<Line("keygen.email")>>), Reports(<<Line("keygen.name")>>)}
       [] at = "keygen.email" -> {Reports(<<Line("keygen.comment")>>)}
       [] at = "keygen.comment" ->
            {Saves(Reports(<<Status("KEY_CREATED", "none"), Line("cardedit.prompt")>>)),
             FailsWith(CardFailure("CARD"), "cardedit.prompt"),
             FailsWith(Alert("GENERAL"), "cardedit.prompt")}
       [] OTHER -> {CardMain}

GpgReacts(kind, at, line, changed, settings) ==
  IF line = "quit"
  THEN IF changed /\ kind \in {"sign", "expire"}
       THEN {Reports(<<Bool("keyedit.save.okay")>>)} ELSE {Ends}
  ELSE IF at = "keyedit.save.okay" THEN {IF line = "Y" THEN Saves(Ends) ELSE Ends}
  ELSE CASE kind = "sign" -> SignReacts(at, line, changed, settings)
         [] kind = "expire" -> ExpireReacts(at, line, changed, settings)
         [] kind = "trust" -> TrustReacts(at, line, changed, settings)
         [] kind = "passwd" -> PasswdReacts(at, line, changed, settings)
         [] OTHER -> CardReacts(at, line, changed, settings)

(***************************************************************************)
(* What belongs where: the lines a prompt may get besides the empty one.   *)
(***************************************************************************)
Fits(prompt) ==
  CASE prompt = "keyedit.prompt" -> {"sign", "lsign", "trust", "expire", "passwd", "quit"}
    [] prompt = "cardedit.prompt" -> {"admin", "generate", "quit"}
    [] prompt = "edit_ownertrust.value" -> {"value", "5"}
    [] prompt = "keygen.valid" -> {"date", "0", "days"}
    [] prompt = "sign_uid.class" -> {"0"}
    [] prompt = "keygen.name" -> {"name"} [] prompt = "keygen.email" -> {"email"}
    [] prompt = "keygen.comment" -> {"comment"}
    [] prompt = "siggen.valid" -> {} [] prompt = "cardedit.genkeys.size" -> {}
    [] OTHER -> {"Y", "N"}

\* The lines an edit must have passed on.
Essential(parms) ==
  {parms.data} \cup (IF parms.kind = "card" THEN {"days", "name", "email", "comment"} ELSE {})
=============================================================================
