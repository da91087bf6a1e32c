------------------------- MODULE KeyOperationProofs -------------------------
(***************************************************************************)
(* What an operation on keys promises, for any number of keys and failures. *)
(*                                                                         *)
(* The inductive invariant IInv has three parts.  ProgressFits is about the *)
(* operation: which key it is at, and what it knows of the keys before it.  *)
(* KeysFit: a key that is told as done is saved, or gpg declined.           *)
(* DialogueFits is about the running edit.  Whatever happens, only the last *)
(* status of a burst is a prompt, and a line is typed when it has arrived.  *)
(* As long as the machine p of the edit has met no error,                   *)
(*   - what its state stands for has been typed (Given);                   *)
(*   - gpg waits where the machine believes it to wait (Believes);         *)
(*   - once the machine is to leave, gpg has made the change (Secured),    *)
(*     and when gpg has ended, has saved it.                               *)
(* One call of edit_fnc keeps this (DeliveryFits, from a lemma for each     *)
(* machine), and one reaction of gpg keeps it (ReadingFits, from            *)
(* ReactionsAreWellFormed and ReactionsAreHonest).                          *)
(***************************************************************************)
EXTENDS KeyOperation, SequenceTheorems, TLAPS

DataOf(kind) ==
  CASE kind = "sign" -> key_sign_run_dialog [] kind = "trust" -> ownertrust_run_dialog
    [] kind = "expire" -> expiry_dialog_run [] kind = "passwd" -> {"passwd"}
    [] OTHER -> key_gen_run_dialog

Generating == {"ADMIN_COMMAND", "BACKUP", "REPLACE_KEYS", "VALIDITY", "NAME", "EMAIL", "DONE"}
Asking == {"COMMAND", "UIDS", "SET_EXPIRE", "SET_CHECK_LEVEL", "CONFIRM"}

StatesOf(kind) ==
  CASE kind = "sign" -> Asking \cup {"START", "QUIT", "SAVE", "ERROR"}
    [] kind = "trust" -> {"START", "COMMAND", "VALUE", "REALLY_ULTIMATE", "QUIT", "SAVE", "ERROR"}
    [] kind = "expire" -> {"START", "COMMAND", "DATE", "QUIT", "SAVE", "ERROR"}
    [] kind = "passwd" -> {"START", "COMMAND", "QUIT", "SAVE", "ERROR"}
    [] OTHER -> Generating \cup {"START", "COMMAND", "DEFAULT", "COMMENT", "QUIT", "ERROR"}

ParmsFit(p) ==
  /\ p \in ParmsType /\ p.state \in StatesOf(p.kind)
  /\ p.data \in DataOf(p.kind)
  /\ p.err # "EAGAIN"
  /\ p.state = "DEFAULT" => p.post \in Generating
  /\ p.state = "ERROR" => p.err # "none"
  /\ p.kind = "sign" /\ p.err # "none" => p.state \in {"QUIT", "SAVE", "ERROR"}

\* A status gpg may send to an edit of this kind.
StatusFits(kind, s) ==
  /\ s \in Statuses
  /\ AsksForLine(s) => s.arg \in Prompts
  /\ s.code \in {"ERROR", "SC_OP_FAILURE"} => s.arg \in Errors \ {"none"}
  /\ s.code = "SC_OP_FAILURE" => kind = "card"

BurstFits(kind, burst) ==
  /\ burst \in Seq(Statuses)
  /\ \A i \in DOMAIN burst : /\ StatusFits(kind, burst[i])
                             /\ AsksForLine(burst[i]) => i = Len(burst)

LinesFit(g) ==
  /\ g.burst # <<>> => g.input = <<>> /\ g.at = Waits(g.burst)
  /\ Len(g.input) <= 1
  /\ g.input # <<>> => g.at # "none" /\ Head(g.input) \in Fits(g.at) \cup {""}

Stage(p) == IF p.state = "DEFAULT" THEN p.post ELSE p.state

\* The user's lines that have been typed in this state.
Given(p) ==
  CASE p.kind = "card" ->
         (CASE Stage(p) \in {"BACKUP", "REPLACE_KEYS"} -> {p.data}
            [] Stage(p) = "VALIDITY" -> {p.data, "days"}
            [] Stage(p) = "NAME" -> {p.data, "days", "name"}
            [] Stage(p) = "EMAIL" -> {p.data, "days", "name", "email"}
            [] Stage(p) \in {"COMMENT", "DONE", "QUIT", "SAVE"} -> Essential(p)
            [] OTHER -> {})
    [] p.state = "START" \/ (p.kind \in {"expire", "trust"} /\ p.state = "COMMAND") -> {}
    [] OTHER -> {p.data}

\* What the machine believes of the line it has typed, and where.
Believes(p, at, line) ==
  CASE p.state = "QUIT" -> line = "quit"
    [] p.state = "SAVE" -> at = "keyedit.save.okay" /\ line = "Y"
    [] p.state = "DATE" -> at = "keygen.valid" /\ line = p.data
    [] p.state = "VALUE" -> at = "edit_ownertrust.value" /\ line = p.data
    [] p.state = "REALLY_ULTIMATE" -> at = "edit_ownertrust.set_ultimate.okay" /\ line = "Y"
    [] p.state = "CONFIRM" -> at = "sign_uid.okay" /\ line = "Y"
    [] p.state = "COMMENT" -> at = "keygen.comment" /\ line = "comment"
    [] p.kind = "passwd" /\ p.state = "COMMAND" -> at = "keyedit.prompt" /\ line = "passwd"
    [] OTHER -> line # "quit"

\* The machine waits for gpg to make the change.
Awaits(p) ==
  \/ p.state \in {"DATE", "VALUE", "REALLY_ULTIMATE", "CONFIRM", "COMMENT"}
  \/ p.kind = "passwd" /\ p.state = "COMMAND"

\* gpg has made the change, or declined to; an edit of these kinds is saved at the end.
Secured(p, g, k) ==
  k.declined \/ IF p.kind \in {"sign", "expire"} THEN g.changed ELSE k.saved

\* The next status tells the machine p that gpg has made the change.
Confirms(p, s) ==
  /\ Awaits(p)
  /\ s = Line("keyedit.prompt") \/ s.code \in {"NEED_PASSPHRASE_SYM", "KEY_CREATED"}

InStep(p, g, k) ==
  /\ Given(p) \subseteq g.with \cup ToSet(g.input)
  /\ Stage(p) \in {"QUIT", "SAVE", "DONE"} => Secured(p, g, k)
  /\ g.burst # <<>> => /\ Confirms(p, Head(g.burst)) => Secured(p, g, k)
                       /\ p.state = "CONFIRM" => \/ Head(g.burst) = Line("keyedit.prompt")
                                                 \/ Head(g.burst).code = "ERROR"
                       /\ g.at = "none" => Head(g.burst).code = "ERROR"
  /\ g.input # <<>> => Believes(p, g.at, Head(g.input))
  /\ g.at = "keyedit.save.okay" => p.state \in {"QUIT", "SAVE"}
  /\ g.burst = <<>> /\ g.at = "none" => g.ended
  /\ g.ended => k.saved \/ k.declined

DialogueFits(p, g, k) ==
  /\ ParmsFit(p) /\ BurstFits(p.kind, g.burst) /\ LinesFit(g)
  /\ p.err = "none" => InStep(p, g, k)

SomeOk(ks) == \E k \in Keys : ks[k].told = "ok"

\* Where the operation is, and what it knows of the keys ks.
ProgressFits(o, ks) ==
  /\ o.modified < o.current
  /\ o.phase # "completed" => o.current <= o.n
  /\ o.phase = "idle" => o.current = 1
  /\ o.kind \in GenKeyKinds => o.current = 1
  /\ o.phase = "box" => ShowsBox(o.err)
  /\ o.phase = "backup" => o.kind = "simple"
  /\ o.phase \notin {"backup", "completed"} =>
       \A k \in Keys : ks[k].told = "ok" => k < o.current
  /\ o.kind \in {"sign", "trust", "expire"} /\ SomeOk(ks) => o.modified > 0

Signals(kind) ==
  CASE kind \in {"sign", "trust", "expire", "delete"} -> {"changed_wot"}
    [] kind \in GenKeyKinds -> {"generated_key"} [] OTHER -> {}

Announced(o, ks) == o.phase = "completed" /\ SomeOk(ks) => Signals(o.kind) \subseteq o.signals

OpFits(o, ks) == o \in OpType /\ ProgressFits(o, ks) /\ Announced(o, ks)

KeysFit(ks) ==
  /\ ks \in [Keys -> KeyRecord]
  /\ \A k \in Keys : ks[k].told = "ok" => ks[k].saved \/ ks[k].declined

EditFits(o, p, g, ks) ==
  /\ p \in ParmsType \cup {NoEdit} /\ g \in GpgType /\ LinesFit(g)
  /\ p # NoEdit => /\ o.phase = "running" /\ p.kind = o.kind
                   /\ DialogueFits(p, g, ks[o.current])

IInv ==
  /\ OpFits(op, keys) /\ KeysFit(keys) /\ EditFits(op, edit, gpg, keys)
  /\ settings \in SettingsType /\ failures \in 0 .. MaxFailures

-----------------------------------------------------------------------------
(* One call of edit_fnc.                                                   *)

\* The machine goes from p to q on the status s and types these lines.
Steps(p, s, q, typed) ==
  /\ IF AsksForLine(s)
     THEN typed # <<>> /\ Believes(q, s.arg, typed[1])
     ELSE typed = <<>> /\ \/ q = p /\ s.code = "NEED_PASSPHRASE_SYM"
                          \/ p.state = "COMMENT" /\ s.code = "KEY_CREATED" /\ q.state = "DONE"
  /\ Given(q) \subseteq Given(p) \cup ToSet(typed)
  /\ Stage(q) \in {"QUIT", "SAVE", "DONE"} =>
       Stage(p) \in {"QUIT", "SAVE", "DONE"} \/ Confirms(p, s)
  /\ p.state \in {"QUIT", "SAVE"} => q.state \in {"QUIT", "SAVE"}

Answers(p, s, q, typed) ==
  /\ ParmsFit(q) /\ q.kind = p.kind
  /\ typed \in Seq(Lines) /\ Len(typed) <= 1
  /\ typed # <<>> => AsksForLine(s) /\ typed[1] \in Fits(s.arg) \cup {""}
  /\ q.err = "none" => p.err = "none" /\ Steps(p, s, q, typed)

\* A status may come to the machine p.
Comes(p, s) ==
  /\ ParmsFit(p) /\ StatusFits(p.kind, s)
  /\ p.state = "CONFIRM" /\ p.err = "none" => s = Line("keyedit.prompt") \/ s.code = "ERROR"

LEMMA FailsQuietly ==
  ASSUME NEW p, NEW s, NEW q, ParmsFit(q), q.kind = p.kind, q.err # "none"
  PROVE  Answers(p, s, q, <<>>)
<1>1. <<>> \in Seq(Lines) /\ Len(<<>>) <= 1
  OBVIOUS
<1> QED
  BY <1>1 DEF Answers

LEMMA OneLine ==
  ASSUME NEW S, NEW e \in S
  PROVE  /\ <<e>> \in Seq(S) /\ <<e>> # <<>>
         /\ Len(<<e>>) <= 1 /\ <<e>>[1] = e /\ Head(<<e>>) = e /\ Tail(<<e>>) = <<>>
         /\ ToSet(<<e>>) = {e}
<1>1. ToSet(<<e>>) = {e}
  BY DEF ToSet
<1> QED
  BY <1>1

\* The line suits the state q the machine p goes to on the status s.
Typed(p, s, q, line) ==
  /\ line \in Lines /\ AsksForLine(s)
  /\ line \in Fits(s.arg) \cup {""} /\ Believes(q, s.arg, line)
  /\ Given(q) \subseteq Given(p) \cup {line}
  /\ Stage(q) \in {"QUIT", "SAVE", "DONE"} =>
       Stage(p) \in {"QUIT", "SAVE", "DONE"} \/ Confirms(p, s)
  /\ p.state \in {"QUIT", "SAVE"} => q.state \in {"QUIT", "SAVE"}

LEMMA Types ==
  ASSUME NEW p, NEW s, NEW q, NEW line,
         p.err = "none", ParmsFit(q), q.kind = p.kind, Typed(p, s, q, line)
  PROVE  Answers(p, s, q, <<line>>)
<1>1. /\ <<line>> \in Seq(Lines) /\ <<line>> # <<>>
      /\ Len(<<line>>) <= 1 /\ <<line>>[1] = line
      /\ ToSet(<<line>>) = {line}
  BY OneLine DEF Typed
<1> DEFINE typed == <<line>>
<1> HIDE DEF typed
<1>2. /\ typed \in Seq(Lines) /\ typed # <<>> /\ Len(typed) <= 1 /\ typed[1] = line
      /\ ToSet(typed) = {line}
  BY <1>1 DEF typed
<1>3. Steps(p, s, q, typed)
  BY <1>2 DEF Steps, Typed
<1>4. Answers(p, s, q, typed)
  BY <1>2, <1>3 DEF Answers, Typed
<1> QED
  BY <1>4 DEF typed

LEMMA MoveIs ==
  ASSUME NEW arcs, NEW state, NEW status, NEW default
  PROVE  LET m == Move(arcs, state, status, default) IN
         \/ m = default /\ \A a \in arcs : ~(a[1] = state /\ a[2] = status)
         \/ \E a \in arcs : a[1] = state /\ a[2] = status /\ m = To(a[3], a[4])
BY DEF Move

\* What edit_fnc makes of the move t of the machine p.
Moved(p, t) == [p EXCEPT !.state = t.state, !.post = t.post, !.err = t.err]
With(q, err) == [q EXCEPT !.err = err]
Outcome(q, typed) == [parms |-> q, typed |-> typed]

\* r is what comes of the state q with EAGAIN, or without an error.
Retries(r, q) == r = Outcome(With(q, "none"), <<"">>)
Acts(r, q) ==
  \E line \in action(q) :
    r = IF line = "nothing" THEN Outcome(q, <<>>)
        ELSE IF line = "bug" THEN Outcome(With(q, "BUG"), <<>>)
        ELSE Outcome(q, <<line>>)

LEMMA EditFnc ==
  ASSUME NEW p, NEW s, s.code \in Known \ {"SC_OP_FAILURE"}, NEW r \in edit_fnc(p, s),
         NEW t, t = transit(p, s), p \in ParmsType
  PROVE  /\ t.err = "EAGAIN" => Retries(r, Moved(p, t))
         /\ t.err \notin {"EAGAIN", "none"} => r = Outcome(Moved(p, t), <<>>)
         /\ t.err = "none" => Acts(r, Moved(p, t))
<1>1. Moved(p, t) = [p EXCEPT !.state = transit(p, s).state, !.post = transit(p, s).post,
                              !.err = transit(p, s).err]
  BY DEF Moved
<1>2. Moved(p, t).err = t.err
  BY DEF Moved, ParmsType
<1> QED
  BY <1>1, <1>2 DEF edit_fnc, Acts, Retries, Outcome, With


LEMMA Reacts ==
  ASSUME NEW p \in ParmsType, NEW s, s.code \in Known \ {"SC_OP_FAILURE"},
         NEW r \in edit_fnc(p, s), NEW q, q = Moved(p, transit(p, s)), ParmsFit(q),
         q.err = "none" =>
           /\ p.err = "none"
           /\ \A line \in action(q) :
                IF line = "nothing" THEN Steps(p, s, q, <<>>)
                ELSE line # "bug" /\ Typed(p, s, q, line)
  PROVE  Answers(p, s, r.parms, r.typed)
<1> DEFINE t == transit(p, s)
<1>1. q.err = t.err /\ q.kind = p.kind
  BY DEF Moved, ParmsType
<1>2. t.err # "EAGAIN"
  BY <1>1 DEF ParmsFit
<1>3. CASE q.err # "none"
  <2>1. r = Outcome(q, <<>>)
    BY <1>1, <1>2, <1>3, EditFnc
  <2>2. Answers(p, s, q, <<>>)
    BY <1>1, <1>3, FailsQuietly
  <2> QED
    BY <2>1, <2>2 DEF Outcome
<1>4. CASE q.err = "none"
  <2>0. Acts(r, q)
    BY <1>1, <1>4, EditFnc
  <2>1. PICK line \in action(q) :
          r = IF line = "nothing" THEN Outcome(q, <<>>)
              ELSE IF line = "bug" THEN Outcome(With(q, "BUG"), <<>>)
              ELSE Outcome(q, <<line>>)
    BY <2>0 DEF Acts
  <2>2. CASE line = "nothing"
    <3>1. <<>> \in Seq(Lines) /\ Len(<<>>) <= 1
      OBVIOUS
    <3>2. Steps(p, s, q, <<>>)
      BY <1>4, <2>2
    <3>3. Answers(p, s, q, <<>>)
      BY <1>1, <1>4, <3>1, <3>2 DEF Answers
    <3> QED
      BY <2>1, <2>2, <3>3 DEF Outcome
  <2>3. CASE line # "nothing"
    <3>1. Answers(p, s, q, <<line>>)
      BY <1>1, <1>4, <2>3, Types
    <3>2. r = Outcome(q, <<line>>)
      BY <1>4, <2>1, <2>3
    <3> QED
      BY <3>1, <3>2 DEF Outcome
  <2> QED
    BY <2>2, <2>3
<1> QED
  BY <1>3, <1>4

\* The move m from this state along the arc to this one.
Arc(m, from, state, at, status, to, err) == from = state /\ at = status /\ m = To(to, err)

LEMMA ExpireMoves ==
  ASSUME NEW state, NEW s, NEW err, NEW m, m = edit_expire_fnc_transit(state, s, err)
  PROVE  \/ Arc(m, state, "START", s, Line("keyedit.prompt"), "COMMAND", err)
         \/ Arc(m, state, "COMMAND", s, Line("keygen.valid"), "DATE", err)
         \/ Arc(m, state, "DATE", s, Line("keyedit.prompt"), "QUIT", err)
         \/ Arc(m, state, "DATE", s, Line("keygen.valid"), "ERROR", "INV_TIME")
         \/ Arc(m, state, "QUIT", s, Bool("keyedit.save.okay"), "SAVE", err)
         \/ Arc(m, state, "ERROR", s, Line("keyedit.prompt"), "QUIT", err)
         \/ m = Lost(state, err)
<1> DEFINE arcs == {<<"START", Line("keyedit.prompt"), "COMMAND", err>>,
                    <<"COMMAND", Line("keygen.valid"), "DATE", err>>,
                    <<"DATE", Line("keyedit.prompt"), "QUIT", err>>,
                    <<"DATE", Line("keygen.valid"), "ERROR", "INV_TIME">>,
                    <<"QUIT", Bool("keyedit.save.okay"), "SAVE", err>>,
                    <<"ERROR", Line("keyedit.prompt"), "QUIT", err>>}
<1>1. m = Move(arcs, state, s, Lost(state, err))
  BY DEF edit_expire_fnc_transit
<1>2. \/ m = Lost(state, err)
      \/ \E a \in arcs : a[1] = state /\ a[2] = s /\ m = To(a[3], a[4])
  BY <1>1, MoveIs
<1> QED
  BY <1>2 DEF Arc

\* The parameters p in this state, with this error.
At(p, state, err) ==
  [kind |-> p.kind, data |-> p.data, state |-> state, post |-> p.post, err |-> err]

\* All that q types is this line.
TypesOnly(p, s, q, line) ==
  /\ p.err = "none" /\ action(q) = {line}
  /\ line \notin {"nothing", "bug"} /\ Typed(p, s, q, line)

LEMMA PlainMove ==
  ASSUME NEW p \in ParmsType, NEW s, NEW m,
         transit(p, s) = [state |-> m.state, err |-> m.err, post |-> p.post]
  PROVE  Moved(p, transit(p, s)) = At(p, m.state, m.err)
<1> DEFINE t == transit(p, s)
<1>1. t.state = m.state /\ t.err = m.err /\ t.post = p.post
  OBVIOUS
<1> HIDE DEF t
<1>2. p = [kind |-> p.kind, data |-> p.data, state |-> p.state, post |-> p.post, err |-> p.err]
  BY DEF ParmsType
<1>3. [p EXCEPT !.state = m.state]
        = [kind |-> p.kind, data |-> p.data, state |-> m.state, post |-> p.post, err |-> p.err]
  BY <1>2
<1>4. Moved(p, t) = [[p EXCEPT !.state = m.state] EXCEPT !.post = p.post, !.err = m.err]
  BY <1>1 DEF Moved
<1>5. Moved(p, t) = At(p, m.state, m.err)
  BY <1>3, <1>4 DEF At
<1> QED
  BY <1>5 DEF t

LEMMA ReactsPlainly ==
  ASSUME NEW p \in ParmsType, NEW s, s.code \in Known \ {"SC_OP_FAILURE"},
         NEW r \in edit_fnc(p, s), NEW m,
         transit(p, s) = [state |-> m.state, err |-> m.err, post |-> p.post],
         ParmsFit(At(p, m.state, m.err)),
         m.err = "none" => \E line : TypesOnly(p, s, At(p, m.state, m.err), line)
  PROVE  Answers(p, s, r.parms, r.typed)
<1> DEFINE q == At(p, m.state, m.err)
<1>1. q = Moved(p, transit(p, s))
  BY PlainMove
<1>2. q.err = m.err
  BY DEF At
<1>3. q.err = "none" =>
        /\ p.err = "none"
        /\ \A line \in action(q) :
             IF line = "nothing" THEN Steps(p, s, q, <<>>)
             ELSE line # "bug" /\ Typed(p, s, q, line)
  BY <1>2 DEF TypesOnly
<1>4. ParmsFit(q)
  OBVIOUS
<1> HIDE DEF q
<1> QED
  BY <1>1, <1>3, <1>4, Reacts

LEMMA ExpireAnswers ==
  ASSUME NEW p, NEW s, Comes(p, s), p.kind = "expire", s.code \in Known \ {"SC_OP_FAILURE"},
         NEW r \in edit_fnc(p, s)
  PROVE  Answers(p, s, r.parms, r.typed)
<1> DEFINE m == edit_expire_fnc_transit(p.state, s, p.err)
           q == At(p, m.state, m.err)
<1>1. p \in ParmsType /\ p.data \in {"0", "date"} /\ p.err # "EAGAIN"
      /\ p.state \in {"START", "COMMAND", "DATE", "QUIT", "SAVE", "ERROR"}
      /\ (p.state = "ERROR" => p.err # "none")
  BY DEF Comes, ParmsFit, DataOf, StatesOf, expiry_dialog_run
<1>2. transit(p, s) = [state |-> m.state, err |-> m.err, post |-> p.post]
  BY DEF transit
<1>3. \/ Arc(m, p.state, "START", s, Line("keyedit.prompt"), "COMMAND", p.err)
      \/ Arc(m, p.state, "COMMAND", s, Line("keygen.valid"), "DATE", p.err)
      \/ Arc(m, p.state, "DATE", s, Line("keyedit.prompt"), "QUIT", p.err)
      \/ Arc(m, p.state, "DATE", s, Line("keygen.valid"), "ERROR", "INV_TIME")
      \/ Arc(m, p.state, "QUIT", s, Bool("keyedit.save.okay"), "SAVE", p.err)
      \/ Arc(m, p.state, "ERROR", s, Line("keyedit.prompt"), "QUIT", p.err)
      \/ m = Lost(p.state, p.err)
  BY ExpireMoves
<1> HIDE DEF m
<1>4. ParmsFit(q)
  BY <1>1, <1>3 DEF Arc, To, Lost, ParmsFit, ParmsType, At, EditErrors, States, DataOf, StatesOf,
     expiry_dialog_run, EditKinds
<1>5. ASSUME m.err = "none"
      PROVE  \E line : TypesOnly(p, s, q, line)
  <2>0. \/ Arc(m, p.state, "START", s, Line("keyedit.prompt"), "COMMAND", p.err)
        \/ Arc(m, p.state, "COMMAND", s, Line("keygen.valid"), "DATE", p.err)
        \/ Arc(m, p.state, "DATE", s, Line("keyedit.prompt"), "QUIT", p.err)
        \/ Arc(m, p.state, "QUIT", s, Bool("keyedit.save.okay"), "SAVE", p.err)
    BY <1>1, <1>3, <1>5 DEF Arc, To, Lost
  <2> USE DEF TypesOnly, Typed, At, action, edit_expire_fnc_action, Lines, AsksForLine, Line, Bool,
              Status, Fits, Believes, Given, Stage
  <2>1. CASE Arc(m, p.state, "START", s, Line("keyedit.prompt"), "COMMAND", p.err)
    <3>1. TypesOnly(p, s, q, "expire")
      BY <1>1, <1>5, <2>1 DEF Arc, To
    <3> QED
      BY <3>1
  <2>2. CASE Arc(m, p.state, "COMMAND", s, Line("keygen.valid"), "DATE", p.err)
    <3>1. TypesOnly(p, s, q, p.data)
      BY <1>1, <1>5, <2>2 DEF Arc, To
    <3> QED
      BY <3>1
  <2>3. CASE Arc(m, p.state, "DATE", s, Line("keyedit.prompt"), "QUIT", p.err)
    <3>1. TypesOnly(p, s, q, "quit")
      BY <1>1, <1>5, <2>3 DEF Arc, To, Confirms, Awaits
    <3> QED
      BY <3>1
  <2>4. CASE Arc(m, p.state, "QUIT", s, Bool("keyedit.save.okay"), "SAVE", p.err)
    <3>1. TypesOnly(p, s, q, "Y")
      BY <1>1, <1>5, <2>4 DEF Arc, To
    <3> QED
      BY <3>1
  <2> QED
    BY <2>0, <2>1, <2>2, <2>3, <2>4
<1> HIDE DEF q
<1> QED
  BY <1>1, <1>2, <1>4, <1>5, ReactsPlainly DEF q

LEMMA TrustMoves ==
  ASSUME NEW state, NEW s, NEW err, NEW m, m = edit_trust_fnc_transit(state, s, err)
  PROVE  \/ Arc(m, state, "START", s, Line("keyedit.prompt"), "COMMAND", err)
         \/ Arc(m, state, "COMMAND", s, Line("edit_ownertrust.value"), "VALUE", err)
         \/ Arc(m, state, "VALUE", s, Line("keyedit.prompt"), "QUIT", err)
         \/ Arc(m, state, "VALUE", s, Bool("edit_ownertrust.set_ultimate.okay"), "REALLY_ULTIMATE", err)
         \/ Arc(m, state, "REALLY_ULTIMATE", s, Line("keyedit.prompt"), "QUIT", err)
         \/ Arc(m, state, "QUIT", s, Bool("keyedit.save.okay"), "SAVE", err)
         \/ Arc(m, state, "ERROR", s, Line("keyedit.prompt"), "QUIT", err)
         \/ m = Lost(state, err)
<1> DEFINE arcs == {<<"START", Line("keyedit.prompt"), "COMMAND", err>>,
                    <<"COMMAND", Line("edit_ownertrust.value"), "VALUE", err>>,
                    <<"VALUE", Line("keyedit.prompt"), "QUIT", err>>,
                    <<"VALUE", Bool("edit_ownertrust.set_ultimate.okay"), "REALLY_ULTIMATE", err>>,
                    <<"REALLY_ULTIMATE", Line("keyedit.prompt"), "QUIT", err>>,
                    <<"QUIT", Bool("keyedit.save.okay"), "SAVE", err>>,
                    <<"ERROR", Line("keyedit.prompt"), "QUIT", err>>}
<1>1. m = Move(arcs, state, s, Lost(state, err))
  BY DEF edit_trust_fnc_transit
<1>2. \/ m = Lost(state, err)
      \/ \E a \in arcs : a[1] = state /\ a[2] = s /\ m = To(a[3], a[4])
  BY <1>1, MoveIs
<1> QED
  BY <1>2 DEF Arc

LEMMA TrustAnswers ==
  ASSUME NEW p, NEW s, Comes(p, s), p.kind = "trust", s.code \in Known \ {"SC_OP_FAILURE"},
         NEW r \in edit_fnc(p, s)
  PROVE  Answers(p, s, r.parms, r.typed)
<1> DEFINE m == edit_trust_fnc_transit(p.state, s, p.err)
           q == At(p, m.state, m.err)
<1>1. /\ p \in ParmsType /\ p.data \in {"value", "5"} /\ p.err # "EAGAIN"
      /\ p.state \in {"START", "COMMAND", "VALUE", "REALLY_ULTIMATE", "QUIT", "SAVE", "ERROR"}
      /\ p.state = "ERROR" => p.err # "none"
  BY DEF Comes, ParmsFit, DataOf, StatesOf, ownertrust_run_dialog
<1>2. transit(p, s) = [state |-> m.state, err |-> m.err, post |-> p.post]
  BY DEF transit
<1>3. \/ Arc(m, p.state, "START", s, Line("keyedit.prompt"), "COMMAND", p.err)
      \/ Arc(m, p.state, "COMMAND", s, Line("edit_ownertrust.value"), "VALUE", p.err)
      \/ Arc(m, p.state, "VALUE", s, Line("keyedit.prompt"), "QUIT", p.err)
      \/ Arc(m, p.state, "VALUE", s, Bool("edit_ownertrust.set_ultimate.okay"), "REALLY_ULTIMATE", p.err)
      \/ Arc(m, p.state, "REALLY_ULTIMATE", s, Line("keyedit.prompt"), "QUIT", p.err)
      \/ Arc(m, p.state, "QUIT", s, Bool("keyedit.save.okay"), "SAVE", p.err)
      \/ Arc(m, p.state, "ERROR", s, Line("keyedit.prompt"), "QUIT", p.err)
      \/ m = Lost(p.state, p.err)
  BY TrustMoves
<1> HIDE DEF m
<1>4. ParmsFit(q)
  BY <1>1, <1>3 DEF Arc, To, Lost, ParmsFit, ParmsType, At, EditErrors, States, DataOf, StatesOf,
     EditKinds, ownertrust_run_dialog
<1>5. ASSUME m.err = "none"
      PROVE  \E line : TypesOnly(p, s, q, line)
  <2>1. \/ Arc(m, p.state, "START", s, Line("keyedit.prompt"), "COMMAND", p.err)
        \/ Arc(m, p.state, "COMMAND", s, Line("edit_ownertrust.value"), "VALUE", p.err)
        \/ Arc(m, p.state, "VALUE", s, Line("keyedit.prompt"), "QUIT", p.err)
        \/ Arc(m, p.state, "VALUE", s, Bool("edit_ownertrust.set_ultimate.okay"), "REALLY_ULTIMATE", p.err)
        \/ Arc(m, p.state, "REALLY_ULTIMATE", s, Line("keyedit.prompt"), "QUIT", p.err)
        \/ Arc(m, p.state, "QUIT", s, Bool("keyedit.save.okay"), "SAVE", p.err)
    BY <1>1, <1>3, <1>5 DEF Arc, To, Lost
  <2> USE DEF TypesOnly, Typed, At, action, edit_trust_fnc_action, Lines, AsksForLine, Line, Bool,
              Status, Fits, Believes, Given, Stage
  <2>2. CASE Arc(m, p.state, "START", s, Line("keyedit.prompt"), "COMMAND", p.err)
    <3>1. TypesOnly(p, s, q, "trust")
      BY <1>1, <1>5, <2>2 DEF Arc, To
    <3> QED
      BY <3>1
  <2>3. CASE Arc(m, p.state, "COMMAND", s, Line("edit_ownertrust.value"), "VALUE", p.err)
    <3>1. TypesOnly(p, s, q, p.data)
      BY <1>1, <1>5, <2>3 DEF Arc, To
    <3> QED
      BY <3>1
  <2>4. CASE Arc(m, p.state, "VALUE", s, Line("keyedit.prompt"), "QUIT", p.err)
    <3>1. TypesOnly(p, s, q, "quit")
      BY <1>1, <1>5, <2>4 DEF Arc, To, Confirms, Awaits
    <3> QED
      BY <3>1
  <2>5. CASE Arc(m, p.state, "VALUE", s, Bool("edit_ownertrust.set_ultimate.okay"), "REALLY_ULTIMATE", p.err)
    <3>1. TypesOnly(p, s, q, "Y")
      BY <1>1, <1>5, <2>5 DEF Arc, To
    <3> QED
      BY <3>1
  <2>6. CASE Arc(m, p.state, "REALLY_ULTIMATE", s, Line("keyedit.prompt"), "QUIT", p.err)
    <3>1. TypesOnly(p, s, q, "quit")
      BY <1>1, <1>5, <2>6 DEF Arc, To, Confirms, Awaits
    <3> QED
      BY <3>1
  <2>7. CASE Arc(m, p.state, "QUIT", s, Bool("keyedit.save.okay"), "SAVE", p.err)
    <3>1. TypesOnly(p, s, q, "Y")
      BY <1>1, <1>5, <2>7 DEF Arc, To
    <3> QED
      BY <3>1
  <2> QED
    BY <2>1, <2>2, <2>3, <2>4, <2>5, <2>6, <2>7
<1> HIDE DEF q
<1> QED
  BY <1>1, <1>2, <1>4, <1>5, ReactsPlainly DEF q

LEMMA PasswdMoves ==
  ASSUME NEW state, NEW s, NEW err, NEW m, m = edit_passwd_fnc_transit(state, s, err)
  PROVE  \/ Arc(m, state, "START", s, Line("keyedit.prompt"), "COMMAND", err)
         \/ Arc(m, state, "COMMAND", s, Line("keyedit.prompt"), "QUIT", err)
         \/ Arc(m, state, "QUIT", s, Bool("keyedit.save.okay"), "SAVE", err)
         \/ Arc(m, state, "ERROR", s, Line("keyedit.prompt"), "QUIT", err)
         \/ m = Lost(state, err)
<1> DEFINE arcs == {<<"START", Line("keyedit.prompt"), "COMMAND", err>>,
                    <<"COMMAND", Line("keyedit.prompt"), "QUIT", err>>,
                    <<"QUIT", Bool("keyedit.save.okay"), "SAVE", err>>,
                    <<"ERROR", Line("keyedit.prompt"), "QUIT", err>>}
<1>1. m = Move(arcs, state, s, Lost(state, err))
  BY DEF edit_passwd_fnc_transit
<1>2. \/ m = Lost(state, err)
      \/ \E a \in arcs : a[1] = state /\ a[2] = s /\ m = To(a[3], a[4])
  BY <1>1, MoveIs
<1> QED
  BY <1>2 DEF Arc

LEMMA PasswdAnswers ==
  ASSUME NEW p, NEW s, Comes(p, s), p.kind = "passwd", s.code \in Known \ {"SC_OP_FAILURE"},
         NEW r \in edit_fnc(p, s)
  PROVE  Answers(p, s, r.parms, r.typed)
<1> DEFINE m == edit_passwd_fnc_transit(p.state, s, p.err)
           q == At(p, m.state, m.err)
<1>1. /\ p \in ParmsType /\ p.data \in {"passwd"} /\ p.err # "EAGAIN"
      /\ p.state \in {"START", "COMMAND", "QUIT", "SAVE", "ERROR"}
      /\ p.state = "ERROR" => p.err # "none"
  BY DEF Comes, ParmsFit, DataOf, StatesOf
<1>2. transit(p, s) = [state |-> m.state, err |-> m.err, post |-> p.post]
  BY DEF transit
<1>3. \/ Arc(m, p.state, "START", s, Line("keyedit.prompt"), "COMMAND", p.err)
      \/ Arc(m, p.state, "COMMAND", s, Line("keyedit.prompt"), "QUIT", p.err)
      \/ Arc(m, p.state, "QUIT", s, Bool("keyedit.save.okay"), "SAVE", p.err)
      \/ Arc(m, p.state, "ERROR", s, Line("keyedit.prompt"), "QUIT", p.err)
      \/ m = Lost(p.state, p.err)
  BY PasswdMoves
<1> HIDE DEF m
<1>4. ParmsFit(q)
  BY <1>1, <1>3 DEF Arc, To, Lost, ParmsFit, ParmsType, At, EditErrors, States, DataOf, StatesOf,
     EditKinds
<1>5. ASSUME m.err = "none"
      PROVE  \E line : TypesOnly(p, s, q, line)
  <2>1. \/ Arc(m, p.state, "START", s, Line("keyedit.prompt"), "COMMAND", p.err)
        \/ Arc(m, p.state, "COMMAND", s, Line("keyedit.prompt"), "QUIT", p.err)
        \/ Arc(m, p.state, "QUIT", s, Bool("keyedit.save.okay"), "SAVE", p.err)
    BY <1>1, <1>3, <1>5 DEF Arc, To, Lost
  <2> USE DEF TypesOnly, Typed, At, action, edit_passwd_fnc_action, Lines, AsksForLine, Line, Bool,
              Status, Fits, Believes, Given, Stage
  <2>2. CASE Arc(m, p.state, "START", s, Line("keyedit.prompt"), "COMMAND", p.err)
    <3>1. TypesOnly(p, s, q, "passwd")
      BY <1>1, <1>5, <2>2 DEF Arc, To
    <3> QED
      BY <3>1
  <2>3. CASE Arc(m, p.state, "COMMAND", s, Line("keyedit.prompt"), "QUIT", p.err)
    <3>1. TypesOnly(p, s, q, "quit")
      BY <1>1, <1>5, <2>3 DEF Arc, To, Confirms, Awaits
    <3> QED
      BY <3>1
  <2>4. CASE Arc(m, p.state, "QUIT", s, Bool("keyedit.save.okay"), "SAVE", p.err)
    <3>1. TypesOnly(p, s, q, "Y")
      BY <1>1, <1>5, <2>4 DEF Arc, To
    <3> QED
      BY <3>1
  <2> QED
    BY <2>1, <2>2, <2>3, <2>4
<1> HIDE DEF q
<1> QED
  BY <1>1, <1>2, <1>4, <1>5, ReactsPlainly DEF q

\* What the machine for signing does with a status it has no arc for.
SignDefault(m, state, s, err) ==
  /\ ~(state = "CONFIRM" /\ s = Line("keyedit.prompt"))
  /\ m = IF state \in Asking /\ AsksForLine(s) THEN To(state, "EAGAIN")
         ELSE IF state = "CONFIRM" /\ s.code = "ERROR" THEN To("ERROR", s.arg)
         ELSE Lost(state, err)

LEMMA SignMoves ==
  ASSUME NEW state, NEW s, NEW err, NEW m, m = edit_sign_fnc_transit(state, s, err)
  PROVE  \/ Arc(m, state, "START", s, Line("keyedit.prompt"), "COMMAND", err)
         \/ Arc(m, state, "COMMAND", s, Bool("keyedit.sign_all.okay"), "UIDS", err)
         \/ Arc(m, state, "COMMAND", s, Status("ALREADY_SIGNED", "none"), "ERROR", "CONFLICT")
         \/ Arc(m, state, "SET_EXPIRE", s, Line("sign_uid.class"), "SET_CHECK_LEVEL", err)
         \/ Arc(m, state, "SET_CHECK_LEVEL", s, Bool("sign_uid.okay"), "CONFIRM", err)
         \/ Arc(m, state, "CONFIRM", s, Line("keyedit.prompt"), "QUIT", err)
         \/ Arc(m, state, "QUIT", s, Bool("keyedit.save.okay"), "SAVE", err)
         \/ Arc(m, state, "ERROR", s, Line("keyedit.prompt"), "QUIT", err)
         \/ \E x \in {"COMMAND", "UIDS"} :
              \/ Arc(m, state, x, s, Bool("sign_uid.okay"), "CONFIRM", err)
              \/ Arc(m, state, x, s, Line("sign_uid.expire"), "SET_EXPIRE", err)
              \/ Arc(m, state, x, s, Line("sign_uid.class"), "SET_CHECK_LEVEL", err)
              \/ Arc(m, state, x, s, Line("keyedit.prompt"), "ERROR", "UNUSABLE_PUBKEY")
         \/ SignDefault(m, state, s, err)
<1> DEFINE arcs == {<<"START", Line("keyedit.prompt"), "COMMAND", err>>,
             <<"COMMAND", Bool("keyedit.sign_all.okay"), "UIDS", err>>,
             <<"COMMAND", Status("ALREADY_SIGNED", "none"), "ERROR", "CONFLICT">>,
             <<"SET_EXPIRE", Line("sign_uid.class"), "SET_CHECK_LEVEL", err>>,
             <<"SET_CHECK_LEVEL", Bool("sign_uid.okay"), "CONFIRM", err>>,
             <<"CONFIRM", Line("keyedit.prompt"), "QUIT", err>>,
             <<"QUIT", Bool("keyedit.save.okay"), "SAVE", err>>,
             <<"ERROR", Line("keyedit.prompt"), "QUIT", err>>}
            \cup UNION {{<<x, Bool("sign_uid.okay"), "CONFIRM", err>>,
                         <<x, Line("sign_uid.expire"), "SET_EXPIRE", err>>,
                         <<x, Line("sign_uid.class"), "SET_CHECK_LEVEL", err>>,
                         <<x, Line("keyedit.prompt"), "ERROR", "UNUSABLE_PUBKEY">>} :
                        x \in {"COMMAND", "UIDS"}}
           default == IF state \in Asking /\ AsksForLine(s) THEN To(state, "EAGAIN")
                      ELSE IF state = "CONFIRM" /\ s.code = "ERROR" THEN To("ERROR", s.arg)
                      ELSE Lost(state, err)
<1>1. m = Move(arcs, state, s, default)
  BY DEF edit_sign_fnc_transit, Asking
<1> HIDE DEF default
<1>2. \/ m = default /\ \A a \in arcs : ~(a[1] = state /\ a[2] = s)
      \/ \E a \in arcs : a[1] = state /\ a[2] = s /\ m = To(a[3], a[4])
  BY <1>1, MoveIs
<1>3. CASE m = default /\ \A a \in arcs : ~(a[1] = state /\ a[2] = s)
  <2>1. <<"CONFIRM", Line("keyedit.prompt"), "QUIT", err>> \in arcs
    OBVIOUS
  <2>2. ~(state = "CONFIRM" /\ s = Line("keyedit.prompt"))
    BY <1>3, <2>1
  <2> QED
    BY <1>3, <2>2 DEF SignDefault, default
<1>4. CASE \E a \in arcs : a[1] = state /\ a[2] = s /\ m = To(a[3], a[4])
  BY <1>4 DEF Arc
<1> QED
  BY <1>2, <1>3, <1>4

LEMMA SignAnswers ==
  ASSUME NEW p, NEW s, Comes(p, s), p.kind = "sign", s.code \in Known \ {"SC_OP_FAILURE"},
         NEW r \in edit_fnc(p, s)
  PROVE  Answers(p, s, r.parms, r.typed)
<1> DEFINE m == edit_sign_fnc_transit(p.state, s, p.err)
           q == At(p, m.state, m.err)
<1>1. /\ p \in ParmsType /\ p.data \in {"sign", "lsign"} /\ p.err # "EAGAIN"
      /\ p.state \in Asking \cup {"START", "QUIT", "SAVE", "ERROR"}
      /\ p.state = "ERROR" => p.err # "none"
      /\ p.err # "none" => p.state \in {"QUIT", "SAVE", "ERROR"}
      /\ s.code = "ERROR" => s.arg \in Errors \ {"none"}
      /\ p.state = "CONFIRM" /\ p.err = "none" => s = Line("keyedit.prompt") \/ s.code = "ERROR"
  BY DEF Comes, ParmsFit, DataOf, StatesOf, StatusFits, key_sign_run_dialog
<1>2. transit(p, s) = [state |-> m.state, err |-> m.err, post |-> p.post]
  BY DEF transit
<1>3. \/ Arc(m, p.state, "START", s, Line("keyedit.prompt"), "COMMAND", p.err)
      \/ Arc(m, p.state, "COMMAND", s, Bool("keyedit.sign_all.okay"), "UIDS", p.err)
      \/ Arc(m, p.state, "COMMAND", s, Status("ALREADY_SIGNED", "none"), "ERROR", "CONFLICT")
      \/ Arc(m, p.state, "SET_EXPIRE", s, Line("sign_uid.class"), "SET_CHECK_LEVEL", p.err)
      \/ Arc(m, p.state, "SET_CHECK_LEVEL", s, Bool("sign_uid.okay"), "CONFIRM", p.err)
      \/ Arc(m, p.state, "CONFIRM", s, Line("keyedit.prompt"), "QUIT", p.err)
      \/ Arc(m, p.state, "QUIT", s, Bool("keyedit.save.okay"), "SAVE", p.err)
      \/ Arc(m, p.state, "ERROR", s, Line("keyedit.prompt"), "QUIT", p.err)
      \/ \E x \in {"COMMAND", "UIDS"} :
           \/ Arc(m, p.state, x, s, Bool("sign_uid.okay"), "CONFIRM", p.err)
           \/ Arc(m, p.state, x, s, Line("sign_uid.expire"), "SET_EXPIRE", p.err)
           \/ Arc(m, p.state, x, s, Line("sign_uid.class"), "SET_CHECK_LEVEL", p.err)
           \/ Arc(m, p.state, x, s, Line("keyedit.prompt"), "ERROR", "UNUSABLE_PUBKEY")
      \/ SignDefault(m, p.state, s, p.err)
  BY SignMoves
<1> HIDE DEF m
<1>4. CASE m.err = "EAGAIN"
  <2>1. m = To(p.state, "EAGAIN") /\ p.state \in Asking /\ AsksForLine(s) /\ p.state # "CONFIRM"
    <3>1. SignDefault(m, p.state, s, p.err)
      BY <1>1, <1>3, <1>4 DEF Arc, To
    <3>2. ~(s.code = "ERROR" /\ AsksForLine(s))
      BY DEF AsksForLine
    <3> QED
      BY <1>1, <1>4, <3>1, <3>2 DEF SignDefault, To, Lost, Errors, Asking
  <2> DEFINE again == At(p, p.state, "none")
  <2>2. p.err = "none"
    BY <1>1, <2>1 DEF Asking
  <2>3. Moved(p, transit(p, s)) = q
    BY <1>1, <1>2, PlainMove
  <2>4. r = Outcome(again, <<"">>)
    <3>1. transit(p, s).err = "EAGAIN"
      BY <1>2, <1>4
    <3>2. Retries(r, Moved(p, transit(p, s)))
      BY <1>1, <3>1, EditFnc
    <3>3. m.state = p.state
      BY <2>1 DEF To
    <3>4. With(q, "none") = again
      BY <3>3 DEF With, At
    <3> HIDE DEF q, again
    <3> QED
      BY <2>3, <3>2, <3>4 DEF Retries
  <2>5. ParmsFit(again) /\ again.kind = p.kind
    BY <1>1, <2>1 DEF ParmsFit, ParmsType, At, EditErrors, States, DataOf, StatesOf, EditKinds,
       Asking, key_sign_run_dialog
  <2>6. Typed(p, s, again, "")
    BY <1>1, <2>1, <2>2 DEF Typed, At, Lines, Believes, Given, Stage, Asking
  <2>7. Answers(p, s, again, <<"">>)
    <3> HIDE DEF again
    <3> QED
      BY <2>2, <2>5, <2>6, Types
  <2> QED
    BY <2>4, <2>7 DEF Outcome
<1>5. CASE m.err # "EAGAIN"
  <2>1. ParmsFit(q)
    BY <1>1, <1>3, <1>5 DEF Arc, To, Lost, ParmsFit, ParmsType, At, EditErrors, Errors, States, DataOf,
       StatesOf, EditKinds, SignDefault, Asking, key_sign_run_dialog
  <2>2. ASSUME m.err = "none"
        PROVE  \E line : TypesOnly(p, s, q, line)
    <3>1. \/ Arc(m, p.state, "START", s, Line("keyedit.prompt"), "COMMAND", p.err)
          \/ Arc(m, p.state, "COMMAND", s, Bool("keyedit.sign_all.okay"), "UIDS", p.err)
          \/ Arc(m, p.state, "SET_EXPIRE", s, Line("sign_uid.class"), "SET_CHECK_LEVEL", p.err)
          \/ Arc(m, p.state, "SET_CHECK_LEVEL", s, Bool("sign_uid.okay"), "CONFIRM", p.err)
          \/ Arc(m, p.state, "CONFIRM", s, Line("keyedit.prompt"), "QUIT", p.err)
          \/ Arc(m, p.state, "QUIT", s, Bool("keyedit.save.okay"), "SAVE", p.err)
          \/ \E x \in {"COMMAND", "UIDS"} :
               \/ Arc(m, p.state, x, s, Bool("sign_uid.okay"), "CONFIRM", p.err)
               \/ Arc(m, p.state, x, s, Line("sign_uid.expire"), "SET_EXPIRE", p.err)
               \/ Arc(m, p.state, x, s, Line("sign_uid.class"), "SET_CHECK_LEVEL", p.err)
      BY <1>1, <1>3, <2>2 DEF Arc, To, Lost, SignDefault
    <3> USE DEF TypesOnly, Typed, At, action, edit_sign_fnc_action, Lines, AsksForLine, Line, Bool,
                Status, Fits, Believes, Given, Stage
    <3>2. CASE Arc(m, p.state, "START", s, Line("keyedit.prompt"), "COMMAND", p.err)
      <4>1. TypesOnly(p, s, q, p.data)
        BY <1>1, <2>2, <3>2 DEF Arc, To
      <4> QED
        BY <4>1
    <3>3. CASE Arc(m, p.state, "COMMAND", s, Bool("keyedit.sign_all.okay"), "UIDS", p.err)
      <4>1. TypesOnly(p, s, q, "Y")
        BY <1>1, <2>2, <3>3 DEF Arc, To
      <4> QED
        BY <4>1
    <3>4. CASE Arc(m, p.state, "SET_EXPIRE", s, Line("sign_uid.class"), "SET_CHECK_LEVEL", p.err)
      <4>1. TypesOnly(p, s, q, "0")
        BY <1>1, <2>2, <3>4 DEF Arc, To
      <4> QED
        BY <4>1
    <3>5. CASE Arc(m, p.state, "SET_CHECK_LEVEL", s, Bool("sign_uid.okay"), "CONFIRM", p.err)
      <4>1. TypesOnly(p, s, q, "Y")
        BY <1>1, <2>2, <3>5 DEF Arc, To
      <4> QED
        BY <4>1
    <3>6. CASE Arc(m, p.state, "CONFIRM", s, Line("keyedit.prompt"), "QUIT", p.err)
      <4>1. TypesOnly(p, s, q, "quit")
        BY <1>1, <2>2, <3>6 DEF Arc, To, Confirms, Awaits
      <4> QED
        BY <4>1
    <3>7. CASE Arc(m, p.state, "QUIT", s, Bool("keyedit.save.okay"), "SAVE", p.err)
      <4>1. TypesOnly(p, s, q, "Y")
        BY <1>1, <2>2, <3>7 DEF Arc, To
      <4> QED
        BY <4>1
    <3>8. CASE \E x \in {"COMMAND", "UIDS"} : Arc(m, p.state, x, s, Bool("sign_uid.okay"), "CONFIRM", p.err)
      <4>1. TypesOnly(p, s, q, "Y")
        BY <1>1, <2>2, <3>8 DEF Arc, To
      <4> QED
        BY <4>1
    <3>9. CASE \E x \in {"COMMAND", "UIDS"} : Arc(m, p.state, x, s, Line("sign_uid.expire"), "SET_EXPIRE", p.err)
      <4>1. TypesOnly(p, s, q, "Y")
        BY <1>1, <2>2, <3>9 DEF Arc, To
      <4> QED
        BY <4>1
    <3>10. CASE \E x \in {"COMMAND", "UIDS"} : Arc(m, p.state, x, s, Line("sign_uid.class"), "SET_CHECK_LEVEL", p.err)
      <4>1. TypesOnly(p, s, q, "0")
        BY <1>1, <2>2, <3>10 DEF Arc, To
      <4> QED
        BY <4>1
    <3> QED
      BY <3>1, <3>2, <3>3, <3>4, <3>5, <3>6, <3>7, <3>8, <3>9, <3>10
  <2> HIDE DEF q
  <2> QED
    BY <1>1, <1>2, <2>1, <2>2, ReactsPlainly DEF q
<1> QED
  BY <1>4, <1>5

\* The move t along an arc of the machine for cards.
CardArc(t, from, state, asked, prompt, to, err, post) ==
  from = state /\ asked = prompt /\ t = [state |-> to, err |-> err, post |-> post]

\* The moves of that machine without an arc: the key is there, the prompt gets its
\* default, or the machine is lost.
CardCreates(t, state, s, err, post) ==
  state = "COMMENT" /\ s.code = "KEY_CREATED" /\ t = [state |-> "DONE", err |-> err, post |-> post]
CardDefault(t, state, s, err) ==
  state \in Generating /\ AsksForLine(s) /\ t = [state |-> "DEFAULT", err |-> err, post |-> state]
CardLost(t, post) == t = [state |-> "ERROR", err |-> "GENERAL", post |-> post]

AskedIn(s) == IF AsksForLine(s) THEN s.arg ELSE "none"

LEMMA CardMoves ==
  ASSUME NEW current, NEW s, NEW err, NEW post, NEW t, NEW state, NEW asked,
         t = card_edit_genkey_fnc_transit(current, s, err, post),
         state = IF current = "DEFAULT" THEN post ELSE current, asked = AskedIn(s)
  PROVE  \/ CardArc(t, state, "START", asked, "cardedit.prompt", "COMMAND", err, post)
         \/ CardArc(t, state, "COMMAND", asked, "cardedit.prompt", "ADMIN_COMMAND", err, post)
         \/ CardArc(t, state, "ADMIN_COMMAND", asked, "cardedit.genkeys.backup_enc", "BACKUP", err, post)
         \/ CardArc(t, state, "BACKUP", asked, "cardedit.genkeys.replace_keys", "REPLACE_KEYS", err, post)
         \/ CardArc(t, state, "BACKUP", asked, "keygen.valid", "VALIDITY", err, post)
         \/ CardArc(t, state, "REPLACE_KEYS", asked, "keygen.valid", "VALIDITY", err, post)
         \/ CardArc(t, state, "VALIDITY", asked, "keygen.name", "NAME", err, post)
         \/ CardArc(t, state, "NAME", asked, "keygen.email", "EMAIL", err, post)
         \/ CardArc(t, state, "EMAIL", asked, "keygen.comment", "COMMENT", err, post)
         \/ CardArc(t, state, "DONE", asked, "cardedit.prompt", "QUIT", err, post)
         \/ CardCreates(t, state, s, err, post)
         \/ CardDefault(t, state, s, err)
         \/ CardLost(t, post)
<1> DEFINE arcs == {<<"START", "cardedit.prompt", "COMMAND">>,
                    <<"COMMAND", "cardedit.prompt", "ADMIN_COMMAND">>,
                    <<"ADMIN_COMMAND", "cardedit.genkeys.backup_enc", "BACKUP">>,
                    <<"BACKUP", "cardedit.genkeys.replace_keys", "REPLACE_KEYS">>,
                    <<"BACKUP", "keygen.valid", "VALIDITY">>,
                    <<"REPLACE_KEYS", "keygen.valid", "VALIDITY">>,
                    <<"VALIDITY", "keygen.name", "NAME">>,
                    <<"NAME", "keygen.email", "EMAIL">>,
                    <<"EMAIL", "keygen.comment", "COMMENT">>,
                    <<"DONE", "cardedit.prompt", "QUIT">>}
           fits == {a \in arcs : a[1] = state /\ a[2] = asked}
           again == [NAME |-> "keygen.name", EMAIL |-> "keygen.email"]
<1>1. t = IF fits # {}
          THEN [state |-> (CHOOSE a \in fits : TRUE)[3], err |-> err, post |-> post]
          ELSE IF state = "COMMENT" /\ s.code = "KEY_CREATED"
          THEN [state |-> "DONE", err |-> err, post |-> post]
          ELSE IF /\ state \in Generating /\ asked # "none"
                  /\ asked # "cardedit.prompt"
                  /\ state \in DOMAIN again => asked # again[state]
          THEN [state |-> "DEFAULT", err |-> err, post |-> state]
          ELSE [state |-> "ERROR", err |-> "GENERAL", post |-> post]
  BY DEF card_edit_genkey_fnc_transit, AskedIn, Generating
<1>2. CASE fits # {}
  <2> DEFINE arc == CHOOSE a \in fits : TRUE
  <2>1. arc \in fits
    BY <1>2
  <2>2. t = [state |-> arc[3], err |-> err, post |-> post]
    BY <1>1, <1>2
  <2> HIDE DEF arc
  <2> QED
    BY <2>1, <2>2 DEF CardArc
<1>3. CASE fits = {}
  BY <1>1, <1>3 DEF CardCreates, CardDefault, CardLost, AskedIn
<1> QED
  BY <1>2, <1>3

LEMMA MovedIs ==
  ASSUME NEW p \in ParmsType, NEW t
  PROVE  Moved(p, t) = [kind |-> p.kind, data |-> p.data, state |-> t.state, post |-> t.post,
                        err |-> t.err]
<1>1. p = [kind |-> p.kind, data |-> p.data, state |-> p.state, post |-> p.post, err |-> p.err]
  BY DEF ParmsType
<1>2. [p EXCEPT !.state = t.state]
        = [kind |-> p.kind, data |-> p.data, state |-> t.state, post |-> p.post, err |-> p.err]
  BY <1>1
<1>3. Moved(p, t) = [[p EXCEPT !.state = t.state] EXCEPT !.post = t.post, !.err = t.err]
  BY DEF Moved
<1> QED
  BY <1>2, <1>3

LEMMA CardAnswers ==
  ASSUME NEW p, NEW s, Comes(p, s), p.kind = "card", s.code \in Known \ {"SC_OP_FAILURE"},
         NEW r \in edit_fnc(p, s)
  PROVE  Answers(p, s, r.parms, r.typed)
<1> DEFINE t == card_edit_genkey_fnc_transit(p.state, s, p.err, p.post)
           q == Moved(p, t)
           state == Stage(p)
           asked == AskedIn(s)
<1>1. /\ p \in ParmsType /\ p.data \in {"Y", "N"} /\ p.err # "EAGAIN"
      /\ p.state \in Generating \cup {"START", "COMMAND", "DEFAULT", "COMMENT", "QUIT", "ERROR"}
      /\ p.state = "ERROR" => p.err # "none"
      /\ p.state = "DEFAULT" => p.post \in Generating
  BY DEF Comes, ParmsFit, DataOf, StatesOf, key_gen_run_dialog
<1>2. t = transit(p, s)
  BY DEF transit
<1>3. \/ CardArc(t, state, "START", asked, "cardedit.prompt", "COMMAND", p.err, p.post)
      \/ CardArc(t, state, "COMMAND", asked, "cardedit.prompt", "ADMIN_COMMAND", p.err, p.post)
      \/ CardArc(t, state, "ADMIN_COMMAND", asked, "cardedit.genkeys.backup_enc", "BACKUP", p.err, p.post)
      \/ CardArc(t, state, "BACKUP", asked, "cardedit.genkeys.replace_keys", "REPLACE_KEYS", p.err, p.post)
      \/ CardArc(t, state, "BACKUP", asked, "keygen.valid", "VALIDITY", p.err, p.post)
      \/ CardArc(t, state, "REPLACE_KEYS", asked, "keygen.valid", "VALIDITY", p.err, p.post)
      \/ CardArc(t, state, "VALIDITY", asked, "keygen.name", "NAME", p.err, p.post)
      \/ CardArc(t, state, "NAME", asked, "keygen.email", "EMAIL", p.err, p.post)
      \/ CardArc(t, state, "EMAIL", asked, "keygen.comment", "COMMENT", p.err, p.post)
      \/ CardArc(t, state, "DONE", asked, "cardedit.prompt", "QUIT", p.err, p.post)
      \/ CardCreates(t, state, s, p.err, p.post)
      \/ CardDefault(t, state, s, p.err)
      \/ CardLost(t, p.post)
  BY CardMoves DEF Stage
<1>4. q = [kind |-> "card", data |-> p.data, state |-> t.state, post |-> t.post, err |-> t.err]
  BY <1>1, MovedIs
<1> HIDE DEF t, q
<1>5. ParmsFit(q)
  BY <1>1, <1>3, <1>4 DEF CardArc, CardCreates, CardDefault, CardLost, ParmsFit, ParmsType, EditErrors,
     States, DataOf, StatesOf, EditKinds, Generating, key_gen_run_dialog
<1>6. ASSUME q.err = "none"
      PROVE  /\ p.err = "none"
             /\ \A line \in action(q) :
                  IF line = "nothing" THEN Steps(p, s, q, <<>>)
                  ELSE line # "bug" /\ Typed(p, s, q, line)
  <2>1. p.err = "none"
    BY <1>3, <1>4, <1>6 DEF CardArc, CardCreates, CardDefault, CardLost
  <2> SUFFICES ASSUME NEW line \in action(q)
               PROVE  IF line = "nothing" THEN Steps(p, s, q, <<>>)
                      ELSE line # "bug" /\ Typed(p, s, q, line)
    BY <2>1
  <2>2. CASE CardArc(t, state, "START", asked, "cardedit.prompt", "COMMAND", p.err, p.post)
    <3>1. line \in {"admin"}
      BY <1>4, <2>2 DEF CardArc, action, card_edit_genkey_fnc_action
    <3>2. AsksForLine(s) /\ s.arg = "cardedit.prompt"
      BY <2>2 DEF CardArc, AskedIn
    <3> QED
      BY <1>1, <1>4, <2>2, <3>1, <3>2 DEF CardArc, Typed, Lines, Fits, Believes, Given, Stage, Essential
  <2>3. CASE CardArc(t, state, "COMMAND", asked, "cardedit.prompt", "ADMIN_COMMAND", p.err, p.post)
    <3>1. line \in {"generate"}
      BY <1>4, <2>3 DEF CardArc, action, card_edit_genkey_fnc_action
    <3>2. AsksForLine(s) /\ s.arg = "cardedit.prompt"
      BY <2>3 DEF CardArc, AskedIn
    <3> QED
      BY <1>1, <1>4, <2>3, <3>1, <3>2 DEF CardArc, Typed, Lines, Fits, Believes, Given, Stage, Essential
  <2>4. CASE CardArc(t, state, "ADMIN_COMMAND", asked, "cardedit.genkeys.backup_enc", "BACKUP", p.err, p.post)
    <3>1. line \in {p.data}
      BY <1>4, <2>4 DEF CardArc, action, card_edit_genkey_fnc_action
    <3>2. AsksForLine(s) /\ s.arg = "cardedit.genkeys.backup_enc"
      BY <2>4 DEF CardArc, AskedIn
    <3> QED
      BY <1>1, <1>4, <2>4, <3>1, <3>2 DEF CardArc, Typed, Lines, Fits, Believes, Given, Stage, Essential
  <2>5. CASE CardArc(t, state, "BACKUP", asked, "cardedit.genkeys.replace_keys", "REPLACE_KEYS", p.err, p.post)
    <3>1. line \in {"Y", "N"}
      BY <1>4, <2>5 DEF CardArc, action, card_edit_genkey_fnc_action
    <3>2. AsksForLine(s) /\ s.arg = "cardedit.genkeys.replace_keys"
      BY <2>5 DEF CardArc, AskedIn
    <3> QED
      BY <1>1, <1>4, <2>5, <3>1, <3>2 DEF CardArc, Typed, Lines, Fits, Believes, Given, Stage, Essential
  <2>6. CASE CardArc(t, state, "BACKUP", asked, "keygen.valid", "VALIDITY", p.err, p.post)
    <3>1. line \in {"days"}
      BY <1>4, <2>6 DEF CardArc, action, card_edit_genkey_fnc_action
    <3>2. AsksForLine(s) /\ s.arg = "keygen.valid"
      BY <2>6 DEF CardArc, AskedIn
    <3> QED
      BY <1>1, <1>4, <2>6, <3>1, <3>2 DEF CardArc, Typed, Lines, Fits, Believes, Given, Stage, Essential
  <2>7. CASE CardArc(t, state, "REPLACE_KEYS", asked, "keygen.valid", "VALIDITY", p.err, p.post)
    <3>1. line \in {"days"}
      BY <1>4, <2>7 DEF CardArc, action, card_edit_genkey_fnc_action
    <3>2. AsksForLine(s) /\ s.arg = "keygen.valid"
      BY <2>7 DEF CardArc, AskedIn
    <3> QED
      BY <1>1, <1>4, <2>7, <3>1, <3>2 DEF CardArc, Typed, Lines, Fits, Believes, Given, Stage, Essential
  <2>8. CASE CardArc(t, state, "VALIDITY", asked, "keygen.name", "NAME", p.err, p.post)
    <3>1. line \in {"name"}
      BY <1>4, <2>8 DEF CardArc, action, card_edit_genkey_fnc_action
    <3>2. AsksForLine(s) /\ s.arg = "keygen.name"
      BY <2>8 DEF CardArc, AskedIn
    <3> QED
      BY <1>1, <1>4, <2>8, <3>1, <3>2 DEF CardArc, Typed, Lines, Fits, Believes, Given, Stage, Essential
  <2>9. CASE CardArc(t, state, "NAME", asked, "keygen.email", "EMAIL", p.err, p.post)
    <3>1. line \in {"email"}
      BY <1>4, <2>9 DEF CardArc, action, card_edit_genkey_fnc_action
    <3>2. AsksForLine(s) /\ s.arg = "keygen.email"
      BY <2>9 DEF CardArc, AskedIn
    <3> QED
      BY <1>1, <1>4, <2>9, <3>1, <3>2 DEF CardArc, Typed, Lines, Fits, Believes, Given, Stage, Essential
  <2>10. CASE CardArc(t, state, "EMAIL", asked, "keygen.comment", "COMMENT", p.err, p.post)
    <3>1. line \in {"comment"}
      BY <1>4, <2>10 DEF CardArc, action, card_edit_genkey_fnc_action
    <3>2. AsksForLine(s) /\ s.arg = "keygen.comment"
      BY <2>10 DEF CardArc, AskedIn
    <3> QED
      BY <1>1, <1>4, <2>10, <3>1, <3>2 DEF CardArc, Typed, Lines, Fits, Believes, Given, Stage, Essential
  <2>11. CASE CardArc(t, state, "DONE", asked, "cardedit.prompt", "QUIT", p.err, p.post)
    <3>1. line \in {"quit"}
      BY <1>4, <2>11 DEF CardArc, action, card_edit_genkey_fnc_action
    <3>2. AsksForLine(s) /\ s.arg = "cardedit.prompt"
      BY <2>11 DEF CardArc, AskedIn
    <3> QED
      BY <1>1, <1>4, <2>11, <3>1, <3>2 DEF CardArc, Typed, Lines, Fits, Believes, Given, Stage, Essential
  <2>12. CASE CardCreates(t, state, s, p.err, p.post)
    <3>1. line = "nothing"
      BY <1>4, <2>12 DEF CardCreates, action, card_edit_genkey_fnc_action
    <3>2. p.state = "COMMENT"
      BY <1>1, <2>12 DEF CardCreates, Stage, Generating
    <3>3. q.state = "DONE" /\ q.kind = "card" /\ q.data = p.data
      BY <1>4, <2>12 DEF CardCreates
    <3>4. s.code = "KEY_CREATED" /\ ~AsksForLine(s)
      BY <2>12 DEF CardCreates, AsksForLine
    <3>5. Given(q) \subseteq Given(p)
      BY <3>2, <3>3 DEF Given, Stage, Essential
    <3>6. Confirms(p, s)
      BY <3>2, <3>4 DEF Confirms, Awaits
    <3>7. Steps(p, s, q, <<>>)
      BY <3>2, <3>3, <3>4, <3>5, <3>6 DEF Steps
    <3> QED
      BY <3>1, <3>7
  <2>13. CASE CardDefault(t, state, s, p.err)
    <3>1. line = ""
      BY <1>4, <2>13 DEF CardDefault, action, card_edit_genkey_fnc_action
    <3>2. q.state = "DEFAULT" /\ q.post = state /\ q.kind = "card" /\ q.data = p.data
      BY <1>4, <2>13 DEF CardDefault
    <3>3. Stage(q) = Stage(p) /\ Given(q) = Given(p)
      BY <3>2 DEF Stage, Given, Essential
    <3>4. Believes(q, s.arg, line)
      BY <3>1, <3>2 DEF Believes
    <3>5. p.state \notin {"QUIT", "SAVE"}
      BY <1>1, <2>13 DEF CardDefault, Stage, Generating
    <3>6. AsksForLine(s)
      BY <2>13 DEF CardDefault
    <3> QED
      BY <3>1, <3>3, <3>4, <3>5, <3>6 DEF Typed, Lines
  <2>14. CASE CardLost(t, p.post)
    BY <1>4, <1>6, <2>14 DEF CardLost
  <2> QED
    BY <1>3, <2>2, <2>3, <2>4, <2>5, <2>6, <2>7, <2>8, <2>9, <2>10, <2>11, <2>12, <2>13, <2>14
<1> QED
  BY <1>1, <1>2, <1>5, <1>6, Reacts DEF q

LEMMA EditAnswers ==
  ASSUME NEW p, NEW s, Comes(p, s), NEW r \in edit_fnc(p, s)
  PROVE  Answers(p, s, r.parms, r.typed)
<1>1. ParmsFit(p) /\ p \in ParmsType /\ StatusFits(p.kind, s)
  BY DEF Comes, ParmsFit
<1>2. CASE s.code \notin Known
  <2>1. r = Outcome(p, <<>>)
    BY <1>2 DEF edit_fnc, Outcome, Known
  <2>2. s.code = "NEED_PASSPHRASE_SYM" /\ ~AsksForLine(s)
    BY <1>1, <1>2 DEF StatusFits, Statuses, AsksForLine
  <2>3. Steps(p, s, p, <<>>)
    BY <2>2 DEF Steps
  <2>4. <<>> \in Seq(Lines) /\ Len(<<>>) <= 1
    OBVIOUS
  <2>5. Answers(p, s, p, <<>>)
    BY <1>1, <2>3, <2>4 DEF Answers
  <2> QED
    BY <2>1, <2>5 DEF Outcome
<1>3. CASE s.code = "SC_OP_FAILURE"
  <2> DEFINE q == [p EXCEPT !.err = IF p.err = "none" THEN s.arg ELSE p.err]
  <2>1. r = Outcome(q, <<>>)
    BY <1>3 DEF edit_fnc, Outcome, Known
  <2>2. s.arg \in Errors \ {"none"} /\ p.kind = "card"
    BY <1>1, <1>3 DEF StatusFits
  <2>3. /\ q.kind = p.kind /\ q.state = p.state /\ q.post = p.post /\ q.data = p.data
        /\ q.err = IF p.err = "none" THEN s.arg ELSE p.err
        /\ q \in ParmsType
    BY <1>1, <2>2 DEF ParmsType, Errors
  <2>4. q.err \notin {"none", "EAGAIN"}
    BY <1>1, <2>2, <2>3 DEF ParmsFit, Errors
  <2> HIDE DEF q
  <2>5. ParmsFit(q)
    BY <1>1, <2>2, <2>3, <2>4 DEF ParmsFit
  <2>6. Answers(p, s, q, <<>>)
    BY <2>3, <2>4, <2>5, FailsQuietly
  <2> QED
    BY <2>1, <2>6 DEF Outcome
<1>4. CASE s.code \in Known \ {"SC_OP_FAILURE"}
  <2>1. p.kind \in {"expire", "trust", "sign", "passwd", "card"}
    BY <1>1 DEF ParmsType, EditKinds
  <2> QED
    BY <1>4, <2>1, ExpireAnswers, TrustAnswers, SignAnswers, PasswdAnswers, CardAnswers
<1> QED
  BY <1>2, <1>3, <1>4

-----------------------------------------------------------------------------
(* A status is delivered.                                                  *)

LEMMA EmptyIs ==
  ASSUME NEW S, NEW seq \in Seq(S)
  PROVE  seq = <<>> <=> Len(seq) = 0
<1>1. Len(<<>>) = 0 /\ (seq # <<>> => Len(seq) \in Nat \ {0})
  BY EmptySeq
<1> QED
  BY <1>1

LEMMA TailIs ==
  ASSUME NEW S, NEW seq \in Seq(S), seq # <<>>
  PROVE  /\ Len(seq) \in Nat \ {0} /\ DOMAIN seq = 1 .. Len(seq)
         /\ Tail(seq) \in Seq(S) /\ Len(Tail(seq)) = Len(seq) - 1
         /\ DOMAIN Tail(seq) = 1 .. Len(seq) - 1
         /\ \A i \in 1 .. Len(seq) - 1 : Tail(seq)[i] = seq[i + 1]
         /\ Tail(seq) = <<>> <=> Len(seq) = 1
         /\ Head(seq) = seq[1]
<1>1. Len(seq) \in Nat \ {0} /\ DOMAIN seq = 1 .. Len(seq)
  OBVIOUS
<1>2. Tail(seq) \in Seq(S) /\ Len(Tail(seq)) = Len(seq) - 1
  OBVIOUS
<1>3. DOMAIN Tail(seq) = 1 .. Len(seq) - 1
  BY <1>2
<1>4. \A i \in 1 .. Len(seq) - 1 : Tail(seq)[i] = seq[i + 1]
  BY <1>1
<1>5. Tail(seq) = <<>> <=> Len(seq) = 1
  <2>1. Tail(seq) = <<>> <=> Len(Tail(seq)) = 0
    BY <1>2, EmptyIs
  <2>2. Len(Tail(seq)) = 0 <=> Len(seq) = 1
    BY <1>1, <1>2
  <2> QED
    BY <2>1, <2>2, Zenon
<1>6. Head(seq) = seq[1]
  OBVIOUS
<1> QED
  BY <1>1, <1>2, <1>3, <1>4, <1>5, <1>6

LEMMA WaitsIs ==
  ASSUME NEW kind, NEW burst, BurstFits(kind, burst), burst # <<>>
  PROVE  /\ Waits(burst) = Waits(Tail(burst)) \/ Tail(burst) = <<>>
         /\ Tail(burst) # <<>> => ~AsksForLine(Head(burst))
         /\ Tail(burst) = <<>> => /\ AsksForLine(Head(burst)) => Waits(burst) = Head(burst).arg
                                  /\ ~AsksForLine(Head(burst)) => Waits(burst) = "none"
         /\ BurstFits(kind, Tail(burst)) /\ StatusFits(kind, Head(burst))
<1> DEFINE tail == Tail(burst)
<1>1. burst \in Seq(Statuses)
  BY DEF BurstFits
<1>2. /\ Len(burst) \in Nat \ {0} /\ DOMAIN burst = 1 .. Len(burst)
      /\ tail \in Seq(Statuses) /\ Len(tail) = Len(burst) - 1
      /\ DOMAIN tail = 1 .. Len(burst) - 1
      /\ \A i \in 1 .. Len(burst) - 1 : tail[i] = burst[i + 1]
      /\ tail = <<>> <=> Len(burst) = 1
      /\ Head(burst) = burst[1]
  BY <1>1, TailIs
<1> HIDE DEF tail
<1>3. tail # <<>> => Last(tail) = Last(burst)
  BY <1>1, <1>2 DEF Last
<1>4. BurstFits(kind, tail) /\ StatusFits(kind, Head(burst))
  BY <1>1, <1>2 DEF BurstFits
<1>5. tail # <<>> => ~AsksForLine(Head(burst))
  BY <1>1, <1>2 DEF BurstFits
<1>6. tail = <<>> => Last(burst) = Head(burst)
  BY <1>1, <1>2 DEF Last
<1> QED
  BY <1>3, <1>4, <1>5, <1>6 DEF Waits, tail

LEMMA DeliveryFits ==
  ASSUME NEW p, NEW g \in GpgType, NEW k, DialogueFits(p, g, k), g.burst # <<>>,
         NEW r \in edit_fnc(p, Head(g.burst)),
         NEW h, h = [g EXCEPT !.burst = Tail(g.burst), !.input = g.input \o r.typed]
  PROVE  /\ h \in GpgType /\ r.parms \in ParmsType /\ r.parms.kind = p.kind
         /\ DialogueFits(r.parms, h, k)
<1> DEFINE s == Head(g.burst)
           q == r.parms
           typed == r.typed
           tail == Tail(g.burst)
<1>1. /\ ParmsFit(p) /\ BurstFits(p.kind, g.burst) /\ LinesFit(g)
      /\ p.err = "none" => InStep(p, g, k)
  BY DEF DialogueFits
<1>2. g.input = <<>> /\ g.at = Waits(g.burst)
  BY <1>1 DEF LinesFit
<1>3. /\ g.at = Waits(tail) \/ tail = <<>>
      /\ tail # <<>> => ~AsksForLine(s)
      /\ tail = <<>> /\ AsksForLine(s) => g.at = s.arg
      /\ BurstFits(p.kind, tail) /\ StatusFits(p.kind, s)
  BY <1>1, <1>2, WaitsIs
<1>4. Answers(p, s, q, typed)
  <2>1. Comes(p, s)
    BY <1>1, <1>3 DEF Comes, InStep
  <2> QED
    BY <2>1, EditAnswers
<1>5. /\ ParmsFit(q) /\ q \in ParmsType /\ q.kind = p.kind
      /\ typed \in Seq(Lines) /\ Len(typed) <= 1
      /\ typed # <<>> => AsksForLine(s) /\ typed[1] \in Fits(s.arg) \cup {""}
      /\ q.err = "none" => p.err = "none" /\ Steps(p, s, q, typed)
  BY <1>4 DEF Answers, ParmsFit
<1>6. /\ g.input \o typed = typed /\ ToSet(g.input) = {}
      /\ typed # <<>> => Head(typed) = typed[1]
  <2>1. g.input \o typed = typed
    BY <1>2, <1>5, ConcatEmptySeq
  <2>2. typed # <<>> => Head(typed) = typed[1]
    BY <1>5, TailIs
  <2>3. ToSet(g.input) = {}
    BY <1>2 DEF ToSet
  <2> QED
    BY <2>1, <2>2, <2>3
<1>7. tail \in Seq(Statuses)
  BY <1>3 DEF BurstFits
<1>8. /\ h \in GpgType /\ h.burst = tail /\ h.input = typed /\ h.at = g.at
      /\ h.with = g.with /\ h.changed = g.changed /\ h.ended = g.ended
  BY <1>5, <1>6, <1>7 DEF GpgType, Statuses
<1> HIDE DEF s, q, typed, tail
<1>9. LinesFit(h)
  <2>1. h.burst # <<>> => h.input = <<>> /\ h.at = Waits(h.burst)
    BY <1>3, <1>5, <1>8
  <2>2. h.input # <<>> => h.at # "none" /\ Head(h.input) \in Fits(h.at) \cup {""}
    BY <1>3, <1>5, <1>6, <1>8 DEF StatusFits, Prompts
  <2> QED
    BY <1>5, <1>8, <2>1, <2>2 DEF LinesFit
<1>10. ASSUME q.err = "none"
       PROVE  InStep(q, h, k)
  <2>1. InStep(p, g, k) /\ Steps(p, s, q, typed)
    BY <1>1, <1>5, <1>10
  <2>2. Given(q) \subseteq h.with \cup ToSet(h.input)
    BY <1>6, <1>8, <2>1 DEF InStep, Steps
  <2>3. Secured(q, h, k) <=> Secured(p, g, k)
    BY <1>5, <1>8 DEF Secured
  <2>4. Confirms(p, s) => Secured(p, g, k)
    BY <2>1 DEF InStep, s
  <2>5. Stage(q) \in {"QUIT", "SAVE", "DONE"} => Secured(q, h, k)
    BY <2>1, <2>3, <2>4 DEF InStep, Steps
  <2>6. ~AsksForLine(s) => \/ q = p /\ s.code = "NEED_PASSPHRASE_SYM"
                           \/ q.state = "DONE" /\ s.code = "KEY_CREATED"
    BY <2>1 DEF Steps
  <2>7. /\ g.at = "none" => s.code = "ERROR"
        /\ p.state = "CONFIRM" => s = Line("keyedit.prompt") \/ s.code = "ERROR"
    BY <2>1 DEF InStep, s
  <2>8. g.at = "none" => AsksForLine(s)
    BY <2>6, <2>7
  <2>9. h.at # "none"
    BY <1>8, <2>7, <2>8 DEF AsksForLine
  <2>10. ASSUME h.burst # <<>>
         PROVE  /\ Confirms(q, Head(h.burst)) => Secured(q, h, k)
                /\ q.state # "CONFIRM"
    <3>1. ~AsksForLine(s)
      BY <1>3, <1>8, <2>10
    <3>2. CASE q = p /\ s.code = "NEED_PASSPHRASE_SYM"
      <4>1. Confirms(q, Head(h.burst)) => Confirms(p, s)
        BY <3>2 DEF Confirms
      <4>2. s # Line("keyedit.prompt")
        BY <3>2 DEF Line, Status
      <4> QED
        BY <2>3, <2>4, <2>7, <3>2, <4>1, <4>2
    <3>3. CASE q.state = "DONE"
      BY <3>3 DEF Confirms, Awaits
    <3> QED
      BY <2>6, <3>1, <3>2, <3>3
  <2>11. h.input # <<>> => Believes(q, h.at, Head(h.input))
    BY <1>3, <1>5, <1>6, <1>8, <2>1 DEF Steps
  <2>12. h.at = "keyedit.save.okay" => q.state \in {"QUIT", "SAVE"}
    BY <1>8, <2>1 DEF InStep, Steps
  <2>13. h.ended => k.saved \/ k.declined
    BY <1>8, <2>1 DEF InStep
  <2> QED
    BY <2>2, <2>5, <2>9, <2>10, <2>11, <2>12, <2>13 DEF InStep
<1> QED
  BY <1>3, <1>5, <1>8, <1>9, <1>10 DEF DialogueFits, q

-----------------------------------------------------------------------------
(* gpg reads a line.                                                       *)

Reactions ==
  [burst : Seq(Statuses), ends : BOOLEAN, changes : BOOLEAN, saves : BOOLEAN, declines : BOOLEAN]

\* The reaction r goes on: it begins with the status first and ends with this question.
GoesOn(kind, r, first, asked, changes, saves, declines) ==
  /\ r \in Reactions /\ r.burst # <<>> /\ BurstFits(kind, r.burst) /\ ~r.ends
  /\ Head(r.burst) = first /\ Waits(r.burst) = asked /\ asked \in Prompts
  /\ r.changes = changes /\ r.saves = saves /\ r.declines = declines

Stops(r, saves) ==
  r \in Reactions /\ r.burst = <<>> /\ r.ends /\ r.saves = saves

LEMMA OneStatus ==
  ASSUME NEW kind, NEW s, StatusFits(kind, s), AsksForLine(s)
  PROVE  GoesOn(kind, Reports(<<s>>), s, s.arg, FALSE, FALSE, FALSE)
<1> DEFINE burst == <<s>>
<1>1. s \in Statuses
  BY DEF StatusFits
<1>2. /\ burst \in Seq(Statuses) /\ burst # <<>> /\ Head(burst) = s
      /\ Len(burst) = 1 /\ burst[1] = s /\ DOMAIN burst = {1}
  BY <1>1
<1> HIDE DEF burst
<1>3. BurstFits(kind, burst)
  BY <1>2 DEF BurstFits
<1>4. Waits(burst) = s.arg /\ s.arg \in Prompts
  BY <1>2 DEF Waits, Last, StatusFits
<1>5. Reports(burst) \in Reactions
  BY <1>2 DEF Reports, Reactions
<1>6. /\ Reports(burst).burst = burst /\ ~Reports(burst).ends /\ ~Reports(burst).changes
      /\ ~Reports(burst).saves /\ ~Reports(burst).declines
  BY DEF Reports
<1>7. GoesOn(kind, Reports(burst), s, s.arg, FALSE, FALSE, FALSE)
  BY <1>2, <1>3, <1>4, <1>5, <1>6 DEF GoesOn
<1> QED
  BY <1>7 DEF burst

LEMMA TwoStatuses ==
  ASSUME NEW kind, NEW q, NEW s, StatusFits(kind, q), StatusFits(kind, s),
         ~AsksForLine(q), AsksForLine(s)
  PROVE  GoesOn(kind, Reports(<<q, s>>), q, s.arg, FALSE, FALSE, FALSE)
<1> DEFINE burst == <<q, s>>
<1>1. s \in Statuses /\ q \in Statuses
  BY DEF StatusFits
<1>2. /\ burst \in Seq(Statuses) /\ burst # <<>> /\ Head(burst) = q
      /\ Len(burst) = 2 /\ burst[1] = q /\ burst[2] = s /\ DOMAIN burst = {1, 2}
  BY <1>1
<1> HIDE DEF burst
<1>3. BurstFits(kind, burst)
  BY <1>2 DEF BurstFits
<1>4. Waits(burst) = s.arg /\ s.arg \in Prompts
  BY <1>2 DEF Waits, Last, StatusFits
<1>5. Reports(burst) \in Reactions
  BY <1>2 DEF Reports, Reactions
<1>6. /\ Reports(burst).burst = burst /\ ~Reports(burst).ends /\ ~Reports(burst).changes
      /\ ~Reports(burst).saves /\ ~Reports(burst).declines
  BY DEF Reports
<1>7. GoesOn(kind, Reports(burst), q, s.arg, FALSE, FALSE, FALSE)
  BY <1>2, <1>3, <1>4, <1>5, <1>6 DEF GoesOn
<1> QED
  BY <1>7 DEF burst

LEMMA Marks ==
  ASSUME NEW kind, NEW r, NEW first, NEW asked,
         GoesOn(kind, r, first, asked, FALSE, FALSE, FALSE)
  PROVE  /\ GoesOn(kind, Changes(r), first, asked, TRUE, FALSE, FALSE)
         /\ GoesOn(kind, Saves(r), first, asked, TRUE, TRUE, FALSE)
         /\ GoesOn(kind, Declines(r), first, asked, FALSE, FALSE, TRUE)
BY DEF GoesOn, Changes, Saves, Declines, Reactions

LEMMA Asks ==
  ASSUME NEW kind, NEW prompt \in Prompts
  PROVE  /\ StatusFits(kind, Line(prompt)) /\ AsksForLine(Line(prompt)) /\ Line(prompt).arg = prompt
         /\ StatusFits(kind, Bool(prompt)) /\ AsksForLine(Bool(prompt)) /\ Bool(prompt).arg = prompt
<1>1. /\ Line(prompt) \in Statuses /\ Line(prompt).code = "GET_LINE" /\ Line(prompt).arg = prompt
      /\ Bool(prompt) \in Statuses /\ Bool(prompt).code = "GET_BOOL" /\ Bool(prompt).arg = prompt
  BY DEF Line, Bool, Status, Statuses, Known
<1> QED
  BY <1>1 DEF StatusFits, AsksForLine

LEMMA Questions ==
  ASSUME NEW kind, NEW prompt \in Prompts
  PROVE  /\ GoesOn(kind, Reports(<<Line(prompt)>>), Line(prompt), prompt, FALSE, FALSE, FALSE)
         /\ GoesOn(kind, Reports(<<Bool(prompt)>>), Bool(prompt), prompt, FALSE, FALSE, FALSE)
<1>1. /\ StatusFits(kind, Line(prompt)) /\ AsksForLine(Line(prompt)) /\ Line(prompt).arg = prompt
      /\ StatusFits(kind, Bool(prompt)) /\ AsksForLine(Bool(prompt)) /\ Bool(prompt).arg = prompt
  BY Asks
<1>2. GoesOn(kind, Reports(<<Line(prompt)>>), Line(prompt), Line(prompt).arg, FALSE, FALSE, FALSE)
  BY <1>1, OneStatus
<1>3. GoesOn(kind, Reports(<<Bool(prompt)>>), Bool(prompt), Bool(prompt).arg, FALSE, FALSE, FALSE)
  BY <1>1, OneStatus
<1> QED
  BY <1>1, <1>2, <1>3

LEMMA Mains ==
  ASSUME NEW kind
  PROVE  /\ GoesOn(kind, Main, Line("keyedit.prompt"), "keyedit.prompt", FALSE, FALSE, FALSE)
         /\ GoesOn(kind, CardMain, Line("cardedit.prompt"), "cardedit.prompt", FALSE, FALSE, FALSE)
BY Questions DEF Main, CardMain, Prompts

LEMMA Failures ==
  ASSUME NEW kind, NEW q, StatusFits(kind, q), ~AsksForLine(q), NEW prompt \in Prompts
  PROVE  GoesOn(kind, FailsWith(q, prompt), q, prompt, FALSE, FALSE, FALSE)
<1>1. StatusFits(kind, Line(prompt)) /\ AsksForLine(Line(prompt)) /\ Line(prompt).arg = prompt
  BY Asks
<1>2. GoesOn(kind, Reports(<<q, Line(prompt)>>), q, Line(prompt).arg, FALSE, FALSE, FALSE)
  BY <1>1, TwoStatuses
<1> QED
  BY <1>1, <1>2 DEF FailsWith

LEMMA Alerts ==
  ASSUME NEW kind, NEW err \in {"GENERAL", "BAD_PASSPHRASE"}
  PROVE  StatusFits(kind, Alert(err)) /\ ~AsksForLine(Alert(err)) /\ Alert(err).code = "ERROR"
<1>1. /\ Alert(err) \in Statuses /\ Alert(err).code = "ERROR" /\ Alert(err).arg = err
  BY DEF Alert, Status, Statuses, Known, EditErrors
<1> QED
  BY <1>1 DEF StatusFits, AsksForLine, Errors, EditErrors

LEMMA ExpireReaction ==
  ASSUME NEW at, NEW line, NEW changed, NEW conf, NEW r \in ExpireReacts(at, line, changed, conf)
  PROVE  \/ GoesOn("expire", r, Line("keygen.valid"), "keygen.valid", FALSE, FALSE, FALSE)
         \/ /\ at # "keygen.valid"
            /\ GoesOn("expire", r, Line("keyedit.prompt"), "keyedit.prompt", FALSE, FALSE, FALSE)
         \/ GoesOn("expire", r, Line("keyedit.prompt"), "keyedit.prompt", TRUE, FALSE, FALSE)
         \/ GoesOn("expire", r, Line("keyedit.prompt"), "keyedit.prompt", FALSE, FALSE, TRUE)
         \/ GoesOn("expire", r, Alert("BAD_PASSPHRASE"), "keyedit.prompt", FALSE, FALSE, FALSE)
<1>1. /\ GoesOn("expire", Reports(<<Line("keygen.valid")>>), Line("keygen.valid"), "keygen.valid",
                FALSE, FALSE, FALSE)
      /\ GoesOn("expire", Main, Line("keyedit.prompt"), "keyedit.prompt", FALSE, FALSE, FALSE)
      /\ GoesOn("expire", FailsWith(Alert("BAD_PASSPHRASE"), "keyedit.prompt"),
                Alert("BAD_PASSPHRASE"), "keyedit.prompt", FALSE, FALSE, FALSE)
  BY Questions, Mains, Failures, Alerts DEF Prompts
<1>2. /\ GoesOn("expire", Changes(Main), Line("keyedit.prompt"), "keyedit.prompt", TRUE, FALSE, FALSE)
      /\ GoesOn("expire", Declines(Main), Line("keyedit.prompt"), "keyedit.prompt", FALSE, FALSE, TRUE)
  BY <1>1, Marks
<1>3. \/ r \in {Changes(Main), Reports(<<Line("keygen.valid")>>), Declines(Main),
                FailsWith(Alert("BAD_PASSPHRASE"), "keyedit.prompt")}
      \/ at # "keygen.valid" /\ r = Main
  BY DEF ExpireReacts
<1> QED
  BY <1>1, <1>2, <1>3

LEMMA TrustReaction ==
  ASSUME NEW at, NEW line, NEW changed, NEW conf, NEW r \in TrustReacts(at, line, changed, conf)
  PROVE  \/ GoesOn("trust", r, Line("edit_ownertrust.value"), "edit_ownertrust.value",
                   FALSE, FALSE, FALSE)
         \/ GoesOn("trust", r, Bool("edit_ownertrust.set_ultimate.okay"),
                   "edit_ownertrust.set_ultimate.okay", FALSE, FALSE, FALSE)
         \/ /\ at # "edit_ownertrust.value"
            /\ ~(at = "edit_ownertrust.set_ultimate.okay" /\ line = "Y")
            /\ GoesOn("trust", r, Line("keyedit.prompt"), "keyedit.prompt", FALSE, FALSE, FALSE)
         \/ GoesOn("trust", r, Line("keyedit.prompt"), "keyedit.prompt", TRUE, TRUE, FALSE)
<1> DEFINE value == Line("edit_ownertrust.value")
           okay == Bool("edit_ownertrust.set_ultimate.okay")
<1>1. /\ GoesOn("trust", Reports(<<value>>), value, "edit_ownertrust.value", FALSE, FALSE, FALSE)
      /\ GoesOn("trust", Reports(<<okay>>), okay, "edit_ownertrust.set_ultimate.okay",
                FALSE, FALSE, FALSE)
      /\ GoesOn("trust", Main, Line("keyedit.prompt"), "keyedit.prompt", FALSE, FALSE, FALSE)
  BY Questions, Mains DEF Prompts
<1>2. GoesOn("trust", Saves(Main), Line("keyedit.prompt"), "keyedit.prompt", TRUE, TRUE, FALSE)
  BY <1>1, Marks
<1>3. \/ r \in {Reports(<<value>>), Reports(<<okay>>), Saves(Main)}
      \/ /\ at # "edit_ownertrust.value"
         /\ ~(at = "edit_ownertrust.set_ultimate.okay" /\ line = "Y")
         /\ r = Main
  BY DEF TrustReacts
<1> QED
  BY <1>1, <1>2, <1>3

SignQuestions ==
  {"sign_uid.expire", "siggen.valid", "sign_uid.class", "sign_uid.okay", "keyedit.sign_all.okay"}

LEMMA SignReaction ==
  ASSUME NEW at, NEW line, NEW changed, NEW conf, NEW r \in SignReacts(at, line, changed, conf)
  PROVE  \/ /\ ~(at = "sign_uid.okay" /\ line = "Y")
            /\ \/ \E q \in SignQuestions : \E s \in {Line(q), Bool(q)} :
                    GoesOn("sign", r, s, q, FALSE, FALSE, FALSE)
               \/ GoesOn("sign", r, Line("keyedit.prompt"), "keyedit.prompt", FALSE, FALSE, FALSE)
               \/ GoesOn("sign", r, Status("ALREADY_SIGNED", "none"), "keyedit.prompt",
                         FALSE, FALSE, FALSE)
         \/ GoesOn("sign", r, Line("keyedit.prompt"), "keyedit.prompt", TRUE, FALSE, FALSE)
         \/ GoesOn("sign", r, Alert("BAD_PASSPHRASE"), "keyedit.prompt", FALSE, FALSE, FALSE)
<1> DEFINE signed == Status("ALREADY_SIGNED", "none")
           all == Bool("keyedit.sign_all.okay")
<1>1. StatusFits("sign", signed) /\ ~AsksForLine(signed)
  BY DEF StatusFits, AsksForLine, Status, Statuses, Known, EditErrors
<1>2. /\ GoesOn("sign", Main, Line("keyedit.prompt"), "keyedit.prompt", FALSE, FALSE, FALSE)
      /\ GoesOn("sign", FailsWith(signed, "keyedit.prompt"), signed, "keyedit.prompt",
                FALSE, FALSE, FALSE)
      /\ GoesOn("sign", FailsWith(Alert("BAD_PASSPHRASE"), "keyedit.prompt"),
                Alert("BAD_PASSPHRASE"), "keyedit.prompt", FALSE, FALSE, FALSE)
      /\ GoesOn("sign", Reports(<<all>>), all, "keyedit.sign_all.okay", FALSE, FALSE, FALSE)
  BY <1>1, Questions, Mains, Failures, Alerts DEF Prompts
<1>3. GoesOn("sign", Changes(Main), Line("keyedit.prompt"), "keyedit.prompt", TRUE, FALSE, FALSE)
  BY <1>2, Marks
<1>4. ASSUME NEW q \in SignQuestions
      PROVE  \E s \in {Line(q), Bool(q)} : GoesOn("sign", Asked(q), s, q, FALSE, FALSE, FALSE)
  <2>1. /\ GoesOn("sign", Reports(<<Line(q)>>), Line(q), q, FALSE, FALSE, FALSE)
        /\ GoesOn("sign", Reports(<<Bool(q)>>), Bool(q), q, FALSE, FALSE, FALSE)
    BY Questions DEF SignQuestions, Prompts
  <2>2. Asked(q) \in {Reports(<<Line(q)>>), Reports(<<Bool(q)>>)}
    BY DEF Asked
  <2> QED
    BY <2>1, <2>2
<1> HIDE DEF signed, all
<1>5. SignAsks(conf) \subseteq SignQuestions /\ AfterExpire(conf) \in SignQuestions
  BY DEF SignAsks, AfterExpire, SignQuestions
<1>6. \/ /\ ~(at = "sign_uid.okay" /\ line = "Y")
         /\ \/ \E q \in SignQuestions : r = Asked(q)
            \/ r \in {Main, FailsWith(signed, "keyedit.prompt"), Reports(<<all>>)}
      \/ r \in {Changes(Main), FailsWith(Alert("BAD_PASSPHRASE"), "keyedit.prompt")}
  BY <1>5 DEF SignReacts, SignQuestions, signed, all
<1>7. all = Bool("keyedit.sign_all.okay") /\ "keyedit.sign_all.okay" \in SignQuestions
  BY DEF all, SignQuestions
<1> QED
  BY <1>2, <1>3, <1>4, <1>6, <1>7 DEF signed

LEMMA PasswdReaction ==
  ASSUME NEW at, NEW line, NEW changed, NEW conf, NEW r \in PasswdReacts(at, line, changed, conf)
  PROVE  \/ GoesOn("passwd", r, Status("NEED_PASSPHRASE_SYM", "none"), "keyedit.prompt",
                   TRUE, TRUE, FALSE)
         \/ GoesOn("passwd", r, Line("keyedit.prompt"), "keyedit.prompt", FALSE, FALSE, TRUE)
         \/ GoesOn("passwd", r, Alert("BAD_PASSPHRASE"), "keyedit.prompt", FALSE, FALSE, FALSE)
         \/ /\ ~(at = "keyedit.prompt" /\ line = "passwd")
            /\ GoesOn("passwd", r, Line("keyedit.prompt"), "keyedit.prompt", FALSE, FALSE, FALSE)
<1> DEFINE need == Status("NEED_PASSPHRASE_SYM", "none")
           new == Saves(Reports(<<need, Line("keyedit.prompt")>>))
<1>1. StatusFits("passwd", need) /\ ~AsksForLine(need)
  BY DEF StatusFits, AsksForLine, Status, Statuses, Known, EditErrors
<1>2. /\ GoesOn("passwd", Main, Line("keyedit.prompt"), "keyedit.prompt", FALSE, FALSE, FALSE)
      /\ GoesOn("passwd", FailsWith(Alert("BAD_PASSPHRASE"), "keyedit.prompt"),
                Alert("BAD_PASSPHRASE"), "keyedit.prompt", FALSE, FALSE, FALSE)
      /\ GoesOn("passwd", FailsWith(need, "keyedit.prompt"), need, "keyedit.prompt",
                FALSE, FALSE, FALSE)
  BY <1>1, Mains, Failures, Alerts DEF Prompts
<1>3. /\ GoesOn("passwd", Declines(Main), Line("keyedit.prompt"), "keyedit.prompt", FALSE, FALSE, TRUE)
      /\ GoesOn("passwd", Saves(FailsWith(need, "keyedit.prompt")), need, "keyedit.prompt",
                TRUE, TRUE, FALSE)
  BY <1>2, Marks
<1>4. new = Saves(FailsWith(need, "keyedit.prompt"))
  BY DEF FailsWith
<1>5. \/ r \in {new, Declines(Main), FailsWith(Alert("BAD_PASSPHRASE"), "keyedit.prompt")}
      \/ ~(at = "keyedit.prompt" /\ line = "passwd") /\ r = Main
  BY DEF PasswdReacts
<1> HIDE DEF new
<1> QED
  BY <1>2, <1>3, <1>4, <1>5

CardQuestions ==
  {"cardedit.prompt", "cardedit.genkeys.backup_enc", "cardedit.genkeys.replace_keys",
   "cardedit.genkeys.size", "keygen.valid", "keygen.name", "keygen.email", "keygen.comment"}

CardTroubles == {CardFailure("BAD_PIN"), CardFailure("CARD"), Alert("GENERAL")}

LEMMA CardReaction ==
  ASSUME NEW at, NEW line, NEW changed, NEW conf, NEW r \in CardReacts(at, line, changed, conf)
  PROVE  \/ /\ at # "keygen.comment"
            /\ \E q \in CardQuestions : \E s \in {Line(q), Bool(q)} :
                 GoesOn("card", r, s, q, FALSE, FALSE, FALSE)
         \/ \E s \in CardTroubles : GoesOn("card", r, s, "cardedit.prompt", FALSE, FALSE, FALSE)
         \/ GoesOn("card", r, Status("KEY_CREATED", "none"), "cardedit.prompt", TRUE, TRUE, FALSE)
<1> DEFINE created == Status("KEY_CREATED", "none")
<1>1. StatusFits("card", created) /\ ~AsksForLine(created)
  BY DEF StatusFits, AsksForLine, Status, Statuses, Known, EditErrors
<1>2. ASSUME NEW s \in CardTroubles
      PROVE  GoesOn("card", FailsWith(s, "cardedit.prompt"), s, "cardedit.prompt",
                    FALSE, FALSE, FALSE)
  <2>1. StatusFits("card", s) /\ ~AsksForLine(s)
    BY DEF CardTroubles, CardFailure, Alert, StatusFits, AsksForLine, Status, Statuses, Known,
       EditErrors, Errors
  <2> QED
    BY <2>1, Failures DEF Prompts
<1>3. GoesOn("card", FailsWith(created, "cardedit.prompt"), created, "cardedit.prompt",
             FALSE, FALSE, FALSE)
  BY <1>1, Failures DEF Prompts
<1>4. GoesOn("card", Saves(FailsWith(created, "cardedit.prompt")), created, "cardedit.prompt",
             TRUE, TRUE, FALSE)
  BY <1>3, Marks
<1>5. Reports(<<created, Line("cardedit.prompt")>>) = FailsWith(created, "cardedit.prompt")
  BY DEF FailsWith
<1>6. ASSUME NEW q \in CardQuestions
      PROVE  /\ GoesOn("card", Reports(<<Line(q)>>), Line(q), q, FALSE, FALSE, FALSE)
             /\ GoesOn("card", Reports(<<Bool(q)>>), Bool(q), q, FALSE, FALSE, FALSE)
  BY Questions DEF CardQuestions, Prompts
<1> HIDE DEF created
<1>7. \/ /\ at # "keygen.comment"
         /\ \/ \E q \in CardQuestions : r = Reports(<<Line(q)>>) \/ r = Reports(<<Bool(q)>>)
            \/ \E s \in CardTroubles : r = FailsWith(s, "cardedit.prompt")
      \/ \E s \in CardTroubles : r = FailsWith(s, "cardedit.prompt")
      \/ r = Saves(Reports(<<created, Line("cardedit.prompt")>>))
  BY DEF CardReacts, CardQuestions, CardTroubles, CardMain, created
<1> QED
  BY <1>2, <1>4, <1>5, <1>6, <1>7 DEF created

WellFormed(kind, r) ==
  /\ r \in Reactions
  /\ \/ r.burst = <<>> /\ r.ends
     \/ r.burst # <<>> /\ ~r.ends /\ BurstFits(kind, r.burst) /\ Waits(r.burst) \in Prompts

\* What the machine p may conclude from the reaction r is true.
Honest(p, changed, r) ==
  /\ r.burst # <<>> =>
       /\ Confirms(p, Head(r.burst)) =>
            r.declines \/ IF p.kind \in {"sign", "expire"} THEN r.changes ELSE r.saves
       /\ p.state = "CONFIRM" => \/ Head(r.burst) = Line("keyedit.prompt")
                                 \/ Head(r.burst).code = "ERROR"
       /\ Waits(r.burst) = "keyedit.save.okay" => p.state = "QUIT"
  /\ r.ends => \/ p.state = "QUIT" /\ ~(changed /\ p.kind \in {"sign", "expire"})
               \/ p.state = "SAVE" /\ r.saves

LEMMA Ending == Stops(Ends, FALSE) /\ Stops(Saves(Ends), TRUE)
<1> DEFINE empty == <<>>
<1>1. empty \in Seq(Statuses) /\ empty = <<>>
  OBVIOUS
<1> HIDE DEF empty
<1>2. /\ Reports(empty) \in Reactions /\ Reports(empty).burst = empty
      /\ ~Reports(empty).saves
  BY <1>1 DEF Reports, Reactions
<1>3. Ends = [Reports(empty) EXCEPT !.ends = TRUE]
  BY <1>1 DEF Ends
<1>4. Ends \in Reactions /\ Ends.burst = empty /\ Ends.ends /\ ~Ends.saves
  BY <1>2, <1>3 DEF Reactions
<1>5. Stops(Ends, FALSE)
  BY <1>1, <1>4 DEF Stops
<1>6. Stops(Saves(Ends), TRUE)
  BY <1>1, <1>4 DEF Stops, Reactions, Saves
<1> QED
  BY <1>5, <1>6

LEMMA GpgReaction ==
  ASSUME NEW kind \in EditKinds, NEW at, NEW line, NEW changed, NEW conf,
         NEW r \in GpgReacts(kind, at, line, changed, conf)
  PROVE  \/ /\ line = "quit" /\ changed /\ kind \in {"sign", "expire"}
            /\ GoesOn(kind, r, Bool("keyedit.save.okay"), "keyedit.save.okay", FALSE, FALSE, FALSE)
         \/ line = "quit" /\ ~(changed /\ kind \in {"sign", "expire"}) /\ Stops(r, FALSE)
         \/ line # "quit" /\ at = "keyedit.save.okay" /\ Stops(r, line = "Y")
         \/ /\ line # "quit" /\ at # "keyedit.save.okay"
            /\ \/ kind = "sign" /\ r \in SignReacts(at, line, changed, conf)
               \/ kind = "expire" /\ r \in ExpireReacts(at, line, changed, conf)
               \/ kind = "trust" /\ r \in TrustReacts(at, line, changed, conf)
               \/ kind = "passwd" /\ r \in PasswdReacts(at, line, changed, conf)
               \/ kind = "card" /\ r \in CardReacts(at, line, changed, conf)
<1>1. GoesOn(kind, Reports(<<Bool("keyedit.save.okay")>>), Bool("keyedit.save.okay"),
             "keyedit.save.okay", FALSE, FALSE, FALSE)
  BY Questions DEF Prompts
<1>2. Stops(Ends, FALSE) /\ Stops(Saves(Ends), TRUE)
  BY Ending
<1>3. CASE line = "quit"
  BY <1>1, <1>2, <1>3 DEF GpgReacts
<1>4. CASE line # "quit" /\ at = "keyedit.save.okay"
  <2>1. r = IF line = "Y" THEN Saves(Ends) ELSE Ends
    BY <1>4 DEF GpgReacts
  <2> QED
    BY <1>2, <1>4, <2>1
<1>5. CASE line # "quit" /\ at # "keyedit.save.okay"
  BY <1>5 DEF GpgReacts, EditKinds
<1> QED
  BY <1>3, <1>4, <1>5

LEMMA ReactionsAreWellFormed ==
  ASSUME NEW kind \in EditKinds, NEW at, NEW line, NEW changed, NEW conf,
         NEW r \in GpgReacts(kind, at, line, changed, conf)
  PROVE  WellFormed(kind, r)
<1>1. ASSUME \E first, asked, changes, saves, declines :
               GoesOn(kind, r, first, asked, changes, saves, declines)
      PROVE  WellFormed(kind, r)
  BY <1>1 DEF GoesOn, WellFormed
<1>2. ASSUME \E saves : Stops(r, saves)
      PROVE  WellFormed(kind, r)
  BY <1>2 DEF Stops, WellFormed
<1> DEFINE Goes == \E first, asked, changes, saves, declines :
                     GoesOn(kind, r, first, asked, changes, saves, declines)
<1>3. CASE r \in SignReacts(at, line, changed, conf) /\ kind = "sign"
  <2>1. Goes
    BY <1>3, SignReaction
  <2> QED
    BY <1>1, <2>1
<1>4. CASE r \in ExpireReacts(at, line, changed, conf) /\ kind = "expire"
  <2>1. Goes
    BY <1>4, ExpireReaction
  <2> QED
    BY <1>1, <2>1
<1>5. CASE r \in TrustReacts(at, line, changed, conf) /\ kind = "trust"
  <2>1. Goes
    BY <1>5, TrustReaction
  <2> QED
    BY <1>1, <2>1
<1>6. CASE r \in PasswdReacts(at, line, changed, conf) /\ kind = "passwd"
  <2>1. Goes
    BY <1>6, PasswdReaction
  <2> QED
    BY <1>1, <2>1
<1>7. CASE r \in CardReacts(at, line, changed, conf) /\ kind = "card"
  <2>1. Goes
    BY <1>7, CardReaction
  <2> QED
    BY <1>1, <2>1
<1> HIDE DEF Goes
<1>8. \/ Stops(r, FALSE) \/ Stops(r, line = "Y")
      \/ GoesOn(kind, r, Bool("keyedit.save.okay"), "keyedit.save.okay", FALSE, FALSE, FALSE)
      \/ kind = "sign" /\ r \in SignReacts(at, line, changed, conf)
      \/ kind = "expire" /\ r \in ExpireReacts(at, line, changed, conf)
      \/ kind = "trust" /\ r \in TrustReacts(at, line, changed, conf)
      \/ kind = "passwd" /\ r \in PasswdReacts(at, line, changed, conf)
      \/ kind = "card" /\ r \in CardReacts(at, line, changed, conf)
  BY GpgReaction
<1> QED
  BY <1>1, <1>2, <1>3, <1>4, <1>5, <1>6, <1>7, <1>8

LEMMA BelievesIs ==
  ASSUME NEW p, NEW at, NEW line, ParmsFit(p), Believes(p, at, line)
  PROVE  /\ line = "quit" <=> p.state = "QUIT"
         /\ p.state = "SAVE" => line = "Y"
         /\ p.state = "CONFIRM" => p.kind = "sign"
         /\ Awaits(p) =>
              \/ p.kind = "expire" /\ at = "keygen.valid"
              \/ p.kind = "trust" /\ at = "edit_ownertrust.value"
              \/ p.kind = "trust" /\ at = "edit_ownertrust.set_ultimate.okay" /\ line = "Y"
              \/ p.kind = "sign" /\ at = "sign_uid.okay" /\ line = "Y"
              \/ p.kind = "passwd" /\ at = "keyedit.prompt" /\ line = "passwd"
              \/ p.kind = "card" /\ at = "keygen.comment"
BY DEF ParmsFit, ParmsType, EditKinds, DataOf, StatesOf, Generating, Asking, Believes, Awaits,
   key_sign_run_dialog, ownertrust_run_dialog, expiry_dialog_run, key_gen_run_dialog

\* A reaction like this is honest.
Sound(p, first, asked, changes, saves, declines) ==
  /\ asked = "keyedit.save.okay" => p.state = "QUIT"
  /\ Confirms(p, first) =>
       declines \/ IF p.kind \in {"sign", "expire"} THEN changes ELSE saves
  /\ p.state = "CONFIRM" => first = Line("keyedit.prompt") \/ first.code = "ERROR"

LEMMA ReactionsAreHonest ==
  ASSUME NEW p, ParmsFit(p), NEW at, NEW line, Believes(p, at, line), NEW changed, NEW conf,
         at = "keyedit.save.okay" => p.state \in {"QUIT", "SAVE"},
         NEW r \in GpgReacts(p.kind, at, line, changed, conf)
  PROVE  Honest(p, changed, r)
<1>1. p.kind \in EditKinds
  BY DEF ParmsFit, ParmsType
<1>2. /\ line = "quit" <=> p.state = "QUIT"
      /\ p.state = "SAVE" => line = "Y"
      /\ p.state = "CONFIRM" => p.kind = "sign"
      /\ Awaits(p) =>
           \/ p.kind = "expire" /\ at = "keygen.valid"
           \/ p.kind = "trust" /\ at = "edit_ownertrust.value"
           \/ p.kind = "trust" /\ at = "edit_ownertrust.set_ultimate.okay" /\ line = "Y"
           \/ p.kind = "sign" /\ at = "sign_uid.okay" /\ line = "Y"
           \/ p.kind = "passwd" /\ at = "keyedit.prompt" /\ line = "passwd"
           \/ p.kind = "card" /\ at = "keygen.comment"
  BY BelievesIs
<1>3. p.state = "CONFIRM" => Awaits(p)
  BY DEF Awaits
<1>4. ASSUME NEW first, NEW asked, NEW changes, NEW saves, NEW declines,
             GoesOn(p.kind, r, first, asked, changes, saves, declines),
             Sound(p, first, asked, changes, saves, declines)
      PROVE  Honest(p, changed, r)
  BY <1>4 DEF GoesOn, Honest, Sound
<1>5. \A q : /\ Line(q).code = "GET_LINE" /\ Bool(q).code = "GET_BOOL"
             /\ Line(q).arg = q /\ Bool(q).arg = q
  BY DEF Line, Bool, Status
<1>6. \A s : Confirms(p, s) => Awaits(p) /\ (\/ s = Line("keyedit.prompt")
                                             \/ s.code \in {"NEED_PASSPHRASE_SYM", "KEY_CREATED"})
  BY DEF Confirms
<1>7. CASE line = "quit"
  <2>1. p.state = "QUIT" /\ ~Awaits(p)
    BY <1>2, <1>7 DEF Awaits
  <2>2. \/ /\ changed /\ p.kind \in {"sign", "expire"}
           /\ GoesOn(p.kind, r, Bool("keyedit.save.okay"), "keyedit.save.okay", FALSE, FALSE, FALSE)
        \/ ~(changed /\ p.kind \in {"sign", "expire"}) /\ Stops(r, FALSE)
    BY <1>1, <1>7, GpgReaction
  <2> QED
    BY <2>1, <2>2 DEF Stops, GoesOn, Honest, Confirms
<1>8. CASE line # "quit" /\ at = "keyedit.save.okay"
  <2>1. p.state = "SAVE" /\ line = "Y"
    BY <1>2, <1>8
  <2>2. Stops(r, line = "Y")
    BY <1>1, <1>8, GpgReaction
  <2> QED
    BY <2>1, <2>2 DEF Stops, Honest
<1>9. CASE line # "quit" /\ at # "keyedit.save.okay"
  <2>1. \/ p.kind = "sign" /\ r \in SignReacts(at, line, changed, conf)
        \/ p.kind = "expire" /\ r \in ExpireReacts(at, line, changed, conf)
        \/ p.kind = "trust" /\ r \in TrustReacts(at, line, changed, conf)
        \/ p.kind = "passwd" /\ r \in PasswdReacts(at, line, changed, conf)
        \/ p.kind = "card" /\ r \in CardReacts(at, line, changed, conf)
    BY <1>1, <1>9, GpgReaction
  <2>2. CASE p.kind = "sign" /\ r \in SignReacts(at, line, changed, conf)
    <3>1. Alert("BAD_PASSPHRASE").code = "ERROR"
      BY DEF Alert, Status
    <3>2. ASSUME NEW first, NEW asked, asked # "keyedit.save.okay",
                 ~(at = "sign_uid.okay" /\ line = "Y")
          PROVE  Sound(p, first, asked, FALSE, FALSE, FALSE)
      BY <1>2, <1>3, <1>6, <2>2, <3>2 DEF Sound
    <3>3. Sound(p, Line("keyedit.prompt"), "keyedit.prompt", TRUE, FALSE, FALSE)
      BY <2>2 DEF Sound
    <3>4. Sound(p, Alert("BAD_PASSPHRASE"), "keyedit.prompt", FALSE, FALSE, FALSE)
      BY <1>5, <1>6, <3>1 DEF Sound
    <3>5. \A q \in SignQuestions : q # "keyedit.save.okay"
      BY DEF SignQuestions
    <3> QED
      BY <1>4, <2>2, <3>2, <3>3, <3>4, <3>5, SignReaction
  <2>3. CASE p.kind = "expire" /\ r \in ExpireReacts(at, line, changed, conf)
    <3>1. p.state # "CONFIRM"
      BY <1>2, <2>3
    <3>2. Alert("BAD_PASSPHRASE").code = "ERROR"
      BY DEF Alert, Status
    <3>3. Sound(p, Line("keygen.valid"), "keygen.valid", FALSE, FALSE, FALSE)
      BY <1>2, <1>5, <1>6, <2>3, <3>1, <3>2 DEF Sound
    <3>4. at # "keygen.valid" => Sound(p, Line("keyedit.prompt"), "keyedit.prompt", FALSE, FALSE, FALSE)
      BY <1>2, <1>5, <1>6, <2>3, <3>1, <3>2 DEF Sound
    <3>5. Sound(p, Line("keyedit.prompt"), "keyedit.prompt", TRUE, FALSE, FALSE)
      BY <1>2, <1>5, <1>6, <2>3, <3>1, <3>2 DEF Sound
    <3>6. Sound(p, Line("keyedit.prompt"), "keyedit.prompt", FALSE, FALSE, TRUE)
      BY <1>2, <1>5, <1>6, <2>3, <3>1, <3>2 DEF Sound
    <3>7. Sound(p, Alert("BAD_PASSPHRASE"), "keyedit.prompt", FALSE, FALSE, FALSE)
      BY <1>2, <1>5, <1>6, <2>3, <3>1, <3>2 DEF Sound
    <3> QED
      BY <1>4, <2>3, <3>3, <3>4, <3>5, <3>6, <3>7, ExpireReaction
  <2>4. CASE p.kind = "trust" /\ r \in TrustReacts(at, line, changed, conf)
    <3>1. p.state # "CONFIRM"
      BY <1>2, <2>4
    <3>2. Alert("BAD_PASSPHRASE").code = "ERROR"
      BY DEF Alert, Status
    <3>3. Sound(p, Line("edit_ownertrust.value"), "edit_ownertrust.value", FALSE, FALSE, FALSE)
      BY <1>2, <1>5, <1>6, <2>4, <3>1, <3>2 DEF Sound
    <3>4. Sound(p, Bool("edit_ownertrust.set_ultimate.okay"), "edit_ownertrust.set_ultimate.okay", FALSE, FALSE, FALSE)
      BY <1>2, <1>5, <1>6, <2>4, <3>1, <3>2 DEF Sound
    <3>5. at # "edit_ownertrust.value" /\ ~(at = "edit_ownertrust.set_ultimate.okay" /\ line = "Y") =>
            Sound(p, Line("keyedit.prompt"), "keyedit.prompt", FALSE, FALSE, FALSE)
      BY <1>2, <1>5, <1>6, <2>4, <3>1, <3>2 DEF Sound
    <3>6. Sound(p, Line("keyedit.prompt"), "keyedit.prompt", TRUE, TRUE, FALSE)
      BY <1>2, <1>5, <1>6, <2>4, <3>1, <3>2 DEF Sound
    <3> QED
      BY <1>4, <2>4, <3>3, <3>4, <3>5, <3>6, TrustReaction
  <2>5. CASE p.kind = "passwd" /\ r \in PasswdReacts(at, line, changed, conf)
    <3>1. p.state # "CONFIRM"
      BY <1>2, <2>5
    <3>2. Alert("BAD_PASSPHRASE").code = "ERROR"
      BY DEF Alert, Status
    <3>3. Sound(p, Status("NEED_PASSPHRASE_SYM", "none"), "keyedit.prompt", TRUE, TRUE, FALSE)
      BY <1>2, <1>5, <1>6, <2>5, <3>1, <3>2 DEF Sound
    <3>4. Sound(p, Line("keyedit.prompt"), "keyedit.prompt", FALSE, FALSE, TRUE)
      BY <1>2, <1>5, <1>6, <2>5, <3>1, <3>2 DEF Sound
    <3>5. Sound(p, Alert("BAD_PASSPHRASE"), "keyedit.prompt", FALSE, FALSE, FALSE)
      BY <1>2, <1>5, <1>6, <2>5, <3>1, <3>2 DEF Sound
    <3>6. ~(at = "keyedit.prompt" /\ line = "passwd") => Sound(p, Line("keyedit.prompt"), "keyedit.prompt", FALSE, FALSE, FALSE)
      BY <1>2, <1>5, <1>6, <2>5, <3>1, <3>2 DEF Sound
    <3> QED
      BY <1>4, <2>5, <3>3, <3>4, <3>5, <3>6, PasswdReaction
  <2>6. CASE p.kind = "card" /\ r \in CardReacts(at, line, changed, conf)
    <3>1. p.state # "CONFIRM"
      BY <1>2, <2>6
    <3>2. ASSUME NEW s \in CardTroubles
          PROVE  Sound(p, s, "cardedit.prompt", FALSE, FALSE, FALSE)
      <4>1. s.code \in {"ERROR", "SC_OP_FAILURE"}
        BY DEF CardTroubles, CardFailure, Alert, Status
      <4> QED
        BY <1>5, <1>6, <3>1, <4>1 DEF Sound
    <3>3. at # "keygen.comment" =>
            \A q \in CardQuestions : \A s : Sound(p, s, q, FALSE, FALSE, FALSE)
      BY <1>2, <1>6, <2>6, <3>1 DEF Sound, CardQuestions
    <3>4. Sound(p, Status("KEY_CREATED", "none"), "cardedit.prompt", TRUE, TRUE, FALSE)
      BY <2>6, <3>1 DEF Sound
    <3> QED
      <4>1. CASE /\ at # "keygen.comment"
                 /\ \E q \in CardQuestions : \E s \in {Line(q), Bool(q)} :
                      GoesOn("card", r, s, q, FALSE, FALSE, FALSE)
        <5>1. PICK q \in CardQuestions : \E s \in {Line(q), Bool(q)} :
                GoesOn("card", r, s, q, FALSE, FALSE, FALSE)
          BY <4>1
        <5>2. PICK s \in {Line(q), Bool(q)} : GoesOn("card", r, s, q, FALSE, FALSE, FALSE)
          BY <5>1
        <5>3. Sound(p, s, q, FALSE, FALSE, FALSE)
          BY <3>3, <4>1
        <5> QED
          BY <1>4, <2>6, <5>2, <5>3
      <4>2. CASE \E s \in CardTroubles :
                   GoesOn("card", r, s, "cardedit.prompt", FALSE, FALSE, FALSE)
        BY <1>4, <2>6, <3>2, <4>2
      <4>3. CASE GoesOn("card", r, Status("KEY_CREATED", "none"), "cardedit.prompt",
                        TRUE, TRUE, FALSE)
        BY <1>4, <2>6, <3>4, <4>3
      <4> QED
        BY <2>6, <4>1, <4>2, <4>3, CardReaction
  <2> QED
    BY <2>1, <2>2, <2>3, <2>4, <2>5, <2>6
<1> QED
  BY <1>7, <1>8, <1>9

LEMMA LastLine ==
  ASSUME NEW S, NEW lines \in Seq(S), Len(lines) <= 1, lines # <<>>
  PROVE  /\ Tail(lines) = <<>> /\ ToSet(lines) = {Head(lines)} /\ Head(lines) \in S
<1>1. /\ Len(lines) \in Nat \ {0} /\ DOMAIN lines = 1 .. Len(lines)
      /\ Tail(lines) = <<>> <=> Len(lines) = 1
      /\ Head(lines) = lines[1]
  BY TailIs
<1>2. Len(lines) = 1
  BY <1>1
<1>3. ToSet(lines) = {lines[1]}
  BY <1>1, <1>2 DEF ToSet
<1>4. lines[1] \in S
  BY <1>2
<1> QED
  BY <1>1, <1>2, <1>3, <1>4

LEMMA GivenIs ==
  ASSUME NEW p, ParmsFit(p), Awaits(p) \/ p.state = "SAVE"
  PROVE  Essential(p) = Given(p)
<1>1. /\ p.kind \in EditKinds /\ p.state \in StatesOf(p.kind)
  BY DEF ParmsFit, ParmsType
<1>2. CASE p.kind = "card"
  <2>1. p.state = "COMMENT"
    BY <1>1, <1>2 DEF StatesOf, Awaits, Generating
  <2> QED
    BY <1>2, <2>1 DEF Given, Stage
<1>3. CASE p.kind # "card"
  BY <1>1, <1>3 DEF Given, Essential, Awaits, StatesOf, EditKinds, Asking
<1> QED
  BY <1>2, <1>3

\* gpg g has read this line, and this was its reaction.
Read(g, line, r) ==
  [g EXCEPT !.input = Tail(g.input), !.burst = r.burst, !.at = Waits(r.burst), !.ended = r.ends,
            !.changed = g.changed \/ r.changes, !.with = g.with \cup {line}]

\* What a line that is read leaves: gpg h and key l.
ReadFits(p, k, h, l) ==
  /\ h \in GpgType /\ l \in KeyRecord /\ l.told = k.told /\ DialogueFits(p, h, l)
  /\ k.saved => l.saved
  /\ k.declined => l.declined

LEMMA ReadingFits ==
  ASSUME NEW p, NEW g \in GpgType, NEW k \in KeyRecord, DialogueFits(p, g, k),
         g.input # <<>>, NEW line, line = Head(g.input), NEW conf,
         NEW r \in GpgReacts(p.kind, g.at, line, g.changed, conf),
         NEW h, h = Read(g, line, r),
         NEW l, l = Reacted(k, r, Essential(p) \subseteq h.with)
  PROVE  ReadFits(p, k, h, l)
<1>1. /\ ParmsFit(p) /\ LinesFit(g) /\ p.kind \in EditKinds
      /\ p.err = "none" => InStep(p, g, k)
  BY DEF DialogueFits, ParmsFit, ParmsType
<1>2. /\ g.input \in Seq(Lines) /\ Len(g.input) <= 1
      /\ Tail(g.input) = <<>> /\ ToSet(g.input) = {line} /\ line \in Lines
  <2>1. g.input \in Seq(Lines) /\ Len(g.input) <= 1
    BY <1>1 DEF GpgType, LinesFit
  <2> QED
    BY <2>1, LastLine
<1>3. WellFormed(p.kind, r)
  BY <1>1, ReactionsAreWellFormed
<1>4. /\ r \in Reactions /\ r.burst \in Seq(Statuses)
      /\ \/ r.burst = <<>> /\ r.ends
         \/ r.burst # <<>> /\ ~r.ends /\ BurstFits(p.kind, r.burst) /\ Waits(r.burst) \in Prompts
  BY <1>3 DEF WellFormed, Reactions
<1>5. /\ r.burst = <<>> => Waits(r.burst) = "none"
      /\ r.burst = <<>> => BurstFits(p.kind, r.burst)
      /\ "none" \notin Prompts
  BY <1>4 DEF Waits, BurstFits, Prompts
<1>6. /\ h.input = <<>> /\ h.burst = r.burst /\ h.at = Waits(r.burst) /\ h.ended = r.ends
      /\ h.changed = (g.changed \/ r.changes) /\ h.with = g.with \cup {line}
  BY <1>2 DEF GpgType, Read
<1>7. h \in GpgType
  <2>1. h.input \in Seq(Lines)
    BY <1>6, EmptySeq
  <2>2. h.at \in Prompts \cup {"none"}
    BY <1>4, <1>5, <1>6
  <2>3. h.burst \in Seq(Statuses) /\ h.ended \in BOOLEAN
    BY <1>4, <1>6 DEF Reactions
  <2>4. h.changed \in BOOLEAN /\ h.with \in SUBSET Lines
    BY <1>2, <1>6 DEF GpgType
  <2> QED
    BY <2>1, <2>2, <2>3, <2>4 DEF GpgType, Read
<1>8. /\ l \in KeyRecord /\ l.told = k.told /\ l.declined = (k.declined \/ r.declines)
      /\ l.saved = (k.saved \/ (r.saves /\ Essential(p) \subseteq h.with))
  BY <1>4 DEF KeyRecord, Reactions, Reacted
<1>9. LinesFit(h)
  <2>1. Len(h.input) <= 1
    BY <1>6, EmptyIs
  <2> QED
    BY <1>6, <2>1 DEF LinesFit
<1>10. ASSUME p.err = "none"
       PROVE  InStep(p, h, l)
  <2>1. InStep(p, g, k)
    BY <1>1, <1>10
  <2>2. Given(p) \subseteq h.with
    BY <1>2, <1>6, <2>1 DEF InStep
  <2>3. Secured(p, g, k) => Secured(p, h, l)
    BY <1>6, <1>8 DEF Secured
  <2>4. Honest(p, g.changed, r)
    <3>1. Believes(p, g.at, line) /\ (g.at = "keyedit.save.okay" => p.state \in {"QUIT", "SAVE"})
      BY <2>1 DEF InStep
    <3> QED
      BY <1>1, <3>1, ReactionsAreHonest
  <2>5. r.saves /\ (Awaits(p) \/ p.state = "SAVE") => l.saved
    BY <1>1, <1>8, <2>2, GivenIs
  <2>6. Stage(p) \in {"QUIT", "SAVE", "DONE"} => Secured(p, h, l)
    BY <2>1, <2>3 DEF InStep
  <2>7. ASSUME h.burst # <<>>
        PROVE  /\ Confirms(p, Head(h.burst)) => Secured(p, h, l)
               /\ p.state = "CONFIRM" => \/ Head(h.burst) = Line("keyedit.prompt")
                                         \/ Head(h.burst).code = "ERROR"
               /\ h.at # "none"
               /\ h.at = "keyedit.save.okay" => p.state \in {"QUIT", "SAVE"}
    <3>1. Confirms(p, Head(h.burst)) => Secured(p, h, l)
      BY <1>6, <1>8, <2>4, <2>5, <2>7 DEF Honest, Secured, Confirms
    <3> QED
      BY <1>4, <1>5, <1>6, <2>4, <2>7, <3>1 DEF Honest
  <2>8. h.burst = <<>> => h.at = "none" /\ h.ended
    BY <1>4, <1>5, <1>6
  <2>9. ASSUME h.ended
        PROVE  l.saved \/ l.declined
    <3>1. \/ p.state = "QUIT" /\ ~(g.changed /\ p.kind \in {"sign", "expire"})
          \/ p.state = "SAVE" /\ r.saves
      BY <1>6, <2>4, <2>9 DEF Honest
    <3>2. CASE p.state = "QUIT" /\ ~(g.changed /\ p.kind \in {"sign", "expire"})
      <4>1. Secured(p, g, k)
        BY <2>1, <3>2 DEF InStep, Stage
      <4> QED
        BY <1>8, <3>2, <4>1 DEF Secured
    <3>3. CASE p.state = "SAVE" /\ r.saves
      BY <2>5, <3>3
    <3> QED
      BY <3>1, <3>2, <3>3
  <2> QED
    BY <1>6, <2>2, <2>6, <2>7, <2>8, <2>9 DEF InStep
<1> QED
  BY <1>1, <1>4, <1>5, <1>6, <1>7, <1>8, <1>9, <1>10 DEF DialogueFits, ReadFits

-----------------------------------------------------------------------------
(* The life of the operation.                                              *)

LEMMA CompletedIs ==
  ASSUME NEW o \in OpType, NEW signals \in SUBSET {"changed_wot", "new_expiration", "generated_key"},
         NEW err \in Errors
  PROVE  LET c == Completed(o, signals, err) IN
         /\ c \in OpType /\ c.kind = o.kind /\ c.n = o.n /\ c.current = o.current
         /\ c.modified = o.modified /\ c.phase = "completed" /\ signals \subseteq c.signals
BY DEF Completed, OpType

\* What is known when the key at work is done with this result and all boxes are closed.
KeyIsDone(o, ks, err) ==
  /\ o \in OpType /\ err \in Errors /\ o.modified <= o.current /\ o.current <= o.n
  /\ o.kind \in GenKeyKinds => o.current = 1
  /\ \A k \in Keys : ks[k].told = "ok" => k < o.current \/ (k = o.current /\ err = "none")
  /\ o.kind \in {"sign", "trust", "expire"} /\ SomeOk(ks) => o.modified > 0
  /\ o.kind \in GenKeyKinds => o.modified < o.current

LEMMA CompletesFit ==
  ASSUME NEW o \in OpType, NEW ks, NEW err \in Errors,
         NEW signals \in SUBSET {"changed_wot", "new_expiration", "generated_key"},
         o.modified < o.current, o.kind \in GenKeyKinds => o.current = 1,
         o.kind \in {"sign", "trust", "expire"} /\ SomeOk(ks) => o.modified > 0,
         SomeOk(ks) => Signals(o.kind) \subseteq signals
  PROVE  OpFits(Completed(o, signals, err), ks)
<1> DEFINE c == Completed(o, signals, err)
<1>1. /\ c \in OpType /\ c.kind = o.kind /\ c.n = o.n /\ c.current = o.current
      /\ c.modified = o.modified /\ c.phase = "completed" /\ signals \subseteq c.signals
  BY CompletedIs
<1> HIDE DEF c
<1>2. ProgressFits(c, ks)
  BY <1>1 DEF ProgressFits
<1>3. Announced(c, ks)
  BY <1>1 DEF Announced
<1>4. OpFits(c, ks)
  BY <1>1, <1>2, <1>3 DEF OpFits
<1> QED
  BY <1>4 DEF c

LEMMA FinishFits ==
  ASSUME NEW o \in OpType, NEW ks, NEW err \in Errors,
         o.modified < o.current, o.kind \in KeyKinds,
         o.kind \in {"sign", "trust", "expire"} /\ SomeOk(ks) => o.modified > 0
  PROVE  OpFits(Finish(o, err), ks)
<1>1. PICK signals \in SUBSET {"changed_wot", "new_expiration", "generated_key"} :
        Finish(o, err) = Completed(o, signals, err) /\ (SomeOk(ks) => Signals(o.kind) \subseteq signals)
  <2>1. CASE o.kind \in {"sign", "trust", "expire"}
    <3>1. Finish(o, err) = Completed(o, Announce(o.modified > 0), err)
      BY <2>1 DEF Finish, sign_next, trust_next, expire_next
    <3>2. SomeOk(ks) => Signals(o.kind) \subseteq Announce(o.modified > 0)
      BY <2>1 DEF Signals, Announce, GenKeyKinds
    <3>3. Announce(o.modified > 0) \subseteq {"changed_wot"}
      BY DEF Announce
    <3> QED
      BY <3>1, <3>2, <3>3
  <2>2. CASE o.kind = "passwd"
    <3>1. Finish(o, err) = Completed(o, {}, err)
      BY <2>2 DEF Finish, passwd_next
    <3>2. Signals(o.kind) = {}
      BY <2>2 DEF Signals, GenKeyKinds
    <3> QED
      BY <3>1, <3>2
  <2>3. CASE o.kind = "delete"
    <3>1. Finish(o, err) = Completed(o, {"changed_wot"}, err)
      BY <2>3 DEF Finish, delete_next
    <3>2. Signals(o.kind) = {"changed_wot"}
      BY <2>3 DEF Signals, GenKeyKinds
    <3> QED
      BY <3>1, <3>2
  <2> QED
    BY <2>1, <2>2, <2>3 DEF KeyKinds
<1>2. o.kind \notin GenKeyKinds
  BY DEF KeyKinds, GenKeyKinds
<1> QED
  BY <1>1, <1>2, CompletesFit

LEMMA NotStartedFits ==
  ASSUME NEW o \in OpType, NEW ks, NEW err \in Errors, ProgressFits(o, ks),
         o.phase \notin {"backup", "completed"}
  PROVE  OpFits(NotStarted(o, err), ks)
<1>1. /\ o.modified < o.current /\ o.kind \in Kinds /\ o.current \in Nat
      /\ o.kind \in GenKeyKinds => o.current = 1
      /\ \A k \in Keys : ks[k].told = "ok" => k < o.current
      /\ o.kind \in {"sign", "trust", "expire"} /\ SomeOk(ks) => o.modified > 0
  BY KeyOperationAssumption DEF ProgressFits, OpType
<1>2. CASE o.current = 1
  <2>1. ~SomeOk(ks)
    BY <1>1, <1>2, KeyOperationAssumption DEF SomeOk, Keys
  <2>2. OpFits(Completed(o, {}, err), ks)
    BY <1>1, <2>1, CompletesFit
  <2> QED
    BY <1>2, <2>2 DEF NotStarted
<1>3. CASE o.current # 1
  <2>1. o.kind \in KeyKinds
    BY <1>1, <1>3 DEF Kinds
  <2> QED
    BY <1>1, <1>3, <2>1, FinishFits DEF NotStarted
<1> QED
  BY <1>2, <1>3

LEMMA NextKeyFits ==
  ASSUME NEW o, NEW ks, NEW err, KeyIsDone(o, ks, err), o.kind \in KeyKinds
  PROVE  OpFits(NextKey(o), ks)
<1> DEFINE next == [o EXCEPT !.current = o.current + 1]
           dialog == [next EXCEPT !.phase = "dialog"]
<1>1. /\ o \in OpType /\ o.modified <= o.current /\ o.current <= o.n
      /\ o.current \in Nat /\ o.modified \in 0 .. MaxKeys /\ o.n \in 1 .. MaxKeys
      /\ \A k \in Keys : ks[k].told = "ok" => k <= o.current
      /\ o.kind \in {"sign", "trust", "expire"} /\ SomeOk(ks) => o.modified > 0
  BY KeyOperationAssumption DEF KeyIsDone, OpType, Keys
<1>2. o.current + 1 \in 1 .. MaxKeys + 1
  BY <1>1, KeyOperationAssumption
<1>3. /\ next \in OpType /\ next.current = o.current + 1 /\ next.kind = o.kind /\ next.n = o.n
      /\ next.modified = o.modified
  BY <1>1, <1>2 DEF OpType
<1>4. NextKey(o) = IF next.current > next.n THEN Finish(next, "none") ELSE dialog
  BY DEF NextKey
<1>5. "none" \in Errors
  BY DEF Errors, EditErrors
<1>6. CASE next.current > next.n
  <2> HIDE DEF next, dialog
  <2>1. next.modified < next.current
    BY <1>1, <1>3
  <2>2. OpFits(Finish(next, "none"), ks)
    BY <1>1, <1>3, <1>5, <2>1, FinishFits
  <2> QED
    BY <1>4, <1>6, <2>2
<1>7. CASE ~(next.current > next.n)
  <2>1. /\ dialog \in OpType /\ dialog.current = next.current /\ dialog.kind = next.kind
        /\ dialog.n = next.n /\ dialog.modified = next.modified /\ dialog.phase = "dialog"
    BY <1>3 DEF OpType
  <2> HIDE DEF next, dialog
  <2>2. dialog.current <= dialog.n
    BY <1>1, <1>3, <1>7, <2>1
  <2>3. ProgressFits(dialog, ks)
    BY <1>1, <1>3, <2>1, <2>2 DEF ProgressFits, KeyKinds, GenKeyKinds, Keys
  <2>4. OpFits(dialog, ks)
    BY <2>1, <2>3 DEF OpFits, Announced
  <2> QED
    BY <1>4, <1>7, <2>4
<1> QED
  BY <1>6, <1>7

LEMMA GeneratedFits ==
  ASSUME NEW o, NEW ks, NEW err, KeyIsDone(o, ks, err), o.kind \in GenKeyKinds
  PROVE  OpFits(Generated(o, err), ks)
<1> DEFINE signals == IF err = "none" THEN {"generated_key"} ELSE {}
<1>1. /\ o \in OpType /\ err \in Errors /\ o.current = 1 /\ o.modified < o.current
      /\ \A k \in Keys : ks[k].told = "ok" => k < 1 \/ (k = 1 /\ err = "none")
  BY DEF KeyIsDone
<1>2. SomeOk(ks) => err = "none"
  BY <1>1, KeyOperationAssumption DEF SomeOk, Keys
<1>3. SomeOk(ks) => Signals(o.kind) \subseteq signals
  BY <1>2 DEF Signals, GenKeyKinds
<1>4. o.kind \notin {"sign", "trust", "expire"}
  BY DEF GenKeyKinds
<1>5. signals \in SUBSET {"changed_wot", "new_expiration", "generated_key"}
  OBVIOUS
<1>6. Generated(o, err) = Completed(o, signals, err)
  BY DEF Generated
<1> HIDE DEF signals
<1> QED
  BY <1>1, <1>3, <1>4, <1>5, <1>6, CompletesFit

LEMMA DoneCbFits ==
  ASSUME NEW o, NEW ks, NEW err, KeyIsDone(o, ks, err)
  PROVE  OpFits(DoneCb(o, err), ks)
<1>1. /\ o \in OpType /\ o.kind \in Kinds
  BY DEF KeyIsDone, OpType
<1>2. CASE o.kind \in {"sign", "trust", "passwd", "delete"}
  <2>1. DoneCb(o, err) = NextKey(o)
    BY <1>2 DEF DoneCb, sign_done_cb, trust_done_cb, passwd_done_cb, delete_done_cb
  <2> QED
    BY <1>2, <2>1, NextKeyFits DEF KeyKinds
<1>3. CASE o.kind = "expire"
  <2> DEFINE told == IF err = "none" THEN [o EXCEPT !.signals = o.signals \cup {"new_expiration"}] ELSE o
  <2>1. DoneCb(o, err) = NextKey(told)
    BY <1>3 DEF DoneCb, expire_done_cb
  <2>2. /\ told \in OpType /\ told.kind = o.kind /\ told.current = o.current /\ told.n = o.n
        /\ told.modified = o.modified
    BY <1>1 DEF OpType
  <2> HIDE DEF told
  <2>3. KeyIsDone(told, ks, err)
    BY <2>2 DEF KeyIsDone
  <2> QED
    BY <1>3, <2>1, <2>2, <2>3, NextKeyFits DEF KeyKinds
<1>4. CASE o.kind \in {"advanced", "card"}
  <2>1. DoneCb(o, err) = Generated(o, err)
    BY <1>4 DEF DoneCb, advanced_done_cb, card_done_cb
  <2> QED
    BY <1>4, <2>1, GeneratedFits DEF GenKeyKinds
<1>5. CASE o.kind = "simple"
  <2>1. DoneCb(o, err) = simple_done_cb(o, err)
    BY <1>5 DEF DoneCb
  <2>2. CASE err = "none" /\ o.do_backup
    <3> DEFINE b == [o EXCEPT !.phase = "backup"]
    <3>1. DoneCb(o, err) = b
      BY <2>1, <2>2 DEF simple_done_cb
    <3>2. /\ b \in OpType /\ b.kind = o.kind /\ b.current = o.current /\ b.n = o.n
          /\ b.modified = o.modified /\ b.phase = "backup"
      BY <1>1 DEF OpType
    <3> HIDE DEF b
    <3>3. ProgressFits(b, ks)
      BY <1>5, <3>2 DEF ProgressFits, KeyIsDone, GenKeyKinds
    <3> QED
      BY <3>1, <3>2, <3>3 DEF OpFits, Announced
  <2>3. CASE ~(err = "none" /\ o.do_backup)
    BY <1>5, <2>1, <2>3, GeneratedFits DEF simple_done_cb, GenKeyKinds
  <2> QED
    BY <2>2, <2>3
<1> QED
  BY <1>1, <1>2, <1>3, <1>4, <1>5 DEF Kinds, KeyKinds, GenKeyKinds

LEMMA EmitDoneFits ==
  ASSUME NEW o, NEW ks, NEW err \in Errors, NEW new,
         o \in OpType, ProgressFits(o, ks), o.phase = "running",
         new \in [Keys -> KeyRecord],
         \A k \in Keys : new[k].told =
           IF k # o.current THEN ks[k].told ELSE IF err = "none" THEN "ok" ELSE "error"
  PROVE  OpFits(EmitDone(o, err), new)
<1> DEFINE c == DoneError(o, err)
<1>1. /\ o.modified < o.current /\ o.current <= o.n /\ o.current \in Nat
      /\ o.modified \in 0 .. MaxKeys /\ o.n \in 1 .. MaxKeys /\ o.kind \in Kinds
      /\ o.kind \in GenKeyKinds => o.current = 1
      /\ \A k \in Keys : ks[k].told = "ok" => k < o.current
      /\ o.kind \in {"sign", "trust", "expire"} /\ SomeOk(ks) => o.modified > 0
  BY KeyOperationAssumption DEF ProgressFits, OpType, Keys
<1>2. \A k \in Keys : new[k].told = "ok" => k < o.current \/ (k = o.current /\ err = "none")
  BY <1>1
<1>3. SomeOk(new) => SomeOk(ks) \/ err = "none"
  BY DEF SomeOk
<1>4. c = IF o.kind \in {"sign", "trust", "expire"} /\ err = "none"
          THEN [o EXCEPT !.modified = o.modified + 1] ELSE o
  BY <1>1 DEF DoneError, Count, sign_done_error_cb, trust_done_error_cb, expire_done_error_cb,
     passwd_done_error_cb, delete_done_error_cb, advanced_done_error_cb, simple_done_error_cb,
     card_done_error_cb, Kinds, KeyKinds, GenKeyKinds
<1>5. /\ c \in OpType /\ c.kind = o.kind /\ c.current = o.current /\ c.n = o.n /\ c.phase = o.phase
      /\ c.modified = IF o.kind \in {"sign", "trust", "expire"} /\ err = "none"
                      THEN o.modified + 1 ELSE o.modified
  <2>1. CASE o.kind \in {"sign", "trust", "expire"} /\ err = "none"
    <3>1. o.modified + 1 \in 0 .. MaxKeys
      BY <1>1, KeyOperationAssumption
    <3> QED
      BY <1>4, <2>1, <3>1 DEF OpType
  <2>2. CASE ~(o.kind \in {"sign", "trust", "expire"} /\ err = "none")
    BY <1>4, <2>2
  <2> QED
    BY <2>1, <2>2
<1> HIDE DEF c
<1>6. KeyIsDone(c, new, err)
  <2>1. c.modified <= c.current
    BY <1>1, <1>5
  <2>2. c.kind \in {"sign", "trust", "expire"} /\ SomeOk(new) => c.modified > 0
    BY <1>1, <1>3, <1>5
  <2>3. c.kind \in GenKeyKinds => c.modified < c.current
    BY <1>1, <1>5 DEF GenKeyKinds
  <2> QED
    BY <1>1, <1>2, <1>5, <2>1, <2>2, <2>3 DEF KeyIsDone
<1>7. CASE ~ShowsBox(err)
  <2>1. EmitDone(o, err) = DoneCb(c, err)
    BY <1>7 DEF EmitDone, c
  <2> QED
    BY <1>6, <2>1, DoneCbFits
<1>8. CASE ShowsBox(err)
  <2> DEFINE b == [c EXCEPT !.phase = "box", !.err = err]
  <2>1. EmitDone(o, err) = b
    BY <1>8 DEF EmitDone, c
  <2>2. /\ b \in OpType /\ b.kind = c.kind /\ b.current = c.current /\ b.n = c.n
        /\ b.modified = c.modified /\ b.phase = "box" /\ b.err = err
    BY <1>5 DEF OpType
  <2> HIDE DEF b
  <2>3. err # "none"
    BY <1>8 DEF ShowsBox
  <2>4. ProgressFits(b, new)
    BY <1>1, <1>2, <1>3, <1>5, <1>8, <2>2, <2>3 DEF ProgressFits
  <2> QED
    BY <2>1, <2>2, <2>4 DEF OpFits, Announced
<1> QED
  BY <1>7, <1>8

-----------------------------------------------------------------------------
(* The starts.                                                             *)

LEMMA NoGpgFits == NoGpg \in GpgType /\ LinesFit(NoGpg)
<1> DEFINE empty == <<>>
<1>1. empty \in Seq(Statuses) /\ empty \in Seq(Lines) /\ Len(empty) = 0
  OBVIOUS
<1>2. NoGpg = [runs |-> FALSE, ended |-> FALSE, at |-> "none", burst |-> empty,
               input |-> empty, changed |-> FALSE, with |-> {}]
  BY DEF NoGpg
<1>3. empty = <<>>
  OBVIOUS
<1> HIDE DEF empty
<1>4. NoGpg \in GpgType
  BY <1>1, <1>2 DEF GpgType
<1>5. NoGpg.burst = <<>> /\ NoGpg.input = <<>> /\ Len(NoGpg.input) = 0
  BY <1>1, <1>2, <1>3
<1> QED
  BY <1>4, <1>5 DEF LinesFit

\* gpg comes up with its main prompt, or with an error.
LEMMA StartsWell ==
  ASSUME NEW kind, NEW r \in GpgStarts(kind)
  PROVE  /\ r.burst # <<>> /\ BurstFits(kind, r.burst) /\ r.burst \in Seq(Statuses)
         /\ Waits(r.burst) \in {"keyedit.prompt", "cardedit.prompt", "none"}
         /\ Waits(r.burst) = "none" => Head(r.burst).code = "ERROR"
<1>1. CASE r \in {Main, CardMain}
  <2>1. \/ GoesOn(kind, r, Line("keyedit.prompt"), "keyedit.prompt", FALSE, FALSE, FALSE)
        \/ GoesOn(kind, r, Line("cardedit.prompt"), "cardedit.prompt", FALSE, FALSE, FALSE)
    BY <1>1, Mains
  <2> QED
    BY <2>1 DEF GoesOn, BurstFits
<1>2. CASE r = Reports(<<Alert("GENERAL")>>)
  <2> DEFINE alert == Alert("GENERAL")
             burst == <<alert>>
  <2>1. StatusFits(kind, alert) /\ ~AsksForLine(alert) /\ alert.code = "ERROR"
    BY Alerts
  <2>2. alert \in Statuses
    BY <2>1 DEF StatusFits
  <2> HIDE DEF alert
  <2>3. /\ burst \in Seq(Statuses) /\ burst # <<>> /\ Head(burst) = alert
        /\ Len(burst) = 1 /\ burst[1] = alert /\ DOMAIN burst = {1}
    BY <2>2
  <2>4. r = Reports(burst)
    BY <1>2 DEF alert
  <2> HIDE DEF burst
  <2>5. r.burst = burst
    BY <2>4 DEF Reports
  <2>6. BurstFits(kind, burst)
    BY <2>1, <2>3 DEF BurstFits
  <2>7. Waits(burst) = "none"
    BY <2>1, <2>3 DEF Waits, Last
  <2> QED
    BY <2>1, <2>3, <2>5, <2>6, <2>7
<1> QED
  BY <1>1, <1>2 DEF GpgStarts

LEMMA StartFits ==
  ASSUME NEW kind \in EditKinds, NEW data \in DataOf(kind), NEW p, p = NewParms(kind, data),
         NEW r \in GpgStarts(kind), NEW g, NEW k,
         g = [NoGpg EXCEPT !.runs = TRUE, !.at = Waits(r.burst), !.burst = r.burst]
  PROVE  p \in ParmsType /\ p.kind = kind /\ g \in GpgType /\ DialogueFits(p, g, k)
<1>1. /\ r.burst # <<>> /\ BurstFits(kind, r.burst) /\ r.burst \in Seq(Statuses)
      /\ Waits(r.burst) \in {"keyedit.prompt", "cardedit.prompt", "none"}
      /\ Waits(r.burst) = "none" => Head(r.burst).code = "ERROR"
  BY StartsWell
<1>2. NoGpg \in GpgType /\ NoGpg.input = <<>> /\ ~NoGpg.ended
  BY NoGpgFits DEF NoGpg
<1>3. /\ g \in GpgType /\ g.burst = r.burst /\ g.at = Waits(r.burst) /\ g.input = NoGpg.input
      /\ g.ended = NoGpg.ended
  BY <1>1, <1>2 DEF GpgType, Prompts
<1>4. /\ p.kind = kind /\ p.data = data /\ p.state = "START" /\ p.post = "START" /\ p.err = "none"
      /\ p \in ParmsType
  BY DEF NewParms, ParmsType, EditKinds, States, EditErrors, Lines, DataOf, key_sign_run_dialog,
     ownertrust_run_dialog, expiry_dialog_run, key_gen_run_dialog
<1>5. ParmsFit(p)
  BY <1>4 DEF ParmsFit, StatesOf, EditKinds
<1>6. LinesFit(g)
  <2>1. Len(g.input) <= 1
    BY <1>2, <1>3
  <2> QED
    BY <1>2, <1>3, <2>1 DEF LinesFit
<1>7. Given(p) = {}
  BY <1>4 DEF Given, Stage
<1>8. ~Awaits(p) /\ Stage(p) = "START"
  BY <1>4 DEF Awaits, Stage
<1>9. InStep(p, g, k)
  BY <1>1, <1>2, <1>3, <1>4, <1>7, <1>8 DEF InStep, Confirms
<1> QED
  BY <1>1, <1>3, <1>4, <1>5, <1>6, <1>9 DEF DialogueFits

-----------------------------------------------------------------------------
(* The invariant is inductive.                                             *)

LEMMA PhaseFits ==
  ASSUME NEW o \in OpType, NEW ks, ProgressFits(o, ks), o.phase \notin {"backup", "completed"},
         NEW phase \in {"dialog", "running", "warning", "confirm", "abandoned"}, NEW err \in Errors
  PROVE  /\ OpFits([o EXCEPT !.phase = phase], ks)
         /\ OpFits([o EXCEPT !.phase = phase, !.err = err], ks)
<1>1. ASSUME NEW n \in OpType, n.phase = phase, n.kind = o.kind, n.current = o.current, n.n = o.n,
             n.modified = o.modified
      PROVE  OpFits(n, ks)
  BY <1>1 DEF OpFits, ProgressFits, Announced
<1>2. OpFits([o EXCEPT !.phase = phase], ks)
  <2> DEFINE n == [o EXCEPT !.phase = phase]
  <2>1. /\ n \in OpType /\ n.phase = phase /\ n.kind = o.kind /\ n.current = o.current /\ n.n = o.n
        /\ n.modified = o.modified
    BY DEF OpType
  <2> HIDE DEF n
  <2>2. OpFits(n, ks)
    BY <1>1, <2>1
  <2> QED
    BY <2>2 DEF n
<1>3. OpFits([o EXCEPT !.phase = phase, !.err = err], ks)
  <2> DEFINE n == [o EXCEPT !.phase = phase, !.err = err]
  <2>1. /\ n \in OpType /\ n.phase = phase /\ n.kind = o.kind /\ n.current = o.current /\ n.n = o.n
        /\ n.modified = o.modified
    BY DEF OpType
  <2> HIDE DEF n
  <2>2. OpFits(n, ks)
    BY <1>1, <2>1
  <2> QED
    BY <2>2 DEF n
<1> QED
  BY <1>2, <1>3

\* Outside of an edit it does not matter to gpg where the operation is.
LEMMA OutsideFits ==
  ASSUME IInv, op.phase # "running", UNCHANGED <<edit, gpg, keys, settings>>,
         OpFits(op', keys), failures' \in 0 .. MaxFailures
  PROVE  IInv'
<1>1. edit = NoEdit
  BY DEF IInv, EditFits
<1>2. EditFits(op', edit', gpg', keys')
  BY <1>1 DEF IInv, EditFits
<1> QED
  BY <1>2 DEF IInv

LEMMA OutsideStep ==
  ASSUME IInv,
         \/ IdleCb \/ StartFails \/ delete_dialog_confirm \/ DialogCancelled \/ WizardCancelled
         \/ CloseWarning \/ CloseBox \/ simple_backup_complete
  PROVE  IInv'
<1>1. /\ op \in OpType /\ ProgressFits(op, keys) /\ OpFits(op, keys) /\ op.err \in Errors
      /\ failures \in 0 .. MaxFailures
  BY DEF IInv, OpFits, OpType
<1>2. {"GENERAL", "CANCELED", "none"} \subseteq Errors
  BY DEF Errors, EditErrors
<1>3. CASE IdleCb
  <2>1. op.phase = "idle" /\ op.current = 1
    BY <1>1, <1>3 DEF IdleCb, ProgressFits
  <2>2. OpFits(op', keys)
    <3>1. CASE op' = [op EXCEPT !.phase = "dialog"]
      BY <1>1, <1>2, <2>1, <3>1, PhaseFits
    <3>2. CASE op' = Completed(op, {}, "none")
      <4>1. op' = NotStarted(op, "none")
        BY <2>1, <3>2 DEF NotStarted
      <4> QED
        BY <1>1, <1>2, <2>1, <4>1, NotStartedFits
    <3> QED
      BY <1>3, <3>1, <3>2 DEF IdleCb, sign_idle_cb, dialog_idle_cb
  <2> QED
    BY <1>1, <1>3, <2>1, <2>2, OutsideFits DEF IdleCb
<1>4. CASE StartFails
  <2>1. op.phase \notin {"running", "backup", "completed"}
    BY <1>4 DEF StartFails, Starting
  <2>2. OpFits(op', keys)
    BY <1>1, <1>2, <1>4, <2>1, PhaseFits DEF StartFails
  <2>3. failures' \in 0 .. MaxFailures
    BY <1>1, <1>4, KeyOperationAssumption DEF StartFails
  <2> QED
    BY <1>4, <2>1, <2>2, <2>3, OutsideFits DEF StartFails
<1>5. CASE delete_dialog_confirm
  <2>1. OpFits(op', keys)
    BY <1>1, <1>2, <1>5, PhaseFits DEF delete_dialog_confirm
  <2> QED
    BY <1>1, <1>5, <2>1, OutsideFits DEF delete_dialog_confirm
<1>6. CASE DialogCancelled
  <2>1. OpFits(op', keys)
    BY <1>1, <1>2, <1>6, NotStartedFits DEF DialogCancelled
  <2> QED
    BY <1>1, <1>6, <2>1, OutsideFits DEF DialogCancelled
<1>7. CASE WizardCancelled
  <2>1. OpFits(op', keys)
    BY <1>1, <1>2, <1>7, PhaseFits DEF WizardCancelled
  <2> QED
    BY <1>1, <1>7, <2>1, OutsideFits DEF WizardCancelled
<1>8. CASE CloseWarning
  <2>1. OpFits(op', keys)
    BY <1>1, <1>8, NotStartedFits DEF CloseWarning
  <2> QED
    BY <1>1, <1>8, <2>1, OutsideFits DEF CloseWarning
<1>9. CASE CloseBox
  <2>1. KeyIsDone(op, keys, op.err)
    BY <1>1, <1>9, KeyOperationAssumption DEF CloseBox, KeyIsDone, ProgressFits, OpType
  <2>2. OpFits(op', keys)
    BY <1>9, <2>1, DoneCbFits DEF CloseBox
  <2> QED
    BY <1>1, <1>9, <2>2, OutsideFits DEF CloseBox
<1>10. CASE simple_backup_complete
  <2>1. op.kind = "simple" /\ op.current = 1 /\ op.modified < op.current
    BY <1>1, <1>10 DEF simple_backup_complete, ProgressFits, GenKeyKinds
  <2>2. Signals(op.kind) = {"generated_key"}
    BY <2>1 DEF Signals, GenKeyKinds
  <2>3. OpFits(op', keys)
    BY <1>1, <1>2, <1>10, <2>1, <2>2, CompletesFit DEF simple_backup_complete
  <2> QED
    BY <1>1, <1>10, <2>3, OutsideFits DEF simple_backup_complete
<1> QED
  BY <1>3, <1>4, <1>5, <1>6, <1>7, <1>8, <1>9, <1>10

LEMMA StartStep ==
  ASSUME IInv, Start
  PROVE  IInv'
<1>1. /\ op \in OpType /\ ProgressFits(op, keys) /\ op.err \in Errors
      /\ op.phase \notin {"backup", "completed"}
  BY DEF IInv, OpFits, OpType, Start, Starting
<1>2. op' = [op EXCEPT !.phase = "running"]
  BY DEF Start
<1>3. OpFits(op', keys) /\ op'.phase = "running" /\ op'.kind = op.kind
  BY <1>1, <1>2, PhaseFits DEF OpType
<1>4. CASE StartEdit
  <2>1. PICK r \in GpgStarts(op.kind) :
          gpg' = [NoGpg EXCEPT !.runs = TRUE, !.at = Waits(r.burst), !.burst = r.burst]
    BY <1>4 DEF StartEdit
  <2>2. /\ op.kind \in EditKinds
        /\ \E data \in DataOf(op.kind) : edit' = NewParms(op.kind, data)
    BY <1>4 DEF StartEdit, sign_start, trust_start, expire_start, passwd_start, card_start,
       sign_parms_new, trust_parms_new, expire_parms_new, passwd_parms_new, card_parms_new,
       DataOf, EditKinds
  <2>3. /\ edit' \in ParmsType /\ edit'.kind = op.kind /\ gpg' \in GpgType
        /\ DialogueFits(edit', gpg', keys[op'.current])
    BY <2>1, <2>2, StartFits
  <2>4. LinesFit(gpg')
    BY <2>3 DEF DialogueFits
  <2>5. EditFits(op', edit', gpg', keys)
    BY <1>3, <2>3, <2>4 DEF EditFits
  <2> QED
    BY <1>3, <2>5 DEF IInv, Start
<1>5. CASE StartOperation
  <2>1. edit' = NoEdit /\ gpg' = [NoGpg EXCEPT !.runs = TRUE]
    BY <1>5 DEF StartOperation, delete_start, generate_start
  <2>2. /\ gpg' \in GpgType /\ gpg'.burst = NoGpg.burst /\ gpg'.input = NoGpg.input
        /\ gpg'.at = NoGpg.at
    BY <2>1, NoGpgFits DEF GpgType
  <2>3. LinesFit(gpg')
    BY <2>2, NoGpgFits DEF LinesFit
  <2>4. EditFits(op', edit', gpg', keys)
    BY <2>1, <2>2, <2>3 DEF EditFits
  <2> QED
    BY <1>3, <2>4 DEF IInv, Start
<1> QED
  BY <1>4, <1>5 DEF Start

LEMMA CurrentIs ==
  ASSUME IInv, op.phase # "completed"
  PROVE  op.current \in Keys
BY KeyOperationAssumption DEF IInv, OpFits, OpType, ProgressFits, Keys

LEMMA DeliverStep ==
  ASSUME IInv, DeliverStatus
  PROVE  IInv'
<1>1. /\ edit # NoEdit /\ op.phase = "running" /\ gpg \in GpgType /\ edit.kind = op.kind
      /\ DialogueFits(edit, gpg, keys[op.current])
  BY DEF IInv, EditFits, DeliverStatus, Editing
<1>2. PICK r \in edit_fnc(edit, Head(gpg.burst)) :
        /\ edit' = r.parms
        /\ gpg' = [gpg EXCEPT !.burst = Tail(gpg.burst), !.input = gpg.input \o r.typed]
  BY DEF DeliverStatus
<1>3. gpg.burst # <<>>
  BY DEF DeliverStatus
<1>4. /\ gpg' \in GpgType /\ r.parms \in ParmsType /\ r.parms.kind = edit.kind
      /\ DialogueFits(r.parms, gpg', keys[op.current])
  BY <1>1, <1>2, <1>3, DeliveryFits
<1>5. EditFits(op, edit', gpg', keys)
  BY <1>1, <1>2, <1>4 DEF EditFits, DialogueFits
<1> QED
  BY <1>5 DEF IInv, DeliverStatus

LEMMA ReadStep ==
  ASSUME IInv, GpgReads
  PROVE  IInv'
<1> DEFINE k == keys[op.current]
<1>1. /\ edit # NoEdit /\ op.phase = "running" /\ gpg \in GpgType /\ edit.kind = op.kind
      /\ DialogueFits(edit, gpg, k) /\ edit \in ParmsType
  BY DEF IInv, EditFits, GpgReads, Editing
<1>2. op.current \in Keys /\ k \in KeyRecord /\ KeysFit(keys) /\ keys \in [Keys -> KeyRecord]
  BY <1>1, CurrentIs DEF IInv, KeysFit
<1>3. PICK r \in GpgReacts(op.kind, gpg.at, Head(gpg.input), gpg.changed, settings) :
        /\ gpg' = [gpg EXCEPT !.input = Tail(@), !.burst = r.burst, !.at = Waits(r.burst),
                              !.ended = r.ends, !.changed = @ \/ r.changes,
                              !.with = @ \cup {Head(gpg.input)}]
        /\ keys' = [keys EXCEPT ![op.current] = Reacted(k, r, Essential(edit) \subseteq gpg'.with)]
  BY DEF GpgReads
<1>4. gpg.input # <<>> /\ r \in GpgReacts(edit.kind, gpg.at, Head(gpg.input), gpg.changed, settings)
  BY <1>1 DEF GpgReads
<1>5. gpg' = Read(gpg, Head(gpg.input), r)
  BY <1>3 DEF Read
<1>6. PICK l : l = Reacted(k, r, Essential(edit) \subseteq gpg'.with)
  OBVIOUS
<1>7. keys' = [keys EXCEPT ![op.current] = l]
  BY <1>3, <1>6
<1> HIDE DEF k
<1>8. ReadFits(edit, k, gpg', l)
  BY <1>1, <1>2, <1>4, <1>5, <1>6, ReadingFits
<1> USE DEF k
<1>9. /\ keys' \in [Keys -> KeyRecord] /\ keys'[op.current] = l
      /\ \A j \in Keys : keys'[j].told = keys[j].told
  BY <1>2, <1>7, <1>8 DEF ReadFits
<1>10. KeysFit(keys')
  BY <1>2, <1>7, <1>8, <1>9 DEF KeysFit, ReadFits
<1>11. OpFits(op, keys')
  <2>1. SomeOk(keys') <=> SomeOk(keys)
    BY <1>9 DEF SomeOk
  <2> QED
    BY <1>9, <2>1 DEF IInv, OpFits, ProgressFits, Announced
<1>12. EditFits(op, edit, gpg', keys')
  BY <1>1, <1>8, <1>9 DEF EditFits, DialogueFits, ReadFits
<1> QED
  BY <1>10, <1>11, <1>12 DEF IInv, GpgReads

\* The end of an edit.
LEMMA DoneFits ==
  ASSUME IInv, op.phase = "running", NEW err \in Errors, Done(err),
         err = "none" => keys[op.current].saved \/ keys[op.current].declined,
         failures' \in 0 .. MaxFailures
  PROVE  IInv'
<1> DEFINE told == IF err = "none" THEN "ok" ELSE "error"
           k == keys[op.current]
           l == [k EXCEPT !.told = told]
<1>1. /\ op.current \in Keys /\ keys \in [Keys -> KeyRecord] /\ k \in KeyRecord /\ KeysFit(keys)
      /\ op \in OpType /\ ProgressFits(op, keys)
  BY CurrentIs DEF IInv, KeysFit, OpFits
<1>2. l \in KeyRecord /\ l.told = told /\ l.saved = k.saved /\ l.declined = k.declined
  BY <1>1 DEF KeyRecord
<1>3. keys' = [keys EXCEPT ![op.current] = l]
  BY DEF Done
<1> HIDE DEF l
<1>4. /\ keys' \in [Keys -> KeyRecord]
      /\ \A j \in Keys : keys'[j] = IF j = op.current THEN l ELSE keys[j]
  BY <1>1, <1>2, <1>3
<1>5. KeysFit(keys')
  BY <1>1, <1>2, <1>4 DEF KeysFit
<1>6. OpFits(op', keys')
  <2>1. \A j \in Keys : keys'[j].told = IF j # op.current THEN keys[j].told ELSE told
    BY <1>2, <1>4
  <2>2. op' = EmitDone(op, err)
    BY DEF Done
  <2> QED
    BY <1>1, <1>4, <2>1, <2>2, EmitDoneFits
<1>7. EditFits(op', edit', gpg', keys')
  BY NoGpgFits DEF Done, EditFits
<1> QED
  BY <1>5, <1>6, <1>7 DEF IInv, Done

LEMMA EndStep ==
  ASSUME IInv, EditEnds \/ EditGivenUp \/ EditDies \/ OperationEnds
  PROVE  IInv'
<1>1. /\ {"none", "GENERAL", "CANCELED"} \subseteq Errors
      /\ failures \in 0 .. MaxFailures
  BY DEF Errors, EditErrors, IInv
<1>2. CASE EditEnds
  <2>1. /\ op.phase = "running" /\ edit.err = "none" /\ gpg.burst = <<>>
        /\ gpg.ended \/ gpg.at = "none"
        /\ DialogueFits(edit, gpg, keys[op.current])
    BY <1>2 DEF EditEnds, Editing, IInv, EditFits
  <2>2. keys[op.current].saved \/ keys[op.current].declined
    BY <2>1 DEF DialogueFits, InStep
  <2> QED
    BY <1>1, <1>2, <2>1, <2>2, DoneFits DEF EditEnds
<1>3. CASE EditGivenUp
  <2>1. op.phase = "running" /\ edit.err # "none" /\ DialogueFits(edit, gpg, keys[op.current])
    BY <1>3 DEF EditGivenUp, Editing, IInv, EditFits
  <2>2. edit.err \in Errors
    BY <2>1 DEF DialogueFits, ParmsFit, ParmsType, Errors
  <2> QED
    BY <1>1, <1>3, <2>1, <2>2, DoneFits DEF EditGivenUp
<1>4. CASE EditDies
  <2>1. op.phase = "running" /\ Done("GENERAL") /\ failures' \in 0 .. MaxFailures
    BY <1>1, <1>4, KeyOperationAssumption DEF EditDies, Editing
  <2> QED
    BY <1>1, <2>1, DoneFits
<1>5. CASE OperationEnds
  <2>1. PICK ok \in BOOLEAN, err \in {"none", "GENERAL", "CANCELED"} :
          /\ ok <=> err = "none"
          /\ op' = EmitDone(op, err)
          /\ keys' = [keys EXCEPT ![op.current] =
                        [keys[op.current] EXCEPT !.told = IF ok THEN "ok" ELSE "error", !.saved = ok]]
    BY <1>5 DEF OperationEnds
  <2> DEFINE k == keys[op.current]
             l == [k EXCEPT !.told = IF ok THEN "ok" ELSE "error", !.saved = ok]
  <2>2. op.phase = "running" /\ edit = NoEdit
    BY <1>5 DEF OperationEnds
  <2>3. /\ op.current \in Keys /\ keys \in [Keys -> KeyRecord] /\ k \in KeyRecord /\ KeysFit(keys)
        /\ op \in OpType /\ ProgressFits(op, keys)
    BY <2>2, CurrentIs DEF IInv, KeysFit, OpFits
  <2>4. l \in KeyRecord /\ l.told = (IF ok THEN "ok" ELSE "error") /\ l.saved = ok
    BY <2>3 DEF KeyRecord
  <2>5. keys' = [keys EXCEPT ![op.current] = l]
    BY <2>1
  <2> HIDE DEF l
  <2>6. /\ keys' \in [Keys -> KeyRecord]
        /\ \A j \in Keys : keys'[j] = IF j = op.current THEN l ELSE keys[j]
    BY <2>3, <2>4, <2>5
  <2>7. KeysFit(keys')
    BY <2>3, <2>4, <2>6 DEF KeysFit
  <2>8. OpFits(op', keys')
    <3>1. \A j \in Keys : keys'[j].told =
            IF j # op.current THEN keys[j].told ELSE IF err = "none" THEN "ok" ELSE "error"
      BY <2>1, <2>4, <2>6
    <3>2. err \in Errors
      BY <1>1, <2>1
    <3>3. OpFits(EmitDone(op, err), keys')
      <4> HIDE DEF k
      <4> QED
        BY <2>2, <2>3, <2>6, <3>1, <3>2, EmitDoneFits
    <3> QED
      BY <2>1, <3>3
  <2>9. EditFits(op', edit', gpg', keys')
    BY <1>5, <2>2, NoGpgFits DEF OperationEnds, EditFits
  <2> QED
    BY <1>5, <2>7, <2>8, <2>9 DEF IInv, OperationEnds
<1> QED
  BY <1>2, <1>3, <1>4, <1>5

LEMMA InitIInv == Init => IInv
<1> SUFFICES ASSUME Init PROVE IInv
  OBVIOUS
<1>1. PICK kind \in Kinds, n \in Keys, signer, backup \in BOOLEAN :
        op = [kind |-> kind, n |-> n, current |-> 1, modified |-> 0,
              phase |-> IF kind = "simple" THEN "wizard" ELSE "idle",
              signer |-> signer, do_backup |-> backup, signals |-> {}, err |-> "none"]
  BY DEF Init
<1>2. keys = [k \in Keys |-> Untouched] /\ edit = NoEdit /\ gpg = NoGpg
      /\ settings \in SettingsType /\ failures = 0
  BY DEF Init
<1>3. keys \in [Keys -> KeyRecord] /\ \A k \in Keys : keys[k].told # "ok"
  BY <1>2 DEF Untouched, KeyRecord
<1>4. op \in OpType
  <2>1. 1 \in 1 .. MaxKeys + 1 /\ 0 \in 0 .. MaxKeys /\ "none" \in Errors
    BY KeyOperationAssumption DEF Errors, EditErrors
  <2> QED
    BY <1>1, <2>1 DEF OpType
<1>5. ProgressFits(op, keys) /\ Announced(op, keys)
  BY <1>1, <1>3, KeyOperationAssumption DEF ProgressFits, Announced, SomeOk, Keys
<1>6. EditFits(op, edit, gpg, keys)
  BY <1>2, NoGpgFits DEF EditFits
<1> QED
  BY <1>2, <1>3, <1>4, <1>5, <1>6, KeyOperationAssumption DEF IInv, OpFits, KeysFit

LEMMA NextIInv == IInv /\ [Next]_vars => IInv'
<1> SUFFICES ASSUME IInv, [Next]_vars PROVE IInv'
  OBVIOUS
<1>1. CASE \/ IdleCb \/ StartFails \/ delete_dialog_confirm \/ DialogCancelled \/ WizardCancelled
           \/ CloseWarning \/ CloseBox \/ simple_backup_complete
  BY <1>1, OutsideStep
<1>2. CASE Start \/ DeliverStatus \/ GpgReads
  BY <1>2, StartStep, DeliverStep, ReadStep
<1>3. CASE EditEnds \/ EditGivenUp \/ EditDies \/ OperationEnds
  BY <1>3, EndStep
<1>4. CASE UNCHANGED vars
  BY <1>4 DEF vars, IInv
<1> QED
  BY <1>1, <1>2, <1>3, <1>4 DEF Next

-----------------------------------------------------------------------------
\* For any number of keys and failures: every line edit_fnc types, in any of the five
\* machines, answers the prompt gpg waits at, and only one is on its way.
THEOREM PromptsGetTheirAnswers == Spec => []AnswersFitTheirPrompts
<1>1. IInv => TypeOK
  BY DEF IInv, OpFits, EditFits, KeysFit, TypeOK
<1>2. IInv => /\ Len(gpg.input) <= 1
              /\ gpg.input # <<>> => gpg.at # "none" /\ Head(gpg.input) \in Fits(gpg.at) \cup {""}
  BY DEF IInv, EditFits, LinesFit
<1>3. IInv => AnswersFitTheirPrompts
  BY <1>1, <1>2 DEF AnswersFitTheirPrompts
<1> QED
  BY <1>3, InitIInv, NextIInv, PTL DEF Spec

\* An edit is reported as done without an error only when gpg has saved the change with
\* the data of the user, or has declined without a word.
THEOREM SuccessesAreSaved == Spec => []SuccessMeansSaved
<1>1. IInv => SuccessMeansSaved
  BY DEF IInv, KeysFit, SuccessMeansSaved
<1> QED
  BY <1>1, InitIInv, NextIInv, PTL DEF Spec

\* When an operation has completed, the windows were told of the keys it has changed,
\* whatever became of the keys after them.
THEOREM ChangesAreTold == Spec => []ChangesAreAnnounced
<1>1. Signals(op.kind) = Announcement
  BY DEF Signals, Announcement
<1>2. IInv => ChangesAreAnnounced
  BY <1>1 DEF IInv, OpFits, Announced, SomeOk, ChangesAreAnnounced
<1> QED
  BY <1>2, InitIInv, NextIInv, PTL DEF Spec
=============================================================================
