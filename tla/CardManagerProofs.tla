-------------------------- MODULE CardManagerProofs --------------------------
(***************************************************************************)
(* What the card manager shows is what is in the reader, for any set of    *)
(* cards and fields, whether the status file of the reader is watched or   *)
(* not, and for any number of card events and clicks.                      *)
(*                                                                         *)
(* Only EditsAreFlagged is inductive by itself.  The other two properties  *)
(* rest on what the reload in progress owns: the sentinel is closed from   *)
(* its start until its low priority callback, and no other reload runs     *)
(* meanwhile (SentinelFits); what it left to an idle callback runs before  *)
(* (MoreFits); and after it has read the event counter, it reads           *)
(* everything that is displayed again (DisplayFits).                       *)
(***************************************************************************)
EXTENDS CardManager, TLAPS

Queued(callback) == callback \in ToSet(queue)

\* A reload closes the sentinel, which its finish callback opens; a change of a PIN
\* reads the data again without it.  A window that is gone has no reload, no ticker
\* and no callback that would start one.
SentinelFits ==
  /\ step = "loop" <=> caller = "none"
  /\ step # "loop" /\ caller # "pin" => in_card_reload = 1 /\ ~finishing
  /\ step = "loop" \/ caller = "pin" => (in_card_reload = 1 <=> finishing)
  /\ caller = "pin" => step \in {"texts", "keys", "attr", "finish"}
  /\ window \in {"none", "gone"} =>
       step \in {"loop", "ensure"} /\ ~finishing /\ ~ticker /\ ~Queued("reload")
  /\ window = "none" => genkey = "no"
  /\ dialog.kind # "none" => window = "open"

\* What a reload left to an idle callback is done before the sentinel opens, so that
\* the widget it is for is not destroyed.
MoreFits ==
  /\ Queued("more") => finishing \/ (step = "finish" /\ caller # "pin")
  /\ window = "open" => ~Queued("more old")

\* The first PIV card whose data was read waited for the secret keys, so that reading
\* it again after a change of a PIN does not.
SecretFits ==
  widget.type = "piv" =>
    /\ widget.texts # {} /\ step # "ensure" => secret
    /\ dialog.kind = "pin" /\ ~dialog.old => secret
    /\ caller = "pin" /\ step = "texts" => secret

\* No counter is ahead of scdaemon's.
CountersFit ==
  /\ eventcounter.card <= reader.counter
  /\ counted /\ step # "serialno" => eventcounter.card_any

\* All that is displayed was read when the counter seen last had been reached.
ReadAfter(c) == \A v \in {widget.at} \cup widget.texts \cup widget.keys : c <= v

\* Once a reload has read the counter, what it reads is not older; if what is
\* displayed is older, a reload is queued which will not be dropped.
DisplayFits ==
  window = "open" /\ counted =>
    /\ step = "widget" => eventcounter.card <= widget.at
    /\ step \in {"loop", "texts", "keys", "attr", "ensure", "finish"} =>
         (in_card_reload = 0 /\ Queued("reload")) \/ ReadAfter(eventcounter.card)

\* Nothing is displayed that will only be read later.
NothingEarly == \A v \in {widget.at} \cup widget.texts \cup widget.keys : v <= reader.counter

Strong == SentinelFits /\ MoreFits /\ SecretFits /\ CountersFit /\ DisplayFits /\ NothingEarly

\* After a use of dead memory the model only counts card events.
IInv ==
  /\ TypeOK
  /\ window = "open" => fault \notin {"more", "more old"}
  /\ EditsAreFlagged
  /\ Running => Strong

-----------------------------------------------------------------------------
(* Queues.                                                                 *)

LEMMA AppendMembers ==
  ASSUME NEW S, NEW s \in Seq(S), NEW e
  PROVE  ToSet(Append(s, e)) = ToSet(s) \cup {e}
<1>1. /\ Len(s) \in Nat /\ DOMAIN s = 1 .. Len(s)
      /\ DOMAIN Append(s, e) = 1 .. Len(s) + 1
      /\ \A i \in 1 .. Len(s) : Append(s, e)[i] = s[i]
      /\ Append(s, e)[Len(s) + 1] = e
  OBVIOUS
<1>2. 1 .. Len(s) + 1 = (1 .. Len(s)) \cup {Len(s) + 1}
  BY <1>1
<1> QED BY <1>1, <1>2, Zenon DEF ToSet

\* Queueing a callback.
LEMMA Enqueued ==
  ASSUME queue \in Seq(Callbacks), NEW e, UNCHANGED queue \/ queue' = Append(queue, e)
  PROVE  /\ \A c : Queued(c)' => Queued(c) \/ c = e
         /\ \A c : Queued(c) => Queued(c)'
         /\ queue' = Append(queue, e) => Queued(e)'
<1>1. UNCHANGED queue \/ queue' = Append(queue, e)
  OBVIOUS
<1>2. queue' = Append(queue, e) => ToSet(queue') = ToSet(queue) \cup {e}
  BY AppendMembers
<1> QED BY <1>1, <1>2 DEF Queued

\* What is left of a queue.
LEMMA TailMembers ==
  ASSUME NEW S, NEW s \in Seq(S), s # <<>>
  PROVE  ToSet(s) = {Head(s)} \cup ToSet(Tail(s)) /\ Tail(s) \in Seq(S)
<1>1. /\ Tail(s) \in Seq(S) /\ Len(Tail(s)) = Len(s) - 1 /\ Len(s) \in Nat \ {0}
      /\ \A i \in 1 .. Len(Tail(s)) : Tail(s)[i] = s[i + 1]
  OBVIOUS
<1>2. ToSet(Tail(s)) \subseteq ToSet(s)
  BY <1>1 DEF ToSet
<1>3. \A i \in 1 .. Len(s) : i = 1 \/ (i - 1 \in 1 .. Len(Tail(s)) /\ s[i] = Tail(s)[i - 1])
  BY <1>1
<1>4. Head(s) = s[1] /\ DOMAIN s = 1 .. Len(s) /\ DOMAIN Tail(s) = 1 .. Len(Tail(s))
      /\ 1 \in DOMAIN s
  BY <1>1
<1>5. ToSet(s) \subseteq {Head(s)} \cup ToSet(Tail(s))
  BY <1>3, <1>4, Zenon DEF ToSet
<1> QED BY <1>1, <1>2, <1>4, <1>5 DEF ToSet

LEMMA EmptyQueue == ToSet(<<>>) = {}
BY DEF ToSet

\* The window is held by a queued reload and by the finish callback.
LEMMA HeldBy ==
  ASSUME NEW q \in Seq(Callbacks), NEW f \in BOOLEAN
  PROVE  Held(q, f) <=> f \/ "reload" \in ToSet(q)
BY Zenon DEF Held, ToSet

\* Destroying the widget makes its callbacks old, and leaves the others.
LEMMA OldQueueMembers ==
  ASSUME queue \in Seq(Callbacks)
  PROVE  /\ OldQueue \in Seq(Callbacks)
         /\ "more" \notin ToSet(OldQueue)
         /\ "reload" \in ToSet(OldQueue) <=> "reload" \in ToSet(queue)
         /\ "more old" \in ToSet(OldQueue) =>
              "more" \in ToSet(queue) \/ "more old" \in ToSet(queue)
<1>1. \A c \in Callbacks : /\ Old(c) \in Callbacks /\ Old(c) # "more"
                           /\ Old(c) = "reload" <=> c = "reload"
                           /\ Old(c) = "more old" => c \in {"more", "more old"}
  BY DEF Old, Callbacks
<1>2. /\ DOMAIN queue = 1 .. Len(queue) /\ Len(queue) \in Nat
      /\ \A i \in DOMAIN queue : queue[i] \in Callbacks
  OBVIOUS
<1>3. OldQueue \in Seq(Callbacks)
  <2>1. OldQueue \in [1 .. Len(queue) -> Callbacks]
    BY <1>1, <1>2, Zenon DEF OldQueue
  <2> QED BY <1>2, <2>1
<1>4. DOMAIN OldQueue = DOMAIN queue /\ \A i \in DOMAIN queue : OldQueue[i] = Old(queue[i])
  BY DEF OldQueue
<1> QED BY <1>1, <1>2, <1>3, <1>4 DEF ToSet

-----------------------------------------------------------------------------
(* The sentinel.                                                           *)

LEMMA ReloadingKeepsSentinel ==
  ASSUME TypeOK, SentinelFits, SecretFits, Reloading
  PROVE  Running' => SentinelFits'
<1>1. CASE Serialno \/ Counter \/ Apptype
  BY <1>1 DEF TypeOK, SentinelFits, Queued, Serialno, Counter, Apptype, cardman, scd, card
<1>2. CASE update_card_widget
  BY <1>2, OldQueueMembers DEF TypeOK, SentinelFits, Queued, Running, update_card_widget, OldDialog
<1>3. CASE reload_data \/ ReadKeys \/ ReadKeyAttr
  <2>1. CASE reload_data
    <3>1. /\ step = "texts" /\ step' \in {"keys", "ensure", "finish"}
          /\ UNCHANGED <<caller, in_card_reload, finishing, window, ticker, dialog, genkey>>
          /\ step' = "ensure" => widget.type = "piv" /\ ~secret
      BY <2>1 DEF reload_data, rest
    <3>2. step' = "ensure" => caller # "pin"
      BY <3>1 DEF SecretFits
    <3> QED BY <3>1, <3>2 DEF SentinelFits
  <2>2. CASE ReadKeys \/ ReadKeyAttr
    BY <2>2 DEF TypeOK, SentinelFits, Queued, ReadKeys, ReadKeyAttr, cardman, scd, rest
  <2> QED BY <1>3, <2>1, <2>2
<1>4. CASE Ensured
  BY <1>4, AppendMembers DEF TypeOK, SentinelFits, Queued, Running, Ensured, Enqueue
<1>5. CASE Reloaded
  BY <1>5 DEF TypeOK, SentinelFits, Queued, Reloaded, card
<1> QED BY <1>1, <1>2, <1>3, <1>4, <1>5 DEF Reloading

LEMMA MainLoopKeepsSentinel ==
  ASSUME TypeOK, SentinelFits, MainLoop
  PROVE  Running' => SentinelFits'
<1>1. CASE card_reload_finish_idle_cb
  <2>1. /\ step = "loop" /\ finishing /\ queue = <<>> /\ in_card_reload = 1 /\ caller = "none"
        /\ in_card_reload' = 0 /\ ~finishing'
        /\ UNCHANGED <<step, caller, queue, dialog, genkey>>
    BY <1>1 DEF TypeOK, SentinelFits, Loop, card_reload_finish_idle_cb, card, flow, rest
  <2>2. \/ UNCHANGED <<window, ticker>> /\ window # "gone"
        \/ window = "destroyed" /\ window' = "gone" /\ ~ticker'
    BY <1>1, <2>1 DEF card_reload_finish_idle_cb, Unref, SentinelFits
  <2>3. ~Queued("reload")'
    BY <2>1, EmptyQueue DEF Queued
  <2> QED BY <2>1, <2>2, <2>3 DEF SentinelFits
<1>2. CASE card_reload_idle_cb
  <2>1. /\ queue # <<>> /\ Head(queue) = "reload" /\ queue \in Seq(Callbacks)
        /\ queue' = Tail(queue) /\ UNCHANGED <<finishing, dialog, genkey>>
        /\ step \in {"loop", "ensure"}
    BY <1>2 DEF TypeOK, AnyLoop, card_reload_idle_cb, card, rest
  <2>2. Queued("reload")
    BY <2>1, TailMembers DEF Queued
  <2>3. window \in {"open", "destroyed"}
    BY <2>2 DEF SentinelFits, TypeOK
  <2>4. CASE in_card_reload > 0
    <3>1. /\ Unref(Tail(queue), finishing \/ caller = "idle")
          /\ UNCHANGED <<in_card_reload, step, caller>>
      BY <1>2, <2>4 DEF card_reload_idle_cb, flow
    <3>2. CASE window = "destroyed" /\ ~Held(Tail(queue), finishing \/ caller = "idle")
      <4>1. window' = "gone" /\ ticker' = FALSE
        BY <3>1, <3>2 DEF Unref
      <4>2. ~finishing /\ "reload" \notin ToSet(Tail(queue))
        BY <3>2, <2>1, TailMembers, HeldBy DEF TypeOK
      <4> QED BY <2>1, <3>1, <3>2, <4>1, <4>2 DEF SentinelFits, Queued
    <3>3. CASE UNCHANGED <<window, ticker>>
      BY <2>1, <2>3, <3>1, <3>3 DEF SentinelFits, Queued
    <3> QED BY <3>1, <3>2, <3>3 DEF Unref
  <2>5. CASE ~(in_card_reload > 0)
    <3>1. /\ in_card_reload = 0 /\ in_card_reload' = 1 /\ step' = "serialno" /\ caller' = "idle"
          /\ UNCHANGED window
      BY <1>2, <2>5 DEF card_reload_idle_cb, card_reload, TypeOK
    <3>2. ~finishing
      BY <2>1, <3>1 DEF SentinelFits, TypeOK
    <3> QED BY <2>1, <2>3, <3>1, <3>2 DEF SentinelFits
  <2> QED BY <2>4, <2>5
<1>3. CASE ticker_cb
  <2>1. /\ UNCHANGED <<in_card_reload, finishing, step, caller, window, ticker, dialog, genkey>>
        /\ ticker
    BY <1>3 DEF ticker_cb, flow, card, rest
  <2> QED BY <2>1 DEF SentinelFits
<1>4. CASE watcher_cb
  <2>1. UNCHANGED <<queue, finishing, window, dialog, genkey>> /\ step \in {"loop", "ensure"}
        /\ window # "none"
    BY <1>4 DEF watcher_cb, AnyLoop, card
  <2>2. Running' => window # "gone" /\ window' # "gone"
    BY <1>4, <2>1 DEF watcher_cb, Running
  <2>3. CASE UNCHANGED <<in_card_reload, step, caller, ticker>>
    BY <2>1, <2>3 DEF SentinelFits, Queued
  <2>4. CASE in_card_reload = 0 /\ card_reload("watch")
    <3>1. in_card_reload' = 1 /\ step' = "serialno" /\ caller' = "watch" /\ ~finishing
      BY <2>1, <2>4 DEF card_reload, SentinelFits, TypeOK
    <3> QED BY <2>1, <2>2, <3>1 DEF SentinelFits
  <2>5. in_card_reload \in {0, 1}
    BY DEF TypeOK
  <2>6. \/ UNCHANGED <<in_card_reload, step, caller, ticker>>
        \/ ~(in_card_reload > 0) /\ card_reload("watch")
    BY <1>4 DEF watcher_cb, flow
  <2> QED BY <2>3, <2>4, <2>5, <2>6
<1>5. CASE reload_more_data_idle_cb
  <2>1. /\ UNCHANGED <<in_card_reload, finishing, step, caller, window, ticker, dialog, genkey>>
        /\ queue' = Tail(queue) /\ queue # <<>>
    BY <1>5 DEF reload_more_data_idle_cb, flow
  <2>2. Queued("reload")' => Queued("reload")
    BY <2>1, TailMembers DEF Queued, TypeOK
  <2> QED BY <2>1, <2>2 DEF SentinelFits
<1> QED BY <1>1, <1>2, <1>3, <1>4, <1>5 DEF MainLoop

LEMMA DialogsKeepSentinel ==
  ASSUME TypeOK, SentinelFits, Dialogs
  PROVE  Running' => SentinelFits'
<1>1. UNCHANGED cardman
  BY DEF Dialogs, show_admin_pin_notice, SaveFailed, PinChanged
<1>2. dialog.kind # "none" /\ step = "loop"
  BY DEF Dialogs, show_admin_pin_notice, SaveFailed, PinChanged, Loop
<1>3. \/ UNCHANGED <<step, caller>>
      \/ step' = "texts" /\ caller' = "pin"
  BY DEF Dialogs, show_admin_pin_notice, SaveFailed, PinChanged, flow
<1> QED BY <1>1, <1>2, <1>3 DEF SentinelFits, Queued, cardman

LEMMA BackgroundKeepsSentinel ==
  ASSUME TypeOK, SentinelFits, Background
  PROVE  Running' => SentinelFits'
<1>1. UNCHANGED <<in_card_reload, finishing, step, caller, window, ticker, dialog>>
  BY DEF Background, card_genkey_completed, learn_keys_gpg_status_cb, flow, card
<1>2. CASE card_genkey_completed
  <2>1. genkey # "no" /\ genkey' = "no" /\ (window = "gone" => ~Running')
    BY <1>2 DEF card_genkey_completed, Running
  <2>2. window # "none"
    BY <2>1 DEF SentinelFits
  <2> QED BY <1>1, <2>1, <2>2 DEF SentinelFits
<1>3. CASE learn_keys_gpg_status_cb
  <2>1. PICK c \in {"again", "again old"} : queue' = Append(queue, c)
    BY <1>3 DEF learn_keys_gpg_status_cb, Enqueue
  <2>2. queue \in Seq(Callbacks) /\ UNCHANGED genkey
    BY <1>3 DEF TypeOK, learn_keys_gpg_status_cb, rest
  <2>3. ToSet(queue') = ToSet(queue) \cup {c}
    BY <2>1, <2>2, AppendMembers
  <2>4. Queued("reload")' => Queued("reload")
    BY <2>3 DEF Queued
  <2> QED BY <1>1, <2>2, <2>4 DEF SentinelFits
<1> QED BY <1>2, <1>3 DEF Background

\* What the user does in the widget touches neither the window nor the reload.
InTheWidget == \/ card_genkey \/ change_pin \/ learn_keys_clicked_cb
               \/ \E f \in Fields : Edit(f) \/ LoseFocus(f)

LEMMA UserKeepsSentinel ==
  ASSUME TypeOK, SentinelFits, User
  PROVE  Running' => SentinelFits'
<1>1. CASE gpa_card_manager_get_instance
  <2>1. /\ window \in {"none", "gone"} /\ window' = "open" /\ in_card_reload' = 1
        /\ step' = "serialno" /\ caller' = "open" /\ UNCHANGED finishing
    BY <1>1 DEF gpa_card_manager_get_instance
  <2> QED BY <2>1 DEF SentinelFits
<1>2. CASE file_close
  <2>1. /\ window = "open" /\ dialog.kind = "none" /\ step \in {"loop", "ensure"}
        /\ UNCHANGED <<in_card_reload, finishing, step, caller, dialog, genkey>>
        /\ queue' = OldQueue
        /\ \/ window' = "destroyed"
           \/ window' = "gone" /\ ~Held(queue, finishing) /\ ~ticker'
    BY <1>2 DEF file_close, AnyLoop, flow, rest
  <2>2. Held(queue, finishing) <=> finishing \/ "reload" \in ToSet(queue)
    BY HeldBy DEF TypeOK
  <2>3. Queued("reload")' <=> "reload" \in ToSet(queue)
    BY <2>1, OldQueueMembers DEF TypeOK, Queued
  <2> QED BY <2>1, <2>2, <2>3 DEF SentinelFits
<1>3. CASE card_reload_action
  <2>1. /\ step = "loop" /\ window = "open" /\ dialog.kind = "none"
        /\ UNCHANGED <<window, finishing, queue, dialog, genkey>>
    BY <1>3 DEF card_reload_action, UserMayAct, Loop, card, rest
  <2>2. in_card_reload \in {0, 1}
    BY DEF TypeOK
  <2>3. CASE in_card_reload = 0
    <3>1. in_card_reload' = 1 /\ step' = "serialno" /\ caller' = "user"
      BY <1>3, <2>3 DEF card_reload_action, card_reload
    <3> QED BY <2>1, <2>3, <3>1 DEF SentinelFits
  <2>4. CASE in_card_reload = 1
    <3>1. UNCHANGED <<in_card_reload, step, caller>>
      BY <1>3, <2>4 DEF card_reload_action, card_reload, flow
    <3> QED BY <2>1, <3>1 DEF SentinelFits
  <2> QED BY <2>2, <2>3, <2>4
<1>4. CASE app_selector_changed_cb
  <2>1. /\ window = "open" /\ dialog.kind = "none"
        /\ UNCHANGED <<in_card_reload, finishing, step, caller, window, dialog, genkey>>
    BY <1>4 DEF app_selector_changed_cb, UserMayAct, flow, card, rest
  <2> QED BY <2>1 DEF SentinelFits
<1>5. CASE InTheWidget
  <2>1. /\ window = "open"
        /\ UNCHANGED <<in_card_reload, finishing, step, caller, window, ticker, queue>>
    BY <1>5 DEF InTheWidget, card_genkey, change_pin, learn_keys_clicked_cb, Edit, LoseFocus,
       UserMayAct, cardman, flow
  <2> QED BY <2>1 DEF SentinelFits, Queued
<1> QED BY <1>1, <1>2, <1>3, <1>4, <1>5 DEF User, InTheWidget

-----------------------------------------------------------------------------
(* What is left to idle callbacks.                                         *)

\* With the sentinel open no reload is in progress.
LEMMA SentinelOpen ==
  ASSUME SentinelFits, step \in {"loop", "ensure"}, in_card_reload = 0
  PROVE  step = "loop" /\ caller = "none" /\ ~finishing
BY DEF SentinelFits

\* A step that neither starts nor ends a reload, and queues nothing that lists
\* certificates for a new widget.
LEMMA MoreUntouched ==
  ASSUME MoreFits, window' = "open" => window = "open",
         finishing => finishing', step = "finish" => UNCHANGED <<step, caller>>,
         Queued("more")' => Queued("more"), Queued("more old")' => Queued("more old")
  PROVE  MoreFits'
BY DEF MoreFits

LEMMA ReloadingKeepsMore ==
  ASSUME TypeOK, SentinelFits, MoreFits, Reloading
  PROVE  Running' => MoreFits'
<1>1. CASE Serialno \/ Counter \/ Apptype \/ ReadKeys \/ ReadKeyAttr
  <2>1. UNCHANGED <<window, queue, finishing>> /\ step # "finish"
    BY <1>1 DEF Serialno, Counter, Apptype, ReadKeys, ReadKeyAttr, cardman
  <2> QED BY <2>1, MoreUntouched DEF Queued
<1>2. CASE update_card_widget
  <2>1. /\ step = "widget" /\ queue' = OldQueue /\ UNCHANGED window
        /\ Running' => window = "open"
    BY <1>2 DEF update_card_widget, Running
  <2>2. ~finishing
    BY <2>1 DEF SentinelFits
  <2>3. Running' => ~Queued("more") /\ ~Queued("more old")
    BY <2>1, <2>2 DEF MoreFits
  <2> QED BY <2>1, <2>3, OldQueueMembers DEF MoreFits, Queued, TypeOK
<1>3. CASE reload_data
  <2>1. /\ step = "texts" /\ UNCHANGED <<window, finishing, caller>>
        /\ \/ UNCHANGED queue
           \/ queue' = Append(queue, "again")
           \/ queue' = Append(queue, "more") /\ step' = "finish" /\ caller # "pin"
    BY <1>3 DEF reload_data
  <2>2. queue \in Seq(Callbacks)
    BY DEF TypeOK
  <2>3. CASE UNCHANGED queue \/ queue' = Append(queue, "again")
    <3>1. \A c : Queued(c)' => Queued(c) \/ c = "again"
      BY <2>2, <2>3, Enqueued
    <3>2. (Queued("more")' => Queued("more")) /\ (Queued("more old")' => Queued("more old"))
      BY <3>1
    <3> QED BY <2>1, <3>2, MoreUntouched
  <2>4. CASE queue' = Append(queue, "more") /\ step' = "finish" /\ caller # "pin"
    <3>0. \A c : Queued(c)' => Queued(c) \/ c = "more"
      BY <2>2, <2>4, Enqueued
    <3>1. Queued("more old")' => Queued("more old")
      BY <3>0
    <3> QED BY <2>1, <2>4, <3>1 DEF MoreFits
  <2> QED BY <2>1, <2>3, <2>4
<1>4. CASE Ensured
  <2>1. /\ step = "ensure" /\ step' = "finish" /\ UNCHANGED <<window, caller>>
        /\ Running' => window = "open"
        /\ Running' => queue' = Append(queue, "more")
    BY <1>4 DEF Ensured, Running, Enqueue
  <2>2. caller # "pin"
    BY <2>1 DEF SentinelFits
  <2>3. queue \in Seq(Callbacks)
    BY DEF TypeOK
  <2>0. Running' => \A c : Queued(c)' => Queued(c) \/ c = "more"
    BY <2>1, <2>3, Enqueued
  <2>4. Running' /\ Queued("more old")' => Queued("more old")
    BY <2>0
  <2> QED BY <2>1, <2>2, <2>4 DEF MoreFits
<1>5. CASE Reloaded
  <2>1. /\ UNCHANGED <<window, queue>>
        /\ finishing' = (finishing \/ caller # "pin")
    BY <1>5 DEF Reloaded
  <2> QED BY <2>1 DEF MoreFits, Queued
<1> QED BY <1>1, <1>2, <1>3, <1>4, <1>5 DEF Reloading

\* A reload starts, or the sentinel keeps it from starting.
LEMMA StartKeepsMore ==
  ASSUME TypeOK, SentinelFits, MoreFits, step \in {"loop", "ensure"},
         \/ in_card_reload = 0 /\ UNCHANGED finishing
         \/ UNCHANGED <<finishing, step, caller>>,
         window' = "open" => window = "open",
         ToSet(queue') \subseteq ToSet(queue)
  PROVE  MoreFits'
<1>1. CASE in_card_reload = 0 /\ UNCHANGED finishing
  <2>1. step # "finish" /\ ~finishing
    BY <1>1, SentinelOpen
  <2> QED BY <1>1, <2>1, MoreUntouched DEF Queued
<1>2. CASE UNCHANGED <<finishing, step, caller>>
  BY <1>2, MoreUntouched DEF Queued
<1> QED BY <1>1, <1>2

LEMMA MainLoopKeepsMore ==
  ASSUME TypeOK, SentinelFits, MoreFits, MainLoop
  PROVE  MoreFits'
<1>0. queue \in Seq(Callbacks) /\ in_card_reload \in {0, 1}
  BY DEF TypeOK
<1>1. CASE card_reload_finish_idle_cb
  <2>1. queue' = <<>>
    BY <1>1 DEF card_reload_finish_idle_cb
  <2> QED BY <2>1, EmptyQueue DEF MoreFits, Queued
<1>2. CASE card_reload_idle_cb
  <2>1. /\ queue # <<>> /\ queue' = Tail(queue) /\ UNCHANGED finishing
        /\ step \in {"loop", "ensure"}
        /\ in_card_reload = 0 \/ UNCHANGED <<step, caller>>
    BY <1>0, <1>2 DEF card_reload_idle_cb, AnyLoop, flow
  <2>2. window' = "open" => window = "open"
    BY <1>2 DEF card_reload_idle_cb, Unref
  <2>3. ToSet(queue') \subseteq ToSet(queue)
    BY <1>0, <2>1, TailMembers
  <2> QED BY <2>1, <2>2, <2>3, StartKeepsMore
<1>3. CASE ticker_cb
  <2>1. /\ UNCHANGED <<finishing, step, caller, window>>
        /\ UNCHANGED queue \/ queue' = Append(queue, "reload")
    BY <1>3 DEF ticker_cb, geteventcounter_status_cb, Enqueue, flow
  <2>0. \A c : Queued(c)' => Queued(c) \/ c = "reload"
    BY <1>0, <2>1, Enqueued
  <2>2. (Queued("more")' => Queued("more")) /\ (Queued("more old")' => Queued("more old"))
    BY <2>0
  <2> QED BY <2>1, <2>2, MoreUntouched
<1>4. CASE watcher_cb
  <2>1. UNCHANGED <<queue, finishing, window>> /\ step \in {"loop", "ensure"}
    BY <1>4 DEF watcher_cb, AnyLoop
  <2>2. UNCHANGED flow \/ ~(in_card_reload > 0)
    BY <1>4 DEF watcher_cb, flow
  <2>3. in_card_reload = 0 \/ UNCHANGED <<step, caller>>
    BY <1>0, <2>2 DEF flow
  <2> QED BY <2>1, <2>3, StartKeepsMore
<1>5. CASE reload_more_data_idle_cb
  <2>1. /\ UNCHANGED <<finishing, step, caller, window>>
        /\ queue' = Tail(queue) /\ queue # <<>> /\ step \in {"loop", "ensure"}
    BY <1>5 DEF reload_more_data_idle_cb, flow, Loop
  <2>2. ToSet(queue') \subseteq ToSet(queue)
    BY <1>0, <2>1, TailMembers
  <2> QED BY <2>1, <2>2, StartKeepsMore
<1> QED BY <1>1, <1>2, <1>3, <1>4, <1>5 DEF MainLoop

LEMMA OthersKeepMore ==
  ASSUME TypeOK, SentinelFits, MoreFits, Dialogs \/ Background \/ User
  PROVE  MoreFits'
<1>0. queue \in Seq(Callbacks) /\ in_card_reload \in {0, 1}
  BY DEF TypeOK
<1>1. CASE Dialogs
  <2>1. UNCHANGED <<window, queue, finishing>> /\ step = "loop"
    BY <1>1 DEF Dialogs, show_admin_pin_notice, SaveFailed, PinChanged, cardman, Loop
  <2> QED BY <2>1, MoreUntouched DEF Queued
<1>2. CASE Background \/ app_selector_changed_cb
  <2>1. /\ UNCHANGED <<finishing, step, caller, window>>
        /\ \/ UNCHANGED queue
           \/ \E c \in {"reload", "again", "again old"} : queue' = Append(queue, c)
    BY <1>2 DEF Background, card_genkey_completed, learn_keys_gpg_status_cb,
       app_selector_changed_cb, Enqueue, flow
  <2>2. CASE UNCHANGED queue
    BY <2>1, <2>2, MoreUntouched DEF Queued
  <2>3. ASSUME NEW c \in {"reload", "again", "again old"}, queue' = Append(queue, c)
        PROVE  MoreFits'
    <3>1. ToSet(queue') = ToSet(queue) \cup {c}
      BY <1>0, <2>3, AppendMembers
    <3>2. (Queued("more")' => Queued("more")) /\ (Queued("more old")' => Queued("more old"))
      BY <3>1 DEF Queued
    <3> QED BY <2>1, <3>2, MoreUntouched
  <2> QED BY <2>1, <2>2, <2>3
<1>3. CASE gpa_card_manager_get_instance
  <2>1. queue' = <<>>
    BY <1>3 DEF gpa_card_manager_get_instance
  <2> QED BY <2>1, EmptyQueue DEF MoreFits, Queued
<1>4. CASE file_close
  <2>1. queue' = OldQueue /\ window' # "open"
    BY <1>4 DEF file_close
  <2> QED BY <1>0, <2>1, OldQueueMembers DEF MoreFits, Queued
<1>5. CASE card_reload_action
  <2>1. /\ UNCHANGED <<queue, finishing, window>> /\ step \in {"loop", "ensure"}
        /\ in_card_reload = 0 \/ UNCHANGED <<step, caller>>
    BY <1>0, <1>5 DEF card_reload_action, card_reload, UserMayAct, Loop, flow
  <2> QED BY <2>1, StartKeepsMore
<1>6. CASE InTheWidget
  <2>1. UNCHANGED <<finishing, step, caller, window, queue>>
    BY <1>6 DEF InTheWidget, card_genkey, change_pin, learn_keys_clicked_cb, Edit, LoseFocus,
       cardman, flow
  <2> QED BY <2>1, MoreUntouched DEF Queued
<1> QED BY <1>1, <1>2, <1>3, <1>4, <1>5, <1>6 DEF User, InTheWidget

-----------------------------------------------------------------------------
(* What a widget shows and what was edited in it.                          *)

WidgetType ==
  [type : Types \cup {"label"}, at : 0 .. MaxEvents, texts : SUBSET (0 .. MaxEvents),
   keys : SUBSET (0 .. MaxEvents), changed : SUBSET Fields, dirty : SUBSET Fields]

\* EditsAreFlagged, of any widget.
Flagged(w) == w.dirty \subseteq w.changed \cup {"sex"}

\* w shows what v shows.
ShowsTheSame(w, v) == w.type = v.type /\ w.at = v.at /\ w.texts = v.texts /\ w.keys = v.keys

\* A handler edits a widget: w is v with other flags.
Edited(w, v) == w \in WidgetType /\ ShowsTheSame(w, v) /\ (Flagged(v) => Flagged(w))

\* A field that is saved, or is not, is no longer edited or keeps its flag.
LEMMA SaveEdits ==
  ASSUME NEW w \in WidgetType, NEW f \in Fields \cup {"none"}, save_attr(w, f)
  PROVE  Edited(widget', w) /\ dialog' \in {NoDialog, Dialog("alert", f)}
<1>1. Saved(w, f) \in WidgetType /\ ShowsTheSame(Saved(w, f), w)
      /\ Saved(w, f).changed = w.changed \ {f} /\ Saved(w, f).dirty = w.dirty \ Written(f)
  BY DEF WidgetType, Saved, ShowsTheSame
<1>2. f \in Written(f)
  BY DEF Written
<1>3. Edited(Saved(w, f), w)
  BY <1>1, <1>2 DEF Edited, Flagged
<1>4. NotSaved(w, f) \in WidgetType /\ ShowsTheSame(NotSaved(w, f), w)
      /\ NotSaved(w, f).dirty = w.dirty
      /\ NotSaved(w, f).changed = IF f = "sex" THEN w.changed \ {f} ELSE w.changed
  BY DEF WidgetType, NotSaved, ShowsTheSame
<1>5. Edited(NotSaved(w, f), w)
  BY <1>4 DEF Edited, Flagged
<1>6. Edited(w, w)
  BY DEF Edited, ShowsTheSame
<1> QED BY <1>3, <1>5, <1>6 DEF save_attr

LEMMA NotSavedEdits ==
  ASSUME NEW w \in WidgetType, NEW f
  PROVE  Edited(NotSaved(w, f), w)
<1>1. NotSaved(w, f) \in WidgetType /\ ShowsTheSame(NotSaved(w, f), w)
      /\ NotSaved(w, f).dirty = w.dirty
      /\ NotSaved(w, f).changed = IF f = "sex" THEN w.changed \ {f} ELSE w.changed
  BY DEF WidgetType, NotSaved, ShowsTheSame
<1> QED BY <1>1 DEF Edited, Flagged

LEMMA FieldEdits ==
  ASSUME NEW w \in WidgetType, NEW f \in Fields, Save(w, f)
  PROVE  /\ Edited(widget', w)
         /\ dialog' \in {NoDialog, Dialog("alert", f), Dialog("notice", f)}
<1>1. CASE save_attr(w, f)
  BY <1>1, SaveEdits
<1>2. CASE widget' = w /\ dialog' = Dialog("notice", f)
  BY <1>2 DEF Edited, ShowsTheSame
<1> QED BY <1>1, <1>2 DEF Save

LEMMA EditEdits ==
  ASSUME TypeOK, NEW f \in Fields, Edit(f)
  PROVE  /\ Edited(widget', widget)
         /\ \/ UNCHANGED dialog
            \/ dialog' \in {NoDialog, Dialog("alert", f), Dialog("notice", f)}
<1> DEFINE edited == [widget EXCEPT !.changed = @ \cup {f}, !.dirty = @ \cup {f}]
<1>1. widget \in WidgetType
  BY DEF TypeOK, WidgetType
<1>2. edited \in WidgetType /\ ShowsTheSame(edited, widget)
      /\ edited.changed = widget.changed \cup {f} /\ edited.dirty = widget.dirty \cup {f}
  BY <1>1 DEF WidgetType, ShowsTheSame
<1>3. Edited(edited, widget)
  BY <1>2 DEF Edited, Flagged
<1>4. Save(edited, f) \/ (widget' = edited /\ UNCHANGED dialog)
  BY DEF Edit
<1> HIDE DEF edited
<1>5. CASE Save(edited, f)
  <2>1. Edited(widget', edited)
    BY <1>2, <1>5, FieldEdits
  <2>2. Edited(widget', widget)
    BY <1>3, <2>1 DEF Edited, ShowsTheSame
  <2> QED BY <1>2, <1>5, <2>2, FieldEdits
<1> QED BY <1>3, <1>4, <1>5

\* The dialogs of a widget and what the user does in it.
LEMMA DialogsEdit ==
  ASSUME TypeOK, Dialogs
  PROVE  /\ Edited(widget', widget)
         /\ dialog' \in {NoDialog, Dialog("alert", dialog.field)}
<1>1. /\ widget \in WidgetType /\ dialog.field \in Fields \cup {"none"}
      /\ Edited(widget, widget)
  BY DEF TypeOK, WidgetType, Edited, ShowsTheSame
<1>2. CASE show_admin_pin_notice
  BY <1>1, <1>2, SaveEdits, NotSavedEdits DEF show_admin_pin_notice
<1>3. CASE SaveFailed
  BY <1>1, <1>3, NotSavedEdits DEF SaveFailed
<1>4. CASE PinChanged
  BY <1>1, <1>4 DEF PinChanged
<1> QED BY <1>2, <1>3, <1>4 DEF Dialogs

LEMMA WidgetEdits ==
  ASSUME TypeOK, InTheWidget
  PROVE  /\ Edited(widget', widget)
         /\ \/ UNCHANGED dialog \/ dialog' = NoDialog
            \/ \E f \in Fields : dialog' \in {Dialog("alert", f), Dialog("notice", f)}
            \/ dialog' = Dialog("pin", "none") /\ step = "loop" /\ widget.texts # {}
<1>1. widget \in WidgetType /\ Edited(widget, widget)
  BY DEF TypeOK, WidgetType, Edited, ShowsTheSame
<1>2. CASE card_genkey \/ learn_keys_clicked_cb
  BY <1>1, <1>2 DEF card_genkey, learn_keys_clicked_cb, card
<1>3. CASE change_pin
  BY <1>1, <1>3 DEF change_pin, UserMayAct, Loop
<1>4. ASSUME NEW f \in Fields, Edit(f)
      PROVE  /\ Edited(widget', widget)
             /\ \/ UNCHANGED dialog \/ dialog' = NoDialog
                \/ dialog' \in {Dialog("alert", f), Dialog("notice", f)}
  BY <1>4, EditEdits
<1>5. ASSUME NEW f \in Fields, LoseFocus(f)
      PROVE  /\ Edited(widget', widget)
             /\ \/ dialog' = NoDialog
                \/ dialog' \in {Dialog("alert", f), Dialog("notice", f)}
  BY <1>1, <1>5, FieldEdits DEF LoseFocus
<1> QED BY <1>2, <1>3, <1>4, <1>5 DEF InTheWidget

-----------------------------------------------------------------------------
(* The secret keys a PIV card waits for.                                   *)

LEMMA ReloadingKeepsSecret ==
  ASSUME TypeOK, SentinelFits, SecretFits, Reloading
  PROVE  SecretFits'
<1>0. widget \in WidgetType
  BY DEF TypeOK, WidgetType
<1>1. CASE Serialno \/ Counter \/ Apptype
  <2>1. /\ step \in {"serialno", "counter", "apptype"} /\ step' \in {"counter", "apptype", "widget"}
        /\ widget' = widget \/ widget' = [widget EXCEPT !.at = reader.counter]
        /\ UNCHANGED <<caller, dialog, secret>>
    BY <1>1 DEF Serialno, Counter, Apptype, cardman, card
  <2>2. widget'.type = widget.type /\ widget'.texts = widget.texts
    BY <1>0, <2>1 DEF WidgetType
  <2> QED BY <2>1, <2>2 DEF SecretFits
<1>2. CASE update_card_widget
  <2>1. /\ step = "widget" /\ caller' = caller /\ dialog' = OldDialog
        /\ widget' = Label(widget.at) \/ widget' = NewWidget(cardtype, widget.at)
    BY <1>2 DEF update_card_widget
  <2>2. widget'.texts = {}
    BY <2>1 DEF NewWidget, Label
  <2>3. caller' # "pin"
    BY <2>1 DEF SentinelFits
  <2>4. dialog'.kind # "none" => dialog'.old
    BY <2>1 DEF OldDialog, TypeOK
  <2> QED BY <2>2, <2>3, <2>4 DEF SecretFits
<1>3. CASE reload_data
  <2>1. /\ step = "texts" /\ step' # "texts" /\ UNCHANGED <<secret, dialog>>
        /\ \/ widget' = [widget EXCEPT !.texts = {reader.counter}]
           \/ widget' = clear_changed_flags(clear_card_data(widget)) /\ step' # "ensure"
        /\ widget.type = "piv" /\ ~secret /\ step' # "ensure" =>
             widget' = clear_changed_flags(clear_card_data(widget))
    BY <1>3 DEF reload_data
  <2>2. widget'.type = widget.type
    BY <1>0, <2>1 DEF WidgetType, clear_changed_flags, clear_card_data
  <2>3. clear_changed_flags(clear_card_data(widget)).texts = {}
    BY <1>0 DEF WidgetType, clear_changed_flags, clear_card_data
  <2> QED BY <2>1, <2>2, <2>3 DEF SecretFits
<1>4. CASE ReadKeys \/ ReadKeyAttr
  <2>1. /\ step \in {"keys", "attr"} /\ step' \in {"attr", "finish"}
        /\ UNCHANGED <<caller, dialog, secret>>
    BY <1>4 DEF ReadKeys, ReadKeyAttr
  <2>2. /\ widget'.type = widget.type
        /\ widget'.texts = widget.texts \/ widget'.texts = {}
    BY <1>0, <1>4 DEF ReadKeys, ReadKeyAttr, WidgetType, clear_changed_flags, clear_card_data
  <2> QED BY <2>1, <2>2 DEF SecretFits
<1>5. CASE Ensured
  <2>1. secret'
    BY <1>5 DEF Ensured
  <2> QED BY <2>1 DEF SecretFits
<1>6. CASE Reloaded
  <2>1. step = "finish" /\ step' = "loop" /\ UNCHANGED <<widget, dialog, secret>>
    BY <1>6 DEF Reloaded, card
  <2> QED BY <2>1 DEF SecretFits
<1> QED BY <1>1, <1>2, <1>3, <1>4, <1>5, <1>6 DEF Reloading

\* A reload starts, or does not; the widget lists something else.
LEMMA StartKeepsSecret ==
  ASSUME SentinelFits, SecretFits,
         widget'.type = widget.type, widget'.texts = widget.texts, UNCHANGED <<dialog, secret>>,
         \/ UNCHANGED <<step, caller>>
         \/ step \in {"loop", "ensure"} /\ in_card_reload = 0 /\ step' = "serialno"
  PROVE  SecretFits'
<1>1. CASE UNCHANGED <<step, caller>>
  BY <1>1 DEF SecretFits
<1>2. CASE step \in {"loop", "ensure"} /\ in_card_reload = 0 /\ step' = "serialno"
  BY <1>2, SentinelOpen DEF SecretFits
<1> QED BY <1>1, <1>2

LEMMA MainLoopKeepsSecret ==
  ASSUME TypeOK, SentinelFits, SecretFits, MainLoop
  PROVE  SecretFits'
<1>0. in_card_reload \in {0, 1} /\ widget \in WidgetType
  BY DEF TypeOK, WidgetType
<1>1. CASE card_reload_finish_idle_cb \/ ticker_cb
  <2>1. UNCHANGED <<widget, dialog, secret, step, caller>>
    BY <1>1 DEF card_reload_finish_idle_cb, ticker_cb, flow, card
  <2> QED BY <2>1, StartKeepsSecret
<1>2. CASE card_reload_idle_cb
  <2>1. UNCHANGED <<widget, dialog, secret>> /\ step \in {"loop", "ensure"}
    BY <1>2 DEF card_reload_idle_cb, AnyLoop, card
  <2>2. UNCHANGED flow \/ (in_card_reload = 0 /\ step' = "serialno")
    BY <1>0, <1>2 DEF card_reload_idle_cb, card_reload
  <2> QED BY <2>1, <2>2, StartKeepsSecret DEF flow
<1>3. CASE watcher_cb
  <2>1. UNCHANGED <<widget, dialog, secret>> /\ step \in {"loop", "ensure"}
    BY <1>3 DEF watcher_cb, AnyLoop, card
  <2>2. UNCHANGED flow \/ (~(in_card_reload > 0) /\ card_reload("watch"))
    BY <1>3 DEF watcher_cb, flow
  <2>3. UNCHANGED flow \/ (in_card_reload = 0 /\ step' = "serialno")
    BY <1>0, <2>2 DEF card_reload
  <2> QED BY <2>1, <2>3, StartKeepsSecret DEF flow
<1>4. CASE reload_more_data_idle_cb
  <2>1. /\ UNCHANGED <<dialog, secret, step, caller>>
        /\ \/ UNCHANGED widget
           \/ \E k \in SUBSET (0 .. MaxEvents) : widget' = [widget EXCEPT !.keys = k]
    BY <1>4 DEF reload_more_data_idle_cb, flow, TypeOK
  <2>2. widget'.type = widget.type /\ widget'.texts = widget.texts
    BY <1>0, <2>1 DEF WidgetType
  <2> QED BY <2>1, <2>2, StartKeepsSecret
<1> QED BY <1>1, <1>2, <1>3, <1>4 DEF MainLoop

LEMMA OthersKeepSecret ==
  ASSUME TypeOK, SentinelFits, SecretFits, Dialogs \/ Background \/ User
  PROVE  Running' => SecretFits'
<1>0. in_card_reload \in {0, 1}
  BY DEF TypeOK
<1>1. CASE Dialogs
  <2>1. widget'.type = widget.type /\ widget'.texts = widget.texts /\ dialog'.kind # "pin"
    BY <1>1, DialogsEdit DEF Edited, ShowsTheSame, NoDialog, Dialog
  <2>2. UNCHANGED secret /\ step = "loop"
    BY <1>1 DEF Dialogs, show_admin_pin_notice, SaveFailed, PinChanged, Loop
  <2>3. \/ UNCHANGED flow
        \/ dialog.kind = "pin" /\ step' = "texts" /\ Continues
    BY <1>1 DEF Dialogs, show_admin_pin_notice, SaveFailed, PinChanged
  <2>4. CASE UNCHANGED flow
    BY <2>1, <2>2, <2>4 DEF flow, SecretFits
  <2>5. CASE dialog.kind = "pin" /\ step' = "texts" /\ Continues
    <3>1. Running' => ~dialog.old
      BY <2>5 DEF Continues, Running
    <3> QED BY <2>1, <2>2, <2>5, <3>1 DEF SecretFits
  <2> QED BY <2>3, <2>4, <2>5
<1>2. CASE Background
  <2>1. UNCHANGED <<widget, dialog, secret, step, caller>>
    BY <1>2 DEF Background, card_genkey_completed, learn_keys_gpg_status_cb, flow, card
  <2> QED BY <2>1, StartKeepsSecret
<1>3. CASE gpa_card_manager_get_instance \/ file_close
  <2>1. widget'.type = "label"
    BY <1>3 DEF gpa_card_manager_get_instance, file_close, Label
  <2> QED BY <2>1 DEF SecretFits
<1>4. CASE card_reload_action \/ app_selector_changed_cb
  <2>1. UNCHANGED <<widget, dialog, secret>> /\ step = "loop"
    BY <1>4 DEF card_reload_action, app_selector_changed_cb, UserMayAct, Loop, card
  <2>2. UNCHANGED flow \/ (in_card_reload = 0 /\ step' = "serialno")
    BY <1>0, <1>4 DEF card_reload_action, app_selector_changed_cb, card_reload
  <2> QED BY <2>1, <2>2, StartKeepsSecret DEF flow
<1>5. CASE InTheWidget
  <2>1. widget'.type = widget.type /\ widget'.texts = widget.texts
    BY <1>5, WidgetEdits DEF Edited, ShowsTheSame
  <2>2. \/ UNCHANGED dialog
        \/ dialog'.kind # "pin"
        \/ step = "loop" /\ widget.texts # {}
    BY <1>5, WidgetEdits DEF NoDialog, Dialog
  <2>3. UNCHANGED <<secret, step, caller>>
    BY <1>5 DEF InTheWidget, card_genkey, change_pin, learn_keys_clicked_cb, Edit, LoseFocus,
       flow, card
  <2> QED BY <2>1, <2>2, <2>3 DEF SecretFits
<1> QED BY <1>1, <1>2, <1>3, <1>4, <1>5 DEF User, InTheWidget

-----------------------------------------------------------------------------
(* The event counters and what is displayed.                               *)

\* The values at which what a widget displays was read.
ShownBy(w) == {w.at} \cup w.texts \cup w.keys

\* A new value of what is displayed comes from the reader.
LEMMA ReloadingShows ==
  ASSUME TypeOK, Reloading \/ MainLoop
  PROVE  ShownBy(widget') \subseteq ShownBy(widget) \cup {reader.counter}
<1>0. widget \in WidgetType
  BY DEF TypeOK, WidgetType
<1> DEFINE Cleared == clear_changed_flags(clear_card_data(widget))
<1>1. ShownBy(Cleared) \subseteq ShownBy(widget)
  BY <1>0 DEF WidgetType, ShownBy, clear_changed_flags, clear_card_data
<1>2. ShownBy(clear_changed_flags(widget)) = ShownBy(widget)
  BY <1>0 DEF WidgetType, ShownBy, clear_changed_flags
<1>3. /\ ShownBy([widget EXCEPT !.at = reader.counter]) \subseteq ShownBy(widget) \cup {reader.counter}
      /\ ShownBy([widget EXCEPT !.texts = {reader.counter}]) \subseteq ShownBy(widget) \cup {reader.counter}
      /\ ShownBy([widget EXCEPT !.keys = {reader.counter}]) \subseteq ShownBy(widget) \cup {reader.counter}
      /\ ShownBy([widget EXCEPT !.keys = {}]) \subseteq ShownBy(widget)
  BY <1>0 DEF WidgetType, ShownBy
<1>4. ShownBy(Label(widget.at)) \subseteq ShownBy(widget)
      /\ ShownBy(NewWidget(cardtype, widget.at)) \subseteq ShownBy(widget)
  BY DEF ShownBy, NewWidget, Label
<1>5. \/ widget' = widget
      \/ widget' \in {Cleared, clear_changed_flags(widget), Label(widget.at), NewWidget(cardtype, widget.at)}
      \/ widget' \in {[widget EXCEPT !.at = reader.counter], [widget EXCEPT !.texts = {reader.counter}],
                      [widget EXCEPT !.keys = {reader.counter}], [widget EXCEPT !.keys = {}]}
  <2>1. CASE Reloading
    BY <2>1 DEF Reloading, Serialno, Counter, Apptype, update_card_widget, reload_data, ReadKeys,
       ReadKeyAttr, Ensured, Reloaded, card
  <2>2. CASE MainLoop
    BY <2>2 DEF MainLoop, card_reload_finish_idle_cb, card_reload_idle_cb, ticker_cb, watcher_cb,
       reload_more_data_idle_cb, card
  <2> QED BY <2>1, <2>2
<1> HIDE DEF Cleared
<1> QED BY <1>1, <1>2, <1>3, <1>4, <1>5

\* The others display nothing new.
LEMMA OthersShow ==
  ASSUME TypeOK, \/ Dialogs \/ Background \/ InTheWidget
                 \/ card_reload_action \/ app_selector_changed_cb
  PROVE  ShownBy(widget') = ShownBy(widget)
<1>1. CASE Dialogs
  BY <1>1, DialogsEdit DEF Edited, ShowsTheSame, ShownBy
<1>2. CASE Background \/ card_reload_action \/ app_selector_changed_cb
  BY <1>2 DEF Background, card_genkey_completed, learn_keys_gpg_status_cb, card_reload_action,
     app_selector_changed_cb, card
<1>3. CASE InTheWidget
  BY <1>3, WidgetEdits DEF Edited, ShowsTheSame, ShownBy
<1> QED BY <1>1, <1>2, <1>3

\* What becomes of the counters.
LEMMA CountersStep ==
  ASSUME TypeOK, \/ Reloading \/ MainLoop \/ Dialogs \/ Background \/ User
  PROVE  /\ reader' = reader
         /\ eventcounter' \in {eventcounter, [card_any |-> TRUE, card |-> reader.counter],
                               [card_any |-> FALSE, card |-> 0]}
<1>1. CASE Reloading
  BY <1>1 DEF Reloading, Serialno, Counter, Apptype, update_card_widget, reload_data, ReadKeys,
     ReadKeyAttr, Ensured, Reloaded, scd, cardman
<1>2. CASE MainLoop
  BY <1>2 DEF MainLoop, card_reload_finish_idle_cb, card_reload_idle_cb, ticker_cb, watcher_cb,
     reload_more_data_idle_cb, geteventcounter_status_cb, scd
<1>3. CASE Dialogs \/ Background
  BY <1>3 DEF Dialogs, show_admin_pin_notice, SaveFailed, PinChanged, Background,
     card_genkey_completed, learn_keys_gpg_status_cb, scd, cardman
<1>4. CASE User
  BY <1>4 DEF User, gpa_card_manager_get_instance, file_close, card_reload_action,
     app_selector_changed_cb, card_genkey, Edit, LoseFocus, change_pin, learn_keys_clicked_cb,
     scd, cardman
<1> QED BY <1>1, <1>2, <1>3, <1>4

LEMMA NothingEarlyStep ==
  ASSUME TypeOK, NothingEarly, \/ Reloading \/ MainLoop \/ Dialogs \/ Background \/ User
  PROVE  NothingEarly'
<1>0. reader' = reader /\ reader.counter \in Nat
  BY CountersStep, BoundsAssumption DEF TypeOK
<1>1. \A v \in ShownBy(widget) : v <= reader.counter
  BY DEF NothingEarly, ShownBy
<1>2. CASE ShownBy(widget') \subseteq ShownBy(widget) \cup {reader.counter}
  BY <1>0, <1>1, <1>2 DEF NothingEarly, ShownBy
<1>3. CASE gpa_card_manager_get_instance \/ file_close
  <2>1. widget' \in {Label(widget.at), Label(0)}
    BY <1>3 DEF gpa_card_manager_get_instance, file_close
  <2>2. ShownBy(widget') \subseteq ShownBy(widget) \cup {0}
    BY <2>1 DEF Label, ShownBy
  <2> QED BY <1>0, <1>1, <2>2 DEF NothingEarly, ShownBy
<1>4. \/ gpa_card_manager_get_instance \/ file_close
      \/ ShownBy(widget') \subseteq ShownBy(widget) \cup {reader.counter}
  BY ReloadingShows, OthersShow DEF User, InTheWidget
<1> QED BY <1>2, <1>3, <1>4

\* Something is displayed that was read after a counter was seen only if one was seen.
LEMMA CountersFitStep ==
  ASSUME TypeOK, CountersFit, \/ Reloading \/ MainLoop \/ Dialogs \/ Background \/ User
  PROVE  CountersFit'
<1>0. /\ reader' = reader /\ reader.counter \in Nat /\ eventcounter.card \in Nat
      /\ eventcounter' \in {eventcounter, [card_any |-> TRUE, card |-> reader.counter],
                            [card_any |-> FALSE, card |-> 0]}
  BY CountersStep, BoundsAssumption DEF TypeOK
<1>1. eventcounter'.card <= reader'.counter
  BY <1>0 DEF CountersFit
<1>2. CASE Serialno
  BY <1>1, <1>2 DEF Serialno, CountersFit, cardman
<1>3. CASE Counter
  BY <1>1, <1>3 DEF Counter, CountersFit
<1>4. CASE gpa_card_manager_get_instance
  <2>1. step' = "serialno"
    BY <1>4 DEF gpa_card_manager_get_instance
  <2> QED BY <1>1, <2>1 DEF CountersFit
<1>5. ASSUME step' = "serialno" \/ step # "serialno", UNCHANGED counted,
             eventcounter' \in {eventcounter, [card_any |-> TRUE, card |-> reader.counter]}
      PROVE  CountersFit'
  BY <1>1, <1>5 DEF CountersFit
<1>6. CASE \/ Apptype \/ update_card_widget \/ reload_data \/ ReadKeys \/ ReadKeyAttr
           \/ Ensured \/ Reloaded
  <2>1. step # "serialno" /\ UNCHANGED <<counted, eventcounter>>
    BY <1>6 DEF Apptype, update_card_widget, reload_data, ReadKeys, ReadKeyAttr, Ensured, Reloaded,
       cardman, rest
  <2> QED BY <1>5, <2>1
<1>7. CASE MainLoop
  <2>1. /\ step # "serialno" /\ UNCHANGED counted
        /\ eventcounter' \in {eventcounter, [card_any |-> TRUE, card |-> reader.counter]}
    BY <1>7 DEF MainLoop, card_reload_finish_idle_cb, card_reload_idle_cb, ticker_cb, watcher_cb,
       reload_more_data_idle_cb, geteventcounter_status_cb, rest, Loop, AnyLoop
  <2> QED BY <1>5, <2>1
<1>8. CASE Dialogs \/ Background
  <2>1. step # "serialno" /\ UNCHANGED <<counted, eventcounter>>
    BY <1>8 DEF Dialogs, show_admin_pin_notice, SaveFailed, PinChanged, Background,
     card_genkey_completed, learn_keys_gpg_status_cb, cardman, rest, Loop, AnyLoop
  <2> QED BY <1>5, <2>1
<1>9. CASE file_close \/ card_reload_action \/ app_selector_changed_cb \/ InTheWidget
  <2>1. step # "serialno" /\ UNCHANGED <<counted, eventcounter>>
    BY <1>9 DEF file_close, card_reload_action, app_selector_changed_cb, InTheWidget, card_genkey,
       Edit, LoseFocus, change_pin, learn_keys_clicked_cb, UserMayAct, Loop, AnyLoop, cardman, rest
  <2> QED BY <1>5, <2>1
<1> QED BY <1>2, <1>3, <1>4, <1>6, <1>7, <1>8, <1>9 DEF Reloading, User, InTheWidget

-----------------------------------------------------------------------------
(* The display follows the event counter.                                  *)

LateSteps == {"loop", "texts", "keys", "attr", "ensure", "finish"}

\* In DisplayFits: what a step may change without disturbing it.
LEMMA DisplayUntouched ==
  ASSUME TypeOK, CountersFit, DisplayFits, step \in LateSteps, step' \in LateSteps \cup {"serialno"},
         window' = "open" => window = "open", counted' = counted,
         eventcounter'.card = eventcounter.card,
         ShownBy(widget') \subseteq ShownBy(widget) \cup {reader.counter},
         in_card_reload = 0 /\ Queued("reload") => (in_card_reload = 0 /\ Queued("reload"))'
  PROVE  DisplayFits'
<1>1. SUFFICES ASSUME window' = "open", counted', step' \in LateSteps
               PROVE  (in_card_reload = 0 /\ Queued("reload"))' \/ ReadAfter(eventcounter.card)'
  BY DEF DisplayFits, LateSteps
<1>2. (in_card_reload = 0 /\ Queued("reload")) \/ ReadAfter(eventcounter.card)
  BY <1>1 DEF DisplayFits, LateSteps
<1>3. CASE ReadAfter(eventcounter.card)
  <2>1. \A v \in ShownBy(widget) \cup {reader.counter} : eventcounter.card <= v
    BY <1>3 DEF ReadAfter, ShownBy, CountersFit
  <2> QED BY <2>1 DEF ReadAfter, ShownBy
<1> QED BY <1>2, <1>3

\* A reload in progress does not depend on another that is queued.
LEMMA ReloadingKeepsDisplay ==
  ASSUME TypeOK, SentinelFits, CountersFit, DisplayFits, Reloading
  PROVE  Running' => DisplayFits'
<1>0. /\ widget \in WidgetType /\ queue \in Seq(Callbacks)
      /\ reader.counter \in 0 .. MaxEvents /\ eventcounter.card \in 0 .. MaxEvents
      /\ eventcounter.card <= reader.counter /\ MaxEvents \in Nat
  BY BoundsAssumption DEF TypeOK, WidgetType, CountersFit
<1>1. CASE Serialno \/ Apptype
  <2>1. /\ UNCHANGED eventcounter
        /\ step' \in {"counter", "widget"}
        /\ step' = "widget" => widget' = [widget EXCEPT !.at = reader.counter]
    BY <1>1 DEF Serialno, Apptype, cardman
  <2>2. step' = "widget" => eventcounter'.card <= widget'.at
    BY <1>0, <2>1 DEF WidgetType
  <2> QED BY <2>1, <2>2 DEF DisplayFits
<1>2. CASE Counter
  <2>1. step' = "apptype"
    BY <1>2 DEF Counter
  <2> QED BY <2>1 DEF DisplayFits
<1>3. CASE update_card_widget
  <2>1. /\ UNCHANGED <<eventcounter, counted>> /\ step = "widget" /\ step' # "widget"
        /\ widget' = Label(widget.at) \/ widget' = NewWidget(cardtype, widget.at)
        /\ Running' => window = "open"
    BY <1>3 DEF update_card_widget, Running
  <2>2. ShownBy(widget') = {widget.at}
    BY <2>1 DEF ShownBy, NewWidget, Label
  <2>3. Running' /\ counted => eventcounter.card <= widget.at
    BY <2>1 DEF DisplayFits
  <2>4. Running' /\ counted => ReadAfter(eventcounter.card)'
    BY <2>1, <2>2, <2>3 DEF ReadAfter, ShownBy
  <2> QED BY <2>1, <2>4 DEF DisplayFits
<1>4. CASE reload_data \/ ReadKeys \/ ReadKeyAttr \/ Ensured \/ Reloaded
  <2>1. /\ step \in LateSteps /\ step' \in LateSteps
        /\ UNCHANGED <<window, counted, eventcounter, in_card_reload>>
    BY <1>4 DEF reload_data, ReadKeys, ReadKeyAttr, Ensured, Reloaded, LateSteps, cardman, rest
  <2>2. PICK c \in Callbacks : UNCHANGED queue \/ queue' = Append(queue, c)
    BY <1>4 DEF reload_data, ReadKeys, ReadKeyAttr, Ensured, Reloaded, Enqueue, Callbacks, cardman
  <2>3. Queued("reload") => Queued("reload")'
    BY <1>0, <2>2, Enqueued
  <2>4. ShownBy(widget') \subseteq ShownBy(widget) \cup {reader.counter}
    BY ReloadingShows
  <2> QED BY <2>1, <2>3, <2>4, DisplayUntouched
<1> QED BY <1>1, <1>2, <1>3, <1>4 DEF Reloading

LEMMA MainLoopKeepsDisplay ==
  ASSUME TypeOK, SentinelFits, CountersFit, DisplayFits, MainLoop
  PROVE  DisplayFits'
<1>0. /\ widget \in WidgetType /\ queue \in Seq(Callbacks) /\ in_card_reload \in {0, 1}
      /\ step \in LateSteps
      /\ ShownBy(widget') \subseteq ShownBy(widget) \cup {reader.counter}
  <2>1. step \in {"loop", "ensure"}
    BY DEF MainLoop, card_reload_finish_idle_cb, card_reload_idle_cb, ticker_cb, watcher_cb,
       reload_more_data_idle_cb, Loop, AnyLoop
  <2> QED BY <2>1, ReloadingShows DEF TypeOK, WidgetType, LateSteps
<1>1. CASE card_reload_finish_idle_cb
  <2>1. /\ step' = step /\ UNCHANGED <<counted, eventcounter, queue>> /\ finishing /\ step = "loop"
        /\ window' = "open" => window = "open"
    BY <1>1 DEF card_reload_finish_idle_cb, Unref, flow, rest, Loop
  <2>2. in_card_reload = 1
    BY <2>1 DEF SentinelFits
  <2> QED BY <1>0, <2>1, <2>2, DisplayUntouched
<1>2. CASE card_reload_idle_cb
  <2>1. /\ UNCHANGED <<counted, eventcounter>>
        /\ window' = "open" => window = "open"
        /\ step' = "serialno" \/ (step' = step /\ in_card_reload = 1)
    BY <1>0, <1>2 DEF card_reload_idle_cb, card_reload, Unref, flow, rest
  <2>2. CASE step' = "serialno"
    BY <2>2 DEF DisplayFits
  <2>3. CASE step' = step /\ in_card_reload = 1
    BY <1>0, <2>1, <2>3, DisplayUntouched
  <2> QED BY <2>1, <2>2, <2>3
<1>3. CASE ticker_cb
  <2>1. /\ step = "loop" /\ in_card_reload = 0
        /\ UNCHANGED <<counted, step, window, in_card_reload, reader>>
        /\ eventcounter' = [card_any |-> TRUE, card |-> reader.counter]
        /\ IF eventcounter.card_any /\ eventcounter.card # reader.counter
             THEN queue' = Append(queue, "reload") ELSE UNCHANGED queue
    BY <1>3 DEF ticker_cb, geteventcounter_status_cb, Enqueue, flow, rest, Loop, scd
  <2>2. CASE ~counted
    BY <2>1, <2>2 DEF DisplayFits
  <2>3. CASE counted /\ eventcounter.card # reader.counter
    <3>1. eventcounter.card_any
      BY <2>1, <2>3 DEF CountersFit
    <3>2. Queued("reload")'
      BY <1>0, <2>1, <2>3, <3>1, Enqueued
    <3> QED BY <2>1, <3>2 DEF DisplayFits
  <2>4. CASE eventcounter.card = reader.counter
    <3>1. UNCHANGED queue /\ eventcounter'.card = eventcounter.card
      BY <2>1, <2>4
    <3> QED BY <1>0, <2>1, <3>1, DisplayUntouched DEF Queued
  <2> QED BY <2>2, <2>3, <2>4
<1>4. CASE watcher_cb
  <2>1. UNCHANGED <<queue, counted, eventcounter, window>>
    BY <1>4 DEF watcher_cb, rest
  <2>2. UNCHANGED <<in_card_reload, flow>> \/ step' = "serialno"
    BY <1>4 DEF watcher_cb, card_reload, flow
  <2>3. CASE UNCHANGED <<in_card_reload, flow>>
    BY <1>0, <2>1, <2>3, DisplayUntouched DEF Queued, flow
  <2>4. CASE step' = "serialno"
    BY <2>4 DEF DisplayFits
  <2> QED BY <2>2, <2>3, <2>4
<1>5. CASE reload_more_data_idle_cb
  <2>1. /\ UNCHANGED <<counted, step, window, in_card_reload, eventcounter>>
        /\ queue' = Tail(queue) /\ queue # <<>> /\ Head(queue) # "reload"
    BY <1>5 DEF reload_more_data_idle_cb, flow
  <2>2. Queued("reload") => Queued("reload")'
    BY <1>0, <2>1, TailMembers DEF Queued
  <2> QED BY <1>0, <2>1, <2>2, DisplayUntouched
<1> QED BY <1>1, <1>2, <1>3, <1>4, <1>5 DEF MainLoop

LEMMA OthersKeepDisplay ==
  ASSUME TypeOK, SentinelFits, CountersFit, DisplayFits, Dialogs \/ Background \/ User
  PROVE  DisplayFits'
<1>0. queue \in Seq(Callbacks)
  BY DEF TypeOK
<1>1. CASE gpa_card_manager_get_instance \/ file_close
  <2>1. step' = "serialno" \/ window' # "open"
    BY <1>1 DEF gpa_card_manager_get_instance, file_close
  <2> QED BY <2>1 DEF DisplayFits
<1>2. CASE Dialogs
  <2>1. /\ UNCHANGED <<queue, counted, eventcounter, window, in_card_reload>>
        /\ step = "loop" /\ step' \in {"loop", "texts"}
    BY <1>2 DEF Dialogs, show_admin_pin_notice, SaveFailed, PinChanged, cardman, rest, Loop, flow
  <2> QED BY <1>2, <2>1, OthersShow, DisplayUntouched DEF Queued, LateSteps
<1>3. CASE Background \/ app_selector_changed_cb
  <2>1. /\ UNCHANGED <<counted, eventcounter, window, in_card_reload, step>>
        /\ step \in LateSteps
    BY <1>3 DEF Background, card_genkey_completed, learn_keys_gpg_status_cb, rest, AnyLoop, flow,
       app_selector_changed_cb, UserMayAct, Loop, LateSteps
  <2>2. PICK c \in Callbacks : UNCHANGED queue \/ queue' = Append(queue, c)
    BY <1>3 DEF Background, card_genkey_completed, learn_keys_gpg_status_cb,
       app_selector_changed_cb, Enqueue, Callbacks
  <2>3. Queued("reload") => Queued("reload")'
    BY <1>0, <2>2, Enqueued
  <2> QED BY <1>3, <2>1, <2>3, OthersShow, DisplayUntouched
<1>4. CASE card_reload_action
  <2>1. /\ UNCHANGED <<queue, counted, eventcounter, window>>
        /\ step \in LateSteps
        /\ UNCHANGED <<in_card_reload, flow>> \/ step' = "serialno"
    BY <1>4 DEF card_reload_action, card_reload, rest, UserMayAct, Loop, LateSteps
  <2>2. CASE step' = "serialno"
    BY <2>2 DEF DisplayFits
  <2>3. CASE UNCHANGED <<in_card_reload, flow>>
    BY <1>4, <2>1, <2>3, OthersShow, DisplayUntouched DEF Queued, flow
  <2> QED BY <2>1, <2>2, <2>3
<1>5. CASE InTheWidget
  <2>1. /\ UNCHANGED <<queue, counted, eventcounter, window, in_card_reload, step>>
        /\ step \in LateSteps
    BY <1>5 DEF InTheWidget, card_genkey, Edit, LoseFocus, change_pin, learn_keys_clicked_cb,
       UserMayAct, Loop, cardman, rest, flow, LateSteps
  <2> QED BY <1>5, <2>1, OthersShow, DisplayUntouched DEF Queued
<1> QED BY <1>1, <1>2, <1>3, <1>4, <1>5 DEF User, InTheWidget

-----------------------------------------------------------------------------
(* Types.                                                                  *)

LEMMA LabelType ==
  ASSUME NEW at \in 0 .. MaxEvents, NEW type \in Types
  PROVE  /\ Label(at) \in WidgetType /\ Flagged(Label(at))
         /\ NewWidget(type, at) \in WidgetType /\ Flagged(NewWidget(type, at))
BY DEF Label, NewWidget, WidgetType, Flagged

LEMMA ReloadingWidgetType ==
  ASSUME TypeOK, Reloading \/ MainLoop
  PROVE  widget' \in WidgetType /\ (Flagged(widget) => Flagged(widget'))
<1>0. /\ widget \in WidgetType /\ reader.counter \in 0 .. MaxEvents /\ cardtype \in Types
      /\ widget.at \in 0 .. MaxEvents
  BY DEF TypeOK, WidgetType
<1>1. \A w \in WidgetType : /\ clear_card_data(w) \in WidgetType
                            /\ clear_changed_flags(w) \in WidgetType
                            /\ Flagged(clear_changed_flags(w))
  BY DEF clear_card_data, clear_changed_flags, WidgetType, Flagged
<1>2. \A v \in 0 .. MaxEvents, k \in SUBSET (0 .. MaxEvents) :
        /\ [widget EXCEPT !.at = v] \in WidgetType
        /\ Flagged(widget) => Flagged([widget EXCEPT !.at = v])
        /\ [widget EXCEPT !.texts = k] \in WidgetType
        /\ Flagged(widget) => Flagged([widget EXCEPT !.texts = k])
        /\ [widget EXCEPT !.keys = k] \in WidgetType
        /\ Flagged(widget) => Flagged([widget EXCEPT !.keys = k])
  BY <1>0 DEF WidgetType, Flagged
<1>3. {reader.counter} \in SUBSET (0 .. MaxEvents) /\ {} \in SUBSET (0 .. MaxEvents)
  BY <1>0
<1>4. CASE Serialno \/ Apptype
  BY <1>0, <1>2, <1>4 DEF Serialno, Apptype
<1>5. CASE update_card_widget
  BY <1>0, <1>5, LabelType DEF update_card_widget
<1>6. CASE reload_data
  BY <1>0, <1>1, <1>2, <1>3, <1>6 DEF reload_data
<1>7. CASE ReadKeys \/ ReadKeyAttr
  BY <1>0, <1>1, <1>2, <1>3, <1>7 DEF ReadKeys, ReadKeyAttr
<1>8. CASE reload_more_data_idle_cb
  BY <1>0, <1>2, <1>3, <1>8 DEF reload_more_data_idle_cb
<1>9. CASE UNCHANGED widget
  BY <1>0, <1>9
<1> QED BY <1>4, <1>5, <1>6, <1>7, <1>8, <1>9
     DEF Reloading, Counter, Ensured, Reloaded, MainLoop, card_reload_finish_idle_cb,
     card_reload_idle_cb, ticker_cb, watcher_cb, card

LEMMA WidgetStep ==
  ASSUME TypeOK, Reloading \/ MainLoop \/ Dialogs \/ Background \/ User
  PROVE  widget' \in WidgetType /\ (Flagged(widget) => Flagged(widget'))
<1>0. widget \in WidgetType /\ widget.at \in 0 .. MaxEvents /\ 0 \in 0 .. MaxEvents
  BY BoundsAssumption DEF TypeOK, WidgetType
<1>1. CASE Reloading \/ MainLoop
  BY <1>1, ReloadingWidgetType
<1>2. CASE Dialogs \/ InTheWidget
  BY <1>2, DialogsEdit, WidgetEdits DEF Edited
<1>3. CASE gpa_card_manager_get_instance \/ file_close
  BY <1>0, <1>3, LabelType DEF gpa_card_manager_get_instance, file_close, Types
<1>4. CASE Background \/ card_reload_action \/ app_selector_changed_cb
  BY <1>0, <1>4 DEF Background, card_genkey_completed, learn_keys_gpg_status_cb,
     card_reload_action, app_selector_changed_cb, card
<1> QED BY <1>1, <1>2, <1>3, <1>4 DEF User, InTheWidget

LEMMA QueueStep ==
  ASSUME TypeOK, Reloading \/ MainLoop \/ Dialogs \/ Background \/ User
  PROVE  queue' \in Seq(Callbacks)
<1>0. queue \in Seq(Callbacks)
  BY DEF TypeOK
<1>1. CASE UNCHANGED queue
  BY <1>0, <1>1
<1>2. CASE queue' = OldQueue
  BY <1>0, <1>2, OldQueueMembers
<1>3. ASSUME NEW c \in Callbacks, queue' = Append(queue, c)
      PROVE  queue' \in Seq(Callbacks)
  BY <1>0, <1>3
<1>4. CASE queue # <<>> /\ queue' = Tail(queue)
  BY <1>0, <1>4, TailMembers
<1>5. CASE Reloading
  BY <1>1, <1>2, <1>3, <1>5 DEF Reloading, Serialno, Counter, Apptype, update_card_widget,
     reload_data, ReadKeys, ReadKeyAttr, Ensured, Reloaded, Enqueue, Callbacks, cardman
<1>6. CASE MainLoop
  BY <1>1, <1>3, <1>4, <1>6 DEF MainLoop, card_reload_finish_idle_cb, card_reload_idle_cb, ticker_cb,
     watcher_cb, reload_more_data_idle_cb, geteventcounter_status_cb, Enqueue, Callbacks
<1>7. CASE Dialogs \/ Background
  BY <1>1, <1>3, <1>7 DEF Dialogs, show_admin_pin_notice, SaveFailed, PinChanged, Background,
     card_genkey_completed, learn_keys_gpg_status_cb, Enqueue, Callbacks, cardman
<1>8. CASE User
  BY <1>1, <1>2, <1>3, <1>8 DEF User, gpa_card_manager_get_instance, file_close, card_reload_action,
     app_selector_changed_cb, card_genkey, Edit, LoseFocus, change_pin, learn_keys_clicked_cb,
     Enqueue, Callbacks, cardman
<1> QED BY <1>5, <1>6, <1>7, <1>8

Callers == {"none", "open", "user", "idle", "watch", "pin"}

\* The last reference goes, or the window stays.
LEMMA UnrefWindow ==
  ASSUME NEW q, NEW f, Unref(q, f)
  PROVE  UNCHANGED <<window, ticker>> \/ (window' = "gone" /\ ticker' = FALSE)
BY DEF Unref

LEMMA FlowType ==
  ASSUME TypeOK, SentinelFits, Reloading \/ MainLoop \/ Dialogs \/ Background \/ User
  PROVE  /\ step' \in Steps /\ caller' \in Callers
         /\ in_card_reload' \in {0, 1}
         /\ window' \in {"none", "open", "destroyed", "gone"}
<1>0. /\ step \in Steps /\ caller \in Callers /\ in_card_reload \in {0, 1}
      /\ window \in {"none", "open", "destroyed", "gone"}
  BY DEF TypeOK, Callers
<1>1. CASE Reloading
  BY <1>0, <1>1 DEF Reloading, Serialno, Counter, Apptype, update_card_widget,
     reload_data, ReadKeys, ReadKeyAttr, Ensured, Reloaded, Steps, Callers, cardman
<1>2. CASE card_reload_finish_idle_cb
  <2>1. UNCHANGED flow /\ in_card_reload' = in_card_reload - 1 /\ in_card_reload = 1
    BY <1>2 DEF card_reload_finish_idle_cb, Loop, SentinelFits
  <2>2. window' \in {window, "gone"}
    BY <1>2, UnrefWindow DEF card_reload_finish_idle_cb
  <2> QED BY <1>0, <2>1, <2>2 DEF flow
<1>3. CASE card_reload_idle_cb \/ watcher_cb
  <2>1. \/ UNCHANGED <<in_card_reload, flow>>
        \/ ~(in_card_reload > 0) /\ \E from \in {"idle", "watch"} : card_reload(from)
    BY <1>3 DEF card_reload_idle_cb, watcher_cb, flow
  <2>2. window' \in {window, "gone"}
    BY <1>3, UnrefWindow DEF card_reload_idle_cb, watcher_cb
  <2> QED BY <1>0, <2>1, <2>2 DEF card_reload, flow, Steps, Callers
<1>4. CASE ticker_cb \/ reload_more_data_idle_cb
  BY <1>0, <1>4 DEF ticker_cb, reload_more_data_idle_cb, flow
<1>5. CASE Dialogs \/ Background
  BY <1>0, <1>5 DEF Dialogs, show_admin_pin_notice, SaveFailed, PinChanged, Background,
     card_genkey_completed, learn_keys_gpg_status_cb,
     Steps, Callers, cardman, flow
<1>6. CASE gpa_card_manager_get_instance \/ file_close
  BY <1>0, <1>6 DEF gpa_card_manager_get_instance, file_close, Steps, Callers, flow
<1>7. CASE card_reload_action
  BY <1>0, <1>7 DEF card_reload_action, card_reload, Steps, Callers, flow
<1>8. CASE app_selector_changed_cb \/ InTheWidget
  BY <1>0, <1>8 DEF app_selector_changed_cb, InTheWidget, card_genkey, Edit, LoseFocus, change_pin,
     learn_keys_clicked_cb, cardman, flow
<1> QED BY <1>1, <1>2, <1>3, <1>4, <1>5, <1>6, <1>7, <1>8 DEF MainLoop, User, InTheWidget

DialogRecords ==
  [kind : {"none", "notice", "alert", "pin"}, field : Fields \cup {"none"}, old : BOOLEAN]

LEMMA DialogType ==
  ASSUME TypeOK, Reloading \/ MainLoop \/ Dialogs \/ Background \/ User
  PROVE  dialog' \in DialogRecords
<1>0. dialog \in DialogRecords /\ dialog.field \in Fields \cup {"none"}
  BY DEF TypeOK, DialogRecords
<1>1. /\ NoDialog \in DialogRecords /\ OldDialog \in DialogRecords
      /\ \A kind \in {"notice", "alert", "pin"}, f \in Fields \cup {"none"} : Dialog(kind, f) \in DialogRecords
  BY <1>0 DEF NoDialog, OldDialog, Dialog, DialogRecords
<1>2. CASE Dialogs
  BY <1>0, <1>1, <1>2, DialogsEdit
<1>3. CASE InTheWidget
  BY <1>0, <1>1, <1>3, WidgetEdits
<1>4. CASE update_card_widget
  BY <1>1, <1>4 DEF update_card_widget
<1>5. CASE UNCHANGED dialog
  BY <1>0, <1>5
<1>6. \/ Dialogs \/ InTheWidget \/ update_card_widget \/ UNCHANGED dialog
  <2>1. CASE Reloading
    BY <2>1 DEF Reloading, Serialno, Counter, Apptype, update_card_widget,
     reload_data, ReadKeys, ReadKeyAttr, Ensured, Reloaded, card
  <2>2. CASE MainLoop
    BY <2>2 DEF MainLoop, card_reload_finish_idle_cb, card_reload_idle_cb, ticker_cb,
     watcher_cb, reload_more_data_idle_cb, card
  <2>3. CASE Background
    BY <2>3 DEF Background, card_genkey_completed, learn_keys_gpg_status_cb, card
  <2>4. CASE User
    BY <2>4 DEF User, InTheWidget, gpa_card_manager_get_instance, file_close, card_reload_action,
       app_selector_changed_cb, card
  <2> QED BY <2>1, <2>2, <2>3, <2>4
<1> QED BY <1>2, <1>3, <1>4, <1>5, <1>6

\* The type scdaemon's application stands for.
LEMMA CardtypeType ==
  ASSUME NEW app \in Cards \cup {"undefined"}
  PROVE  scd_status_cb(app) \in Types
BY CardsAssumption DEF scd_status_cb, Types, Apps

LEMMA CardType ==
  ASSUME TypeOK, Reloading \/ MainLoop \/ Dialogs \/ Background \/ User
  PROVE  cardtype' \in Types /\ selector' \in {"auto"} \cup Cards
<1>0. cardtype \in Types /\ selector \in {"auto"} \cup Cards /\ "none" \in Types
      /\ reader.card \in Cards \cup {NoCard}
  BY DEF TypeOK, Types
<1>1. CASE Apptype
  BY <1>0, <1>1, CardtypeType DEF Apptype
<1>2. CASE Reloading /\ ~Apptype
  BY <1>0, <1>2 DEF Reloading, Serialno, Counter, Apptype, update_card_widget,
     reload_data, ReadKeys, ReadKeyAttr, Ensured, Reloaded, cardman
<1>3. CASE MainLoop
  BY <1>0, <1>3 DEF MainLoop, card_reload_finish_idle_cb, card_reload_idle_cb, ticker_cb,
     watcher_cb, reload_more_data_idle_cb, card_reload
<1>4. CASE Dialogs \/ Background
  BY <1>0, <1>4 DEF Dialogs, show_admin_pin_notice, SaveFailed, PinChanged, Background,
     card_genkey_completed, learn_keys_gpg_status_cb, cardman
<1>5. CASE User
  BY <1>0, <1>5 DEF User, gpa_card_manager_get_instance, file_close, card_reload_action,
     app_selector_changed_cb, card_genkey, Edit, LoseFocus, change_pin, learn_keys_clicked_cb,
     card_reload, cardman
<1> QED BY <1>1, <1>2, <1>3, <1>4, <1>5

\* The truth values and what runs in the background.
LEMMA FlagsType ==
  ASSUME TypeOK, Reloading \/ MainLoop \/ Dialogs \/ Background \/ User
  PROVE  /\ {written, dead_watch, ticker, finishing, notice, secret, counted}' \subseteq BOOLEAN
         /\ {learning, genkey}' \subseteq {"no", "current", "old"}
<1>0. /\ written \in BOOLEAN /\ dead_watch \in BOOLEAN /\ ticker \in BOOLEAN /\ finishing \in BOOLEAN
      /\ notice \in BOOLEAN /\ secret \in BOOLEAN /\ counted \in BOOLEAN
      /\ eventcounter.card_any \in BOOLEAN
      /\ learning \in {"no", "current", "old"} /\ genkey \in {"no", "current", "old"}
  BY DEF TypeOK
<1>1. CASE Reloading
  <2>1. /\ UNCHANGED <<written, dead_watch, ticker, notice, genkey>>
        /\ learning' \in {learning, "old"}
        /\ secret' \in {secret, TRUE}
        /\ counted' \in {counted, eventcounter.card_any, TRUE}
    BY <1>1 DEF Reloading, Serialno, Counter, Apptype, update_card_widget,
     reload_data, ReadKeys, ReadKeyAttr, Ensured, Reloaded,
       OldLearning, scd, cardman, card, rest
  <2>2. UNCHANGED finishing \/ finishing' = (finishing \/ caller # "pin")
    BY <1>1 DEF Reloading, Serialno, Counter, Apptype, update_card_widget,
     reload_data, ReadKeys, ReadKeyAttr, Ensured, Reloaded, cardman
  <2>3. finishing' \in BOOLEAN
    BY <1>0, <2>2
  <2> QED BY <1>0, <2>1, <2>3
<1>2. CASE MainLoop
  <2>1. /\ UNCHANGED <<dead_watch, notice, secret, learning, genkey, counted>>
        /\ written' \in {written, FALSE} /\ finishing' \in {finishing, FALSE}
    BY <1>2 DEF MainLoop, card_reload_finish_idle_cb, card_reload_idle_cb, ticker_cb,
     watcher_cb, reload_more_data_idle_cb,
       scd, card, rest
  <2>2. \/ UNCHANGED ticker \/ ticker' = FALSE
        \/ ticker' = (ticker \/ ~disable_ticker)
    BY <1>2, UnrefWindow DEF MainLoop, card_reload_finish_idle_cb, card_reload_idle_cb, ticker_cb,
     watcher_cb, reload_more_data_idle_cb,
       card_reload
  <2>3. ticker' \in BOOLEAN
    BY <1>0, <2>2
  <2> QED BY <1>0, <2>1, <2>3
<1>3. CASE Dialogs \/ Background
  BY <1>0, <1>3 DEF Dialogs, show_admin_pin_notice, SaveFailed, PinChanged, Background,
     card_genkey_completed, learn_keys_gpg_status_cb,
     scd, cardman, card, rest
<1>4. CASE gpa_card_manager_get_instance
  <2>1. /\ UNCHANGED <<written, finishing, notice, secret, learning, counted>>
        /\ genkey' \in {genkey, "old"}
    BY <1>4 DEF gpa_card_manager_get_instance
  <2>2. dead_watch' \in BOOLEAN /\ ticker' \in BOOLEAN
    BY <1>4, CardsAssumption DEF gpa_card_manager_get_instance
  <2> QED BY <1>0, <2>1, <2>2
<1>5. CASE file_close
  <2>1. /\ UNCHANGED <<written, dead_watch, finishing, notice, secret, genkey, counted>>
        /\ learning' \in {learning, "old"}
    BY <1>5 DEF file_close, OldLearning, scd, rest
  <2>2. ticker' \in BOOLEAN
    BY <1>5 DEF file_close
  <2> QED BY <1>0, <2>1, <2>2
<1>6. CASE card_reload_action
  <2>1. ticker' \in BOOLEAN
    BY <1>6 DEF card_reload_action, card_reload
  <2> QED BY <1>0, <1>6, <2>1 DEF card_reload_action, scd, card, rest
<1>7. CASE app_selector_changed_cb \/ InTheWidget
  <2>1. /\ UNCHANGED <<written, dead_watch, ticker, finishing, notice, secret, counted>>
        /\ learning' \in {learning, "current"} /\ genkey' \in {genkey, "current"}
    BY <1>7 DEF app_selector_changed_cb, InTheWidget, card_genkey, Edit, LoseFocus, change_pin,
       learn_keys_clicked_cb, scd, cardman, card, rest
  <2> QED BY <1>0, <2>1
<1> QED BY <1>1, <1>2, <1>3, <1>4, <1>5, <1>6, <1>7 DEF User, InTheWidget

LEMMA TypeStep ==
  ASSUME TypeOK, SentinelFits, clicks' \in 0 .. MaxClicks,
         Reloading \/ MainLoop \/ Dialogs \/ Background \/ User
  PROVE  TypeOK'
<1>1. /\ reader' \in [card : Cards \cup {NoCard}, counter : 0 .. MaxEvents]
      /\ eventcounter' \in [card_any : BOOLEAN, card : 0 .. MaxEvents]
  <2>1. /\ reader \in [card : Cards \cup {NoCard}, counter : 0 .. MaxEvents]
        /\ eventcounter \in [card_any : BOOLEAN, card : 0 .. MaxEvents]
        /\ reader.counter \in 0 .. MaxEvents /\ 0 \in 0 .. MaxEvents
    BY BoundsAssumption DEF TypeOK
  <2>2. /\ reader' = reader
        /\ \/ eventcounter' = eventcounter
           \/ eventcounter' = [card_any |-> TRUE, card |-> reader.counter]
           \/ eventcounter' = [card_any |-> FALSE, card |-> 0]
    BY CountersStep
  <2>3. /\ [card_any |-> TRUE, card |-> reader.counter] \in [card_any : BOOLEAN, card : 0 .. MaxEvents]
        /\ [card_any |-> FALSE, card |-> 0] \in [card_any : BOOLEAN, card : 0 .. MaxEvents]
    BY <2>1
  <2>4. eventcounter' \in [card_any : BOOLEAN, card : 0 .. MaxEvents]
    BY <2>1, <2>2, <2>3
  <2> QED BY <2>1, <2>2, <2>4
<1>2. /\ widget' \in WidgetType /\ queue' \in Seq(Callbacks) /\ dialog' \in DialogRecords
      /\ cardtype' \in Types /\ selector' \in {"auto"} \cup Cards
  BY WidgetStep, QueueStep, DialogType, CardType
<1> QED BY <1>1, <1>2, FlowType, FlagsType DEF TypeOK, Callers, WidgetType, DialogRecords

-----------------------------------------------------------------------------
(* The invariant.                                                          *)

LEMMA InitIInv == Init => IInv
<1> SUFFICES ASSUME Init PROVE IInv
  OBVIOUS
<1>1. /\ 0 \in 0 .. MaxEvents /\ 0 \in 0 .. MaxClicks /\ "none" \in Types /\ <<>> \in Seq(Callbacks)
  BY BoundsAssumption DEF Types
<1>2. widget = Label(0) /\ Label(0) \in WidgetType /\ Flagged(Label(0))
  BY <1>1 DEF Init, Label, WidgetType, Flagged
<1>3. dialog \in DialogRecords /\ dialog.kind = "none"
  BY DEF Init, NoDialog, DialogRecords
<1>4. TypeOK
  <2>1. reader \in [card : Cards \cup {NoCard}, counter : 0 .. MaxEvents]
    BY <1>1 DEF Init
  <2>2. {written, dead_watch, ticker, finishing, notice, secret, counted} \subseteq BOOLEAN
    BY DEF Init
  <2> QED BY <1>1, <1>2, <1>3, <2>1, <2>2 DEF Init, TypeOK, WidgetType, DialogRecords, Steps
<1>5. EditsAreFlagged
  BY <1>2 DEF EditsAreFlagged, Flagged
<1>6. ~Queued("more") /\ ~Queued("more old") /\ ~Queued("reload")
  BY EmptyQueue DEF Init, Queued
<1>7. SentinelFits
  <2>1. /\ step = "loop" /\ caller = "none" /\ in_card_reload = 0 /\ window = "none"
        /\ genkey = "no" /\ ~finishing /\ ~ticker
    BY DEF Init
  <2>2. (step = "loop" <=> caller = "none") /\ (in_card_reload = 1 <=> finishing)
    BY <2>1
  <2> QED BY <1>3, <1>6, <2>1, <2>2 DEF SentinelFits
<1>8. MoreFits /\ SecretFits
  BY <1>2, <1>6 DEF MoreFits, SecretFits, Label
<1>9. CountersFit /\ DisplayFits /\ NothingEarly
  BY <1>2 DEF Init, CountersFit, DisplayFits, NothingEarly, Label
<1> QED BY <1>4, <1>5, <1>7, <1>8, <1>9 DEF Init, IInv, Strong

\* Only the callback that lists the certificates reports itself as the one that used
\* a widget which is gone.
LEMMA FaultStep ==
  ASSUME TypeOK, MoreFits, Running, Reloading \/ MainLoop \/ Dialogs \/ Background \/ User
  PROVE  window' = "open" => fault' \notin {"more", "more old"}
<1>1. CASE reload_more_data_idle_cb
  <2>1. /\ queue # <<>> /\ UNCHANGED window
        /\ \/ fault' = "none"
           \/ fault' = Head(queue) /\ ~(Head(queue) \in {"more", "again"} /\ window = "open")
    BY <1>1 DEF reload_more_data_idle_cb, Running
  <2>2. Queued(Head(queue))
    BY <2>1, TailMembers DEF Queued, TypeOK
  <2> QED BY <2>1, <2>2 DEF MoreFits
<1>2. CASE Reloading
  BY <1>2 DEF Reloading, Serialno, Counter, Apptype, update_card_widget,
     reload_data, ReadKeys, ReadKeyAttr, Ensured, Reloaded,
     Running, rest
<1>3. CASE MainLoop /\ ~reload_more_data_idle_cb
  BY <1>3 DEF MainLoop, card_reload_finish_idle_cb, card_reload_idle_cb, ticker_cb,
     watcher_cb, Running, rest
<1>4. CASE Dialogs \/ Background
  BY <1>4 DEF Dialogs, show_admin_pin_notice, SaveFailed, PinChanged, Background,
     card_genkey_completed, learn_keys_gpg_status_cb,
     Continues, Running, rest
<1>5. CASE User
  BY <1>5 DEF User, gpa_card_manager_get_instance, file_close, card_reload_action,
     app_selector_changed_cb, card_genkey, Edit, LoseFocus, change_pin, learn_keys_clicked_cb,
     Running, rest
<1> QED BY <1>1, <1>2, <1>3, <1>4, <1>5

\* A card is inserted or removed.
LEMMA CardEventStep ==
  ASSUME IInv, CardEvent, UNCHANGED clicks
  PROVE  IInv'
<1>1. PICK c \in Cards \cup {NoCard} :
        reader' = [card |-> c, counter |-> reader.counter + 1] /\ reader.counter < MaxEvents
  BY DEF CardEvent
<1>2. UNCHANGED <<dead_watch, cardman, flow, card, rest>> /\ written' = Watching
  BY DEF CardEvent
<1>3. TypeOK'
  <2>1. reader.counter \in 0 .. MaxEvents
    BY DEF IInv, TypeOK
  <2>2. reader' \in [card : Cards \cup {NoCard}, counter : 0 .. MaxEvents]
    BY <1>1, <2>1, BoundsAssumption
  <2>3. written' \in BOOLEAN /\ {dead_watch, notice, secret, counted}' \subseteq BOOLEAN
    BY <1>2, CardsAssumption DEF IInv, TypeOK, card, rest
  <2>4. {learning, genkey}' \subseteq {"no", "current", "old"}
    BY <1>2 DEF IInv, TypeOK, card, rest
  <2>5. ticker' \in BOOLEAN /\ finishing' \in BOOLEAN
    BY <1>2 DEF IInv, TypeOK, cardman
  <2>6. UNCHANGED <<window, selector, cardtype, in_card_reload, eventcounter, queue, step, caller,
                    widget, dialog, clicks>>
    BY <1>2 DEF cardman, flow, card
  <2>7. /\ eventcounter' \in [card_any : BOOLEAN, card : 0 .. MaxEvents]
        /\ widget' \in WidgetType /\ dialog' \in DialogRecords
    BY <2>6 DEF IInv, TypeOK, WidgetType, DialogRecords
  <2> QED BY <2>2, <2>3, <2>4, <2>5, <2>6, <2>7 DEF IInv, TypeOK, WidgetType, DialogRecords
<1>4. reader'.counter = reader.counter + 1 /\ reader.counter \in Nat
  <2>1. reader.counter \in 0 .. MaxEvents
    BY DEF IInv, TypeOK
  <2> QED BY <1>1, <2>1, BoundsAssumption
<1>5. CountersFit /\ NothingEarly => (CountersFit /\ NothingEarly)'
  <2>1. eventcounter.card \in 0 .. MaxEvents /\ ShownBy(widget) \subseteq 0 .. MaxEvents
    BY DEF IInv, TypeOK, ShownBy
  <2>2. /\ eventcounter.card \in Nat /\ eventcounter' = eventcounter
        /\ ShownBy(widget') = ShownBy(widget) /\ \A v \in ShownBy(widget) : v \in Nat
        /\ UNCHANGED <<counted, step>>
    BY <1>2, <2>1, BoundsAssumption DEF cardman, flow, card, rest
  <2>3. NothingEarly => NothingEarly'
    <3> SUFFICES ASSUME NothingEarly, NEW v \in ShownBy(widget') PROVE v <= reader'.counter
      BY DEF NothingEarly, ShownBy
    <3>1. v \in Nat /\ v <= reader.counter
      BY <2>2 DEF NothingEarly, ShownBy
    <3> QED BY <1>4, <3>1
  <2>4. CountersFit => CountersFit'
    BY <1>4, <2>2 DEF CountersFit
  <2> QED BY <2>3, <2>4
<1>6. SentinelFits /\ MoreFits /\ SecretFits /\ DisplayFits
        => (SentinelFits /\ MoreFits /\ SecretFits /\ DisplayFits)'
  BY <1>2 DEF SentinelFits, MoreFits, SecretFits, DisplayFits, ReadAfter, Queued, cardman, flow, card, rest
<1> QED BY <1>2, <1>3, <1>5, <1>6 DEF IInv, Strong, EditsAreFlagged, Running, cardman, card, rest

LEMMA NextIInv == IInv /\ [Next]_vars => IInv'
<1> SUFFICES ASSUME IInv, [Next]_vars PROVE IInv'
  OBVIOUS
<1>1. CASE Alone(CardEvent)
  BY <1>1, CardEventStep DEF Alone
<1>2. CASE UNCHANGED vars
  <2>1. UNCHANGED <<reader, written, dead_watch, window, selector, cardtype, in_card_reload, eventcounter,
                    ticker, queue, finishing, step, caller, widget, dialog, notice, secret, learning,
                    genkey, counted, fault, clicks>>
    BY <1>2 DEF vars, scd, cardman, flow, card, rest
  <2>2. TypeOK'
    <3>1. /\ written' \in BOOLEAN /\ ticker' \in BOOLEAN /\ finishing' \in BOOLEAN
          /\ {dead_watch, notice, secret, counted}' \subseteq BOOLEAN
      BY <2>1 DEF IInv, TypeOK
    <3>2. /\ reader' \in [card : Cards \cup {NoCard}, counter : 0 .. MaxEvents]
          /\ eventcounter' \in [card_any : BOOLEAN, card : 0 .. MaxEvents]
          /\ widget' \in WidgetType /\ dialog' \in DialogRecords
      BY <2>1 DEF IInv, TypeOK, WidgetType, DialogRecords
    <3> QED BY <2>1, <3>1, <3>2 DEF IInv, TypeOK, WidgetType, DialogRecords
  <2>3. Strong => Strong'
    BY <2>1 DEF Strong, SentinelFits, MoreFits, SecretFits, CountersFit, DisplayFits, ReadAfter,
       NothingEarly, Queued
  <2> QED BY <2>1, <2>2, <2>3 DEF IInv, EditsAreFlagged, Running
<1>3. CASE /\ Reloading \/ MainLoop \/ Dialogs \/ Background \/ User
           /\ clicks' = clicks \/ (clicks < MaxClicks /\ clicks' = clicks + 1)
  <2>1. Running
    BY <1>3 DEF Reloading, Serialno, Counter, Apptype, update_card_widget,
     reload_data, ReadKeys, ReadKeyAttr, Ensured, Reloaded,
       MainLoop, card_reload_finish_idle_cb, card_reload_idle_cb, ticker_cb,
     watcher_cb, reload_more_data_idle_cb,
       Dialogs, show_admin_pin_notice, SaveFailed, PinChanged, Background,
     card_genkey_completed, learn_keys_gpg_status_cb,
       User, gpa_card_manager_get_instance, file_close, card_reload_action,
     app_selector_changed_cb, card_genkey, Edit, LoseFocus, change_pin, learn_keys_clicked_cb,
       UserMayAct, AnyLoop, Loop
  <2>2. TypeOK /\ EditsAreFlagged /\ Strong
    BY <2>1 DEF IInv
  <2>3. clicks' \in 0 .. MaxClicks
    BY <1>3, <2>2, BoundsAssumption DEF TypeOK
  <2>4. TypeOK'
    BY <1>3, <2>2, <2>3, TypeStep DEF Strong
  <2>5. EditsAreFlagged'
    BY <1>3, <2>2, WidgetStep DEF EditsAreFlagged, Flagged
  <2>6. window' = "open" => fault' \notin {"more", "more old"}
    BY <1>3, <2>1, <2>2, FaultStep DEF Strong
  <2>7. Running' => SentinelFits'
    BY <1>3, <2>2, ReloadingKeepsSentinel, MainLoopKeepsSentinel, DialogsKeepSentinel,
       BackgroundKeepsSentinel, UserKeepsSentinel DEF Strong
  <2>8. Running' => MoreFits'
    BY <1>3, <2>2, ReloadingKeepsMore, MainLoopKeepsMore, OthersKeepMore DEF Strong
  <2>9. Running' => SecretFits'
    BY <1>3, <2>2, ReloadingKeepsSecret, MainLoopKeepsSecret, OthersKeepSecret DEF Strong
  <2>10. CountersFit' /\ NothingEarly'
    BY <1>3, <2>2, CountersFitStep, NothingEarlyStep DEF Strong
  <2>11. Running' => DisplayFits'
    BY <1>3, <2>2, ReloadingKeepsDisplay, MainLoopKeepsDisplay, OthersKeepDisplay DEF Strong
  <2> QED BY <2>4, <2>5, <2>6, <2>7, <2>8, <2>9, <2>10, <2>11 DEF IInv, Strong
<1> QED BY <1>1, <1>2, <1>3 DEF Next, Alone, Stopped

LEMMA InductiveInvariant == Spec => []IInv
BY InitIInv, NextIInv, PTL DEF Spec

-----------------------------------------------------------------------------
\* When every card event has been noticed and no reload is queued or under way, what
\* the window displays was read after the last event (card_reload reads the event
\* counter before the attributes; ticker_cb compares it with scdaemon's).
THEOREM DisplayIsFresh == Spec => []QuietMeansFresh
<1>1. IInv => QuietMeansFresh
  <2> SUFFICES ASSUME IInv, Quiet, counted PROVE Fresh
    BY DEF QuietMeansFresh
  <2>1. CountersFit /\ DisplayFits /\ NothingEarly /\ TypeOK
    BY DEF IInv, Strong, Quiet
  <2>2. ReadAfter(reader.counter)
    BY <2>1 DEF Quiet, DisplayFits, Queued
  <2>3. \A v \in ShownBy(widget) : reader.counter <= v /\ v <= reader.counter
    BY <2>1, <2>2 DEF ReadAfter, NothingEarly, ShownBy
  <2>4. reader.counter \in Nat /\ ShownBy(widget) \subseteq Nat
    BY <2>1, BoundsAssumption DEF TypeOK, ShownBy
  <2>5. \A v \in ShownBy(widget) : v = reader.counter
    BY <2>3, <2>4
  <2> QED BY <2>5 DEF Fresh, ShownBy
<1> QED BY <1>1, InductiveInvariant, PTL

\* The certificates a reload left to an idle callback are added to the widget that it
\* made, which no second reload has destroyed (in_card_reload).
THEOREM CallbacksFindTheirWidget == Spec => []ReloadsKeepTheirWidget
<1>1. IInv => ReloadsKeepTheirWidget
  BY DEF IInv, ReloadsKeepTheirWidget
<1> QED BY <1>1, InductiveInvariant, PTL

\* What the user typed and the card does not have stays flagged until it is saved
\* (edit_changed_cb, save_attr).
THEOREM NoEditIsForgotten == Spec => []EditsAreFlagged
<1>1. IInv => EditsAreFlagged
  BY DEF IInv
<1> QED BY <1>1, InductiveInvariant, PTL

==============================================================================
