--------------------------- MODULE UiServerProofs ---------------------------
(***************************************************************************)
(* Proofs about UiServer, for every set of connections and recipients and  *)
(* every choice of commands.                                               *)
(*                                                                         *)
(* The invariants of UiServer are not inductive one by one: that a         *)
(* continuation answers the right command rests on the operation being     *)
(* there, that the counter does not underflow rests on its being the       *)
(* number of contexts, and so on.  IInv is their common strengthening.     *)
(* Most of it speaks of one connection slot at a time, so it is stated as  *)
(* a predicate Consistent on the values in a slot; a step writes one slot, *)
(* and SlotStep reduces it to the values the step writes there.            *)
(***************************************************************************)
EXTENDS UiServer, FiniteSetTheorems, SequenceTheorems, TLAPS

ConnStates == {"free", "live", "orphan"}

\* What the state n of a slot, our state k of the connection, the state a of
\* libassuan and the operation o have to do with each other.
Matched(k, a, o) ==
  /\ k.cont_cmd = a.command
  /\ k.cont_cmd = o.command
  /\ (o.phase = "none") = (o.command = "none")
  /\ k.gpa_op = (k.cont_cmd = "PREP_ENCRYPT")
  /\ o.command = "PREP_ENCRYPT" => o.phase = "dialog"

StreamsOpen(n, k, o) ==
  /\ o.command # "none" => n = "live"
  /\ IF o.command \in StreamCommands \ {"PREP_ENCRYPT"}
     THEN /\ "input" \in k.channels
          /\ o.command # "VERIFY" => "output" \in k.channels
          /\ k.channels # Channels
     ELSE k.channels = {}

KeysFit(k, o) ==
  /\ o.command \in {"ENCRYPT", "PREP_ENCRYPT"} => o.recipients = k.recipients
  /\ o.command = "ENCRYPT" /\ o.recipients # {} /\ o.keys.prepared
       => o.keys.for = o.recipients
  /\ k.recipients # {} /\ k.recipient_keys.prepared
       => k.recipient_keys.for = k.recipients
  /\ k.recipient_keys.prepared = (k.selected_protocol # Unknown)
  /\ o.command = "ENCRYPT" /\ o.phase = "idle"
       => /\ o.keys = k.recipient_keys
          /\ o.protocol = k.selected_protocol

Consistent(n, k, a, o) ==
  Matched(k, a, o) /\ StreamsOpen(n, k, o) /\ KeysFit(k, o)

EverySlotConsistent ==
  \A c \in Conns : Consistent(conn[c], ctrl[c], assuan[c], op[c])

\* The counter holds the contexts, clients and orphans; quit is decided by it.
ContextsAreCounted ==
  /\ connection_counter = Cardinality({c \in Conns : conn[c] # "free"})
  /\ quit => connection_counter = 0
  /\ shutdown_pending /\ connection_counter = 0 => quit

\* The inductive invariant.
IInv ==
  /\ TypeOK
  /\ EverySlotConsistent
  /\ CallbacksInModalOwnTheirConnection
  /\ ContextsAreCounted

-----------------------------------------------------------------------------
(* Types *)

LEMMA KeyArrayTypes ==
  /\ NoKeys \in KeyArrays
  /\ \A R \in SUBSET Recipients : KeysFor(R) \in KeyArrays
<1>1. NoKeys \in KeyArrays
  BY DEF KeyArrays
<1>2. ASSUME NEW R \in SUBSET Recipients PROVE KeysFor(R) \in KeyArrays
  BY DEF KeyArrays
<1> QED BY <1>1, <1>2

LEMMA InitialTypes ==
  /\ NewCtrl \in Ctrl
  /\ NewAssuan \in Assuan
  /\ NewSock \in Sock
  /\ NoOp \in Op
BY KeyArrayTypes
   DEF NewCtrl, Ctrl, NewAssuan, Assuan, NewSock, Sock, NoOp, Op, Phases, Unknown

LEMMA NewSlotConsistent ==
  ASSUME NEW n \in ConnStates
  PROVE  Consistent(n, NewCtrl, NewAssuan, NoOp)
BY DEF Consistent, Matched, StreamsOpen, KeysFit, NewCtrl, NewAssuan, NoOp,
       NoKeys, StreamCommands, Unknown

-----------------------------------------------------------------------------
(* A step of one slot *)

\* A step that writes consistent values of the right type into one slot keeps
\* the types of the slots and their consistency.
LEMMA SlotStep ==
  ASSUME TypeOK, EverySlotConsistent, NEW c \in Conns,
         NEW n \in ConnStates, NEW s \in Sock, NEW k \in Ctrl,
         NEW a \in Assuan, NEW o \in Op,
         conn' = [conn EXCEPT ![c] = n],
         sock' = [sock EXCEPT ![c] = s],
         ctrl' = [ctrl EXCEPT ![c] = k],
         assuan' = [assuan EXCEPT ![c] = a],
         op' = [op EXCEPT ![c] = o],
         Consistent(n, k, a, o)
  PROVE  /\ conn' \in [Conns -> ConnStates]
         /\ sock' \in [Conns -> Sock]
         /\ assuan' \in [Conns -> Assuan]
         /\ ctrl' \in [Conns -> Ctrl]
         /\ op' \in [Conns -> Op]
         /\ EverySlotConsistent'
<1>1. /\ conn \in [Conns -> ConnStates] /\ sock \in [Conns -> Sock]
      /\ assuan \in [Conns -> Assuan] /\ ctrl \in [Conns -> Ctrl]
      /\ op \in [Conns -> Op]
  BY DEF TypeOK, ConnStates
<1>2. EverySlotConsistent'
  <2> SUFFICES ASSUME NEW d \in Conns
               PROVE  Consistent(conn'[d], ctrl'[d], assuan'[d], op'[d])
    BY DEF EverySlotConsistent
  <2>1. CASE d = c
    BY <1>1, <2>1
  <2>2. CASE d # c
    BY <1>1, <2>2 DEF EverySlotConsistent
  <2> QED BY <2>1, <2>2
<1> QED BY <1>1, <1>2

\* The stack of message boxes is not touched, and the operation in the slot
\* neither opens nor closes one.
LEMMA ModalUntouched ==
  ASSUME TypeOK, CallbacksInModalOwnTheirConnection, NEW c \in Conns,
         NEW n \in ConnStates, NEW o \in Op,
         conn' = [conn EXCEPT ![c] = n],
         op' = [op EXCEPT ![c] = o],
         modal' = modal,
         o.phase # "warning", op[c].phase # "warning"
  PROVE  CallbacksInModalOwnTheirConnection'
<1>1. ~InModal(c)
  BY DEF CallbacksInModalOwnTheirConnection
<1>2. \A d \in Conns : InModal(d)' = InModal(d)
  BY DEF InModal
<1>3. \A d \in Conns : (op'[d].phase = "warning") = (op[d].phase = "warning")
  BY DEF TypeOK
<1>4. \A i \in 1..Len(modal) : modal[i] \in Conns /\ modal[i] # c
  BY <1>1 DEF InModal, TypeOK
<1>5. \A i \in 1..Len(modal) : conn'[modal[i]] = conn[modal[i]]
  BY <1>4 DEF TypeOK
<1> QED BY <1>2, <1>3, <1>5 DEF CallbacksInModalOwnTheirConnection


\* The invariant says nothing of sock but its type, so IInv is kept by any step
\* of one slot that leaves it consistent, opens or closes no message box and
\* neither makes nor ends a context.
LEMMA QuietStep ==
  ASSUME IInv, NEW c \in Conns, ~quit,
         NEW s \in Sock, NEW k \in Ctrl, NEW a \in Assuan, NEW o \in Op,
         conn' = conn,
         sock' = [sock EXCEPT ![c] = s],
         ctrl' = [ctrl EXCEPT ![c] = k],
         assuan' = [assuan EXCEPT ![c] = a],
         op' = [op EXCEPT ![c] = o],
         Consistent(conn[c], k, a, o),
         modal' = modal,
         o.phase # "warning", op[c].phase # "warning",
         UNCHANGED <<connection_counter, quit>>,
         shutdown_pending' \in BOOLEAN,
         shutdown_pending' # shutdown_pending => Live(c)
  PROVE  IInv'
<1>1. /\ conn[c] \in ConnStates
      /\ conn' = [conn EXCEPT ![c] = conn[c]]
  BY DEF IInv, TypeOK, ConnStates
<1>2. /\ conn' \in [Conns -> ConnStates]
      /\ sock' \in [Conns -> Sock]
      /\ assuan' \in [Conns -> Assuan]
      /\ ctrl' \in [Conns -> Ctrl]
      /\ op' \in [Conns -> Op]
      /\ EverySlotConsistent'
  BY <1>1, SlotStep DEF IInv
<1>3. TypeOK'
  BY <1>2 DEF IInv, TypeOK, ConnStates
<1>4. CallbacksInModalOwnTheirConnection'
  BY <1>1, ModalUntouched DEF IInv
<1>5. ContextsAreCounted'
  <2>1. connection_counter # 0 \/ ~Live(c)
    <3> SUFFICES ASSUME Live(c) PROVE connection_counter # 0
      OBVIOUS
    <3>1. IsFiniteSet({d \in Conns : conn[d] # "free"})
      BY ConnsAssumption, FS_Subset
    <3>2. c \in {d \in Conns : conn[d] # "free"}
      BY DEF Live
    <3> QED BY <3>1, <3>2, FS_EmptySet DEF IInv, ContextsAreCounted
  <2> QED BY <2>1 DEF IInv, ContextsAreCounted, Live
<1> QED BY <1>2, <1>3, <1>4, <1>5 DEF IInv

-----------------------------------------------------------------------------
(* Connections come and go *)

LEMMA FinishStep ==
  ASSUME IInv, NEW c \in Conns, MayReceive(c), connection_finish(c),
         UNCHANGED <<op, modal, shutdown_pending>>
  PROVE  IInv'
<1> USE DEF IInv
<1>1. /\ ~quit /\ conn[c] = "live" /\ ctrl[c].cont_cmd = "none"
      /\ op[c].command = "none" /\ op[c].phase = "none" /\ op[c] \in Op
  BY DEF MayReceive, Readable, Live, EverySlotConsistent, Consistent, Matched, TypeOK
<1>2. /\ conn' = [conn EXCEPT ![c] = "free"]
      /\ sock' = [sock EXCEPT ![c] = NewSock]
      /\ ctrl' = [ctrl EXCEPT ![c] = NewCtrl]
      /\ assuan' = [assuan EXCEPT ![c] = NewAssuan]
      /\ op' = [op EXCEPT ![c] = op[c]]
  BY DEF connection_finish, TypeOK
<1>3. Consistent("free", NewCtrl, NewAssuan, op[c])
  BY <1>1 DEF Consistent, Matched, StreamsOpen, KeysFit, NewCtrl, NewAssuan,
              NoKeys, StreamCommands, Unknown
<1>4. /\ conn' \in [Conns -> ConnStates]
      /\ sock' \in [Conns -> Sock]
      /\ assuan' \in [Conns -> Assuan]
      /\ ctrl' \in [Conns -> Ctrl]
      /\ op' \in [Conns -> Op]
      /\ EverySlotConsistent'
  BY <1>1, <1>2, <1>3, SlotStep, InitialTypes DEF ConnStates
<1> DEFINE Used == {d \in Conns : conn[d] # "free"}
<1>5. /\ IsFiniteSet(Used) /\ c \in Used
      /\ Cardinality(Used) \in Nat /\ Cardinality(Used) # 0
  <2>1. IsFiniteSet(Used) /\ c \in Used
    BY <1>1, ConnsAssumption, FS_Subset
  <2> QED BY <2>1, FS_EmptySet, FS_CardinalityType
<1>6. {d \in Conns : conn'[d] # "free"} = Used \ {c}
  BY <1>2 DEF TypeOK
<1>7. Cardinality(Used \ {c}) = Cardinality(Used) - 1
  BY <1>5, FS_RemoveElement
<1>8. /\ connection_counter' = Cardinality({d \in Conns : conn'[d] # "free"})
      /\ connection_counter' \in Nat
      /\ quit' = (connection_counter' = 0 /\ shutdown_pending)
  <2>1. connection_counter = Cardinality(Used)
    BY DEF ContextsAreCounted
  <2>2. connection_counter' = Cardinality(Used) - 1
    BY <2>1 DEF connection_finish
  <2>3. quit' = (connection_counter' = 0 /\ shutdown_pending)
    BY DEF connection_finish
  <2>4. Cardinality(Used) - 1 \in Nat
    BY <1>5
  <2> QED BY <1>6, <1>7, <2>2, <2>3, <2>4
<1>9. TypeOK'
  BY <1>4, <1>8 DEF TypeOK, ConnStates
<1>10. CallbacksInModalOwnTheirConnection'
  BY <1>1, <1>2, ModalUntouched DEF ConnStates
<1>11. ContextsAreCounted'
  <2>1. connection_counter' = 0 => \A d \in Conns : conn'[d] = "free"
    <3>1. IsFiniteSet(Used \ {c})
      BY <1>5, FS_Subset
    <3> QED BY <1>6, <1>8, <3>1, FS_EmptySet
  <2>2. quit' => \A d \in Conns : conn'[d] # "live"
    BY <1>8, <2>1
  <2> QED BY <1>8, <2>2 DEF ContextsAreCounted, Live
<1> QED BY <1>4, <1>9, <1>10, <1>11

\* Both outcomes of accept_connection_cb count the new context.
LEMMA AcceptStep ==
  ASSUME IInv, NEW c \in Conns, ~quit, conn[c] = "free",
         NEW n \in {"live", "orphan"},
         conn' = [conn EXCEPT ![c] = n],
         connection_counter' = connection_counter + 1,
         UNCHANGED <<sock, assuan, ctrl, op, modal, shutdown_pending, quit>>
  PROVE  IInv'
<1> USE DEF IInv
<1>1. op[c].command = "none" /\ op[c].phase = "none"
  BY DEF EverySlotConsistent, Consistent, Matched, StreamsOpen
<1>2. n \in ConnStates /\ op[c] \in Op
  BY DEF TypeOK, ConnStates
<1>3. Consistent(n, ctrl[c], assuan[c], op[c])
  BY <1>1 DEF EverySlotConsistent, Consistent, StreamsOpen
<1>4. EverySlotConsistent'
  <2> SUFFICES ASSUME NEW d \in Conns
               PROVE  Consistent(conn'[d], ctrl[d], assuan[d], op[d])
    BY DEF EverySlotConsistent
  <2>1. CASE d = c
    BY <1>3, <2>1 DEF TypeOK
  <2>2. CASE d # c
    BY <2>2 DEF TypeOK, EverySlotConsistent
  <2> QED BY <2>1, <2>2
<1> DEFINE Used == {d \in Conns : conn[d] # "free"}
<1>5. IsFiniteSet(Used) /\ c \notin Used
  BY ConnsAssumption, FS_Subset
<1>6. {d \in Conns : conn'[d] # "free"} = Used \cup {c}
  BY DEF TypeOK
<1>7. Cardinality(Used \cup {c}) = Cardinality(Used) + 1
  BY <1>5, FS_AddElement
<1>8. TypeOK'
  BY <1>2 DEF TypeOK, ConnStates
<1>9. CallbacksInModalOwnTheirConnection'
  BY <1>1, <1>2, op' = [op EXCEPT ![c] = op[c]], ModalUntouched DEF TypeOK
<1>10. ContextsAreCounted'
  <2>1. connection_counter' = Cardinality({d \in Conns : conn'[d] # "free"})
    <3>1. connection_counter = Cardinality(Used)
      BY DEF ContextsAreCounted
    <3> QED BY <1>6, <1>7, <3>1
  <2> QED BY <2>1 DEF ContextsAreCounted, TypeOK
<1> QED BY <1>4, <1>8, <1>9, <1>10

\* The user closes the last window.
LEMMA StopStep ==
  ASSUME IInv, gpa_stop_server
  PROVE  IInv'
<1> USE DEF IInv, gpa_stop_server
<1>1. TypeOK' /\ EverySlotConsistent' /\ CallbacksInModalOwnTheirConnection'
  BY DEF TypeOK, EverySlotConsistent, CallbacksInModalOwnTheirConnection, InModal
<1>2. ContextsAreCounted'
  <2>1. ASSUME connection_counter = 0, NEW d \in Conns
        PROVE  ~Live(d)
    <3>1. IsFiniteSet({e \in Conns : conn[e] # "free"})
      BY ConnsAssumption, FS_Subset
    <3>2. {e \in Conns : conn[e] # "free"} = {}
      BY <2>1, <3>1, FS_EmptySet DEF ContextsAreCounted
    <3> QED BY <3>2 DEF Live
  <2> QED BY <2>1 DEF ContextsAreCounted, Live
<1> QED BY <1>1, <1>2

-----------------------------------------------------------------------------
(* Commands answered at once *)

\* The connection's state k between two commands.
Ready(k) ==
  /\ k \in Ctrl
  /\ k.cont_cmd = "none"
  /\ k.gpa_op = FALSE
  /\ k.channels = {}
  /\ k.recipients # {} /\ k.recipient_keys.prepared
       => k.recipient_keys.for = k.recipients
  /\ k.recipient_keys.prepared = (k.selected_protocol # Unknown)

ReadyAssuan(a) == a \in Assuan /\ a.command = "none"

\* A command is received on a live connection, without an operation, between
\* two commands.
LEMMA ReceiveState ==
  ASSUME IInv, NEW c \in Conns, MayReceive(c)
  PROVE  /\ ~quit /\ Live(c)
         /\ Ready(ctrl[c]) /\ ReadyAssuan(assuan[c])
         /\ op[c] \in Op /\ op[c].command = "none" /\ op[c].phase = "none"
<1>1. /\ ~quit /\ Live(c) /\ ctrl[c].cont_cmd = "none"
      /\ ctrl[c] \in Ctrl /\ assuan[c] \in Assuan /\ op[c] \in Op
      /\ Consistent(conn[c], ctrl[c], assuan[c], op[c])
  BY DEF IInv, TypeOK, EverySlotConsistent, MayReceive, Readable
<1>2. /\ assuan[c].command = "none" /\ op[c].command = "none"
      /\ op[c].phase = "none" /\ ctrl[c].gpa_op = FALSE
  BY <1>1 DEF Consistent, Matched
<1> QED BY <1>1, <1>2
        DEF Ready, ReadyAssuan, Consistent, StreamsOpen, KeysFit, StreamCommands

LEMMA AnswerStep ==
  ASSUME IInv, NEW c \in Conns, MayReceive(c), NEW s \in Sock,
         sock' = [sock EXCEPT ![c] = s],
         NEW k, Ready(k), NEW a, ReadyAssuan(a), NEW code \in {"OK", "ERR"},
         Answer(c, k, a, code),
         shutdown_pending' \in {shutdown_pending, TRUE}
  PROVE  IInv'
<1>1. /\ ~quit /\ Live(c)
      /\ op[c] \in Op /\ op[c].command = "none" /\ op[c].phase = "none"
  BY ReceiveState
<1>2. process_done(a, code) \in Assuan /\ process_done(a, code).command = "none"
  BY DEF ReadyAssuan, process_done, Assuan
<1>3. /\ k \in Ctrl
      /\ Consistent(conn[c], k, process_done(a, code), op[c])
  BY <1>1, <1>2 DEF Ready, Consistent, Matched, StreamsOpen, KeysFit, StreamCommands
<1>4. /\ conn' = conn /\ modal' = modal
      /\ ctrl' = [ctrl EXCEPT ![c] = k]
      /\ assuan' = [assuan EXCEPT ![c] = process_done(a, code)]
      /\ op' = [op EXCEPT ![c] = op[c]]
      /\ UNCHANGED <<connection_counter, quit>>
      /\ shutdown_pending' \in BOOLEAN
  BY DEF Answer, IInv, TypeOK
<1> QED BY <1>1, <1>2, <1>3, <1>4, QuietStep

\* What the commands write is again a state between two commands.
LEMMA ReadyAgain ==
  ASSUME NEW k, Ready(k)
  PROVE  /\ Ready([k EXCEPT !.session = TRUE])
         /\ Ready([k EXCEPT !.message_fd = TRUE])
         /\ Ready([k EXCEPT !.files = TRUE]) /\ Ready([k EXCEPT !.files = FALSE])
         /\ \A given \in BOOLEAN : Ready([k EXCEPT !.sender = given])
         /\ Ready(reset_prepared_keys(k))
         /\ Ready(finish_io_streams(k))
         /\ Ready(reset_notify(k))
         /\ \A added \in SUBSET Recipients :
              Ready([reset_prepared_keys(k) EXCEPT !.recipients = @ \cup added])
<1> USE DEF Ready
<1>1. /\ Ready([k EXCEPT !.session = TRUE])
      /\ Ready([k EXCEPT !.message_fd = TRUE])
      /\ Ready([k EXCEPT !.files = TRUE]) /\ Ready([k EXCEPT !.files = FALSE])
      /\ \A given \in BOOLEAN : Ready([k EXCEPT !.sender = given])
  BY DEF Ctrl
<1>2. Ready(reset_prepared_keys(k))
  BY KeyArrayTypes DEF reset_prepared_keys, Ctrl, NoKeys, Unknown
<1>3. Ready(finish_io_streams(k))
  BY DEF finish_io_streams, Ctrl
<1>4. Ready(reset_notify(k))
  BY KeyArrayTypes DEF reset_notify, NewCtrl, Ctrl, NoKeys, Unknown
<1>5. ASSUME NEW added \in SUBSET Recipients
      PROVE  Ready([reset_prepared_keys(k) EXCEPT !.recipients = @ \cup added])
  BY KeyArrayTypes DEF reset_prepared_keys, Ctrl, NoKeys, Unknown
<1> QED BY <1>1, <1>2, <1>3, <1>4, <1>5

LEMMA ReadyAssuanAgain ==
  ASSUME NEW a, ReadyAssuan(a)
  PROVE  /\ ReadyAssuan([a EXCEPT !.input_fd = TRUE])
         /\ ReadyAssuan([a EXCEPT !.output_fd = TRUE])
         /\ ReadyAssuan(CloseInputOutput(a))
BY DEF ReadyAssuan, CloseInputOutput, Assuan

\* Every command that is answered at once keeps the invariant.
LEMMA AnsweredCommandsStep ==
  ASSUME IInv, NEW c \in Conns,
         \/ cmd_session(c) \/ cmd_recipient(c) \/ cmd_message(c) \/ cmd_input(c)
         \/ cmd_output(c) \/ cmd_sender(c) \/ cmd_file(c) \/ cmd_files(c)
         \/ cmd_getinfo(c) \/ cmd_kill_uiserver(c) \/ cmd_reset(c)
  PROVE  IInv'
<1>1. MayReceive(c)
  BY DEF cmd_session, cmd_recipient, cmd_message, cmd_input, cmd_output, cmd_sender,
         cmd_file, cmd_files, cmd_getinfo, cmd_kill_uiserver, cmd_reset, Dispatched
<1>2. Ready(ctrl[c]) /\ ReadyAssuan(assuan[c])
  BY <1>1, ReceiveState
<1> DEFINE s == [sock[c] EXCEPT !.line = FALSE]
<1>3. s \in Sock
  BY DEF IInv, TypeOK, Sock
<1>4. sock' = [sock EXCEPT ![c] = s]
  BY DEF cmd_session, cmd_recipient, cmd_message, cmd_input, cmd_output, cmd_sender,
         cmd_file, cmd_files, cmd_getinfo, cmd_kill_uiserver, cmd_reset, Dispatched
<1>5. ASSUME NEW k, Ready(k), NEW a, ReadyAssuan(a), NEW code \in {"OK", "ERR"},
             Answer(c, k, a, code),
             shutdown_pending' \in {shutdown_pending, TRUE}
      PROVE  IInv'
  BY <1>1, <1>3, <1>4, <1>5, AnswerStep
<1>6. shutdown_pending' \in {shutdown_pending, TRUE}
  BY DEF cmd_session, cmd_recipient, cmd_message, cmd_input, cmd_output, cmd_sender,
         cmd_file, cmd_files, cmd_getinfo, cmd_kill_uiserver, cmd_reset
<1> HIDE DEF s
<1>7. CASE cmd_session(c)
  BY <1>2, <1>5, <1>6, <1>7, ReadyAgain DEF cmd_session
<1>8. CASE cmd_recipient(c)
  <2>1. PICK added \in {{}} \cup {{r} : r \in Recipients} :
          Answer(c, [reset_prepared_keys(ctrl[c]) EXCEPT !.recipients = @ \cup added],
                 assuan[c], "OK")
    BY <1>8 DEF cmd_recipient
  <2>2. added \in SUBSET Recipients
    OBVIOUS
  <2>3. Ready([reset_prepared_keys(ctrl[c]) EXCEPT !.recipients = @ \cup added])
    BY <1>2, <2>2, ReadyAgain
  <2> QED BY <1>2, <1>5, <1>6, <2>1, <2>3
<1>9. CASE cmd_message(c)
  BY <1>2, <1>5, <1>6, <1>9, ReadyAgain DEF cmd_message
<1>10. CASE cmd_input(c)
  BY <1>2, <1>5, <1>6, <1>10, ReadyAssuanAgain DEF cmd_input
<1>11. CASE cmd_output(c)
  BY <1>2, <1>5, <1>6, <1>11, ReadyAssuanAgain DEF cmd_output
<1>12. CASE cmd_sender(c)
  <2>1. PICK option \in ProtocolOptions :
          IF option = "invalid"
          THEN Answer(c, ctrl[c], assuan[c], "ERR")
          ELSE \E given \in BOOLEAN :
                 Answer(c, [ctrl[c] EXCEPT !.sender = given], assuan[c], "OK")
    BY <1>12 DEF cmd_sender
  <2>2. CASE option = "invalid"
    BY <1>2, <1>5, <1>6, <2>1, <2>2
  <2>3. CASE option # "invalid"
    <3>1. PICK given \in BOOLEAN :
            Answer(c, [ctrl[c] EXCEPT !.sender = given], assuan[c], "OK")
      BY <2>1, <2>3
    <3>2. Ready([ctrl[c] EXCEPT !.sender = given])
      BY <1>2, ReadyAgain
    <3> QED BY <1>2, <1>5, <1>6, <3>1, <3>2
  <2> QED BY <2>2, <2>3
<1>13. CASE cmd_file(c)
  BY <1>2, <1>5, <1>6, <1>13, ReadyAgain DEF cmd_file
<1>14. CASE cmd_files(c)
  BY <1>2, <1>5, <1>6, <1>14, ReadyAgain DEF cmd_files
<1>15. CASE cmd_getinfo(c)
  BY <1>2, <1>5, <1>6, <1>15 DEF cmd_getinfo
<1>16. CASE cmd_kill_uiserver(c)
  BY <1>2, <1>5, <1>6, <1>16 DEF cmd_kill_uiserver
<1>17. CASE cmd_reset(c)
  BY <1>2, <1>5, <1>6, <1>17, ReadyAgain, ReadyAssuanAgain DEF cmd_reset
<1> QED BY <1>7, <1>8, <1>9, <1>10, <1>11, <1>12, <1>13, <1>14, <1>15, <1>16, <1>17

-----------------------------------------------------------------------------
(* Commands with a continuation *)

LEMMA RefuseStep ==
  ASSUME IInv, NEW c \in Conns, MayReceive(c), NEW s \in Sock,
         sock' = [sock EXCEPT ![c] = s],
         NEW k, Ready(k), Refuse(c, k)
  PROVE  IInv'
<1>1. Ready(finish_io_streams(k)) /\ ReadyAssuan(CloseInputOutput(assuan[c]))
  BY ReceiveState, ReadyAgain, ReadyAssuanAgain
<1> QED BY <1>1, AnswerStep DEF Refuse

\* A new operation that fits the connection keeps the invariant.
LEMMA LaunchStep ==
  ASSUME IInv, NEW c \in Conns, MayReceive(c), NEW s \in Sock,
         sock' = [sock EXCEPT ![c] = s],
         NEW k \in Ctrl, NEW o \in Op,
         o.command \in StreamCommands, o.phase \in {"dialog", "idle"},
         o.command = "PREP_ENCRYPT" => o.phase = "dialog",
         k.gpa_op = (o.command = "PREP_ENCRYPT"),
         StreamsOpen("live", k, o), KeysFit(k, o),
         Launch(c, k, o)
  PROVE  IInv'
<1> DEFINE kk == [k EXCEPT !.cont_cmd = o.command]
           a  == [assuan[c] EXCEPT !.command = o.command]
<1>1. ~quit /\ conn[c] = "live" /\ op[c].phase = "none" /\ assuan[c] \in Assuan
  BY ReceiveState DEF ReadyAssuan, Live
<1>2. kk \in Ctrl /\ a \in Assuan
  BY <1>1 DEF Ctrl, Assuan
<1>3. Matched(kk, a, o)
  BY <1>1, <1>2 DEF Matched, Ctrl, Assuan, StreamCommands
<1>4. StreamsOpen(conn[c], kk, o) /\ KeysFit(kk, o)
  BY <1>1 DEF StreamsOpen, KeysFit, Ctrl
<1>5. /\ conn' = conn /\ modal' = modal
      /\ ctrl' = [ctrl EXCEPT ![c] = kk]
      /\ assuan' = [assuan EXCEPT ![c] = a]
      /\ op' = [op EXCEPT ![c] = o]
      /\ UNCHANGED <<connection_counter, shutdown_pending, quit>>
  BY DEF Launch, IInv, TypeOK
<1>6. shutdown_pending' \in BOOLEAN
  BY <1>5 DEF IInv, TypeOK
<1> HIDE DEF kk, a
<1> QED BY <1>1, <1>2, <1>3, <1>4, <1>5, <1>6, QuietStep DEF Consistent

LEMMA StreamOperationFits ==
  ASSUME NEW k, Ready(k), NEW command \in {"SIGN", "DECRYPT", "VERIFY"},
         NEW phase \in {"dialog", "idle"},
         NEW ch \in SUBSET Channels, ch # Channels, "input" \in ch,
         command # "VERIFY" => "output" \in ch
  PROVE  LET kk == [k EXCEPT !.channels = ch]
             o  == StreamOperation(command, phase)
         IN /\ kk \in Ctrl /\ o \in Op
            /\ o.command = command /\ o.phase = phase
            /\ kk.gpa_op = FALSE
            /\ StreamsOpen("live", kk, o) /\ KeysFit(kk, o)
<1> USE DEF Ready, StreamOperation, NoOp
<1>1. [k EXCEPT !.channels = ch] \in Ctrl
  BY DEF Ctrl
<1>2. StreamOperation(command, phase) \in Op
  BY InitialTypes DEF Op, StreamCommands, Phases
<1>3. StreamsOpen("live", [k EXCEPT !.channels = ch], StreamOperation(command, phase))
  BY DEF StreamsOpen, StreamCommands, Ctrl
<1>4. KeysFit([k EXCEPT !.channels = ch], StreamOperation(command, phase))
  BY DEF KeysFit, Ctrl
<1> QED BY <1>1, <1>2, <1>3, <1>4 DEF Ctrl

\* ENCRYPT and PREP_ENCRYPT take a copy of the recipients and of the keys.
LEMMA EncryptOperationFits ==
  ASSUME NEW k, Ready(k), NEW protocol \in Protocols,
         k.recipient_keys.prepared => protocol = k.selected_protocol
  PROVE  LET kk == [k EXCEPT !.channels = {"input", "output"}]
             o  == EncryptOperation("ENCRYPT", protocol, k)
         IN /\ kk \in Ctrl /\ o \in Op
            /\ o.command = "ENCRYPT" /\ o.phase \in {"dialog", "idle"}
            /\ kk.gpa_op = FALSE
            /\ StreamsOpen("live", kk, o) /\ KeysFit(kk, o)
<1> USE DEF Ready, EncryptOperation
<1>1. /\ [k EXCEPT !.channels = {"input", "output"}] \in Ctrl
      /\ EncryptOperation("ENCRYPT", protocol, k) \in Op
      /\ EncryptOperation("ENCRYPT", protocol, k).phase \in {"dialog", "idle"}
  BY DEF Ctrl, Op, StreamCommands, Phases, Channels
<1>2. StreamsOpen("live", [k EXCEPT !.channels = {"input", "output"}],
                  EncryptOperation("ENCRYPT", protocol, k))
  BY DEF StreamsOpen, StreamCommands, Ctrl, Channels
<1>3. KeysFit([k EXCEPT !.channels = {"input", "output"}],
              EncryptOperation("ENCRYPT", protocol, k))
  BY DEF KeysFit, Ctrl
<1> QED BY <1>1, <1>2, <1>3 DEF Ctrl

LEMMA PrepEncryptOperationFits ==
  ASSUME NEW k, Ready(k), NEW protocol \in Protocols \cup {Unknown},
         ~k.recipient_keys.prepared
  PROVE  LET kk == [k EXCEPT !.gpa_op = TRUE]
             o  == EncryptOperation("PREP_ENCRYPT", protocol, k)
         IN /\ kk \in Ctrl /\ o \in Op
            /\ o.command = "PREP_ENCRYPT" /\ o.phase = "dialog"
            /\ kk.gpa_op = TRUE
            /\ StreamsOpen("live", kk, o) /\ KeysFit(kk, o)
<1> USE DEF Ready, EncryptOperation
<1>1. /\ [k EXCEPT !.gpa_op = TRUE] \in Ctrl
      /\ EncryptOperation("PREP_ENCRYPT", protocol, k) \in Op
      /\ EncryptOperation("PREP_ENCRYPT", protocol, k).phase = "dialog"
  BY DEF Ctrl, Op, StreamCommands, Phases
<1>2. StreamsOpen("live", [k EXCEPT !.gpa_op = TRUE],
                  EncryptOperation("PREP_ENCRYPT", protocol, k))
  BY DEF StreamsOpen, StreamCommands, Ctrl
<1>3. KeysFit([k EXCEPT !.gpa_op = TRUE],
              EncryptOperation("PREP_ENCRYPT", protocol, k))
  BY DEF KeysFit, Ctrl
<1> QED BY <1>1, <1>2, <1>3 DEF Ctrl

\* Every command that may create an operation keeps the invariant.
LEMMA LaunchingCommandsStep ==
  ASSUME IInv, NEW c \in Conns,
         \/ cmd_encrypt(c) \/ cmd_prep_encrypt(c) \/ cmd_sign(c)
         \/ cmd_decrypt(c) \/ cmd_verify(c)
  PROVE  IInv'
<1>1. MayReceive(c)
  BY DEF cmd_encrypt, cmd_prep_encrypt, cmd_sign, cmd_decrypt, cmd_verify, Dispatched
<1>2. Ready(ctrl[c]) /\ ReadyAssuan(assuan[c])
  BY <1>1, ReceiveState
<1> DEFINE s == [sock[c] EXCEPT !.line = FALSE]
<1>3. s \in Sock
  BY DEF IInv, TypeOK, Sock
<1>4. sock' = [sock EXCEPT ![c] = s]
  BY DEF cmd_encrypt, cmd_prep_encrypt, cmd_sign, cmd_decrypt, cmd_verify, Dispatched
<1> HIDE DEF s
<1>5. ASSUME NEW k, Ready(k), Refuse(c, k)
      PROVE  IInv'
  BY <1>1, <1>3, <1>4, <1>5, RefuseStep
<1>6. ASSUME NEW command \in {"SIGN", "DECRYPT", "VERIFY"},
             NEW phase \in {"dialog", "idle"},
             NEW ch \in SUBSET Channels, ch # Channels, "input" \in ch,
             command # "VERIFY" => "output" \in ch,
             Launch(c, [ctrl[c] EXCEPT !.channels = ch], StreamOperation(command, phase))
      PROVE  IInv'
  <2> DEFINE kk == [ctrl[c] EXCEPT !.channels = ch]
             o  == StreamOperation(command, phase)
  <2>1. /\ kk \in Ctrl /\ o \in Op
        /\ o.command = command /\ o.phase = phase
        /\ kk.gpa_op = FALSE
        /\ StreamsOpen("live", kk, o) /\ KeysFit(kk, o)
    BY <1>2, <1>6, StreamOperationFits
  <2>2. /\ o.command \in StreamCommands
        /\ o.command = "PREP_ENCRYPT" => o.phase = "dialog"
        /\ kk.gpa_op = (o.command = "PREP_ENCRYPT")
    BY <2>1 DEF StreamCommands
  <2>3. Launch(c, kk, o)
    BY <1>6
  <2> HIDE DEF kk, o
  <2> QED BY <1>1, <1>3, <1>4, <2>1, <2>2, <2>3, LaunchStep
<1>7. ASSUME NEW k, Ready(k), NEW protocol \in Protocols,
             k.recipient_keys.prepared => protocol = k.selected_protocol,
             Launch(c, [k EXCEPT !.channels = {"input", "output"}],
                    EncryptOperation("ENCRYPT", protocol, k))
      PROVE  IInv'
  <2> DEFINE kk == [k EXCEPT !.channels = {"input", "output"}]
             o  == EncryptOperation("ENCRYPT", protocol, k)
  <2>1. /\ kk \in Ctrl /\ o \in Op
        /\ o.command = "ENCRYPT" /\ o.phase \in {"dialog", "idle"}
        /\ kk.gpa_op = FALSE
        /\ StreamsOpen("live", kk, o) /\ KeysFit(kk, o)
    BY <1>7, EncryptOperationFits
  <2>2. o.command \in StreamCommands
    BY <2>1 DEF StreamCommands
  <2>3. Launch(c, kk, o)
    BY <1>7
  <2> HIDE DEF kk, o
  <2> QED BY <1>1, <1>3, <1>4, <2>1, <2>2, <2>3, LaunchStep
<1>8. CASE cmd_encrypt(c)
  <2>1. PICK option \in ProtocolOptions :
          IF option \notin Protocols
          THEN Refuse(c, ctrl[c])
          ELSE LET k == IF option = ctrl[c].selected_protocol
                        THEN ctrl[c]
                        ELSE reset_prepared_keys(ctrl[c])
               IN \/ Refuse(c, k)
                  \/ /\ InputAndOutput(c)
                     /\ Launch(c, [k EXCEPT !.channels = {"input", "output"}],
                               EncryptOperation("ENCRYPT", option, k))
    BY <1>8 DEF cmd_encrypt
  <2> DEFINE k == IF option = ctrl[c].selected_protocol
                  THEN ctrl[c] ELSE reset_prepared_keys(ctrl[c])
  <2>2. CASE option \notin Protocols
    BY <1>2, <1>5, <2>1, <2>2
  <2>3. CASE option \in Protocols
    <3>1. Ready(k)
      BY <1>2, ReadyAgain
    <3>2. k.recipient_keys.prepared => option = k.selected_protocol
      <4>1. CASE option = ctrl[c].selected_protocol
        BY <4>1
      <4>2. CASE option # ctrl[c].selected_protocol
        <5>1. k.recipient_keys = NoKeys
          BY <1>2, <4>2 DEF Ready, reset_prepared_keys, Ctrl
        <5> QED BY <5>1 DEF NoKeys
      <4> QED BY <4>1, <4>2
    <3>3. \/ Refuse(c, k)
          \/ Launch(c, [k EXCEPT !.channels = {"input", "output"}],
                    EncryptOperation("ENCRYPT", option, k))
      BY <2>1, <2>3
    <3> HIDE DEF k
    <3>4. CASE Refuse(c, k)
      BY <1>5, <3>1, <3>4
    <3>5. CASE Launch(c, [k EXCEPT !.channels = {"input", "output"}],
                      EncryptOperation("ENCRYPT", option, k))
      BY <1>7, <2>3, <3>1, <3>2, <3>5
    <3> QED BY <3>3, <3>4, <3>5
  <2> QED BY <2>2, <2>3
<1>9. CASE cmd_prep_encrypt(c)
  <2>1. CASE Answer(c, ctrl[c], assuan[c], "ERR") /\ UNCHANGED shutdown_pending
    BY <1>1, <1>2, <1>3, <1>4, <2>1, AnswerStep
  <2>2. CASE \E option \in ProtocolOptions \ {"invalid"} :
               LET k == reset_prepared_keys(ctrl[c])
               IN Launch(c, [k EXCEPT !.gpa_op = TRUE],
                         EncryptOperation("PREP_ENCRYPT", ParsedProtocol(option), k))
    <3> DEFINE k == reset_prepared_keys(ctrl[c])
    <3>1. PICK option \in ProtocolOptions \ {"invalid"} :
            Launch(c, [k EXCEPT !.gpa_op = TRUE],
                   EncryptOperation("PREP_ENCRYPT", ParsedProtocol(option), k))
      BY <2>2
    <3>2. ParsedProtocol(option) \in Protocols \cup {Unknown}
      BY DEF ParsedProtocol
    <3>3. Ready(k) /\ ~k.recipient_keys.prepared
      BY <1>2, ReadyAgain DEF Ready, reset_prepared_keys, Ctrl, NoKeys
    <3> HIDE DEF k
    <3> DEFINE kk == [k EXCEPT !.gpa_op = TRUE]
               o  == EncryptOperation("PREP_ENCRYPT", ParsedProtocol(option), k)
    <3>4. /\ kk \in Ctrl /\ o \in Op
          /\ o.command = "PREP_ENCRYPT" /\ o.phase = "dialog"
          /\ kk.gpa_op = TRUE
          /\ StreamsOpen("live", kk, o) /\ KeysFit(kk, o)
      BY <3>2, <3>3, PrepEncryptOperationFits
    <3>5. o.command \in StreamCommands
      BY <3>4 DEF StreamCommands
    <3>6. Launch(c, kk, o)
      BY <3>1
    <3> HIDE DEF kk, o
    <3> QED BY <1>1, <1>3, <1>4, <3>4, <3>5, <3>6, LaunchStep
  <2> QED BY <1>9, <2>1, <2>2 DEF cmd_prep_encrypt
<1>10. CASE cmd_sign(c)
  <2>1. CASE Refuse(c, ctrl[c])
    BY <1>2, <1>5, <2>1
  <2>2. CASE Launch(c, [ctrl[c] EXCEPT !.channels = {"input", "output"}],
                    StreamOperation("SIGN", "dialog"))
    <3>1. /\ {"input", "output"} \in SUBSET Channels
          /\ {"input", "output"} # Channels
      BY DEF Channels
    <3> QED BY <1>6, <2>2, <3>1
  <2> QED BY <1>10, <2>1, <2>2 DEF cmd_sign
<1>11. CASE cmd_decrypt(c)
  <2>1. CASE Refuse(c, ctrl[c])
    BY <1>2, <1>5, <2>1
  <2>2. CASE Launch(c, [ctrl[c] EXCEPT !.channels = {"input", "output"}],
                    StreamOperation("DECRYPT", "idle"))
    <3>1. /\ {"input", "output"} \in SUBSET Channels
          /\ {"input", "output"} # Channels
      BY DEF Channels
    <3> QED BY <1>6, <2>2, <3>1
  <2> QED BY <1>11, <2>1, <2>2 DEF cmd_decrypt
<1>12. CASE cmd_verify(c)
  <2>1. CASE Refuse(c, ctrl[c])
    BY <1>2, <1>5, <2>1
  <2>2. CASE /\ ~(ctrl[c].message_fd /\ assuan[c].output_fd)
             /\ Launch(c, [ctrl[c] EXCEPT !.channels = VerifyStreams(c)],
                       StreamOperation("VERIFY", "idle"))
    <3>1. /\ VerifyStreams(c) \in SUBSET Channels
          /\ VerifyStreams(c) # Channels /\ "input" \in VerifyStreams(c)
      BY <2>2 DEF VerifyStreams, Channels
    <3> QED BY <1>6, <2>2, <3>1
  <2> QED BY <1>12, <2>1, <2>2 DEF cmd_verify
<1> QED BY <1>8, <1>9, <1>10, <1>11, <1>12

-----------------------------------------------------------------------------
(* The end of an operation *)

\* What a continuation leaves behind is a state between two commands.  The
\* operation that completes may have chosen keys and a protocol that are
\* handed over by PREP_ENCRYPT only.
Handover(k, o, code) ==
  k.cont_cmd = "PREP_ENCRYPT" /\ code = "OK" =>
    /\ o.keys \in KeyArrays /\ o.protocol \in Protocols
    /\ o.keys.prepared = TRUE
    /\ o.keys.for = k.recipients

LEMMA ContinuationReady ==
  ASSUME NEW k \in Ctrl, NEW code \in {"OK", "ERR"}, NEW o, Handover(k, o, code),
         k.cont_cmd \in StreamCommands,
         k.gpa_op = (k.cont_cmd = "PREP_ENCRYPT"),
         k.cont_cmd = "PREP_ENCRYPT" => k.channels = {},
         k.recipients # {} /\ k.recipient_keys.prepared
           => k.recipient_keys.for = k.recipients,
         k.recipient_keys.prepared = (k.selected_protocol # Unknown)
  PROVE  LET kk == [k EXCEPT !.cont_cmd = "none"]
         IN Ready(CASE k.cont_cmd = "ENCRYPT"      -> cont_encrypt(kk, code)
                    [] k.cont_cmd = "PREP_ENCRYPT" -> cont_prep_encrypt(kk, o, code)
                    [] k.cont_cmd = "SIGN"         -> cont_sign(kk, code)
                    [] k.cont_cmd = "DECRYPT"      -> cont_decrypt(kk)
                    [] k.cont_cmd = "VERIFY"       -> cont_verify(kk)
                    [] OTHER                       -> kk)
<1> DEFINE kk == [k EXCEPT !.cont_cmd = "none"]
<1>1. /\ kk \in Ctrl /\ kk.cont_cmd = "none"
      /\ kk.gpa_op = k.gpa_op /\ kk.channels = k.channels
      /\ kk.recipients = k.recipients
      /\ kk.recipient_keys = k.recipient_keys
      /\ kk.selected_protocol = k.selected_protocol
  BY DEF Ctrl
<1> HIDE DEF kk
<1>2. CASE k.cont_cmd = "PREP_ENCRYPT"
  <2>1. Ready(cont_prep_encrypt(kk, o, code))
    <3>1. CASE code = "OK"
      BY <1>1, <1>2, <3>1
         DEF Ready, cont_prep_encrypt, Handover, Ctrl, Protocols, Unknown
    <3>2. CASE code # "OK"
      BY <1>1, <1>2, <3>2 DEF Ready, cont_prep_encrypt, Ctrl
    <3> QED BY <3>1, <3>2
  <2> QED BY <1>2, <2>1 DEF kk
<1>3. CASE k.cont_cmd # "PREP_ENCRYPT"
  <2>1. Ready(finish_io_streams(kk))
    BY <1>1, <1>3 DEF Ready, finish_io_streams, Ctrl
  <2>2. /\ Ready(release_recipients(finish_io_streams(kk)))
        /\ Ready([finish_io_streams(kk) EXCEPT !.sender = FALSE])
    BY <2>1 DEF Ready, release_recipients, Ctrl
  <2>3. k.cont_cmd \in {"ENCRYPT", "SIGN", "DECRYPT", "VERIFY"}
    BY <1>3 DEF StreamCommands
  <2> QED BY <2>1, <2>2, <2>3
          DEF kk, cont_encrypt, cont_sign, cont_decrypt, cont_verify
<1> QED BY <1>2, <1>3

\* The signal "completed" leaves the slot between two commands.
LEMMA CompletedSlot ==
  ASSUME IInv, NEW c \in Conns, op[c].command # "none",
         NEW code \in {"OK", "ERR"}, NEW o, Handover(ctrl[c], o, code),
         completed(c, o, code)
  PROVE  \E k \in Ctrl, a \in Assuan :
           /\ Consistent(conn[c], k, a, NoOp)
           /\ conn' = conn
           /\ sock' = [sock EXCEPT ![c] = sock[c]]
           /\ ctrl' = [ctrl EXCEPT ![c] = k]
           /\ assuan' = [assuan EXCEPT ![c] = a]
           /\ op' = [op EXCEPT ![c] = NoOp]
           /\ UNCHANGED <<connection_counter, shutdown_pending, quit>>
<1>1. /\ ctrl[c] \in Ctrl /\ assuan[c] \in Assuan /\ op[c] \in Op
      /\ Matched(ctrl[c], assuan[c], op[c])
      /\ StreamsOpen(conn[c], ctrl[c], op[c]) /\ KeysFit(ctrl[c], op[c])
  BY DEF IInv, TypeOK, EverySlotConsistent, Consistent
<1>2. /\ ctrl[c].cont_cmd \in StreamCommands
      /\ ctrl[c].gpa_op = (ctrl[c].cont_cmd = "PREP_ENCRYPT")
  BY <1>1 DEF Matched, Ctrl
<1>3. ctrl[c].cont_cmd = "PREP_ENCRYPT" => ctrl[c].channels = {}
  BY <1>1 DEF Matched, StreamsOpen
<1>4. /\ ctrl[c].recipients # {} /\ ctrl[c].recipient_keys.prepared
           => ctrl[c].recipient_keys.for = ctrl[c].recipients
      /\ ctrl[c].recipient_keys.prepared = (ctrl[c].selected_protocol # Unknown)
  BY <1>1 DEF KeysFit
<1> DEFINE kk == [ctrl[c] EXCEPT !.cont_cmd = "none"]
           k == CASE ctrl[c].cont_cmd = "ENCRYPT" -> cont_encrypt(kk, code)
                  [] ctrl[c].cont_cmd = "PREP_ENCRYPT" -> cont_prep_encrypt(kk, o, code)
                  [] ctrl[c].cont_cmd = "SIGN" -> cont_sign(kk, code)
                  [] ctrl[c].cont_cmd = "DECRYPT" -> cont_decrypt(kk)
                  [] ctrl[c].cont_cmd = "VERIFY" -> cont_verify(kk)
                  [] OTHER -> kk
           a == process_done(IF ctrl[c].cont_cmd = "PREP_ENCRYPT"
                             THEN assuan[c] ELSE CloseInputOutput(assuan[c]), code)
<1>5. Ready(k)
  BY <1>1, <1>2, <1>3, <1>4, ContinuationReady
<1>6. a \in Assuan /\ a.command = "none"
  BY <1>1 DEF process_done, CloseInputOutput, Assuan
<1>7. /\ ctrl' = [ctrl EXCEPT ![c] = k]
      /\ assuan' = [assuan EXCEPT ![c] = a]
  BY DEF completed, run_server_continuation
<1>8. /\ conn' = conn
      /\ sock' = [sock EXCEPT ![c] = sock[c]]
      /\ op' = [op EXCEPT ![c] = NoOp]
      /\ UNCHANGED <<connection_counter, shutdown_pending, quit>>
  BY DEF completed, IInv, TypeOK
<1> HIDE DEF k, a
<1>9. Consistent(conn[c], k, a, NoOp)
  BY <1>5, <1>6 DEF Ready, Consistent, Matched, StreamsOpen, KeysFit, NoOp, StreamCommands
<1> QED BY <1>5, <1>6, <1>7, <1>8, <1>9 DEF Ready

LEMMA CompletedStep ==
  ASSUME IInv, NEW c \in Conns, ~quit,
         op[c].command # "none", op[c].phase # "warning",
         NEW code \in {"OK", "ERR"}, NEW o, Handover(ctrl[c], o, code),
         completed(c, o, code), modal' = modal
  PROVE  IInv'
<1>1. PICK k \in Ctrl, a \in Assuan :
        /\ Consistent(conn[c], k, a, NoOp)
        /\ conn' = conn
        /\ sock' = [sock EXCEPT ![c] = sock[c]]
        /\ ctrl' = [ctrl EXCEPT ![c] = k]
        /\ assuan' = [assuan EXCEPT ![c] = a]
        /\ op' = [op EXCEPT ![c] = NoOp]
        /\ UNCHANGED <<connection_counter, shutdown_pending, quit>>
  BY CompletedSlot
<1>2. NoOp \in Op /\ NoOp.phase # "warning" /\ sock[c] \in Sock
  BY InitialTypes DEF NoOp, IInv, TypeOK
<1>3. shutdown_pending' \in BOOLEAN
  BY <1>1 DEF IInv, TypeOK
<1> QED BY <1>1, <1>2, <1>3, QuietStep

\* The operation moves on, and the connection does not notice.
LEMMA ProceedStep ==
  ASSUME IInv, NEW c \in Conns, ~quit, op[c].phase # "warning",
         NEW o \in Op, o.phase # "warning",
         Consistent(conn[c], ctrl[c], assuan[c], o),
         proceed(c, o)
  PROVE  IInv'
<1>1. /\ sock[c] \in Sock /\ ctrl[c] \in Ctrl /\ assuan[c] \in Assuan
      /\ conn' = conn /\ modal' = modal
      /\ sock' = [sock EXCEPT ![c] = sock[c]]
      /\ ctrl' = [ctrl EXCEPT ![c] = ctrl[c]]
      /\ assuan' = [assuan EXCEPT ![c] = assuan[c]]
      /\ op' = [op EXCEPT ![c] = o]
      /\ UNCHANGED <<connection_counter, quit>>
      /\ shutdown_pending' \in BOOLEAN /\ shutdown_pending' = shutdown_pending
  BY DEF proceed, IInv, TypeOK
<1> QED BY <1>1, QuietStep

-----------------------------------------------------------------------------
(* Message boxes *)

\* A step that only writes operations and the stack keeps the counter honest.
LEMMA ShutdownUntouched ==
  ASSUME ContextsAreCounted,
         UNCHANGED <<conn, connection_counter, shutdown_pending, quit>>
  PROVE  ContextsAreCounted'
BY DEF ContextsAreCounted, Live

LEMMA WarningStep ==
  ASSUME IInv, NEW c \in Conns, ~quit, conn[c] = "live", op[c].phase # "warning",
         NEW o \in Op,
         Consistent(conn[c], ctrl[c], assuan[c], [o EXCEPT !.phase = "warning"]),
         show_warning(c, o)
  PROVE  IInv'
<1> DEFINE w == [o EXCEPT !.phase = "warning"]
<1>1. w \in Op /\ w.phase = "warning"
  BY DEF Op, Phases
<1>2. /\ conn[c] \in ConnStates /\ sock[c] \in Sock
      /\ ctrl[c] \in Ctrl /\ assuan[c] \in Assuan
      /\ conn' = [conn EXCEPT ![c] = conn[c]]
      /\ sock' = [sock EXCEPT ![c] = sock[c]]
      /\ ctrl' = [ctrl EXCEPT ![c] = ctrl[c]]
      /\ assuan' = [assuan EXCEPT ![c] = assuan[c]]
      /\ op' = [op EXCEPT ![c] = w]
      /\ conn' = conn
      /\ modal' = Append(modal, c)
      /\ UNCHANGED <<connection_counter, shutdown_pending, quit>>
  BY DEF show_warning, IInv, TypeOK, ConnStates
<1> HIDE DEF w
<1>3. /\ conn' \in [Conns -> ConnStates]
      /\ sock' \in [Conns -> Sock]
      /\ assuan' \in [Conns -> Assuan]
      /\ ctrl' \in [Conns -> Ctrl]
      /\ op' \in [Conns -> Op]
      /\ EverySlotConsistent'
  <2>1. Consistent(conn[c], ctrl[c], assuan[c], w)
    BY DEF w
  <2> QED BY <1>1, <1>2, <2>1, SlotStep DEF IInv
<1>4. modal \in Seq(Conns)
  BY DEF IInv, TypeOK
<1>5. /\ modal' \in Seq(Conns)
      /\ Len(modal') = Len(modal) + 1
      /\ modal'[Len(modal) + 1] = c
      /\ \A i \in 1..Len(modal) : modal'[i] = modal[i]
  BY <1>2, <1>4, AppendProperties
<1>6. TypeOK'
  BY <1>2, <1>3, <1>5 DEF IInv, TypeOK, ConnStates
<1>7. \A i \in 1..Len(modal) : modal[i] # c
  BY DEF IInv, CallbacksInModalOwnTheirConnection, InModal
<1>8. CallbacksInModalOwnTheirConnection'
  <2>1. \A i \in 1..Len(modal') : conn'[modal'[i]] = "live"
    BY <1>2, <1>4, <1>5 DEF IInv, CallbacksInModalOwnTheirConnection
  <2>2. \A i, j \in 1..Len(modal') : modal'[i] = modal'[j] => i = j
    BY <1>4, <1>5, <1>7 DEF IInv, CallbacksInModalOwnTheirConnection
  <2>3. ASSUME NEW d \in Conns
        PROVE  InModal(d)' = (op'[d].phase = "warning")
    <3>1. CASE d = c
      <4>1. InModal(d)'
        BY <1>4, <1>5, <3>1 DEF InModal
      <4>2. op'[d].phase = "warning"
        BY <1>1, <1>2, <3>1 DEF IInv, TypeOK
      <4> QED BY <4>1, <4>2
    <3>2. CASE d # c
      <4>1. InModal(d)' <=> InModal(d)
        BY <1>4, <1>5, <3>2 DEF InModal
      <4>2. op'[d] = op[d]
        BY <1>2, <3>2 DEF IInv, TypeOK
      <4>3. InModal(d) = (op[d].phase = "warning")
        BY DEF IInv, CallbacksInModalOwnTheirConnection
      <4> QED BY <4>1, <4>2, <4>3 DEF InModal
    <3> QED BY <3>1, <3>2
  <2> QED BY <2>1, <2>2, <2>3 DEF CallbacksInModalOwnTheirConnection
<1> QED BY <1>2, <1>3, <1>6, <1>8, ShutdownUntouched DEF IInv

LEMMA DismissedStep ==
  ASSUME IInv, NEW c \in Conns, warning_dismissed(c)
  PROVE  IInv'
<1>1. /\ modal \in Seq(Conns) /\ Len(modal) \in Nat /\ Len(modal) # 0
      /\ modal[Len(modal)] = c
  BY EmptySeq DEF warning_dismissed, IInv, TypeOK
<1> DEFINE n == Len(modal) - 1
<1>2. /\ modal' \in Seq(Conns) /\ Len(modal') = n
      /\ \A i \in 1..n : modal'[i] = modal[i]
      /\ n \in Nat /\ n + 1 = Len(modal)
  <2>1. n \in Nat /\ n + 1 = Len(modal)
    BY <1>1
  <2>2. \A i \in 1..n : modal[i] \in Conns
    BY <1>1, <2>1, ElementOfSeq
  <2>3. /\ SubSeq(modal, 1, n) \in Seq(Conns)
        /\ Len(SubSeq(modal, 1, n)) = n
        /\ \A i \in 1..n : SubSeq(modal, 1, n)[i] = modal[i]
    BY <2>1, <2>2, SubSeqProperties
  <2> QED BY <2>1, <2>3 DEF warning_dismissed
<1>3. InModal(c)
  BY <1>1 DEF InModal
<1>4. op[c].phase = "warning" /\ op[c].command # "none"
  BY <1>3 DEF IInv, CallbacksInModalOwnTheirConnection, EverySlotConsistent,
              Consistent, Matched
<1>5. Handover(ctrl[c], op[c], "ERR")
  BY DEF Handover
<1>6. PICK k \in Ctrl, a \in Assuan :
        /\ Consistent(conn[c], k, a, NoOp)
        /\ conn' = conn
        /\ sock' = [sock EXCEPT ![c] = sock[c]]
        /\ ctrl' = [ctrl EXCEPT ![c] = k]
        /\ assuan' = [assuan EXCEPT ![c] = a]
        /\ op' = [op EXCEPT ![c] = NoOp]
        /\ UNCHANGED <<connection_counter, shutdown_pending, quit>>
  BY <1>4, <1>5, CompletedSlot DEF warning_dismissed
<1>7. /\ conn[c] \in ConnStates /\ sock[c] \in Sock
      /\ conn' = [conn EXCEPT ![c] = conn[c]]
      /\ NoOp \in Op /\ NoOp.phase = "none"
  BY <1>6, InitialTypes DEF NoOp, IInv, TypeOK, ConnStates
<1>8. /\ conn' \in [Conns -> ConnStates]
      /\ sock' \in [Conns -> Sock]
      /\ assuan' \in [Conns -> Assuan]
      /\ ctrl' \in [Conns -> Ctrl]
      /\ op' \in [Conns -> Op]
      /\ EverySlotConsistent'
  BY <1>6, <1>7, SlotStep DEF IInv
<1>9. TypeOK'
  BY <1>2, <1>6, <1>8 DEF IInv, TypeOK, ConnStates
<1>10. CallbacksInModalOwnTheirConnection'
  <2> USE DEF CallbacksInModalOwnTheirConnection
  <2>1. \A i \in 1..n : conn'[modal'[i]] = "live"
    BY <1>2, <1>6 DEF IInv
  <2>2. \A i, j \in 1..n : modal'[i] = modal'[j] => i = j
    BY <1>2 DEF IInv
  <2>3. \A i \in 1..n : modal[i] # c
    BY <1>1, <1>2 DEF IInv
  <2>4. ASSUME NEW d \in Conns
        PROVE  InModal(d)' = (op'[d].phase = "warning")
    <3>1. CASE d = c
      <4>1. ~InModal(d)'
        BY <1>2, <2>3, <3>1 DEF InModal
      <4>2. op'[d].phase # "warning"
        BY <1>6, <1>7, <3>1 DEF IInv, TypeOK
      <4> QED BY <4>1, <4>2 DEF InModal
    <3>2. CASE d # c
      <4>1. InModal(d)' <=> InModal(d)
        BY <1>1, <1>2, <3>2 DEF InModal
      <4>2. op'[d] = op[d]
        BY <1>6, <3>2 DEF IInv, TypeOK
      <4>3. InModal(d) = (op[d].phase = "warning")
        BY DEF IInv
      <4> QED BY <4>1, <4>2, <4>3 DEF InModal
    <3> QED BY <3>1, <3>2
  <2> QED BY <1>2, <2>1, <2>2, <2>4
<1> QED BY <1>6, <1>8, <1>9, <1>10, ShutdownUntouched DEF IInv

-----------------------------------------------------------------------------
(* Stream operations *)

LEMMA OperationState ==
  ASSUME IInv, NEW c \in Conns, op[c].phase # "none"
  PROVE  /\ op[c] \in Op /\ ctrl[c] \in Ctrl
         /\ conn[c] = "live"
         /\ op[c].command # "none" /\ op[c].command \in StreamCommands
         /\ ctrl[c].cont_cmd = op[c].command
         /\ Consistent(conn[c], ctrl[c], assuan[c], op[c])
BY DEF IInv, TypeOK, EverySlotConsistent, Consistent, Matched, StreamsOpen, Op

\* An operation that is not PREP_ENCRYPT may move to any phase but "none" and
\* "idle" and still fit its connection.
LEMMA PhaseFits ==
  ASSUME NEW n, NEW k, NEW a, NEW o \in Op, Consistent(n, k, a, o),
         o.command \notin {"none", "PREP_ENCRYPT"},
         NEW phase \in {"dialog", "running", "warning", "result"}
  PROVE  /\ [o EXCEPT !.phase = phase] \in Op
         /\ Consistent(n, k, a, [o EXCEPT !.phase = phase])
<1>1. /\ [o EXCEPT !.phase = phase] \in Op
      /\ Matched(k, a, [o EXCEPT !.phase = phase])
  BY DEF Consistent, Matched, Op, Phases
<1>2. StreamsOpen(n, k, [o EXCEPT !.phase = phase])
  BY DEF Consistent, StreamsOpen, Op
<1>3. KeysFit(k, [o EXCEPT !.phase = phase])
  BY DEF Consistent, KeysFit, Op
<1> QED BY <1>1, <1>2, <1>3 DEF Consistent

\* The three ways a callback of a started operation may go on.
LEMMA OperationStep ==
  ASSUME IInv, NEW c \in Conns, ~quit,
         op[c].phase \notin {"none", "warning"},
         NEW o \in Op, o.command = op[c].command,
         Consistent(conn[c], ctrl[c], assuan[c], o),
         \/ /\ \E code \in {"OK", "ERR"} :
                 Handover(ctrl[c], o, code) /\ completed(c, o, code)
            /\ UNCHANGED modal
         \/ /\ op[c].command # "PREP_ENCRYPT"
            /\ \/ show_warning(c, o)
               \/ \E phase \in {"running", "result"} :
                    proceed(c, [o EXCEPT !.phase = phase])
  PROVE  IInv'
<1>1. /\ conn[c] = "live" /\ op[c].command # "none"
  BY OperationState
<1>2. CASE /\ \E code \in {"OK", "ERR"} :
                Handover(ctrl[c], o, code) /\ completed(c, o, code)
           /\ UNCHANGED modal
  BY <1>1, <1>2, CompletedStep
<1>3. CASE op[c].command # "PREP_ENCRYPT" /\ show_warning(c, o)
  <2>1. Consistent(conn[c], ctrl[c], assuan[c], [o EXCEPT !.phase = "warning"])
    BY <1>1, <1>3, PhaseFits
  <2> QED BY <1>1, <1>3, <2>1, WarningStep
<1>4. CASE /\ op[c].command # "PREP_ENCRYPT"
           /\ \E phase \in {"running", "result"} :
                proceed(c, [o EXCEPT !.phase = phase])
  <2>1. PICK phase \in {"running", "result"} : proceed(c, [o EXCEPT !.phase = phase])
    BY <1>4
  <2> DEFINE p == [o EXCEPT !.phase = phase]
  <2>2. p \in Op /\ Consistent(conn[c], ctrl[c], assuan[c], p) /\ p.phase # "warning"
    BY <1>1, <1>4, PhaseFits DEF Op
  <2>3. proceed(c, p)
    BY <2>1
  <2> HIDE DEF p
  <2> QED BY <2>2, <2>3, ProceedStep
<1> QED BY <1>2, <1>3, <1>4

\* start_encryption, from the dialog with the keys just chosen (o differs from
\* op[c] in keys and protocol) or from the idle callback with prepared keys.
LEMMA StartEncryptionStep ==
  ASSUME IInv, NEW c \in Conns, ~quit,
         op[c].phase \in {"dialog", "idle"},
         NEW o \in Op, o.command = op[c].command,
         o.command \in {"ENCRYPT", "PREP_ENCRYPT"},
         Consistent(conn[c], ctrl[c], assuan[c], o),
         o.command = "PREP_ENCRYPT"
           => o.keys.prepared = TRUE /\ o.keys.for = ctrl[c].recipients,
         start_encryption(c, o)
  PROVE  IInv'
<1>1. Handover(ctrl[c], o, "ERR")
  BY DEF Handover
<1>2. o.protocol # Unknown /\ o.command = "PREP_ENCRYPT" => Handover(ctrl[c], o, "OK")
  BY OperationState DEF Handover, Op
<1>3. CASE completed(c, o, "ERR") /\ UNCHANGED modal
  BY <1>1, <1>3, OperationStep
<1>4. CASE /\ o.protocol # Unknown /\ o.command = "PREP_ENCRYPT"
           /\ completed(c, o, "OK") /\ UNCHANGED modal
  BY <1>2, <1>4, OperationStep
<1>5. CASE /\ o.command = "ENCRYPT"
           /\ \/ show_warning(c, o)
              \/ proceed(c, [o EXCEPT !.phase = "running"])
  BY <1>5, OperationStep
<1> QED BY <1>3, <1>4, <1>5 DEF start_encryption

\* The keys chosen in the dialog fit the connection.
LEMMA ChosenKeysFit ==
  ASSUME IInv, NEW c \in Conns, op[c].phase = "dialog",
         op[c].command \in {"ENCRYPT", "PREP_ENCRYPT"},
         NEW protocol \in Protocols \cup {Unknown}, NEW o,
         o = [op[c] EXCEPT !.keys = KeysFor(op[c].recipients), !.protocol = protocol]
  PROVE  /\ o \in Op /\ o.command = op[c].command
         /\ Consistent(conn[c], ctrl[c], assuan[c], o)
         /\ o.keys.prepared = TRUE /\ o.keys.for = ctrl[c].recipients
<1>1. op[c] \in Op /\ Consistent(conn[c], ctrl[c], assuan[c], op[c])
  BY OperationState
<1>2. /\ o \in Op
      /\ o.command = op[c].command /\ o.phase = op[c].phase
      /\ o.recipients = op[c].recipients
      /\ o.keys = KeysFor(op[c].recipients)
  BY <1>1, KeyArrayTypes DEF Op
<1>3. o.keys.prepared = TRUE /\ o.keys.for = ctrl[c].recipients
  BY <1>1, <1>2 DEF KeysFor, Consistent, KeysFit
<1>4. Matched(ctrl[c], assuan[c], o) /\ StreamsOpen(conn[c], ctrl[c], o)
  BY <1>1, <1>2 DEF Consistent, Matched, StreamsOpen
<1>5. KeysFit(ctrl[c], o)
  BY <1>1, <1>2, <1>3 DEF Consistent, KeysFit
<1> QED BY <1>2, <1>3, <1>4, <1>5 DEF Consistent

LEMMA EncryptResponseStep ==
  ASSUME IInv, NEW c \in Conns, encrypt_response_cb(c)
  PROVE  IInv'
<1>1. /\ ~quit /\ op[c].phase = "dialog"
      /\ op[c].command \in {"ENCRYPT", "PREP_ENCRYPT"}
  BY DEF encrypt_response_cb, DialogOpen
<1>2. op[c] \in Op /\ Consistent(conn[c], ctrl[c], assuan[c], op[c])
  BY <1>1, OperationState
<1>3. CASE completed(c, op[c], "ERR") /\ UNCHANGED modal
  <2>1. Handover(ctrl[c], op[c], "ERR")
    BY DEF Handover
  <2> QED BY <1>1, <1>2, <1>3, <2>1, OperationStep
<1>4. ASSUME NEW protocol \in Protocols \cup {Unknown}, NEW o,
             o = [op[c] EXCEPT !.keys = KeysFor(op[c].recipients),
                               !.protocol = protocol],
             start_encryption(c, o)
      PROVE  IInv'
  <2>1. /\ o \in Op /\ o.command = op[c].command
        /\ Consistent(conn[c], ctrl[c], assuan[c], o)
        /\ o.keys.prepared = TRUE /\ o.keys.for = ctrl[c].recipients
    BY <1>1, <1>2, <1>4, ChosenKeysFit
  <2> QED BY <1>1, <1>4, <2>1, StartEncryptionStep
<1>5. \A protocol \in IF op[c].recipients = {} THEN {op[c].protocol} ELSE Protocols :
        protocol \in Protocols \cup {Unknown}
  BY <1>2 DEF Op
<1> QED BY <1>3, <1>4, <1>5 DEF encrypt_response_cb

LEMMA IdleStep ==
  ASSUME IInv, NEW c \in Conns, idle_cb(c)
  PROVE  IInv'
<1>1. ~quit /\ op[c].phase = "idle"
  BY DEF idle_cb
<1>2. /\ op[c] \in Op /\ Consistent(conn[c], ctrl[c], assuan[c], op[c])
      /\ op[c].command # "PREP_ENCRYPT"
  BY <1>1, OperationState DEF Consistent, Matched
<1>3. CASE op[c].command = "ENCRYPT" /\ start_encryption(c, op[c])
  BY <1>1, <1>2, <1>3, StartEncryptionStep
<1>4. CASE \/ show_warning(c, op[c])
           \/ proceed(c, [op[c] EXCEPT !.phase = "running"])
  BY <1>1, <1>2, <1>4, OperationStep
<1> QED BY <1>3, <1>4 DEF idle_cb

\* Every other callback of an operation keeps the invariant.
LEMMA OperationCallbacksStep ==
  ASSUME IInv, NEW c \in Conns,
         \/ sign_response_cb(c) \/ result_response_cb(c)
         \/ done_error_cb(c) \/ done_cb(c)
  PROVE  IInv'
<1>1. ~quit /\ op[c].phase \in {"dialog", "running", "result"}
  BY DEF sign_response_cb, result_response_cb, DialogOpen, done_error_cb, done_cb
<1>2. op[c] \in Op /\ Consistent(conn[c], ctrl[c], assuan[c], op[c])
  BY <1>1, OperationState
<1>3. op[c].command # "PREP_ENCRYPT" /\ ctrl[c].cont_cmd # "PREP_ENCRYPT"
  <2>1. op[c].command = "PREP_ENCRYPT" => op[c].phase = "dialog"
    BY <1>2 DEF Consistent, Matched
  <2>2. op[c].phase = "dialog" => op[c].command = "SIGN"
    BY DEF sign_response_cb, result_response_cb, DialogOpen, done_error_cb, done_cb
  <2> QED BY <1>1, <2>1, <2>2, OperationState
<1>4. \A code \in {"OK", "ERR"} : Handover(ctrl[c], op[c], code)
  BY <1>3 DEF Handover
<1>5. ASSUME NEW code \in {"OK", "ERR"}, completed(c, op[c], code), UNCHANGED modal
      PROVE  IInv'
  BY <1>1, <1>2, <1>4, <1>5, OperationStep
<1>6. ASSUME \/ show_warning(c, op[c])
             \/ \E phase \in {"running", "result"} :
                  proceed(c, [op[c] EXCEPT !.phase = phase])
      PROVE  IInv'
  BY <1>1, <1>2, <1>3, <1>6, OperationStep
<1>7. CASE sign_response_cb(c)
  BY <1>5, <1>6, <1>7 DEF sign_response_cb
<1>8. CASE result_response_cb(c)
  BY <1>5, <1>8 DEF result_response_cb
<1>9. CASE done_error_cb(c)
  BY <1>5, <1>6, <1>9 DEF done_error_cb
<1>10. CASE done_cb(c)
  BY <1>5, <1>6, <1>10 DEF done_cb
<1> QED BY <1>7, <1>8, <1>9, <1>10

-----------------------------------------------------------------------------
(* Clients *)

LEMMA ClientStep ==
  ASSUME IInv, NEW c \in Conns, SendLine(c) \/ HangUp(c)
  PROVE  IInv'
<1>1. sock' \in [Conns -> Sock]
  BY DEF SendLine, HangUp, Sock, IInv, TypeOK
<1>2. UNCHANGED <<conn, assuan, ctrl, op, modal, connection_counter,
                  shutdown_pending, quit>>
  BY DEF SendLine, HangUp
<1>3. TypeOK' /\ EverySlotConsistent'
  BY <1>1, <1>2 DEF IInv, TypeOK, EverySlotConsistent
<1>4. CallbacksInModalOwnTheirConnection'
  BY <1>2 DEF IInv, CallbacksInModalOwnTheirConnection, InModal
<1> QED BY <1>2, <1>3, <1>4, ShutdownUntouched DEF IInv

-----------------------------------------------------------------------------
(* The theorems *)

LEMMA InitIInv ==
  Init => IInv
<1> SUFFICES ASSUME Init PROVE IInv
  OBVIOUS
<1> USE DEF Init
<1>1. TypeOK
  BY InitialTypes, EmptySeq DEF TypeOK
<1>2. EverySlotConsistent
  BY NewSlotConsistent DEF EverySlotConsistent, ConnStates
<1>3. CallbacksInModalOwnTheirConnection
  <2>1. 1..Len(modal) = {}
    OBVIOUS
  <2>2. \A c \in Conns : ~InModal(c) /\ op[c].phase # "warning"
    BY <2>1 DEF InModal, NoOp
  <2> QED BY <2>1, <2>2 DEF CallbacksInModalOwnTheirConnection, InModal
<1>4. ContextsAreCounted
  <2>1. {c \in Conns : conn[c] # "free"} = {}
    OBVIOUS
  <2> QED BY <2>1, FS_EmptySet DEF ContextsAreCounted
<1> QED BY <1>1, <1>2, <1>3, <1>4 DEF IInv

LEMMA NextIInv ==
  IInv /\ [Next]_vars => IInv'
<1> SUFFICES ASSUME IInv, [Next]_vars PROVE IInv'
  OBVIOUS
<1>1. CASE gpa_stop_server
  BY <1>1, StopStep
<1>2. ASSUME NEW c \in Conns, SendLine(c) \/ HangUp(c)
      PROVE  IInv'
  BY <1>2, ClientStep
<1>3. ASSUME NEW c \in Conns, accept_connection_cb(c) \/ accept_connection_cb_fails(c)
      PROVE  IInv'
  BY <1>3, AcceptStep DEF accept_connection_cb, accept_connection_cb_fails
<1>4. ASSUME NEW c \in Conns, receive_eof(c) \/ bye(c)
      PROVE  IInv'
  BY <1>4, FinishStep DEF receive_eof, bye
<1>5. ASSUME NEW c \in Conns,
             \/ cmd_session(c) \/ cmd_recipient(c) \/ cmd_message(c) \/ cmd_input(c)
             \/ cmd_output(c) \/ cmd_sender(c) \/ cmd_file(c) \/ cmd_files(c)
             \/ cmd_getinfo(c) \/ cmd_kill_uiserver(c) \/ cmd_reset(c)
      PROVE  IInv'
  BY <1>5, AnsweredCommandsStep
<1>6. ASSUME NEW c \in Conns,
             \/ cmd_encrypt(c) \/ cmd_prep_encrypt(c) \/ cmd_sign(c)
             \/ cmd_decrypt(c) \/ cmd_verify(c)
      PROVE  IInv'
  BY <1>6, LaunchingCommandsStep
<1>7. ASSUME NEW c \in Conns, idle_cb(c)
      PROVE  IInv'
  BY <1>7, IdleStep
<1>8. ASSUME NEW c \in Conns, GpgmeDone(c) \/ UserAnswers(c)
      PROVE  IInv'
  BY <1>8, EncryptResponseStep, OperationCallbacksStep DEF GpgmeDone, UserAnswers
<1>9. ASSUME NEW c \in Conns, warning_dismissed(c)
      PROVE  IInv'
  BY <1>9, DismissedStep
<1>10. CASE UNCHANGED vars
  <2> USE <1>10 DEF vars
  <2>1. TypeOK' /\ EverySlotConsistent'
    BY DEF IInv, TypeOK, EverySlotConsistent
  <2>2. CallbacksInModalOwnTheirConnection'
    BY DEF IInv, CallbacksInModalOwnTheirConnection, InModal
  <2> QED BY <2>1, <2>2, ShutdownUntouched DEF IInv
<1> QED BY <1>1, <1>2, <1>3, <1>4, <1>5, <1>6, <1>7, <1>8, <1>9, <1>10
        DEF Next, receive_cb, ReceiveLine

LEMMA InductiveInvariant ==
  Spec => []IInv
BY InitIInv, NextIInv, PTL DEF Spec

\* Every variable of the server keeps its type: in particular the connection
\* counter never falls below zero.
THEOREM TypeCorrect ==
  Spec => []TypeOK
<1>1. IInv => TypeOK
  BY DEF IInv
<1> QED BY <1>1, InductiveInvariant, PTL

\* However dialogs, message boxes and clients interleave, each answer is given
\* to the command whose operation has completed (run_server_continuation).
THEOREM AnswersBelongToTheirCommand ==
  Spec => []OneOperationPerCommand
<1>1. IInv => OneOperationPerCommand
  BY DEF IInv, EverySlotConsistent, Consistent, Matched, OneOperationPerCommand
<1> QED BY <1>1, InductiveInvariant, PTL

\* GPGME never reads or writes a stream that has been closed, and a stream does
\* not outlive its command (finish_io_streams).
THEOREM StreamsOutliveTheOperation ==
  Spec => []StreamsLastAsLongAsTheOperation
<1>1. IInv => StreamsLastAsLongAsTheOperation
  BY DEF IInv, EverySlotConsistent, Consistent, StreamsOpen,
         StreamsLastAsLongAsTheOperation, Live
<1> QED BY <1>1, InductiveInvariant, PTL

\* As long as recipients are given, prepared keys are keys for exactly these
\* recipients (cmd_recipient, cmd_prep_encrypt, cmd_encrypt).
THEOREM NoKeysForOthers ==
  Spec => []EncryptsToTheRecipientsGiven
<1>1. IInv => EncryptsToTheRecipientsGiven
  BY DEF IInv, EverySlotConsistent, Consistent, KeysFit, EncryptsToTheRecipientsGiven
<1> QED BY <1>1, InductiveInvariant, PTL

\* Prepared keys and the protocol they are for come and go together
\* (reset_prepared_keys, cont_prep_encrypt).
THEOREM KeysAndProtocolTogether ==
  Spec => []PreparedKeysHaveAProtocol
<1>1. IInv => PreparedKeysHaveAProtocol
  BY DEF IInv, EverySlotConsistent, Consistent, KeysFit, PreparedKeysHaveAProtocol
<1> QED BY <1>1, InductiveInvariant, PTL

\* A callback that is waiting in a message box finds its connection and its
\* operation when it goes on, whatever the nested main loop has run meanwhile.
THEOREM MessageBoxesAreSafe ==
  Spec => []CallbacksInModalOwnTheirConnection
<1>1. IInv => CallbacksInModalOwnTheirConnection
  BY DEF IInv
<1> QED BY <1>1, InductiveInvariant, PTL

\* With the contexts counted, the clients are: what is over is left by failed
\* accepts.
LEMMA CountedIsFriendly ==
  ASSUME TypeOK, ContextsAreCounted
  PROVE  ShutdownIsFriendly
<1> DEFINE Clients == {c \in Conns : Live(c)}
           Used == {c \in Conns : conn[c] # "free"}
<1>1. /\ IsFiniteSet(Clients) /\ IsFiniteSet(Orphans) /\ IsFiniteSet(Used)
  BY ConnsAssumption, FS_Subset DEF Orphans
<1>2. /\ Used = Clients \cup Orphans
      /\ Clients \cap Orphans = {}
  BY DEF TypeOK, Live, Orphans
<1>3. connection_counter = Cardinality(Clients) + Cardinality(Orphans)
  <2>1. Cardinality(Clients \cap Orphans) = 0
    BY <1>2, FS_EmptySet
  <2>2. /\ Cardinality(Clients) \in Nat
        /\ Cardinality(Orphans) \in Nat
    BY <1>1, FS_CardinalityType
  <2>3. Cardinality(Used) = Cardinality(Clients) + Cardinality(Orphans)
    <3> HIDE DEF Clients, Used
    <3>1. Cardinality(Clients \cup Orphans)
            = Cardinality(Clients) + Cardinality(Orphans)
                - Cardinality(Clients \cap Orphans)
      BY <1>1, FS_Union
    <3> QED BY <1>2, <2>1, <2>2, <3>1
  <2> QED BY <2>3 DEF ContextsAreCounted
<1>4. connection_counter = 0 <=> Used = {}
  BY <1>1, FS_EmptySet DEF ContextsAreCounted
<1>5. (Used = {}) <=> Orphans = {} /\ \A c \in Conns : ~Live(c)
  BY <1>2
<1> QED
  <2> HIDE DEF Clients, Used
  <2>1. connection_counter = 0 <=> Orphans = {} /\ \A c \in Conns : ~Live(c)
    BY <1>4, <1>5
  <2> QED BY <1>3, <2>1 DEF ShutdownIsFriendly, ContextsAreCounted, Clients

\* The server never quits under a client and quits at the latest with the last
\* one, unless a failed accept has left a context that nobody finishes
\* (connection_finish, gpa_stop_server, accept_connection_cb).
THEOREM FriendlyShutdown ==
  Spec => []ShutdownIsFriendly
<1>1. IInv => ShutdownIsFriendly
  BY CountedIsFriendly DEF IInv
<1> QED BY <1>1, InductiveInvariant, PTL

-----------------------------------------------------------------------------
(* What a step may not do *)

Same(c) == conn'[c] = conn[c] /\ ctrl'[c] = ctrl[c] /\ assuan'[c] = assuan[c]

LEMMA ReceiveIsLocal ==
  ASSUME TypeOK, NEW c \in Conns, receive_cb(c), NEW d \in Conns, d # c
  PROVE  Same(d)
<1> USE DEF Same, TypeOK
<1>1. CASE receive_eof(c) \/ bye(c)
  BY <1>1 DEF receive_eof, bye, connection_finish
<1>2. ASSUME NEW k, NEW a, NEW code, Answer(c, k, a, code)
      PROVE  Same(d)
  BY <1>2 DEF Answer
<1>3. ASSUME NEW k, Refuse(c, k)
      PROVE  Same(d)
  BY <1>2, <1>3 DEF Refuse
<1>4. ASSUME NEW k, NEW o, Launch(c, k, o)
      PROVE  Same(d)
  BY <1>4 DEF Launch
<1> USE <1>2, <1>3, <1>4
<1>5. CASE \/ cmd_session(c) \/ cmd_message(c) \/ cmd_input(c) \/ cmd_output(c)
           \/ cmd_file(c) \/ cmd_files(c) \/ cmd_kill_uiserver(c) \/ cmd_reset(c)
  BY <1>5 DEF cmd_session, cmd_message, cmd_input, cmd_output, cmd_file, cmd_files,
              cmd_kill_uiserver, cmd_reset
<1>6. CASE cmd_recipient(c)
  BY <1>6 DEF cmd_recipient
<1>7. CASE cmd_sender(c)
  BY <1>7 DEF cmd_sender
<1>8. CASE cmd_getinfo(c)
  BY <1>8 DEF cmd_getinfo
<1>9. CASE cmd_encrypt(c)
  BY <1>9 DEF cmd_encrypt
<1>10. CASE cmd_prep_encrypt(c)
  BY <1>10 DEF cmd_prep_encrypt
<1>11. CASE cmd_sign(c) \/ cmd_decrypt(c) \/ cmd_verify(c)
  BY <1>11 DEF cmd_sign, cmd_decrypt, cmd_verify
<1> QED BY <1>1, <1>5, <1>6, <1>7, <1>8, <1>9, <1>10, <1>11
        DEF receive_cb, ReceiveLine

LEMMA OperationIsLocal ==
  ASSUME TypeOK, NEW c \in Conns,
         idle_cb(c) \/ GpgmeDone(c) \/ UserAnswers(c) \/ warning_dismissed(c),
         NEW d \in Conns, d = c => op'[d].command # "none"
  PROVE  Same(d)
<1> USE DEF Same, TypeOK
<1>1. ASSUME NEW o, NEW code, completed(c, o, code)
      PROVE  Same(d)
  <2>1. d # c
    BY <1>1 DEF completed, NoOp
  <2> QED BY <1>1, <2>1 DEF completed, run_server_continuation
<1>2. ASSUME NEW o, show_warning(c, o) \/ proceed(c, o)
      PROVE  Same(d)
  BY <1>2 DEF show_warning, proceed
<1>3. ASSUME NEW o, start_encryption(c, o)
      PROVE  Same(d)
  BY <1>1, <1>2, <1>3 DEF start_encryption
<1> USE <1>1, <1>2, <1>3
<1>4. CASE encrypt_response_cb(c)
  BY <1>4 DEF encrypt_response_cb
<1>5. CASE sign_response_cb(c) \/ result_response_cb(c)
  BY <1>5 DEF sign_response_cb, result_response_cb
<1>6. CASE idle_cb(c)
  BY <1>6 DEF idle_cb
<1>7. CASE done_error_cb(c) \/ done_cb(c)
  BY <1>7 DEF done_error_cb, done_cb
<1>8. CASE warning_dismissed(c)
  BY <1>8 DEF warning_dismissed
<1> QED BY <1>4, <1>5, <1>6, <1>7, <1>8 DEF GpgmeDone, UserAnswers

\* Nothing that happens while an operation is at work changes the connection
\* it works for (receive_cb dispatches no command before the continuation).
THEOREM SettingsAreStable ==
  Spec => SettingsHoldStill
<1>1. ASSUME IInv, [Next]_vars, NEW d \in Conns,
             op[d].command # "none", op'[d].command # "none"
      PROVE  Same(d)
  <2>1. TypeOK /\ op[d].phase # "none" /\ conn[d] = "live" /\ ctrl[d].cont_cmd # "none"
    BY <1>1 DEF IInv, EverySlotConsistent, Consistent, Matched, StreamsOpen
  <2>2. CASE gpa_stop_server \/ UNCHANGED vars
    BY <2>2 DEF gpa_stop_server, vars, Same
  <2>3. ASSUME NEW c \in Conns, SendLine(c) \/ HangUp(c)
        PROVE  Same(d)
    BY <2>3 DEF SendLine, HangUp, Same
  <2>4. ASSUME NEW c \in Conns, accept_connection_cb(c) \/ accept_connection_cb_fails(c)
        PROVE  Same(d)
    BY <2>1, <2>4 DEF accept_connection_cb, accept_connection_cb_fails, Same, TypeOK
  <2>5. ASSUME NEW c \in Conns, receive_cb(c)
        PROVE  Same(d)
    <3>1. MayReceive(c)
      BY <2>5 DEF receive_cb, ReceiveLine, receive_eof, bye, cmd_session, cmd_recipient,
                  cmd_message, cmd_input, cmd_output, cmd_sender, cmd_file, cmd_files,
                  cmd_getinfo, cmd_kill_uiserver, cmd_reset, cmd_encrypt,
                  cmd_prep_encrypt, cmd_sign, cmd_decrypt, cmd_verify, Dispatched
    <3>2. d # c
      BY <2>1, <3>1 DEF MayReceive
    <3> QED BY <2>1, <2>5, <3>2, ReceiveIsLocal
  <2>6. ASSUME NEW c \in Conns,
               idle_cb(c) \/ GpgmeDone(c) \/ UserAnswers(c) \/ warning_dismissed(c)
        PROVE  Same(d)
    BY <1>1, <2>1, <2>6, OperationIsLocal
  <2> QED BY <1>1, <2>2, <2>3, <2>4, <2>5, <2>6 DEF Next
<1>2. IInv /\ [Next]_vars =>
        [\A c \in Conns :
           op[c].command # "none" /\ op'[c].command # "none"
             => conn'[c] = conn[c] /\ ctrl'[c] = ctrl[c] /\ assuan'[c] = assuan[c]]_vars
  BY <1>1 DEF Same
<1> QED BY <1>2, InductiveInvariant, PTL DEF Spec, SettingsHoldStill

-----------------------------------------------------------------------------
(* UiServer implements AbstractUiServer: the proof, step by step.          *)
(*                                                                         *)
(* A client sees whether its connection is open, whether a command is      *)
(* outstanding, and the answers; it knows the recipients and the sender it *)
(* has given.  Everything else (dialogs, callbacks, message boxes, GPGME,  *)
(* keys, descriptors, the shutdown) is a stuttering step of the promise.   *)


\* The refinement mapping, as in the definition of Promise.
openBar       == [c \in Conns |-> Live(c)]
commandBar    == [c \in Conns |-> assuan[c].command]
replyBar      == [c \in Conns |-> assuan[c].reply]
recipientsBar == [c \in Conns |-> ctrl[c].recipients]
senderBar     == [c \in Conns |-> ctrl[c].sender]

barVars == <<openBar, commandBar, replyBar, recipientsBar, senderBar>>

\* A step that is local to slot c changes the mapping at c only.
LEMMA LocalStep ==
  ASSUME NEW c \in Conns, \A d \in Conns : d # c => Same(d)
  PROVE  /\ openBar' = [openBar EXCEPT ![c] = Live(c)']
         /\ commandBar' = [commandBar EXCEPT ![c] = assuan'[c].command]
         /\ replyBar' = [replyBar EXCEPT ![c] = assuan'[c].reply]
         /\ recipientsBar' = [recipientsBar EXCEPT ![c] = ctrl'[c].recipients]
         /\ senderBar' = [senderBar EXCEPT ![c] = ctrl'[c].sender]
BY DEF Same, Live, openBar, commandBar, replyBar, recipientsBar, senderBar

\* What does not change at c does not change at all.
LEMMA KeptAt ==
  ASSUME NEW c \in Conns, \A d \in Conns : d # c => Same(d)
  PROVE  /\ Live(c)' = Live(c) => openBar' = openBar
         /\ assuan'[c].command = assuan[c].command => commandBar' = commandBar
         /\ assuan'[c].reply = assuan[c].reply => replyBar' = replyBar
         /\ ctrl'[c].recipients = ctrl[c].recipients => recipientsBar' = recipientsBar
         /\ ctrl'[c].sender = ctrl[c].sender => senderBar' = senderBar
<1>1. Live(c)' = Live(c) => openBar' = openBar
  BY DEF Same, Live, openBar
<1>2. assuan'[c].command = assuan[c].command => commandBar' = commandBar
  BY DEF Same, commandBar
<1>3. assuan'[c].reply = assuan[c].reply => replyBar' = replyBar
  BY DEF Same, replyBar
<1>4. ctrl'[c].recipients = ctrl[c].recipients => recipientsBar' = recipientsBar
  BY DEF Same, recipientsBar
<1>5. ctrl'[c].sender = ctrl[c].sender => senderBar' = senderBar
  BY DEF Same, senderBar
<1> QED BY <1>1, <1>2, <1>3, <1>4, <1>5

LEMMA StutterAt ==
  ASSUME NEW c \in Conns, \A d \in Conns : d # c => Same(d),
         Live(c)' = Live(c), assuan'[c] = assuan[c], ctrl'[c] = ctrl[c]
  PROVE  UNCHANGED barVars
BY KeptAt DEF barVars

-----------------------------------------------------------------------------
(* Commands *)

\* An answer that leaves recipients and sender alone.
LEMMA AnswerImplementsOther ==
  ASSUME NEW c \in Conns, \A d \in Conns : d # c => Same(d),
         TypeOK, Live(c), assuan[c].command = "none",
         NEW k \in Ctrl, NEW a \in Assuan, NEW code \in {"OK", "ERR"},
         Answer(c, k, a, code), a.command = "none",
         k.recipients = ctrl[c].recipients, k.sender = ctrl[c].sender
  PROVE  Promise!Other(c)
<1>1. /\ Live(c)' = Live(c)
      /\ ctrl'[c] = k
      /\ assuan'[c].command = "none" /\ assuan'[c].reply = code
  BY DEF Answer, process_done, TypeOK, Live, Assuan
<1>2. /\ openBar' = openBar /\ commandBar' = commandBar
      /\ recipientsBar' = recipientsBar /\ senderBar' = senderBar
      /\ replyBar' = [replyBar EXCEPT ![c] = code]
  <2>1. replyBar' = [replyBar EXCEPT ![c] = code]
    BY <1>1, LocalStep
  <2> QED BY <1>1, <2>1, KeptAt
<1> QED BY <1>2
        DEF Promise!Other, Promise!Idle, openBar, commandBar, replyBar,
            recipientsBar, senderBar

LEMMA FinishImplementsClose ==
  ASSUME NEW c \in Conns, \A d \in Conns : d # c => Same(d),
         TypeOK, Live(c), assuan[c].command = "none", connection_finish(c)
  PROVE  Promise!Close(c)
<1>1. /\ ~Live(c)'
      /\ ctrl'[c].recipients = {} /\ ctrl'[c].sender = FALSE
      /\ assuan'[c].command = "none" /\ assuan'[c].reply = "none"
  BY DEF connection_finish, NewCtrl, NewAssuan, TypeOK, Live
<1>2. /\ commandBar' = commandBar
      /\ openBar' = [openBar EXCEPT ![c] = FALSE]
      /\ replyBar' = [replyBar EXCEPT ![c] = "none"]
      /\ recipientsBar' = [recipientsBar EXCEPT ![c] = {}]
      /\ senderBar' = [senderBar EXCEPT ![c] = FALSE]
  <2>1. commandBar' = commandBar
    BY <1>1, KeptAt
  <2>2. openBar' = [openBar EXCEPT ![c] = FALSE]
    BY <1>1, LocalStep
  <2>3. /\ replyBar' = [replyBar EXCEPT ![c] = "none"]
        /\ recipientsBar' = [recipientsBar EXCEPT ![c] = {}]
        /\ senderBar' = [senderBar EXCEPT ![c] = FALSE]
    BY <1>1, LocalStep
  <2> QED BY <2>1, <2>2, <2>3
<1> QED BY <1>2
        DEF Promise!Close, Promise!Idle, openBar, commandBar, replyBar,
            recipientsBar, senderBar

LEMMA LaunchImplementsBegin ==
  ASSUME NEW c \in Conns, \A d \in Conns : d # c => Same(d),
         TypeOK, Live(c), assuan[c].command = "none",
         NEW k \in Ctrl, NEW o, o.command \in StreamCommands, Launch(c, k, o),
         k.recipients = ctrl[c].recipients, k.sender = ctrl[c].sender
  PROVE  Promise!Begin(c)
<1>1. /\ Live(c)' = Live(c)
      /\ ctrl'[c].recipients = ctrl[c].recipients /\ ctrl'[c].sender = ctrl[c].sender
      /\ assuan'[c].command = o.command /\ assuan'[c].reply = assuan[c].reply
  BY DEF Launch, TypeOK, Live, Assuan, Ctrl
<1>2. /\ openBar' = openBar /\ replyBar' = replyBar
      /\ recipientsBar' = recipientsBar /\ senderBar' = senderBar
      /\ commandBar' = [commandBar EXCEPT ![c] = o.command]
  <2>1. commandBar' = [commandBar EXCEPT ![c] = o.command]
    BY <1>1, LocalStep
  <2> QED BY <1>1, <2>1, KeptAt
<1> QED BY <1>2
        DEF Promise!Begin, Promise!Idle, openBar, commandBar, replyBar,
            recipientsBar, senderBar

\* The end of an operation succeeds or fails, and what it takes away on success
\* are the recipients of ENCRYPT and the sender of SIGN.
LEMMA CompletedImplementsAnswer ==
  ASSUME NEW c \in Conns, \A d \in Conns : d # c => Same(d),
         IInv, op[c].command # "none",
         NEW o, NEW code \in {"OK", "ERR"}, completed(c, o, code)
  PROVE  Promise!Succeed(c) \/ Promise!Fail(c)
<1>1. /\ ctrl[c] \in Ctrl /\ assuan[c] \in Assuan /\ conn[c] = "live"
      /\ ctrl[c].cont_cmd = assuan[c].command
      /\ assuan[c].command \in StreamCommands
  BY DEF IInv, TypeOK, EverySlotConsistent, Consistent, Matched, StreamsOpen, Assuan
<1> DEFINE k == [ctrl[c] EXCEPT !.cont_cmd = "none"]
           command == assuan[c].command
<1>2. k \in Ctrl /\ k.recipients = ctrl[c].recipients /\ k.sender = ctrl[c].sender
  BY <1>1 DEF Ctrl
<1>3. /\ Live(c)' = Live(c)
      /\ assuan'[c].command = "none" /\ assuan'[c].reply = code
  BY <1>1 DEF completed, run_server_continuation, process_done, CloseInputOutput,
              Live, IInv, TypeOK, Assuan
<1>4. ctrl'[c] = CASE command = "ENCRYPT"      -> cont_encrypt(k, code)
                   [] command = "PREP_ENCRYPT" -> cont_prep_encrypt(k, o, code)
                   [] command = "SIGN"         -> cont_sign(k, code)
                   [] command = "DECRYPT"      -> cont_decrypt(k)
                   [] command = "VERIFY"       -> cont_verify(k)
                   [] OTHER                    -> k
  BY <1>1 DEF completed, run_server_continuation, IInv, TypeOK
<1> HIDE DEF k
<1>5. /\ ctrl'[c].recipients = IF code = "OK" /\ command = "ENCRYPT"
                               THEN {} ELSE ctrl[c].recipients
      /\ ctrl'[c].sender = IF code = "OK" /\ command = "SIGN"
                           THEN FALSE ELSE ctrl[c].sender
  <2>1. CASE command = "ENCRYPT"
    BY <1>2, <1>4, <2>1 DEF cont_encrypt, release_recipients, finish_io_streams, Ctrl
  <2>2. CASE command = "PREP_ENCRYPT"
    BY <1>2, <1>4, <2>2 DEF cont_prep_encrypt, Ctrl
  <2>3. CASE command = "SIGN"
    BY <1>2, <1>4, <2>3 DEF cont_sign, finish_io_streams, Ctrl
  <2>4. CASE command = "DECRYPT" \/ command = "VERIFY"
    BY <1>2, <1>4, <2>4 DEF cont_decrypt, cont_verify, finish_io_streams, Ctrl
  <2> QED BY <1>1, <2>1, <2>2, <2>3, <2>4 DEF StreamCommands
<1> HIDE DEF command
<1>6. /\ openBar' = openBar
      /\ commandBar' = [commandBar EXCEPT ![c] = "none"]
      /\ replyBar' = [replyBar EXCEPT ![c] = code]
  BY <1>3, LocalStep DEF openBar, Live
<1>7. /\ recipientsBar' =
           [recipientsBar EXCEPT ![c] = IF code = "OK" /\ command = "ENCRYPT"
                                        THEN {} ELSE ctrl[c].recipients]
      /\ senderBar' =
           [senderBar EXCEPT ![c] = IF code = "OK" /\ command = "SIGN"
                                    THEN FALSE ELSE ctrl[c].sender]
  BY <1>5, LocalStep
<1>8. CASE code = "OK"
  <2>1. Promise!Succeed(c)
    BY <1>1, <1>6, <1>7, <1>8
       DEF Promise!Succeed, openBar, commandBar, replyBar, recipientsBar, senderBar,
           command, Live, StreamCommands
  <2> QED BY <2>1
<1>9. CASE code = "ERR"
  <2>1. recipientsBar' = recipientsBar /\ senderBar' = senderBar
    BY <1>7, <1>9 DEF recipientsBar, senderBar
  <2>2. Promise!Fail(c)
    BY <1>1, <1>6, <1>9, <2>1
       DEF Promise!Fail, openBar, commandBar, replyBar, recipientsBar, senderBar,
           command, Live, StreamCommands
  <2> QED BY <2>2
<1> QED BY <1>8, <1>9

\* RECIPIENT, SENDER and RESET write what they promise.
LEMMA AnswerImplementsRecipient ==
  ASSUME NEW c \in Conns, \A d \in Conns : d # c => Same(d),
         TypeOK, Live(c), assuan[c].command = "none",
         NEW R \in SUBSET Recipients,
         Answer(c, [reset_prepared_keys(ctrl[c]) EXCEPT !.recipients = @ \cup R],
                assuan[c], "OK")
  PROVE  Promise!Recipient(c)
<1>1. /\ Live(c)' = Live(c)
      /\ ctrl'[c].recipients = ctrl[c].recipients \cup R
      /\ ctrl'[c].sender = ctrl[c].sender
      /\ assuan'[c].command = assuan[c].command /\ assuan'[c].reply = "OK"
  BY DEF Answer, process_done, reset_prepared_keys, TypeOK, Live, Assuan, Ctrl
<1>2. /\ recipientsBar' = [recipientsBar EXCEPT ![c] = recipientsBar[c] \cup R]
      /\ replyBar' = [replyBar EXCEPT ![c] = "OK"]
  BY <1>1, LocalStep DEF recipientsBar
<1>3. openBar' = openBar /\ commandBar' = commandBar /\ senderBar' = senderBar
  BY <1>1, KeptAt
<1> QED BY <1>2, <1>3
        DEF Promise!Recipient, Promise!Idle, openBar, commandBar, replyBar,
            recipientsBar, senderBar

LEMMA AnswerImplementsSender ==
  ASSUME NEW c \in Conns, \A d \in Conns : d # c => Same(d),
         TypeOK, Live(c), assuan[c].command = "none",
         NEW given \in BOOLEAN,
         Answer(c, [ctrl[c] EXCEPT !.sender = given], assuan[c], "OK")
  PROVE  Promise!Sender(c)
<1>1. /\ Live(c)' = Live(c)
      /\ ctrl'[c].recipients = ctrl[c].recipients
      /\ ctrl'[c].sender = given
      /\ assuan'[c].command = assuan[c].command /\ assuan'[c].reply = "OK"
  BY DEF Answer, process_done, TypeOK, Live, Assuan, Ctrl
<1>2. /\ senderBar' = [senderBar EXCEPT ![c] = given]
      /\ replyBar' = [replyBar EXCEPT ![c] = "OK"]
  BY <1>1, LocalStep
<1>3. openBar' = openBar /\ commandBar' = commandBar /\ recipientsBar' = recipientsBar
  BY <1>1, KeptAt
<1> QED BY <1>2, <1>3
        DEF Promise!Sender, Promise!Idle, openBar, commandBar, replyBar,
            recipientsBar, senderBar

LEMMA AnswerImplementsReset ==
  ASSUME NEW c \in Conns, \A d \in Conns : d # c => Same(d),
         TypeOK, Live(c), assuan[c].command = "none",
         Answer(c, reset_notify(ctrl[c]), CloseInputOutput(assuan[c]), "OK")
  PROVE  Promise!Reset(c)
<1>1. /\ Live(c)' = Live(c)
      /\ ctrl'[c].recipients = {} /\ ctrl'[c].sender = FALSE
      /\ assuan'[c].command = assuan[c].command /\ assuan'[c].reply = "OK"
  BY DEF Answer, process_done, CloseInputOutput, reset_notify, NewCtrl, TypeOK,
         Live, Assuan
<1>2. /\ recipientsBar' = [recipientsBar EXCEPT ![c] = {}]
      /\ senderBar' = [senderBar EXCEPT ![c] = FALSE]
      /\ replyBar' = [replyBar EXCEPT ![c] = "OK"]
  BY <1>1, LocalStep
<1>3. openBar' = openBar /\ commandBar' = commandBar
  BY <1>1, KeptAt
<1> QED BY <1>2, <1>3
        DEF Promise!Reset, Promise!Idle, openBar, commandBar, replyBar,
            recipientsBar, senderBar

LEMMA ReceiveImplementsPromise ==
  ASSUME IInv, NEW c \in Conns, receive_cb(c)
  PROVE  Promise!Next
<1>1. MayReceive(c)
  BY DEF receive_cb, ReceiveLine, receive_eof, bye, cmd_session, cmd_recipient,
         cmd_message, cmd_input, cmd_output, cmd_sender, cmd_file, cmd_files,
         cmd_getinfo, cmd_kill_uiserver, cmd_reset, cmd_encrypt,
         cmd_prep_encrypt, cmd_sign, cmd_decrypt, cmd_verify, Dispatched
<1>2. /\ TypeOK /\ Live(c)
      /\ ctrl[c] \in Ctrl /\ assuan[c] \in Assuan /\ assuan[c].command = "none"
  BY <1>1, ReceiveState DEF IInv, Ready, ReadyAssuan
<1>3. \A d \in Conns : d # c => Same(d)
  BY <1>2, ReceiveIsLocal
<1> SUFFICES \/ Promise!Close(c) \/ Promise!Recipient(c) \/ Promise!Sender(c)
             \/ Promise!Reset(c) \/ Promise!Other(c) \/ Promise!Begin(c)
  BY DEF Promise!Next
<1>4. CASE receive_eof(c) \/ bye(c)
  BY <1>2, <1>3, <1>4, FinishImplementsClose DEF receive_eof, bye
<1>5. ASSUME NEW k \in Ctrl, NEW a \in Assuan, NEW code \in {"OK", "ERR"},
             Answer(c, k, a, code), a.command = "none",
             k.recipients = ctrl[c].recipients, k.sender = ctrl[c].sender
      PROVE  Promise!Other(c)
  BY <1>2, <1>3, <1>5, AnswerImplementsOther
<1>6. /\ CloseInputOutput(assuan[c]) \in Assuan
      /\ CloseInputOutput(assuan[c]).command = "none"
      /\ [assuan[c] EXCEPT !.input_fd = TRUE] \in Assuan
      /\ [assuan[c] EXCEPT !.input_fd = TRUE].command = "none"
      /\ [assuan[c] EXCEPT !.output_fd = TRUE] \in Assuan
      /\ [assuan[c] EXCEPT !.output_fd = TRUE].command = "none"
  BY <1>2 DEF CloseInputOutput, Assuan
<1>7. ASSUME NEW k \in Ctrl, Refuse(c, k),
             k.recipients = ctrl[c].recipients, k.sender = ctrl[c].sender
      PROVE  Promise!Other(c)
  <2> DEFINE kk == finish_io_streams(k)
  <2>1. /\ kk \in Ctrl
        /\ kk.recipients = ctrl[c].recipients /\ kk.sender = ctrl[c].sender
    BY <1>7 DEF finish_io_streams, Ctrl
  <2>2. Answer(c, kk, CloseInputOutput(assuan[c]), "ERR")
    BY <1>7 DEF Refuse
  <2> HIDE DEF kk
  <2> QED BY <1>5, <1>6, <2>1, <2>2
<1>8. ASSUME NEW k \in Ctrl, NEW o, o.command \in StreamCommands, Launch(c, k, o),
             k.recipients = ctrl[c].recipients, k.sender = ctrl[c].sender
      PROVE  Promise!Begin(c)
  BY <1>2, <1>3, <1>8, LaunchImplementsBegin
<1>9. CASE cmd_session(c)
  <2> DEFINE k == [ctrl[c] EXCEPT !.session = TRUE]
  <2>1. k \in Ctrl /\ k.recipients = ctrl[c].recipients /\ k.sender = ctrl[c].sender
    BY <1>2 DEF Ctrl
  <2>2. Answer(c, k, assuan[c], "OK")
    BY <1>9 DEF cmd_session
  <2> HIDE DEF k
  <2> QED BY <1>2, <1>5, <2>1, <2>2
<1>10. CASE cmd_recipient(c)
  <2>1. PICK added \in {{}} \cup {{r} : r \in Recipients} :
          Answer(c, [reset_prepared_keys(ctrl[c]) EXCEPT !.recipients = @ \cup added],
                 assuan[c], "OK")
    BY <1>10 DEF cmd_recipient
  <2>2. added \in SUBSET Recipients
    OBVIOUS
  <2> QED BY <1>2, <1>3, <2>1, <2>2, AnswerImplementsRecipient
<1>11. CASE cmd_message(c)
  <2> DEFINE k == [ctrl[c] EXCEPT !.message_fd = TRUE]
  <2>1. k \in Ctrl /\ k.recipients = ctrl[c].recipients /\ k.sender = ctrl[c].sender
    BY <1>2 DEF Ctrl
  <2>2. Answer(c, k, assuan[c], "OK") \/ Answer(c, ctrl[c], assuan[c], "ERR")
    BY <1>11 DEF cmd_message
  <2> HIDE DEF k
  <2> QED BY <1>2, <1>5, <2>1, <2>2
<1>12. CASE cmd_input(c) \/ cmd_output(c)
  BY <1>2, <1>5, <1>6, <1>12 DEF cmd_input, cmd_output
<1>13. CASE cmd_sender(c)
  <2>1. PICK option \in ProtocolOptions :
          IF option = "invalid"
          THEN Answer(c, ctrl[c], assuan[c], "ERR")
          ELSE \E given \in BOOLEAN :
                 Answer(c, [ctrl[c] EXCEPT !.sender = given], assuan[c], "OK")
    BY <1>13 DEF cmd_sender
  <2>2. CASE option = "invalid"
    BY <1>2, <1>5, <2>1, <2>2
  <2>3. CASE option # "invalid"
    BY <1>2, <1>3, <2>1, <2>3, AnswerImplementsSender
  <2> QED BY <2>2, <2>3
<1>14. CASE cmd_file(c) \/ cmd_files(c)
  <2>1. \A b \in BOOLEAN :
          /\ [ctrl[c] EXCEPT !.files = b] \in Ctrl
          /\ [ctrl[c] EXCEPT !.files = b].recipients = ctrl[c].recipients
          /\ [ctrl[c] EXCEPT !.files = b].sender = ctrl[c].sender
    BY <1>2 DEF Ctrl
  <2>2. \/ Answer(c, ctrl[c], assuan[c], "ERR")
        \/ \E b \in BOOLEAN : Answer(c, [ctrl[c] EXCEPT !.files = b], assuan[c], "OK")
    BY <1>14 DEF cmd_file, cmd_files
  <2> QED BY <1>2, <1>5, <2>1, <2>2
<1>15. CASE cmd_getinfo(c) \/ cmd_kill_uiserver(c)
  BY <1>2, <1>5, <1>15 DEF cmd_getinfo, cmd_kill_uiserver
<1>16. CASE cmd_reset(c)
  BY <1>2, <1>3, <1>16, AnswerImplementsReset DEF cmd_reset
<1>17. CASE cmd_sign(c) \/ cmd_decrypt(c) \/ cmd_verify(c)
  <2>1. \A ch \in SUBSET Channels :
          /\ [ctrl[c] EXCEPT !.channels = ch] \in Ctrl
          /\ [ctrl[c] EXCEPT !.channels = ch].recipients = ctrl[c].recipients
          /\ [ctrl[c] EXCEPT !.channels = ch].sender = ctrl[c].sender
    BY <1>2 DEF Ctrl
  <2>2. VerifyStreams(c) \in SUBSET Channels /\ {"input", "output"} \in SUBSET Channels
    BY DEF VerifyStreams, Channels
  <2>3. \A command \in {"SIGN", "DECRYPT", "VERIFY"}, phase \in {"dialog", "idle"} :
          StreamOperation(command, phase).command \in StreamCommands
    BY DEF StreamOperation, NoOp, StreamCommands
  <2>4. \/ Refuse(c, ctrl[c])
        \/ \E ch \in SUBSET Channels, command \in {"SIGN", "DECRYPT", "VERIFY"},
              phase \in {"dialog", "idle"} :
             Launch(c, [ctrl[c] EXCEPT !.channels = ch], StreamOperation(command, phase))
    BY <1>17, <2>2 DEF cmd_sign, cmd_decrypt, cmd_verify
  <2> QED BY <1>2, <1>7, <1>8, <2>1, <2>3, <2>4
<1>18. CASE cmd_encrypt(c)
  <2>1. PICK option \in ProtocolOptions :
          IF option \notin Protocols
          THEN Refuse(c, ctrl[c])
          ELSE LET k == IF option = ctrl[c].selected_protocol
                        THEN ctrl[c]
                        ELSE reset_prepared_keys(ctrl[c])
               IN \/ Refuse(c, k)
                  \/ /\ InputAndOutput(c)
                     /\ Launch(c, [k EXCEPT !.channels = {"input", "output"}],
                               EncryptOperation("ENCRYPT", option, k))
    BY <1>18 DEF cmd_encrypt
  <2> DEFINE k == IF option = ctrl[c].selected_protocol
                  THEN ctrl[c] ELSE reset_prepared_keys(ctrl[c])
             kk == [k EXCEPT !.channels = {"input", "output"}]
  <2>2. k \in Ctrl /\ k.recipients = ctrl[c].recipients /\ k.sender = ctrl[c].sender
    BY <1>2, KeyArrayTypes DEF reset_prepared_keys, Ctrl
  <2>3. \/ Refuse(c, ctrl[c]) \/ Refuse(c, k)
        \/ Launch(c, kk, EncryptOperation("ENCRYPT", option, k))
    BY <2>1
  <2> HIDE DEF k
  <2>4. kk \in Ctrl /\ kk.recipients = ctrl[c].recipients /\ kk.sender = ctrl[c].sender
    BY <2>2 DEF Ctrl, Channels
  <2> HIDE DEF kk
  <2>5. EncryptOperation("ENCRYPT", option, k).command \in StreamCommands
    BY DEF EncryptOperation, StreamCommands
  <2> QED BY <1>2, <1>7, <1>8, <2>2, <2>3, <2>4, <2>5
<1>19. CASE cmd_prep_encrypt(c)
  <2>1. CASE Answer(c, ctrl[c], assuan[c], "ERR")
    BY <1>2, <1>5, <2>1
  <2>2. CASE \E option \in ProtocolOptions \ {"invalid"} :
               LET k == reset_prepared_keys(ctrl[c])
               IN Launch(c, [k EXCEPT !.gpa_op = TRUE],
                         EncryptOperation("PREP_ENCRYPT", ParsedProtocol(option), k))
    <3> DEFINE k == reset_prepared_keys(ctrl[c])
               kk == [k EXCEPT !.gpa_op = TRUE]
    <3>1. PICK option \in ProtocolOptions \ {"invalid"} :
            Launch(c, kk, EncryptOperation("PREP_ENCRYPT", ParsedProtocol(option), k))
      BY <2>2
    <3>2. /\ kk \in Ctrl
          /\ kk.recipients = ctrl[c].recipients /\ kk.sender = ctrl[c].sender
      BY <1>2, KeyArrayTypes DEF reset_prepared_keys, Ctrl
    <3> HIDE DEF k, kk
    <3>3. EncryptOperation("PREP_ENCRYPT", ParsedProtocol(option), k).command
            \in StreamCommands
      BY DEF EncryptOperation, StreamCommands
    <3> QED BY <1>8, <3>1, <3>2, <3>3
  <2> QED BY <1>19, <2>1, <2>2 DEF cmd_prep_encrypt
<1> QED BY <1>4, <1>9, <1>10, <1>11, <1>12, <1>13, <1>14, <1>15, <1>16, <1>17, <1>18,
           <1>19
        DEF receive_cb, ReceiveLine

-----------------------------------------------------------------------------
(* Operations, connections, and the rest *)

LEMMA OperationImplementsPromise ==
  ASSUME IInv, NEW c \in Conns,
         idle_cb(c) \/ GpgmeDone(c) \/ UserAnswers(c) \/ warning_dismissed(c)
  PROVE  Promise!Next \/ UNCHANGED barVars
<1>1. TypeOK /\ op[c].command # "none"
  <2>1. op[c].phase # "none"
    <3>1. CASE warning_dismissed(c)
      <4>1. modal \in Seq(Conns) /\ modal # <<>> /\ modal[Len(modal)] = c
        BY <3>1 DEF warning_dismissed, IInv, TypeOK
      <4>2. InModal(c)
        BY <4>1, EmptySeq, LenProperties DEF InModal
      <4> QED BY <4>2 DEF IInv, CallbacksInModalOwnTheirConnection
    <3>2. CASE idle_cb(c) \/ GpgmeDone(c) \/ UserAnswers(c)
      BY <3>2 DEF idle_cb, GpgmeDone, done_error_cb, done_cb, UserAnswers,
                  encrypt_response_cb, sign_response_cb, result_response_cb, DialogOpen
    <3> QED BY <3>1, <3>2
  <2> QED BY <2>1, OperationState DEF IInv
<1>2. \A d \in Conns : d # c => Same(d)
  BY <1>1, OperationIsLocal
<1>3. ASSUME NEW o, NEW code \in {"OK", "ERR"}, completed(c, o, code)
      PROVE  Promise!Next
  BY <1>1, <1>2, <1>3, CompletedImplementsAnswer DEF Promise!Next
<1>4. ASSUME NEW o, show_warning(c, o) \/ proceed(c, o)
      PROVE  UNCHANGED barVars
  BY <1>2, <1>4, StutterAt DEF show_warning, proceed, Live
<1>5. ASSUME NEW o, start_encryption(c, o)
      PROVE  Promise!Next \/ UNCHANGED barVars
  BY <1>3, <1>4, <1>5 DEF start_encryption
<1>6. CASE encrypt_response_cb(c)
  BY <1>3, <1>5, <1>6 DEF encrypt_response_cb
<1>7. CASE sign_response_cb(c) \/ result_response_cb(c)
  BY <1>3, <1>4, <1>7 DEF sign_response_cb, result_response_cb
<1>8. CASE idle_cb(c)
  BY <1>4, <1>5, <1>8 DEF idle_cb
<1>9. CASE done_error_cb(c) \/ done_cb(c)
  BY <1>3, <1>4, <1>9 DEF done_error_cb, done_cb
<1>10. CASE warning_dismissed(c)
  BY <1>3, <1>10 DEF warning_dismissed
<1> QED BY <1>6, <1>7, <1>8, <1>9, <1>10 DEF GpgmeDone, UserAnswers

LEMMA AcceptImplementsOpen ==
  ASSUME IInv, NEW c \in Conns,
         accept_connection_cb(c) \/ accept_connection_cb_fails(c)
  PROVE  Promise!Open(c) \/ UNCHANGED barVars
<1>1. /\ conn[c] = "free" /\ ~Live(c)
      /\ UNCHANGED <<assuan, ctrl>>
  BY DEF accept_connection_cb, accept_connection_cb_fails, Live
<1>2. \A d \in Conns : d # c => Same(d)
  BY <1>1 DEF accept_connection_cb, accept_connection_cb_fails, Same, IInv, TypeOK
<1>3. CASE accept_connection_cb(c)
  <2>1. Live(c)'
    BY <1>3 DEF accept_connection_cb, Live, IInv, TypeOK
  <2>2. openBar' = [openBar EXCEPT ![c] = TRUE]
    BY <1>2, <2>1, LocalStep
  <2>3. /\ commandBar' = commandBar /\ replyBar' = replyBar
        /\ recipientsBar' = recipientsBar /\ senderBar' = senderBar
    BY <1>1, <1>2, KeptAt
  <2> QED BY <1>1, <2>2, <2>3
          DEF Promise!Open, openBar, commandBar, replyBar, recipientsBar, senderBar
<1>4. CASE accept_connection_cb_fails(c)
  <2>1. ~Live(c)'
    BY <1>4 DEF accept_connection_cb_fails, Live, IInv, TypeOK
  <2>2. Live(c)' = Live(c)
    BY <1>1, <2>1 DEF Live
  <2> QED BY <1>1, <1>2, <2>2, StutterAt
<1> QED BY <1>3, <1>4

LEMMA StepImplementsPromise ==
  IInv /\ [Next]_vars => [Promise!Next]_barVars
<1> SUFFICES ASSUME IInv, [Next]_vars
             PROVE  Promise!Next \/ UNCHANGED barVars
  OBVIOUS
<1>1. CASE gpa_stop_server \/ UNCHANGED vars
  BY <1>1 DEF gpa_stop_server, vars, barVars, openBar, commandBar, replyBar,
              recipientsBar, senderBar, Live
<1>2. ASSUME NEW c \in Conns, SendLine(c) \/ HangUp(c)
      PROVE  UNCHANGED barVars
  BY <1>2 DEF SendLine, HangUp, barVars, openBar, commandBar, replyBar,
              recipientsBar, senderBar, Live
<1>3. ASSUME NEW c \in Conns, accept_connection_cb(c) \/ accept_connection_cb_fails(c)
      PROVE  Promise!Next \/ UNCHANGED barVars
  BY <1>3, AcceptImplementsOpen DEF Promise!Next
<1>4. ASSUME NEW c \in Conns, receive_cb(c)
      PROVE  Promise!Next
  BY <1>4, ReceiveImplementsPromise
<1>5. ASSUME NEW c \in Conns,
             idle_cb(c) \/ GpgmeDone(c) \/ UserAnswers(c) \/ warning_dismissed(c)
      PROVE  Promise!Next \/ UNCHANGED barVars
  BY <1>5, OperationImplementsPromise
<1> QED BY <1>1, <1>2, <1>3, <1>4, <1>5 DEF Next

\* The server implements what the help texts of its commands promise: one
\* answer for each command, recipients that accumulate until a RESET or a
\* successful ENCRYPT, a sender that stays until a RESET or a successful SIGN,
\* and nothing lost through a command that fails.
THEOREM ServerKeepsItsPromise ==
  Spec => KeepsItsPromise
<1>1. Init => Promise!Init
  <2> SUFFICES ASSUME Init PROVE Promise!Init
    OBVIOUS
  <2>1. \A c \in Conns : Live(c) = FALSE
    BY DEF Init, Live
  <2>2. \A c \in Conns : /\ assuan[c].command = "none" /\ assuan[c].reply = "none"
                         /\ ctrl[c].recipients = {} /\ ctrl[c].sender = FALSE
    BY DEF Init, NewAssuan, NewCtrl
  <2> QED BY <2>1, <2>2 DEF Promise!Init
<1>2. IInv /\ [Next]_vars => [Promise!Next]_(Promise!vars)
  BY StepImplementsPromise
     DEF Promise!vars, barVars, openBar, commandBar, replyBar, recipientsBar, senderBar
<1> QED BY <1>1, <1>2, InductiveInvariant, PTL DEF Spec, KeepsItsPromise, Promise!Spec
=============================================================================
