------------------------- MODULE EventCopiesProofs -------------------------
(***************************************************************************)
(* Sending the outbox, for every value of the constants: an event is on    *)
(* the server once, however often its creation is sent, and what was last  *)
(* written of it here gets there, if what waits is sent in order.          *)
(***************************************************************************)
EXTENDS EventSyncProofs

-----------------------------------------------------------------------------
(* The queue is worked from its first op on, whatever else happens.        *)

\* The mark of the op being sent, the sync it is sent in, its one request.
Idle ==
  /\ held = {} => sending = Nobody
  /\ held # {} => syncing
  /\ syncing \/ DOMAIN fresh = {}
  /\ \A r, s \in wire : r = s

\* What was there before: an event the server had, a temporary id handed out, an id
\* replaced, the clientId a row was made under.
Ages ==
  /\ \A e \in DOMAIN wanted : e \in DOMAIN origin \/ (e < 0 /\ nextTempId < e)
  /\ \A i \in DOMAIN remap : nextTempId < i
  /\ DOMAIN eventRemap \subseteq DOMAIN origin
  /\ \A id \in DOMAIN server : server[id].client <= writes

WInv == HeldFirst /\ NoneParked /\ Idle /\ Ages

\* A deletion takes the place of what waits for the event, but for the op being sent.
LEMMA DeleteQueue ==
  ASSUME SInv, NoneParked, HeldFirst, NEW id, NEW base,
         Delete("event", id, NoRefs, base)
  PROVE  LET target == ResolveEvent(id)
             gone   == Replaced("event", target)
         IN  /\ \A t \in DOMAIN ops' :
                  \/ t \in DOMAIN ops \ gone /\ ops'[t] = ops[t]
                  \/ /\ t = writes + 1
                     /\ ops'[t].kind = "delete" /\ ops'[t].target = target
                     /\ ops'[t].write = writes + 1
                     /\ IsWaiting(ops'[t]) /\ ops'[t].base = EarliestBase("event", target, base)
             /\ \A t \in DOMAIN ops \ gone : t \in DOMAIN ops' /\ ops'[t] = ops[t]
             /\ (\A t \in gone : ~IsCreation(ops[t])) => writes + 1 \in DOMAIN ops'
             /\ \A t \in gone : t \in DOMAIN ops /\ ops[t].target = target
                                  /\ \A h \in held : t # h.ticket
<1> DEFINE target == ResolveEvent(id)
           given == EarliestBase("event", target, base)
           gone == Replaced("event", target)
           left == Without(ops, gone)
           op == NewOp("event", "delete", target, NoRefs, given)
<1>1. /\ writes \in Nat /\ DOMAIN ops \subseteq 1..writes
      /\ Target("event", id) = target
  BY DEF SInv, IInv, TypeOK, Queue, Target
<1>2. \A t \in gone : t \in DOMAIN ops /\ ops[t].target = target /\ \A h \in held : t # h.ticket
  BY DEF Replaced, About, HeldFirst
<1>3. DOMAIN left = DOMAIN ops \ gone /\ \A t \in DOMAIN left : left[t] = ops[t]
  BY DEF Without
<1>4. Admitted(left, op) = op
  <2>1. op.parked = NotHeld /\ op = [op EXCEPT !.parked = NotHeld]
    BY DEF NewOp
  <2> HIDE DEF op, left
  <2> QED BY <1>3, <2>1, AdmittedWaits DEF NoneParked
<1>5. /\ op.target = target /\ op.kind = "delete" /\ op.base = given
      /\ op.write = writes + 1 /\ IsWaiting(op)
  BY DEF NewOp, IsWaiting
<1>6. IF \E t \in gone : IsCreation(ops[t]) THEN ops' = left
      ELSE ops' = Extended(left, writes + 1, op)
  BY <1>1, <1>4 DEF Delete, DeleteOp
<1> HIDE DEF target, gone, left, op, given
<1>7. /\ \A t \in DOMAIN ops' : \/ t \in DOMAIN left /\ ops'[t] = ops[t]
                                \/ t = writes + 1 /\ ops'[t] = op
      /\ \A t \in DOMAIN left : t \in DOMAIN ops' /\ ops'[t] = ops[t]
      /\ (\A t \in gone : ~IsCreation(ops[t])) => writes + 1 \in DOMAIN ops'
  BY <1>1, <1>3, <1>6 DEF Extended
<1> QED BY <1>2, <1>3, <1>5, <1>7 DEF target, gone, given

\* A completion takes the op held from the queue, and points the rest at its new id.
LEMMA CompleteQueue ==
  ASSUME SInv, NEW h \in held, NEW id, NEW givenUp, Complete(h, id, givenUp)
  PROVE  /\ DOMAIN ops' = DOMAIN ops \ {h.ticket}
         /\ \A t \in DOMAIN ops' :
              /\ ops'[t].kind = ops[t].kind /\ ops'[t].base = ops[t].base
              /\ ops'[t].write = ops[t].write /\ ops'[t].parked = ops[t].parked
              /\ ops'[t].target = IF Rewrites(h, id) /\ ops[t].target = h.op.target
                                  THEN id ELSE ops[t].target
<1> DEFINE left == Without(ops, {h.ticket})
           g == [t \in DOMAIN left |-> Rewritten(left[t], h.op.target, id, h.op.entity)]
<1>1. /\ DOMAIN left = DOMAIN ops \ {h.ticket} /\ \A t \in DOMAIN left : left[t] = ops[t]
      /\ \A t \in DOMAIN ops : ops[t] \in Op
      /\ h.op.target \in Int
      /\ h.op.entity = "event" /\ \A t \in DOMAIN ops : ops[t].entity = "event"
  BY DEF Without, SInv, IInv, TypeOK, Held, Op, Outboxed, Taken, Queued, EventOp
<1>2. ops' = IF Rewrites(h, id) THEN g ELSE left
  BY DEF Complete
<1> HIDE DEF left
<1>3. CASE ~Rewrites(h, id)
  BY <1>1, <1>2, <1>3
<1>4. CASE Rewrites(h, id)
  <2>1. \A t \in DOMAIN left :
          /\ g[t].kind = ops[t].kind /\ g[t].base = ops[t].base
          /\ g[t].write = ops[t].write /\ g[t].parked = ops[t].parked
          /\ g[t].target = IF ops[t].target = h.op.target THEN id ELSE ops[t].target
    BY <1>1, RewrittenFields
  <2>2. DOMAIN g = DOMAIN left /\ ops' = g
    BY <1>2, <1>4
  <2> HIDE DEF g
  <2> QED BY <1>1, <1>4, <2>1, <2>2
<1> QED BY <1>3, <1>4

\* An answer taken or a deletion settled completes the op held.
LEMMA AnswerCompletes ==
  ASSUME SInv, TakeAnswer \/ SettleDeletion
  PROVE  \E h \in held, id \in Nat, givenUp \in BOOLEAN :
           /\ Complete(h, id, givenUp)
           /\ id # NoId => id \in DOMAIN origin
<1>1. CASE TakeAnswer
  <2>1. PICK r \in wire, h \in held : Complete(h, r.row, FALSE)
    BY <1>1 DEF TakeAnswer
  <2>2. r.row \in Nat /\ (r.row # NoId => r.row \in DOMAIN origin)
    BY DEF SInv, Synced, OnWire, Requests, SentFor
  <2> QED BY <2>1, <2>2
<1>2. CASE SettleDeletion
  <2>1. PICK h \in held, givenUp \in BOOLEAN : Complete(h, NoId, givenUp)
    BY <1>2 DEF SettleDeletion
  <2> QED BY <2>1 DEF NoId
<1> QED BY <1>1, <1>2

\* The ids in use are negative and handed out, or of the server.
LEMMA IdsAge ==
  ASSUME SInv, Ages, NEW id \in Ids
  PROVE  /\ id \in DOMAIN origin \/ (id < 0 /\ nextTempId < id)
         /\ id # nextTempId
<1>1. nextTempId \in Int /\ nextTempId < 0
  BY IdsResolve DEF SInv
<1>2. \A i \in DOMAIN origin : i \in Nat \ {0}
  BY DEF SInv, Synced, Origins
<1>3. id \in Int /\ (id \in DOMAIN origin \/ id \in DOMAIN wanted)
  BY DEF Ids, Event
<1> QED BY <1>1, <1>2, <1>3 DEF Ages

\* Steps that leave the queue alone.
LEMMA SameWorked ==
  ASSUME WInv, UNCHANGED <<ops, held, sending>>
  PROVE  HeldFirst' /\ NoneParked'
BY DEF WInv, HeldFirst, NoneParked

\* Rows may go; a row made is under the clientId of a write.
LEMMA AgesKept ==
  ASSUME Ages, UNCHANGED <<nextTempId, remap, eventRemap, wanted>>, writes' = writes,
         \A id \in DOMAIN origin : id \in DOMAIN origin',
         \A id \in DOMAIN server' :
           (id \in DOMAIN server /\ server'[id].client = server[id].client)
             \/ server'[id].client <= writes
  PROVE  Ages'
BY DEF Ages

LEMMA CreateEventWorked ==
  ASSUME SInv, WInv, CreateEvent
  PROVE  WInv'
<1> DEFINE c == [f \in Fields |-> writes + 1]
           op == NewOp("event", "create", nextTempId, NoRefs, NoBase)
<1>1. /\ Create("event", NoRefs) /\ wanted' = Extended(wanted, nextTempId, c)
      /\ \/ UNCHANGED <<server, origin>>
         \/ Insert(writes + 1, c, nextTempId)
      /\ UNCHANGED <<syncing, fresh, wire>>
  BY DEF CreateEvent
<1> HIDE DEF c
<1>2. /\ writes \in Nat /\ DOMAIN ops \subseteq 1..writes
      /\ nextTempId \in Int /\ nextTempId < 0
      /\ \A i \in DOMAIN remap : i \in Int
      /\ \A e \in DOMAIN wanted : e \in Int
  BY IdsResolve DEF SInv, IInv, TypeOK, Queue, Synced, Origins
<1>3. Admitted(ops, op) = op
  <2>1. op.parked = NotHeld /\ op = [op EXCEPT !.parked = NotHeld]
    BY DEF NewOp
  <2> HIDE DEF op
  <2> QED BY <2>1, AdmittedWaits DEF WInv, NoneParked
<1>4. IsWaiting(op)
  BY DEF NewOp, IsWaiting
<1>5. /\ ops' = Extended(ops, writes + 1, op) /\ nextTempId' = nextTempId - 1
      /\ writes' = writes + 1 /\ UNCHANGED <<remap, eventRemap, sending, held>>
  BY <1>1, <1>3 DEF Create, CountWrite, TempIdAfter
<1> HIDE DEF op
<1>6. /\ DOMAIN ops' = DOMAIN ops \cup {writes + 1} /\ ops'[writes + 1] = op
      /\ \A t \in DOMAIN ops : t # writes + 1 /\ ops'[t] = ops[t]
  BY <1>2, <1>5 DEF Extended
<1>7. HeldFirst' /\ NoneParked'
  BY <1>2, <1>4, <1>5, <1>6 DEF WInv, HeldFirst, NoneParked, IsWaiting
<1>8. Idle'
  BY <1>1, <1>5 DEF WInv, Idle
<1>9. Ages'
  <2>1. \A e \in DOMAIN wanted' : e \in DOMAIN wanted \/ e = nextTempId
    BY <1>1 DEF Extended
  <2>2. \A id \in DOMAIN origin : id \in DOMAIN origin'
    BY <1>1 DEF Insert, Extended
  <2>3. \A id \in DOMAIN server' :
          (id \in DOMAIN server /\ server'[id] = server[id]) \/ server'[id].client = writes + 1
    BY <1>1 DEF Insert, Extended
  <2>4. \A id \in DOMAIN server : server[id].client \in Nat
    BY DEF SInv, Synced, Clients
  <2>5. \A e \in DOMAIN wanted' : e \in DOMAIN origin' \/ (e < 0 /\ nextTempId' < e)
    BY <1>2, <1>5, <2>1, <2>2 DEF WInv, Ages
  <2>6. \A i \in DOMAIN remap' : nextTempId' < i
    BY <1>2, <1>5 DEF WInv, Ages
  <2>7. \A id \in DOMAIN server' : server'[id].client <= writes'
    BY <1>2, <1>5, <2>3, <2>4 DEF WInv, Ages
  <2> QED BY <1>5, <2>2, <2>5, <2>6, <2>7 DEF WInv, Ages
<1> QED BY <1>7, <1>8, <1>9 DEF WInv

LEMMA ChangeWorked ==
  ASSUME SInv, WInv, NEW id \in ScreenIds("event"), UpdateEvent(id) \/ DeleteEvent(id)
  PROVE  WInv'
<1>1. writes \in Nat /\ DOMAIN ops \subseteq 1..writes
  BY DEF SInv, IInv, TypeOK, Queue
<1>2. /\ UNCHANGED <<nextTempId, remap, eventRemap, held, sending, server, origin, syncing, fresh, wire>>
      /\ writes' = writes + 1 /\ DOMAIN wanted' = DOMAIN wanted
  BY DEF UpdateEvent, DeleteEvent, Update, Delete, CountWrite
<1>3. /\ \A h \in held : h.ticket \in DOMAIN ops' /\ ops'[h.ticket] = ops[h.ticket]
      /\ \A t \in DOMAIN ops' : (t \in DOMAIN ops \/ t = writes + 1) /\ IsWaiting(ops'[t])
  <2>1. CASE UpdateEvent(id)
    <3>1. Update("event", id, NoRefs, ServerCopy(ResolveEvent(id)))
      BY <2>1 DEF UpdateEvent
    <3>2. PICK t \in DOMAIN ops' :
            /\ t \in DOMAIN ops \/ t = writes + 1
            /\ DOMAIN ops' = DOMAIN ops \cup {t} /\ \A h \in held : t # h.ticket
            /\ \A u \in DOMAIN ops : u # t => ops'[u] = ops[u]
            /\ IsWaiting(ops'[t])
      BY <3>1, UpdateQueue DEF WInv
    <3> QED BY <3>2 DEF WInv, HeldFirst, NoneParked, IsWaiting
  <2>2. CASE DeleteEvent(id)
    <3>1. Delete("event", id, NoRefs, ServerCopy(ResolveEvent(id)))
      BY <2>2 DEF DeleteEvent
    <3> DEFINE gone == Replaced("event", ResolveEvent(id))
    <3>2. /\ \A t \in DOMAIN ops' : \/ t \in DOMAIN ops \ gone /\ ops'[t] = ops[t]
                                    \/ t = writes + 1 /\ IsWaiting(ops'[t])
          /\ \A t \in DOMAIN ops \ gone : t \in DOMAIN ops' /\ ops'[t] = ops[t]
          /\ \A t \in gone : \A h \in held : t # h.ticket
      BY <3>1, DeleteQueue DEF WInv
    <3> HIDE DEF gone
    <3> QED BY <3>2 DEF WInv, HeldFirst, NoneParked, IsWaiting
  <2> QED BY <2>1, <2>2
<1>4. HeldFirst' /\ NoneParked'
  BY <1>1, <1>2, <1>3 DEF WInv, HeldFirst, NoneParked
<1>5. Idle'
  BY <1>2 DEF WInv, Idle
<1>6. Ages'
  <2>1. \A i \in DOMAIN server : server[i].client \in Nat
    BY DEF SInv, Synced, Clients
  <2> QED BY <1>1, <1>2, <2>1 DEF WInv, Ages
<1> QED BY <1>4, <1>5, <1>6 DEF WInv

LEMMA CompletedWorked ==
  ASSUME SInv, WInv, TakeAnswer \/ SettleDeletion
  PROVE  WInv'
<1>1. PICK h \in held, id \in Nat, givenUp \in BOOLEAN :
        Complete(h, id, givenUp) /\ (id # NoId => id \in DOMAIN origin)
  BY AnswerCompletes
<1>2. /\ held' = {} /\ sending' = Nobody /\ UNCHANGED <<nextTempId, writes, server, origin, wanted, syncing>>
      /\ Remember(h, id)
  BY <1>1 DEF Complete, TakeAnswer, SettleDeletion, syncVars
<1>3. HeldFirst' /\ NoneParked'
  <2>1. /\ DOMAIN ops' = DOMAIN ops \ {h.ticket}
        /\ \A t \in DOMAIN ops' : ops'[t].parked = ops[t].parked
    BY <1>1, CompleteQueue
  <2> QED BY <1>2, <2>1 DEF WInv, HeldFirst, NoneParked, IsWaiting
<1>4. Idle'
  <2>1. syncing
    BY <1>1 DEF WInv, Idle
  <2>2. \A r, s \in wire' : r = s
    BY DEF WInv, Idle, TakeAnswer, SettleDeletion, syncVars
  <2> QED BY <1>2, <2>1, <2>2 DEF Idle
<1>5. Ages'
  <2>1. h.op.target \in Ids
    BY DEF SInv, Outboxed, Taken, EventOp
  <2>2. /\ h.op.target \in DOMAIN origin \/ (h.op.target < 0 /\ nextTempId < h.op.target)
    BY <2>1, IdsAge DEF WInv
  <2>3. h.op.target \in DOMAIN origin => ~(h.op.target < 0)
    BY DEF SInv, Synced, Origins
  <2>4. /\ \A i \in DOMAIN remap' : i \in DOMAIN remap \/ (i = h.op.target /\ i < 0)
        /\ \A i \in DOMAIN eventRemap' : i \in DOMAIN eventRemap \/ (i = h.op.target /\ ~(i < 0))
    BY <1>2 DEF Remember, Extended
  <2> QED BY <1>2, <2>2, <2>3, <2>4 DEF WInv, Ages
<1> QED BY <1>3, <1>4, <1>5 DEF WInv

LEMMA TakeNextWorked ==
  ASSUME SInv, WInv, TakeNext
  PROVE  WInv'
<1>1. PICK t \in DOMAIN ops :
        /\ \A u \in DOMAIN ops : IsWaiting(ops[u]) => t <= u
        /\ sending' = t /\ held' = {[ticket |-> t, op |-> ops[t]]}
  BY DEF TakeNext, Take
<1>2. /\ syncing /\ UNCHANGED <<ops, nextTempId, remap, eventRemap, server, origin, wanted>>
      /\ UNCHANGED <<syncing, fresh, wire>> /\ writes' = writes
  BY DEF TakeNext, Take, syncVars
<1>3. \A u \in DOMAIN ops : ~(u < t)
  <2>1. \A u \in DOMAIN ops : u \in Nat /\ IsWaiting(ops[u])
    BY DEF SInv, IInv, TypeOK, WInv, NoneParked
  <2> QED BY <1>1, <2>1
<1>4. HeldFirst' /\ NoneParked'
  BY <1>1, <1>2, <1>3 DEF HeldFirst, WInv, NoneParked
<1>5. Idle'
  BY <1>1, <1>2 DEF WInv, Idle
<1>6. Ages'
  BY <1>2 DEF WInv, Ages
<1> QED BY <1>4, <1>5, <1>6 DEF WInv

LEMMA SyncEndsWorked ==
  ASSUME SInv, WInv, GiveUp \/ EndSync \/ Killed
  PROVE  WInv'
<1>1. /\ UNCHANGED <<ops, nextTempId, server, origin, wanted>> /\ writes' = writes
      /\ held' = {} /\ syncing' = FALSE /\ fresh' = Nothing
      /\ \/ UNCHANGED <<remap, eventRemap>>
         \/ DOMAIN remap' = {} /\ DOMAIN eventRemap' = {}
  BY DEF GiveUp, EndSync, Killed, Abort, Restart, vars
<1>2. wire' = {}
  BY DEF GiveUp, EndSync, Killed, SInv, Synced, OnWire
<1>3. sending' = Nobody
  BY DEF GiveUp, EndSync, Killed, Abort, Restart, vars, WInv, Idle
<1>4. HeldFirst' /\ NoneParked' /\ Idle'
  BY <1>1, <1>2, <1>3 DEF HeldFirst, WInv, NoneParked, Idle, Nothing
<1>5. Ages'
  BY <1>1 DEF WInv, Ages
<1> QED BY <1>4, <1>5 DEF WInv

\* Steps that leave the outbox alone.
LEMMA AloneWorked ==
  ASSUME SInv, WInv, UNCHANGED vars, UNCHANGED wanted, Idle',
         \A id \in DOMAIN origin : id \in DOMAIN origin',
         \A id \in DOMAIN server' :
           (id \in DOMAIN server /\ server'[id].client = server[id].client)
             \/ server'[id].client <= writes
  PROVE  WInv'
<1>1. HeldFirst' /\ NoneParked'
  BY SameWorked DEF vars
<1>2. Ages'
  BY AgesKept DEF vars, WInv
<1> QED BY <1>1, <1>2 DEF WInv

LEMMA EngineWorked ==
  ASSUME SInv, WInv, ReadServer \/ SendWrite \/ SendDeletion \/ CreateAgain
  PROVE  WInv'
<1>1. UNCHANGED vars /\ UNCHANGED wanted /\ UNCHANGED <<server, origin>>
  BY DEF ReadServer, SendWrite, SendDeletion, CreateAgain
<1>2. \A r, s \in wire' : r = s
  BY DEF ReadServer, SendWrite, SendDeletion, CreateAgain, WInv, Idle
<1>3. Idle'
  BY <1>1, <1>2 DEF ReadServer, SendWrite, SendDeletion, CreateAgain, WInv, Idle, vars
<1> QED BY <1>1, <1>3, AloneWorked

LEMMA ServerWorked ==
  ASSUME SInv, WInv, ServerSteps
  PROVE  WInv'
<1>1. UNCHANGED vars /\ UNCHANGED <<syncing, fresh>>
  BY DEF ServerSteps, ServePost, ServeChange, OtherDelete, OtherEdit
<1>2. \A r, s \in wire' : r = s
  BY DEF ServerSteps, ServePost, ServeChange, OtherDelete, OtherEdit, Answered, WInv, Idle
<1>3. Idle'
  BY <1>1, <1>2 DEF WInv, Idle, vars
<1>4. /\ \A id \in DOMAIN origin : id \in DOMAIN origin'
      /\ \A id \in DOMAIN server' :
           (id \in DOMAIN server /\ server'[id].client = server[id].client)
             \/ server'[id].client <= writes
  <2>1. CASE ServePost
    <3>1. PICK h \in held :
            \/ UNCHANGED <<server, origin>>
            \/ \E fields, event : Insert(h.ticket, fields, event)
      BY <2>1 DEF ServePost
    <3>2. h.ticket <= writes
      BY DEF SInv, Outboxed, Taken
    <3> QED BY <3>1, <3>2 DEF Insert, Extended
  <2>2. CASE ServeChange
    <3>1. \A id \in DOMAIN server : server[id] \in [client : Nat, fields : Contents]
      BY DEF SInv, Synced, Clients
    <3>2. UNCHANGED origin
      BY <2>2 DEF ServeChange
    <3>3. \/ UNCHANGED server
          \/ \E id \in DOMAIN server : \E fields : server' = [server EXCEPT ![id].fields = fields]
          \/ \E id : server' = Without(server, {id})
      BY <2>2 DEF ServeChange
    <3> QED BY <3>1, <3>2, <3>3 DEF Without
  <2>3. CASE \E id \in DOMAIN server : OtherDelete(id)
    BY <2>3 DEF OtherDelete, Without
  <2>4. CASE \E id \in DOMAIN server : \E f \in Fields : OtherEdit(id, f)
    <3>1. \A id \in DOMAIN server : server[id] \in [client : Nat, fields : Contents]
      BY DEF SInv, Synced, Clients
    <3> QED BY <2>4, <3>1 DEF OtherEdit
  <2> QED BY <2>1, <2>2, <2>3, <2>4 DEF ServerSteps
<1>5. CASE DOMAIN wanted' = DOMAIN wanted
  <2>1. HeldFirst' /\ NoneParked'
    BY <1>1, SameWorked DEF vars
  <2>2. Ages'
    BY <1>1, <1>4, <1>5 DEF WInv, Ages, vars
  <2> QED BY <1>3, <2>1, <2>2 DEF WInv
<1>6. DOMAIN wanted' = DOMAIN wanted
  BY DEF ServerSteps, ServePost, ServeChange, OtherDelete, OtherEdit
<1> QED BY <1>5, <1>6

LEMMA StepWorked ==
  ASSUME SInv, WInv, [SyncNext]_allVars
  PROVE  WInv'
<1>1. CASE CreateEvent \/ \E id \in ScreenIds("event") : UpdateEvent(id) \/ DeleteEvent(id)
  BY <1>1, CreateEventWorked, ChangeWorked
<1>2. CASE EngineSteps
  BY <1>2, EngineWorked, TakeNextWorked, CompletedWorked, SyncEndsWorked DEF EngineSteps
<1>3. CASE ServerSteps
  BY <1>3, ServerWorked
<1>4. CASE UNCHANGED allVars \/ \E id \in ScreenIds("event") : OpenForm(id)
  <2>1. UNCHANGED <<vars, text, server, origin, saved, syncing, fresh, wire, wanted, unwanted, others>>
    BY <1>4, OpenFormOnly DEF allVars, syncVars
  <2>2. Idle'
    BY <2>1 DEF WInv, Idle, vars, syncVars
  <2> QED BY <2>1, <2>2, AloneWorked DEF syncVars
<1> QED BY <1>1, <1>2, <1>3, <1>4 DEF SyncNext, UserWrites

LEMMA WInvHolds == SyncSpec => [](SInv /\ WInv)
<1>1. ASSUME SyncInit PROVE WInv
  <2>1. DOMAIN ops = {} /\ held = {} /\ sending = Nobody /\ DOMAIN remap = {} /\ DOMAIN eventRemap = {}
    BY <1>1 DEF SyncInit, Init
  <2>2. /\ syncing = FALSE /\ DOMAIN fresh = {} /\ wire = {} /\ DOMAIN wanted = DOMAIN origin
        /\ \A id \in DOMAIN server : server[id].client = 0
        /\ writes = 0
    BY <1>1 DEF SyncInit, Init, Nothing, Nobody
  <2> QED BY <2>1, <2>2 DEF WInv, HeldFirst, NoneParked, Idle, Ages
<1>2. SInv /\ WInv /\ [SyncNext]_allVars => WInv'
  BY StepWorked
<1> QED BY <1>1, <1>2, SInvHolds, PTL DEF SyncSpec

-----------------------------------------------------------------------------
(* Every event once.                                                       *)

\* The ids of events in use: those a waiting op is about, and those an id on a
\* screen resolves to.
Resolved == {ResolveEvent(i) : i \in ScreenIds("event")}
Edited   == {ops[t].target : t \in {u \in DOMAIN ops : ops[u].kind # "delete"}}
InUse    == Resolved \cup {ops[t].target : t \in DOMAIN ops}

\* One of them for an event, and none of them replaced.
OneName == \A x, y \in InUse : Event(x) = Event(y) => x = y
Current == \A x \in InUse : IF x < 0 THEN x \notin DOMAIN remap ELSE x \notin DOMAIN eventRemap

\* Of the ops about one event, its creation is the first and its deletion the last;
\* what is being deleted is on no screen.
CreatedFirst ==
  \A c \in DOMAIN ops : ops[c].kind = "create" =>
    ops[c].target < 0 /\ \A t \in DOMAIN ops : ops[t].target = ops[c].target => c <= t
DeletionsLast ==
  \A d \in DOMAIN ops : ops[d].kind = "delete" =>
    /\ ops[d].target \notin Resolved
    /\ \A t \in DOMAIN ops : ops[t].target = ops[d].target => t <= d

\* Without creations here there is no temporary id.
NoTemps ==
  CanCreate \/ /\ \A t \in DOMAIN ops : ops[t].kind # "create"
               /\ \A i \in ScreenIds("event") : i > 0

NamesInv == OneName /\ Current /\ CreatedFirst /\ DeletionsLast /\ NoTemps

\* The row of an event in use is that id, or was made by a request of the first op
\* of the queue, whose answer is not taken yet; or the event is being deleted, and
\* the sync did not find it.
MadeFor(y, n) == server[y].client \in DOMAIN ops /\ ops[server[y].client].target = n
OneRow ==
  \A y \in DOMAIN server : \A n \in InUse : Event(n) = origin[y] =>
    y = n \/ MadeFor(y, n) \/ (n \notin Resolved \cup Edited /\ n \notin DOMAIN fresh)
Making ==
  \A y \in DOMAIN server : \A t \in DOMAIN ops : server[y].client = t =>
    /\ \A u \in DOMAIN ops : t <= u
    /\ ops[t].kind # "delete" /\ ops[t].target # y /\ origin[y] = Event(ops[t].target)
    /\ ops[t].target \in DOMAIN fresh => held # {}

\* An event replaced does not come back.
Gone == \A i \in DOMAIN eventRemap : i \notin DOMAIN server

RowsInv == OneCopy /\ OneRow /\ Making /\ Gone

\* Nobody else writes during a sync.
Quiet == ~Racing \/ MaxOthers = 0

\* What a sync read of the events in use, but for what it is deleting; the copy saved.
FreshInUse ==
  /\ syncing => \A n \in InUse \cap DOMAIN server : n \in DOMAIN fresh
  /\ Quiet => \A n \in InUse \cap DOMAIN fresh :
       n \in DOMAIN server \/ \E r \in wire : r.id = n /\ r.kind = "DELETE"
SavedInUse ==
  Quiet => /\ \A i \in DOMAIN eventRemap : i \notin DOMAIN saved
           /\ syncing => \A n \in (Resolved \cup Edited) \cap DOMAIN saved : n \in DOMAIN server

\* Left alone, the server has what is in use.
AllThere == MaxOthers = 0 => \A n \in Resolved \cup Edited : n > 0 => n \in DOMAIN server

\* What the request under way does, or did.
Asked ==
  \A r \in wire, h \in held :
    /\ r.kind = "POST" \/ r.answer = "missing" => r.id \notin DOMAIN server
    /\ r.kind = "POST" /\ r.answer = "ok" =>
         /\ origin[r.row] = Event(r.id) /\ r.row # r.id /\ r.row \notin DOMAIN eventRemap
         /\ CreatedUnder(h.ticket) \subseteq {r.row}
         /\ Quiet => r.row \in DOMAIN server
    /\ r.kind = "PATCH" =>
         r.id \in DOMAIN fresh /\ (r.answer = "ok" => CreatedUnder(h.ticket) = {})
    /\ r.kind = "DELETE" /\ r.answer = "ok" => r.id \notin DOMAIN server

CInv == NamesInv /\ RowsInv /\ FreshInUse /\ SavedInUse /\ AllThere /\ Asked

LEMMA Members ==
  /\ Resolved \subseteq InUse /\ Edited \subseteq InUse
  /\ \A t \in DOMAIN ops : ops[t].target \in InUse /\ (ops[t].kind # "delete" => ops[t].target \in Edited)
  /\ \A n \in InUse : n \in Resolved \/ \E t \in DOMAIN ops : ops[t].target = n
  /\ \A n \in Edited : \E t \in DOMAIN ops : ops[t].kind # "delete" /\ ops[t].target = n
BY DEF InUse, Edited

\* An id in use is temporary or the server's.
LEMMA InUseAge ==
  ASSUME SInv, WInv, NEW n \in InUse
  PROVE  /\ n \in Ids /\ n \in Int /\ n # nextTempId
         /\ \/ n > 0 /\ n \in DOMAIN origin
            \/ n < 0 /\ n \notin DOMAIN origin /\ nextTempId < n
<1>1. n \in Ids
  <2>1. CASE n \in Resolved
    <3>1. PICK i \in ScreenIds("event") : n = ResolveEvent(i)
      BY <2>1 DEF Resolved
    <3>2. i \in Ids
      BY DEF SInv, Outboxed, EventsShown, ScreenIds
    <3> QED BY <3>1, <3>2, ResolvesToEvent DEF SInv, Outboxed, Synced
  <2>2. CASE \E t \in DOMAIN ops : ops[t].target = n
    BY <2>2 DEF SInv, Outboxed, Queued, EventOp
  <2> QED BY <2>1, <2>2 DEF InUse
<1>2. nextTempId \in Int /\ nextTempId < 0
  BY IdsResolve DEF SInv
<1>3. \A i \in DOMAIN origin : i \in Nat \ {0}
  BY DEF SInv, Synced, Origins
<1>4. n \in DOMAIN origin \/ (n < 0 /\ nextTempId < n)
  BY <1>1, IdsAge DEF WInv
<1> QED BY <1>1, <1>2, <1>3, <1>4 DEF Ids

\* The op held.
LEMMA HeldFacts ==
  ASSUME SInv, WInv, NEW h \in held
  PROVE  /\ h.ticket \in DOMAIN ops /\ ops[h.ticket] = h.op /\ \A k \in held : k = h
         /\ \A t \in DOMAIN ops : h.ticket <= t
         /\ h.op.target \in InUse /\ (h.op.kind # "delete" => h.op.target \in Edited)
         /\ syncing /\ sending = h.ticket /\ h.ticket \in Nat \ {0} /\ h.ticket <= writes
         /\ h.op.entity = "event"
<1>1. /\ h.ticket \in DOMAIN ops /\ ops[h.ticket] = h.op /\ sending = h.ticket
      /\ \A t \in DOMAIN ops : ~(t < h.ticket)
  BY DEF WInv, HeldFirst
<1>2. DOMAIN ops \subseteq 1..writes /\ writes \in Nat
  BY DEF SInv, IInv, TypeOK, Queue
<1>3. \A k \in held : k = h
  BY DEF SInv, Outboxed, Taken
<1>4. h.op.entity = "event" /\ syncing
  BY DEF SInv, Outboxed, Taken, EventOp, WInv, Idle
<1> QED BY <1>1, <1>2, <1>3, <1>4, Members

\* A row made for a waiting op was made by the op held, or, while none is, by the first.
LEMMA MadeByHeld ==
  ASSUME SInv, WInv, CInv, NEW h \in held, NEW y \in DOMAIN server, server[y].client \in DOMAIN ops
  PROVE  server[y].client = h.ticket /\ y \in CreatedUnder(h.ticket)
         /\ h.op.kind # "delete" /\ origin[y] = Event(h.op.target) /\ y # h.op.target
<1>1. \A t \in DOMAIN ops : t \in Nat
  BY DEF SInv, IInv, TypeOK
<1>2. server[y].client <= h.ticket
  BY HeldFacts DEF CInv, RowsInv, Making
<1>3. server[y].client = h.ticket
  BY <1>1, <1>2, HeldFacts
<1> QED BY <1>3, HeldFacts DEF CInv, RowsInv, Making, CreatedUnder

LEMMA SameEvents ==
  ASSUME UNCHANGED origin
  PROVE  \A n : Event(n)' = Event(n)
BY DEF Event

\* Steps that change neither the queue nor the screens.
LEMMA SameNames ==
  ASSUME UNCHANGED <<ops, shown, remap, eventRemap>>
  PROVE  Resolved' = Resolved /\ Edited' = Edited /\ InUse' = InUse
BY DEF Resolved, Edited, InUse, ScreenIds, ResolveEvent, Resolve

LEMMA NamesKept ==
  ASSUME CInv, UNCHANGED <<ops, shown, remap, eventRemap>>,
         \A n \in InUse : Event(n)' = Event(n)
  PROVE  NamesInv'
<1>1. Resolved' = Resolved /\ InUse' = InUse
  BY SameNames
<1>2. OneName'
  BY <1>1 DEF CInv, NamesInv, OneName
<1>3. Current'
  BY <1>1 DEF CInv, NamesInv, Current
<1>4. CreatedFirst' /\ DeletionsLast' /\ NoTemps'
  BY <1>1 DEF CInv, NamesInv, CreatedFirst, DeletionsLast, NoTemps, ScreenIds
<1> QED BY <1>2, <1>3, <1>4 DEF NamesInv

\* Steps that let rows go and know no less of what is left.
LEMMA RowsKept ==
  ASSUME CInv, UNCHANGED <<ops, origin>>, DOMAIN eventRemap' \subseteq DOMAIN eventRemap,
         InUse' \subseteq InUse, Resolved' \cup Edited' \subseteq Resolved \cup Edited,
         \A y \in DOMAIN server' : y \in DOMAIN server /\ server'[y].client = server[y].client,
         \A n \in InUse : n \in DOMAIN fresh' => n \in DOMAIN fresh,
         \A t \in DOMAIN ops : ops[t].target \in DOMAIN fresh' => held' # {} \/ held = {}
  PROVE  RowsInv'
<1>1. \A n : Event(n)' = Event(n)
  BY SameEvents
<1>2. OneCopy' /\ Gone'
  BY DEF CInv, RowsInv, OneCopy, Gone
<1>3. OneRow'
  BY <1>1 DEF CInv, RowsInv, OneRow, MadeFor
<1>4. Making'
  BY <1>1, Members DEF CInv, RowsInv, Making
<1> QED BY <1>2, <1>3, <1>4 DEF RowsInv

LEMMA ReadServerCopies ==
  ASSUME SInv, WInv, CInv, ReadServer
  PROVE  CInv'
<1>1. /\ UNCHANGED <<ops, shown, remap, eventRemap, held, server, origin>>
      /\ fresh' = Rows(server) /\ saved' = Rows(server) /\ held = {}
  BY DEF ReadServer, vars
<1>2. wire' = {}
  BY DEF ReadServer, SInv, Synced, OnWire
<1>3. DOMAIN fresh' = DOMAIN server /\ DOMAIN saved' = DOMAIN server
  BY <1>1 DEF Rows
<1>4. Resolved' = Resolved /\ Edited' = Edited /\ InUse' = InUse /\ \A n : Event(n)' = Event(n)
  BY <1>1, SameNames, SameEvents
<1>5. \A n \in DOMAIN server : Event(n) = origin[n]
  BY DEF SInv, Synced, Clients, Event
<1>6. RowsInv'
  <2>1. OneCopy' /\ Gone'
    BY <1>1 DEF CInv, RowsInv, OneCopy, Gone
  <2>2. OneRow'
    <3>1. ASSUME NEW y \in DOMAIN server, NEW n \in InUse, Event(n) = origin[y],
                 y # n, ~MadeFor(y, n)
          PROVE  n \notin Resolved \cup Edited /\ n \notin DOMAIN fresh'
      BY <1>3, <1>5, <3>1 DEF CInv, RowsInv, OneRow, OneCopy
    <3> QED BY <1>1, <1>4, <3>1 DEF OneRow, MadeFor
  <2>3. Making'
    <3>1. ASSUME NEW y \in DOMAIN server, NEW t \in DOMAIN ops, server[y].client = t
          PROVE  ops[t].target \notin DOMAIN fresh'
      BY <1>3, <1>5, <3>1 DEF CInv, RowsInv, Making, OneCopy
    <3> QED BY <1>1, <1>4, <3>1 DEF CInv, RowsInv, Making
  <2> QED BY <2>1, <2>2, <2>3 DEF RowsInv
<1>7. NamesInv'
  BY <1>1, <1>4, NamesKept
<1>8. FreshInUse' /\ SavedInUse' /\ AllThere' /\ Asked'
  BY <1>1, <1>2, <1>3, <1>4
  DEF CInv, RowsInv, Gone, FreshInUse, SavedInUse, AllThere, Asked
<1> QED BY <1>6, <1>7, <1>8 DEF CInv

LEMMA TakeNextCopies ==
  ASSUME SInv, WInv, CInv, TakeNext
  PROVE  CInv'
<1>1. /\ UNCHANGED <<ops, shown, remap, eventRemap, server, origin, saved, fresh, syncing, wire>>
      /\ held = {} /\ held' # {}
  BY DEF TakeNext, Take, syncVars
<1>2. wire = {}
  BY <1>1 DEF SInv, Synced, OnWire
<1>3. Resolved' = Resolved /\ Edited' = Edited /\ InUse' = InUse
  BY <1>1, SameNames
<1>4. NamesInv'
  BY <1>1, SameEvents, NamesKept
<1>5. RowsInv'
  BY <1>1, <1>3, RowsKept
<1>6. FreshInUse' /\ SavedInUse' /\ AllThere' /\ Asked'
  BY <1>1, <1>2, <1>3 DEF CInv, FreshInUse, SavedInUse, AllThere, Asked
<1> QED BY <1>4, <1>5, <1>6 DEF CInv

\* A request sent.
LEMMA SentCopies ==
  ASSUME SInv, WInv, CInv, UNCHANGED <<vars, text, server, origin, saved, syncing, fresh>>,
         wire = {} \/ \A s \in wire : s.kind # "DELETE",
         NEW r, wire' = {r}, r.answer = "none",
         r.kind = "POST" => r.id \notin DOMAIN server,
         r.kind = "PATCH" => r.id \in DOMAIN fresh
  PROVE  CInv'
<1>1. UNCHANGED <<ops, shown, remap, eventRemap, held>>
  BY DEF vars
<1>2. Resolved' = Resolved /\ Edited' = Edited /\ InUse' = InUse
  BY <1>1, SameNames
<1>3. NamesInv'
  BY <1>1, SameEvents, NamesKept
<1>4. RowsInv'
  BY <1>1, <1>2, RowsKept
<1>5. FreshInUse' /\ SavedInUse' /\ AllThere'
  BY <1>1, <1>2 DEF CInv, FreshInUse, SavedInUse, AllThere
<1>6. Asked'
  BY <1>1 DEF Asked
<1> QED BY <1>3, <1>4, <1>5, <1>6 DEF CInv

LEMMA SendCopies ==
  ASSUME SInv, WInv, CInv, SendWrite \/ SendDeletion \/ CreateAgain
  PROVE  CInv'
<1>1. UNCHANGED <<vars, text, server, origin, saved, syncing, fresh>>
  BY DEF SendWrite, SendDeletion, CreateAgain
<1>2. \A n \in DOMAIN server : n > 0
  BY DEF SInv, Synced, Clients, Origins
<1>3. CASE SendWrite
  <2>1. PICK h \in held :
          wire' = IF IsCreation(h.op) \/ Missing(h.op.target)
                  THEN {Request("POST", h.op.target, text[h.op.write])}
                  ELSE {Request("PATCH", h.op.target,
                                Merged(h.op.base, fresh[h.op.target], text[h.op.write]))}
    BY <1>3 DEF SendWrite
  <2>2. CASE IsCreation(h.op) \/ Missing(h.op.target)
    <3>1. PICK r : wire' = {r} /\ r.kind = "POST" /\ r.id = h.op.target /\ r.answer = "none"
      BY <2>1, <2>2, RequestMade
    <3>2. h.op.target \notin DOMAIN server
      <4>1. CASE IsCreation(h.op)
        <5>1. h.op.target < 0
          BY <4>1, HeldFacts DEF IsCreation, CInv, NamesInv, CreatedFirst
        <5>2. h.op.target \in Int
          BY HeldFacts, InUseAge
        <5> QED BY <1>2, <5>1, <5>2 DEF SInv, Synced, Clients, Origins
      <4>2. CASE Missing(h.op.target)
        <5>1. h.op.target \in Int /\ h.op.target \in InUse /\ syncing
          BY HeldFacts, InUseAge
        <5> QED BY <1>2, <4>2, <5>1 DEF Missing, CInv, FreshInUse, SInv, Synced, Clients, Origins
      <4> QED BY <2>2, <4>1, <4>2
    <3> QED BY <1>1, <1>3, <3>1, <3>2, SentCopies DEF SendWrite
  <2>3. CASE ~(IsCreation(h.op) \/ Missing(h.op.target))
    <3>1. PICK r : wire' = {r} /\ r.kind = "PATCH" /\ r.id = h.op.target /\ r.answer = "none"
      BY <2>1, <2>3, RequestMade
    <3> QED BY <1>1, <1>3, <2>3, <3>1, SentCopies DEF SendWrite, Missing
  <2> QED BY <2>2, <2>3
<1>4. CASE SendDeletion
  <2>1. \E id, fields : wire' = {Request("DELETE", id, fields)}
    BY <1>4 DEF SendDeletion
  <2>2. PICK r : wire' = {r} /\ r.kind = "DELETE" /\ r.answer = "none"
    BY <2>1, RequestMade
  <2> QED BY <1>1, <1>4, <2>2, SentCopies DEF SendDeletion
<1>5. CASE CreateAgain
  <2>1. PICK r \in wire, h \in held :
          /\ r.kind = "PATCH" /\ r.answer = "missing"
          /\ wire' = {Request("POST", r.id, text[h.op.write])}
    BY <1>5 DEF CreateAgain
  <2>2. PICK s : wire' = {s} /\ s.kind = "POST" /\ s.id = r.id /\ s.answer = "none"
    BY <2>1, RequestMade
  <2>3. s.id \notin DOMAIN server
    BY <2>1, <2>2 DEF CInv, Asked
  <2>4. \A q \in wire : q.kind # "DELETE"
    BY <2>1 DEF WInv, Idle
  <2> QED BY <1>1, <2>2, <2>3, <2>4, SentCopies
<1> QED BY <1>3, <1>4, <1>5

-----------------------------------------------------------------------------
(* The answers taken.                                                      *)

\* An op done whose event keeps its id.
LEMMA DoneNames ==
  ASSUME SInv, WInv, CInv, NEW h \in held, NEW givenUp \in BOOLEAN, Complete(h, NoId, givenUp),
         UNCHANGED origin
  PROVE  /\ DOMAIN ops' = DOMAIN ops \ {h.ticket}
         /\ \A t \in DOMAIN ops' : ops'[t].target = ops[t].target /\ ops'[t].kind = ops[t].kind
         /\ UNCHANGED eventRemap
         /\ InUse' \subseteq InUse /\ Edited' \subseteq Edited
         /\ \A n \in Resolved' : n \in Resolved \/ (givenUp /\ n = h.op.target /\ h.op.target > 0)
         /\ NamesInv'
<1> DEFINE x == h.op.target
<1>1. /\ ~Rewrites(h, NoId)
      /\ UNCHANGED <<remap, eventRemap>>
      /\ shown' = shown \cup (IF givenUp THEN {<<"event", x>>} ELSE {})
      /\ givenUp => h.op.kind = "delete" /\ x > 0
  BY HeldFacts DEF Complete, Rewrites, Remember, ShownAfter
<1>2. /\ DOMAIN ops' = DOMAIN ops \ {h.ticket}
      /\ \A t \in DOMAIN ops' : ops'[t].target = ops[t].target /\ ops'[t].kind = ops[t].kind
  BY <1>1, CompleteQueue
<1>3. ops[h.ticket] = h.op /\ h.ticket \in DOMAIN ops /\ x \in InUse
  BY HeldFacts
<1>4. ResolveEvent(x) = x
  BY <1>3 DEF CInv, NamesInv, Current, ResolveEvent, Resolve
<1> HIDE DEF x
<1>5. \A i \in ScreenIds("event")' : i \in ScreenIds("event") \/ (givenUp /\ i = x)
  BY <1>1 DEF ScreenIds
<1>6. \A i : ResolveEvent(i)' = ResolveEvent(i)
  BY <1>1 DEF ResolveEvent, Resolve
<1>7. \A n \in Resolved' : n \in Resolved \/ (givenUp /\ n = x)
  BY <1>4, <1>5, <1>6 DEF Resolved
<1>8. Edited' \subseteq Edited
  BY <1>2 DEF Edited
<1>9. InUse' \subseteq InUse
  BY <1>2, <1>3, <1>7 DEF InUse
<1>10. \A n : Event(n)' = Event(n)
  BY SameEvents
<1>11. OneName' /\ Current'
  BY <1>1, <1>9, <1>10 DEF CInv, NamesInv, OneName, Current
<1>12. CreatedFirst'
  BY <1>2 DEF CInv, NamesInv, CreatedFirst
<1>13. DeletionsLast'
  <2>1. ASSUME NEW d \in DOMAIN ops', ops'[d].kind = "delete" PROVE ops'[d].target \notin Resolved'
    <3>1. d \in DOMAIN ops /\ d # h.ticket /\ ops[d].kind = "delete" /\ ops[d].target = ops'[d].target
      BY <1>2, <2>1
    <3>2. ~(givenUp /\ ops[d].target = x)
      <4>1. SUFFICES ASSUME givenUp, ops[d].target = x PROVE FALSE
        OBVIOUS
      <4>2. h.ticket <= d /\ d <= h.ticket
        BY <1>1, <1>3, <3>1, <4>1 DEF CInv, NamesInv, DeletionsLast, x
      <4>3. d \in Nat /\ h.ticket \in Nat
        BY HeldFacts, <3>1 DEF SInv, IInv, TypeOK
      <4> QED BY <3>1, <4>2, <4>3
    <3> QED BY <1>7, <3>1, <3>2 DEF CInv, NamesInv, DeletionsLast
  <2> QED BY <1>2, <2>1 DEF CInv, NamesInv, DeletionsLast
<1>14. NoTemps'
  BY <1>1, <1>2, <1>5 DEF CInv, NamesInv, NoTemps, x
<1> QED BY <1>1, <1>2, <1>7, <1>8, <1>9, <1>11, <1>12, <1>13, <1>14 DEF NamesInv, x

LEMMA DoneCopies ==
  ASSUME SInv, WInv, CInv, NEW h \in held, NEW givenUp \in BOOLEAN, Complete(h, NoId, givenUp),
         UNCHANGED <<server, origin, saved, syncing>>, wire' = {},
         CreatedUnder(h.ticket) = {},
         \A n \in DOMAIN server \cap DOMAIN fresh : n \in DOMAIN fresh',
         \A n \in DOMAIN fresh' :
           n \in DOMAIN fresh /\ \A r \in wire : ~(r.id = n /\ r.kind = "DELETE"),
         givenUp => h.op.target \in DOMAIN fresh'
  PROVE  CInv'
<1> DEFINE x == h.op.target
<1>1. /\ DOMAIN ops' = DOMAIN ops \ {h.ticket}
      /\ \A t \in DOMAIN ops' : ops'[t].target = ops[t].target /\ ops'[t].kind = ops[t].kind
      /\ UNCHANGED eventRemap
      /\ InUse' \subseteq InUse /\ Edited' \subseteq Edited
      /\ \A n \in Resolved' : n \in Resolved \/ (givenUp /\ n = x)
      /\ NamesInv'
  BY DoneNames
<1>2. x \in InUse
  BY HeldFacts
<1> HIDE DEF x
<1>3. \A y \in DOMAIN server : server[y].client \notin DOMAIN ops
  BY MadeByHeld
<1>4. \A n : Event(n)' = Event(n)
  BY SameEvents
<1>5. OneCopy' /\ Gone'
  BY <1>1 DEF CInv, RowsInv, OneCopy, Gone
<1>6. OneRow'
  <2>1. ASSUME NEW y \in DOMAIN server, NEW n \in InUse', Event(n) = origin[y], y # n
        PROVE  n \notin Resolved' \cup Edited' /\ n \notin DOMAIN fresh'
    <3>1. n \in InUse /\ ~MadeFor(y, n)
      BY <1>1, <1>3 DEF MadeFor
    <3>2. n \notin Resolved \cup Edited /\ n \notin DOMAIN fresh
      BY <2>1, <3>1 DEF CInv, RowsInv, OneRow
    <3> QED BY <1>1, <3>2 DEF x
  <2> QED BY <1>4, <2>1 DEF OneRow
<1>7. Making'
  BY <1>1, <1>3 DEF Making
<1>8. \A n \in InUse \cap DOMAIN fresh' : Quiet => n \in DOMAIN server
  BY DEF CInv, FreshInUse
<1>9. FreshInUse'
  <2>1. syncing => \A n \in InUse' \cap DOMAIN server : n \in DOMAIN fresh'
    BY <1>1 DEF CInv, FreshInUse
  <2>2. Quiet => \A n \in InUse' \cap DOMAIN fresh' : n \in DOMAIN server
    BY <1>1, <1>8
  <2> QED BY <2>1, <2>2 DEF FreshInUse, Quiet
<1>10. SavedInUse'
  <2>1. Quiet => \A n \in (Resolved' \cup Edited') \cap DOMAIN saved : syncing => n \in DOMAIN server
    BY <1>1, <1>2, <1>8 DEF CInv, SavedInUse, x
  <2> QED BY <1>1, <2>1 DEF CInv, SavedInUse, Quiet
<1>11. AllThere'
  <2>1. MaxOthers = 0 => \A n \in Resolved' \cup Edited' : n > 0 => n \in DOMAIN server
    BY <1>1, <1>2, <1>8 DEF CInv, AllThere, Quiet, x
  <2> QED BY <2>1 DEF AllThere
<1>12. Asked'
  BY DEF Asked
<1> QED BY <1>1, <1>5, <1>6, <1>7, <1>9, <1>10, <1>11, <1>12 DEF CInv, RowsInv

LEMMA SettleDeletionCopies ==
  ASSUME SInv, WInv, CInv, SettleDeletion
  PROVE  CInv'
<1>1. /\ wire = {} /\ UNCHANGED syncVars
      /\ \E h \in held : /\ h.op.kind = "delete"
                         /\ \E givenUp \in BOOLEAN :
                              /\ Complete(h, NoId, givenUp)
                              /\ givenUp => ~Missing(h.op.target)
  BY DEF SettleDeletion
<1>2. PICK h \in held, givenUp \in BOOLEAN :
        h.op.kind = "delete" /\ Complete(h, NoId, givenUp) /\ (givenUp => ~Missing(h.op.target))
  BY <1>1
<1>3. CreatedUnder(h.ticket) = {}
  BY <1>2, HeldFacts DEF CreatedUnder, CInv, RowsInv, Making
<1>4. UNCHANGED <<server, origin, saved, syncing, fresh>> /\ wire' = {}
  BY <1>1 DEF syncVars
<1> QED BY <1>1, <1>2, <1>3, <1>4, DoneCopies DEF Missing

LEMMA TakeChangedCopies ==
  ASSUME SInv, WInv, CInv, TakeAnswer, \A r \in wire : r.kind # "POST"
  PROVE  CInv'
<1>1. PICK r \in wire, h \in held :
        /\ r.answer = "ok" \/ (r.answer = "missing" /\ r.kind = "DELETE")
        /\ Complete(h, r.row, FALSE)
        /\ fresh' = CASE r.kind = "POST"   -> Extended(fresh, r.row, r.fields)
                      [] r.kind = "PATCH"  -> Extended(fresh, r.id, r.fields)
                      [] r.kind = "DELETE" -> Without(fresh, {r.id})
  BY DEF TakeAnswer
<1>2. wire' = {} /\ UNCHANGED <<server, origin, saved, syncing>>
  BY DEF TakeAnswer
<1>3. /\ SentFor(r, h) /\ \A s \in wire : s = r
      /\ r.kind \in {"PATCH", "DELETE"}
  BY DEF SInv, Synced, OnWire, Requests, WInv, Idle
<1>4. r.row = NoId
  BY <1>3 DEF SentFor
<1>5. CASE r.kind = "PATCH"
  <2>1. CreatedUnder(h.ticket) = {} /\ r.id \in DOMAIN fresh
    BY <1>1, <1>5 DEF CInv, Asked
  <2>2. DOMAIN fresh' = DOMAIN fresh
    BY <1>1, <1>5, <2>1 DEF Extended
  <2> QED BY <1>1, <1>2, <1>3, <1>4, <1>5, <2>1, <2>2, DoneCopies
<1>6. CASE r.kind = "DELETE"
  <2>1. r.id \notin DOMAIN server
    BY <1>1, <1>6 DEF CInv, Asked
  <2>2. DOMAIN fresh' = DOMAIN fresh \ {r.id}
    BY <1>1, <1>6 DEF Without
  <2>3. CreatedUnder(h.ticket) = {}
    <3>1. h.op.kind = "delete"
      BY <1>3, <1>6 DEF SentFor
    <3> QED BY <3>1, HeldFacts DEF CreatedUnder, CInv, RowsInv, Making
  <2> QED BY <1>1, <1>2, <1>3, <1>4, <2>1, <2>2, <2>3, DoneCopies
<1> QED BY <1>3, <1>5, <1>6

\* No temporary id of a screen stands for an event gone from the server.
LEMMA GoneNames ==
  ASSUME SInv, WInv, CInv, CanCreate => MaxOthers = 0,
         NEW x \in Edited, x > 0, x \notin DOMAIN server, NEW i \in ScreenIds("event")
  PROVE  i > 0
BY DEF CInv, AllThere, NamesInv, NoTemps

\* An op done whose event has id R from now on.
LEMMA RenamedNames ==
  ASSUME SInv, WInv, CInv, CanCreate => MaxOthers = 0,
         NEW h \in held, NEW R \in DOMAIN origin, Complete(h, R, FALSE), UNCHANGED origin,
         h.op.kind # "delete", h.op.target \notin DOMAIN server,
         origin[R] = Event(h.op.target), R # h.op.target, R \notin DOMAIN eventRemap
  PROVE  /\ DOMAIN ops' = DOMAIN ops \ {h.ticket}
         /\ R \notin InUse
         /\ \A n \in InUse' : n = R \/ (n \in InUse /\ n # h.op.target)
         /\ \A n \in Edited' : n = R \/ n \in Edited
         /\ \A n \in Resolved' : n = R \/ n \in Resolved
         /\ \A i \in DOMAIN eventRemap' : i \in DOMAIN eventRemap \/ (i = h.op.target /\ ~(i < 0))
         /\ NamesInv'
<1> DEFINE x == h.op.target
<1>1. /\ x \in InUse /\ x \in Edited /\ h.op.entity = "event"
      /\ h.ticket \in DOMAIN ops /\ ops[h.ticket] = h.op
      /\ \A t \in DOMAIN ops : h.ticket <= t /\ t \in Nat /\ ops[t].entity = "event"
  BY HeldFacts DEF SInv, IInv, TypeOK, Outboxed, Queued, EventOp
<1>2. /\ R \in Nat \ {0} /\ x \in Int /\ x # 0
      /\ \A i \in DOMAIN remap : remap[i] > 0
      /\ \A i \in DOMAIN eventRemap : eventRemap[i] > 0 /\ i \in Nat
  BY <1>1, InUseAge DEF SInv, Synced, Origins, Outboxed, Becomes, IInv, TypeOK
<1>3. Rewrites(h, R)
  BY <1>2 DEF Rewrites, NoId
<1>4. /\ Remember(h, R)
      /\ shown' = shown \cup (IF Hidden(ops, "event", x) THEN {} ELSE {<<"event", R>>})
  BY <1>1, <1>2 DEF Complete, ShownAfter, NoId
<1>5. /\ DOMAIN ops' = DOMAIN ops \ {h.ticket}
      /\ \A t \in DOMAIN ops' :
           ops'[t].kind = ops[t].kind
             /\ ops'[t].target = IF ops[t].target = x THEN R ELSE ops[t].target
  BY <1>3, CompleteQueue
<1>6. x \notin DOMAIN server /\ origin[R] = Event(x) /\ R # x
  OBVIOUS
<1>7. IF x < 0
      THEN /\ remap' = Extended(remap, x, R) /\ UNCHANGED eventRemap
      ELSE /\ eventRemap' = [i \in DOMAIN eventRemap \cup {x} |->
                               IF i = x THEN R ELSE IF eventRemap[i] = x THEN R ELSE eventRemap[i]]
           /\ UNCHANGED remap
  BY <1>3, <1>4 DEF Remember
<1> HIDE DEF x
<1>8. R \notin InUse
  BY <1>1, <1>6 DEF CInv, NamesInv, OneName, Event
<1>9. IF x < 0 THEN x \notin DOMAIN remap ELSE x \notin DOMAIN eventRemap
  BY <1>1 DEF CInv, NamesInv, Current
<1>10. ASSUME NEW i \in ScreenIds("event")
       PROVE  ResolveEvent(i)' = IF ResolveEvent(i) = x THEN R ELSE ResolveEvent(i)
  <2>1. i \in Int
    BY DEF SInv, Outboxed, EventsShown, ScreenIds, Ids
  <2>2. CASE x < 0
    BY <1>2, <1>7, <1>9, <2>1, <2>2 DEF ResolveEvent, Resolve, Extended
  <2>3. CASE ~(x < 0)
    <3>1. i > 0
      BY <1>1, <1>2, <1>6, <2>3, GoneNames
    <3> QED BY <1>2, <1>7, <1>9, <2>1, <2>3, <3>1 DEF ResolveEvent
  <2> QED BY <2>2, <2>3
<1>11. /\ \A i \in DOMAIN eventRemap' : i \in DOMAIN eventRemap \/ (i = x /\ ~(i < 0))
       /\ \A i \in DOMAIN remap' : i \in DOMAIN remap \/ i = x
  BY <1>7 DEF Extended
<1>12. ResolveEvent(R)' = R
  <2>1. R \notin DOMAIN eventRemap'
    BY <1>6, <1>11
  <2> QED BY <1>2, <2>1 DEF ResolveEvent
<1>13. \A i \in ScreenIds("event")' :
         i \in ScreenIds("event") \/ (i = R /\ ~Hidden(ops, "event", x))
  BY <1>4 DEF ScreenIds
<1>14. \A n \in Resolved' : \/ n \in Resolved /\ n # x
                            \/ n = R /\ (x \in Resolved \/ ~Hidden(ops, "event", x))
  <2>1. ASSUME NEW i \in ScreenIds("event")'
        PROVE  \/ ResolveEvent(i)' \in Resolved /\ ResolveEvent(i)' # x
               \/ ResolveEvent(i)' = R /\ (x \in Resolved \/ ~Hidden(ops, "event", x))
    <3>1. CASE i \in ScreenIds("event")
      <4>1. ResolveEvent(i) \in Resolved
        BY <3>1 DEF Resolved
      <4> QED BY <1>10, <3>1, <4>1
    <3>2. CASE i = R /\ ~Hidden(ops, "event", x)
      BY <1>12, <3>2
    <3> QED BY <1>13, <2>1, <3>1, <3>2
  <2> QED BY <2>1 DEF Resolved
<1>15. \A n \in Edited' : n = R \/ (n \in Edited /\ n # x)
  BY <1>5 DEF Edited
<1>16. \A n \in InUse' : n = R \/ (n \in InUse /\ n # x)
  BY <1>5, <1>14 DEF InUse
<1>17. \A n : Event(n)' = Event(n)
  BY SameEvents
<1>18. OneName'
  <2>1. Event(R) = Event(x)
    BY <1>6 DEF Event
  <2>2. \A a, b \in InUse : Event(a) = Event(b) => a = b
    BY DEF CInv, NamesInv, OneName
  <2> QED BY <1>1, <1>16, <1>17, <2>1, <2>2 DEF OneName
<1>19. Current'
  <2>1. ASSUME NEW n \in InUse'
        PROVE  IF n < 0 THEN n \notin DOMAIN remap' ELSE n \notin DOMAIN eventRemap'
    <3>1. CASE n = R
      BY <1>2, <1>6, <1>11, <3>1
    <3>2. CASE n \in InUse /\ n # x
      BY <1>11, <3>2 DEF CInv, NamesInv, Current
    <3> QED BY <1>16, <3>1, <3>2
  <2> QED BY <2>1 DEF Current
<1>20. \A t \in DOMAIN ops : ops[t].target # R
  BY <1>8, Members
<1>21. CreatedFirst'
  <2>1. ASSUME NEW c \in DOMAIN ops', ops'[c].kind = "create"
        PROVE  ops'[c].target < 0 /\ \A t \in DOMAIN ops' : ops'[t].target = ops'[c].target => c <= t
    <3>1. /\ c \in DOMAIN ops /\ c # h.ticket /\ ops[c].target < 0
          /\ \A t \in DOMAIN ops : ops[t].target = ops[c].target => c <= t
      BY <1>5, <2>1 DEF CInv, NamesInv, CreatedFirst
    <3>2. ops[c].target # x
      <4>1. SUFFICES ASSUME ops[c].target = x PROVE FALSE
        OBVIOUS
      <4>2. c <= h.ticket /\ h.ticket <= c /\ c \in Nat /\ h.ticket \in Nat
        BY <1>1, <3>1, <4>1 DEF x
      <4> QED BY <3>1, <4>2
    <3> QED BY <1>2, <1>5, <3>1, <3>2
  <2> QED BY <2>1 DEF CreatedFirst
<1>22. DeletionsLast'
  <2>1. ASSUME NEW d \in DOMAIN ops', ops'[d].kind = "delete"
        PROVE  /\ ops'[d].target \notin Resolved'
               /\ \A t \in DOMAIN ops' : ops'[t].target = ops'[d].target => t <= d
    <3>1. /\ d \in DOMAIN ops /\ ops[d].kind = "delete" /\ ops[d].target \notin Resolved
          /\ \A t \in DOMAIN ops : ops[t].target = ops[d].target => t <= d
      BY <1>5, <2>1 DEF CInv, NamesInv, DeletionsLast
    <3>2. CASE ops[d].target = x
      <4>1. Hidden(ops, "event", x)
        BY <1>1, <3>1, <3>2 DEF Hidden, About
      <4>2. R \notin Resolved'
        BY <1>8, <1>14, <3>1, <3>2, <4>1, Members
      <4> QED BY <1>5, <1>20, <3>1, <3>2, <4>2
    <3>3. CASE ops[d].target # x
      BY <1>5, <1>14, <1>20, <3>1, <3>3
    <3> QED BY <3>2, <3>3
  <2> QED BY <2>1 DEF DeletionsLast
<1>23. NoTemps'
  BY <1>2, <1>5, <1>13 DEF CInv, NamesInv, NoTemps
<1> QED BY <1>5, <1>8, <1>11, <1>14, <1>15, <1>16, <1>18, <1>19, <1>21, <1>22, <1>23
        DEF NamesInv, x

LEMMA TakeCreatedCopies ==
  ASSUME SInv, WInv, CInv, CanCreate => MaxOthers = 0, TakeAnswer, \E r \in wire : r.kind = "POST"
  PROVE  CInv'
<1>1. PICK r \in wire, h \in held :
        /\ r.answer = "ok" \/ (r.answer = "missing" /\ r.kind = "DELETE")
        /\ Complete(h, r.row, FALSE)
        /\ fresh' = CASE r.kind = "POST"   -> Extended(fresh, r.row, r.fields)
                      [] r.kind = "PATCH"  -> Extended(fresh, r.id, r.fields)
                      [] r.kind = "DELETE" -> Without(fresh, {r.id})
  BY DEF TakeAnswer
<1>2. wire' = {} /\ UNCHANGED <<server, origin, saved, syncing>>
  BY DEF TakeAnswer
<1>3. SentFor(r, h) /\ r.kind = "POST" /\ r.answer = "ok" /\ \A s \in wire : s = r
  BY <1>1 DEF SInv, Synced, OnWire, WInv, Idle
<1> DEFINE x == h.op.target
           R == r.row
<1>4. R \in DOMAIN origin /\ h.op.kind # "delete" /\ r.id = x
  BY <1>3 DEF SentFor
<1>5. /\ x \notin DOMAIN server
      /\ origin[R] = Event(x) /\ R # x /\ R \notin DOMAIN eventRemap
      /\ CreatedUnder(h.ticket) \subseteq {R}
      /\ Quiet => R \in DOMAIN server
  BY <1>3, <1>4 DEF CInv, Asked
<1>6. /\ DOMAIN ops' = DOMAIN ops \ {h.ticket}
      /\ R \notin InUse
      /\ \A n \in InUse' : n = R \/ (n \in InUse /\ n # x)
      /\ \A n \in Edited' : n = R \/ n \in Edited
      /\ \A n \in Resolved' : n = R \/ n \in Resolved
      /\ \A i \in DOMAIN eventRemap' : i \in DOMAIN eventRemap \/ i = x
      /\ NamesInv'
  BY <1>1, <1>2, <1>4, <1>5, RenamedNames
<1>7. x \in InUse /\ x \in Edited /\ syncing /\ ops[h.ticket].target = x
  BY <1>4, HeldFacts
<1>8. DOMAIN fresh' = DOMAIN fresh \cup {R}
  BY <1>1, <1>3 DEF Extended
<1>9. \A y \in DOMAIN server : server[y].client \in DOMAIN ops =>
        server[y].client = h.ticket /\ y = R
  BY <1>5, MadeByHeld
<1> HIDE DEF x, R
<1>10. \A n : Event(n)' = Event(n)
  BY <1>2, SameEvents
<1>11. OneCopy' /\ Gone'
  BY <1>2, <1>5, <1>6 DEF CInv, RowsInv, OneCopy, Gone
<1>12. Making'
  BY <1>2, <1>6, <1>9 DEF Making
<1>13. OneRow'
  <2>1. ASSUME NEW y \in DOMAIN server, NEW n \in InUse', Event(n) = origin[y], y # n
        PROVE  n \notin Resolved' \cup Edited' /\ n \notin DOMAIN fresh'
    <3>1. CASE n = R
      <4>1. Event(x) = origin[y]
        BY <1>4, <1>5, <2>1, <3>1 DEF Event, R
      <4>2. y = x \/ MadeFor(y, x)
        BY <1>7, <4>1 DEF CInv, RowsInv, OneRow
      <4> QED BY <1>5, <1>9, <2>1, <3>1, <4>2 DEF MadeFor
    <3>2. CASE n \in InUse /\ n # x
      <4>1. ~MadeFor(y, n)
        BY <1>7, <1>9, <3>2 DEF MadeFor
      <4>2. n \notin Resolved \cup Edited /\ n \notin DOMAIN fresh
        BY <2>1, <3>2, <4>1 DEF CInv, RowsInv, OneRow
      <4> QED BY <1>6, <1>8, <3>2, <4>2
    <3> QED BY <1>6, <3>1, <3>2
  <2> QED BY <1>2, <1>10, <2>1 DEF OneRow
<1>14. FreshInUse'
  <2>1. syncing => \A n \in InUse' \cap DOMAIN server : n \in DOMAIN fresh'
    BY <1>6, <1>8 DEF CInv, FreshInUse
  <2>2. Quiet => \A n \in InUse' \cap DOMAIN fresh' : n \in DOMAIN server
    BY <1>3, <1>5, <1>6, <1>8 DEF CInv, FreshInUse
  <2> QED BY <1>2, <2>1, <2>2 DEF FreshInUse, Quiet
<1>15. SavedInUse'
  <2>1. Quiet => x \notin DOMAIN saved
    BY <1>5, <1>7 DEF CInv, SavedInUse
  <2>2. Quiet => /\ \A i \in DOMAIN eventRemap' : i \notin DOMAIN saved
                 /\ \A n \in (Resolved' \cup Edited') \cap DOMAIN saved : n \in DOMAIN server
    BY <1>5, <1>6, <1>7, <2>1 DEF CInv, SavedInUse
  <2> QED BY <1>2, <2>2 DEF SavedInUse, Quiet
<1>16. AllThere'
  <2>1. MaxOthers = 0 => \A n \in Resolved' \cup Edited' : n > 0 => n \in DOMAIN server
    BY <1>5, <1>6 DEF CInv, AllThere, Quiet
  <2> QED BY <1>2, <2>1 DEF AllThere
<1>17. Asked'
  BY <1>2 DEF Asked
<1> QED BY <1>6, <1>11, <1>12, <1>13, <1>14, <1>15, <1>16, <1>17 DEF CInv, RowsInv

LEMMA SyncEndsCopies ==
  ASSUME SInv, WInv, CInv, GiveUp \/ EndSync
  PROVE  CInv'
<1>1. /\ UNCHANGED <<ops, shown, remap, eventRemap, server, origin>>
      /\ syncing' = FALSE /\ DOMAIN fresh' = {} /\ saved' \in {Rows(server), saved}
  BY DEF GiveUp, EndSync, Abort, Saves, Nothing, vars
<1>2. wire' = {}
  BY DEF GiveUp, EndSync, SInv, Synced, OnWire
<1>3. Resolved' = Resolved /\ Edited' = Edited /\ InUse' = InUse
  BY <1>1, SameNames
<1>4. NamesInv'
  BY <1>1, SameEvents, NamesKept
<1>5. RowsInv'
  BY <1>1, <1>3, RowsKept
<1>6. \A i \in DOMAIN eventRemap : Quiet => i \notin DOMAIN saved'
  BY <1>1 DEF CInv, RowsInv, Gone, SavedInUse, Rows
<1>7. FreshInUse' /\ SavedInUse' /\ AllThere' /\ Asked'
  BY <1>1, <1>2, <1>3, <1>6 DEF CInv, FreshInUse, SavedInUse, AllThere, Asked, Quiet
<1> QED BY <1>4, <1>5, <1>7 DEF CInv

LEMMA KilledCopies ==
  ASSUME SInv, WInv, CInv, MaxOthers = 0 \/ ~Racing \/ MaxResets = 0, Killed
  PROVE  CInv'
<1>1. /\ UNCHANGED <<ops, server, origin, saved>>
      /\ DOMAIN remap' = {} /\ DOMAIN eventRemap' = {}
      /\ shown' = Reread({p \in shown : p[2] \in DOMAIN saved}, ops)
      /\ syncing' = FALSE /\ DOMAIN fresh' = {} /\ wire' = {} /\ resets < MaxResets
  BY DEF Killed, Restart, CountReset, Nothing
<1>2. Quiet
  BY <1>1 DEF SInv, IInv, TypeOK, Quiet
<1>3. \A i \in DOMAIN saved : i > 0 /\ i \notin DOMAIN eventRemap
  BY <1>2 DEF CInv, SavedInUse, SInv, Synced, Copies
<1>4. \A t \in DOMAIN ops : ops[t].entity = "event"
  BY DEF SInv, Outboxed, Queued, EventOp
<1>5. \A i \in ScreenIds("event")' :
        \/ i \in ScreenIds("event") /\ i \in DOMAIN saved
        \/ \E c \in DOMAIN ops : ops[c].kind = "create" /\ i = ops[c].target
                                   /\ ~Hidden(ops, "event", ops[c].target)
  BY <1>1, <1>4 DEF ScreenIds, Reread, Creations, IsCreation
<1>6. \A i : ResolveEvent(i)' = i
  BY <1>1 DEF ResolveEvent, Resolve
<1>7. \A i \in ScreenIds("event") \cap DOMAIN saved : i \in Resolved
  <2>1. ASSUME NEW i \in ScreenIds("event") \cap DOMAIN saved PROVE ResolveEvent(i) = i
    <3>1. i \in Int
      BY DEF SInv, Outboxed, EventsShown, ScreenIds, Ids
    <3> QED BY <1>3, <3>1 DEF ResolveEvent
  <2> QED BY <2>1 DEF Resolved
<1>8. \A n \in Resolved' :
        \/ n \in Resolved
        \/ \E c \in DOMAIN ops : ops[c].kind = "create" /\ n = ops[c].target
                                   /\ ~Hidden(ops, "event", n)
  BY <1>5, <1>6, <1>7 DEF Resolved
<1>9. Edited' = Edited
  BY <1>1 DEF Edited
<1>10. Resolved' \subseteq Resolved \cup Edited
  BY <1>8, Members
<1>11. InUse' \subseteq InUse
  BY <1>1, <1>10, Members DEF InUse
<1>12. NamesInv'
  <2>1. \A n : Event(n)' = Event(n)
    BY <1>1, SameEvents
  <2>2. OneName' /\ Current'
    BY <1>1, <1>11, <2>1 DEF CInv, NamesInv, OneName, Current
  <2>3. CreatedFirst'
    BY <1>1 DEF CInv, NamesInv, CreatedFirst
  <2>4. DeletionsLast'
    <3>1. ASSUME NEW d \in DOMAIN ops, ops[d].kind = "delete" PROVE ops[d].target \notin Resolved'
      <4>1. Hidden(ops, "event", ops[d].target)
        BY <1>4, <3>1 DEF Hidden, About
      <4> QED BY <1>8, <3>1, <4>1 DEF CInv, NamesInv, DeletionsLast
    <3> QED BY <1>1, <3>1 DEF CInv, NamesInv, DeletionsLast
  <2>5. NoTemps'
    BY <1>1, <1>5 DEF CInv, NamesInv, NoTemps
  <2> QED BY <2>2, <2>3, <2>4, <2>5 DEF NamesInv
<1>13. RowsInv'
  BY <1>1, <1>9, <1>10, <1>11, RowsKept
<1>14. AllThere'
  BY <1>1, <1>9, <1>10 DEF CInv, AllThere
<1>15. FreshInUse' /\ SavedInUse' /\ Asked'
  BY <1>1 DEF FreshInUse, SavedInUse, Asked
<1> QED BY <1>12, <1>13, <1>14, <1>15 DEF CInv

-----------------------------------------------------------------------------
(* The server and the other devices.                                       *)

LEMMA InsertCopies ==
  ASSUME SInv, WInv, CInv, NEW r \in wire, NEW h \in held, r.kind = "POST", r.answer = "none",
         CreatedUnder(h.ticket) = {}, Insert(h.ticket, r.fields, Event(r.id)),
         Answered(r, "ok", NewId(h.ticket)),
         UNCHANGED <<vars, text, saved, syncing, fresh>>
  PROVE  CInv'
<1> DEFINE x == r.id
           R == NewId(h.ticket)
<1>1. /\ r \in Requests /\ SentFor(r, h) /\ \A s \in wire : s = r
  BY DEF SInv, Synced, OnWire, WInv, Idle
<1>2. /\ x = h.op.target /\ h.op.kind # "delete"
  BY <1>1 DEF SentFor
<1>3. /\ x \in InUse /\ x \in Edited /\ h.ticket \in DOMAIN ops /\ ops[h.ticket] = h.op
      /\ \A t \in DOMAIN ops : h.ticket <= t
      /\ h.ticket \in Nat /\ \A k \in held : k = h
  BY <1>2, HeldFacts
<1>4. R \in Nat \ {0} /\ R \notin DOMAIN origin
  BY <1>3, NewIdIsNew DEF Insert
<1>5. x \notin DOMAIN server
  BY DEF CInv, Asked
<1>6. R \notin InUse
  BY <1>4, InUseAge
<1>7. PICK s : wire' = {s} /\ s.id = x /\ s.kind = "POST" /\ s.answer = "ok" /\ s.row = R
  BY <1>1, AnsweredRequest
<1>8. /\ server' = Extended(server, R, [client |-> h.ticket, fields |-> r.fields])
      /\ origin' = Extended(origin, R, Event(x))
  BY DEF Insert
<1>9. /\ DOMAIN server' = DOMAIN server \cup {R} /\ server'[R].client = h.ticket
      /\ origin'[R] = Event(x) /\ DOMAIN origin' = DOMAIN origin \cup {R}
      /\ \A y \in DOMAIN server : y # R => server'[y] = server[y]
      /\ \A y \in DOMAIN origin : y # R => origin'[y] = origin[y]
  BY <1>8 DEF Extended
<1> HIDE DEF R, x
<1>10. /\ \A y \in DOMAIN server : y # R /\ y \in DOMAIN origin
       /\ \A y \in DOMAIN server : server'[y] = server[y] /\ origin'[y] = origin[y]
  BY <1>4, <1>9 DEF SInv, Synced, Clients
<1>11. \A n : n # R => Event(n)' = Event(n)
  BY <1>9 DEF Event
<1>12. \A n \in InUse : n # R /\ Event(n)' = Event(n)
  BY <1>6, <1>11
<1>13. UNCHANGED <<ops, shown, remap, eventRemap, held>>
  BY DEF vars
<1>14. Resolved' = Resolved /\ Edited' = Edited /\ InUse' = InUse
  BY <1>13, SameNames
<1>15. NamesInv'
  BY <1>12, <1>13, NamesKept
<1>16. \A y \in DOMAIN server : server[y].client # h.ticket
  BY DEF CreatedUnder
<1>17. \A y \in DOMAIN server : origin[y] # Event(x)
  <2>1. SUFFICES ASSUME NEW y \in DOMAIN server, origin[y] = Event(x) PROVE FALSE
    OBVIOUS
  <2>2. MadeFor(y, x)
    BY <1>3, <1>5, <2>1 DEF CInv, RowsInv, OneRow
  <2>3. server[y].client = h.ticket
    BY <2>2, MadeByHeld DEF MadeFor
  <2> QED BY <1>16, <2>3
<1>18. OneCopy'
  BY <1>9, <1>10, <1>17 DEF CInv, RowsInv, OneCopy
<1>19. OneRow'
  <2>1. ASSUME NEW y \in DOMAIN server, NEW n \in InUse, Event(n) = origin[y]
        PROVE  \/ y = n
               \/ server'[y].client \in DOMAIN ops /\ ops[server'[y].client].target = n
               \/ n \notin Resolved \cup Edited /\ n \notin DOMAIN fresh
    BY <1>10, <2>1 DEF CInv, RowsInv, OneRow, MadeFor
  <2>2. ASSUME NEW n \in InUse, Event(n) = Event(x)
        PROVE  server'[R].client \in DOMAIN ops /\ ops[server'[R].client].target = n
    <3>1. n = x
      BY <1>3, <2>2 DEF CInv, NamesInv, OneName
    <3> QED BY <1>2, <1>3, <1>9, <3>1
  <2> QED BY <1>9, <1>10, <1>12, <1>13, <1>14, <2>1, <2>2 DEF OneRow, MadeFor
<1>20. Making'
  <2>1. ASSUME NEW y \in DOMAIN server', NEW t \in DOMAIN ops, server'[y].client = t
        PROVE  /\ \A u \in DOMAIN ops : t <= u
               /\ ops[t].kind # "delete" /\ ops[t].target # y /\ origin'[y] = Event(ops[t].target)
               /\ ops[t].target \in DOMAIN fresh => held # {}
    <3>1. CASE y = R
      <4>1. t = h.ticket
        BY <1>9, <2>1, <3>1
      <4>2. x # R
        BY <1>3, <1>12
      <4> QED BY <1>2, <1>3, <1>9, <3>1, <4>1, <4>2
    <3>2. CASE y # R
      <4>1. y \in DOMAIN server /\ server[y].client = t /\ origin'[y] = origin[y]
        BY <1>9, <1>10, <2>1, <3>2
      <4> QED BY <4>1 DEF CInv, RowsInv, Making
    <3> QED BY <3>1, <3>2
  <2>2. \A t \in DOMAIN ops : Event(ops[t].target)' = Event(ops[t].target)
    BY <1>12, <1>13, Members
  <2> QED BY <1>13, <2>1, <2>2 DEF Making, vars
<1>21. R \notin DOMAIN eventRemap
  BY <1>4 DEF WInv, Ages
<1>22. Gone'
  BY <1>9, <1>13, <1>21 DEF CInv, RowsInv, Gone
<1>23. FreshInUse'
  <2>1. syncing => \A n \in InUse \cap DOMAIN server' : n \in DOMAIN fresh
    BY <1>9, <1>12 DEF CInv, FreshInUse
  <2>2. Quiet => \A n \in InUse \cap DOMAIN fresh : n \in DOMAIN server
    BY <1>1 DEF CInv, FreshInUse
  <2> QED BY <1>9, <1>14, <2>1, <2>2 DEF FreshInUse, Quiet
<1>24. SavedInUse' /\ AllThere'
  BY <1>9, <1>13, <1>14 DEF CInv, SavedInUse, AllThere, Quiet
<1>25. Asked'
  <2>1. x \notin DOMAIN server' /\ R # x
    BY <1>3, <1>5, <1>9, <1>12
  <2>2. Event(x)' = Event(x)
    BY <1>3, <1>12
  <2>3. CreatedUnder(h.ticket)' \subseteq {R}
    BY <1>9, <1>10, <1>16 DEF CreatedUnder
  <2>4. /\ s.kind = "POST" /\ s.id = x /\ s.row = R /\ \A q \in wire' : q = s
        /\ \A k \in held' : k = h
    BY <1>3, <1>7, <1>13
  <2>5. R \notin DOMAIN eventRemap' /\ origin'[s.row] = Event(s.id)' /\ s.row \in DOMAIN server'
        /\ s.id \notin DOMAIN server' /\ s.row # s.id
    BY <1>9, <1>13, <1>21, <2>1, <2>2, <2>4
  <2> QED BY <1>7, <2>3, <2>4, <2>5 DEF Asked
<1> QED BY <1>15, <1>18, <1>19, <1>20, <1>22, <1>23, <1>24, <1>25 DEF CInv, RowsInv

\* An answer that leaves the rows in use where they were.
LEMMA AnswerCopies ==
  ASSUME SInv, WInv, CInv, NEW r \in wire, NEW s, wire' = {s}, s.id = r.id, s.kind = r.kind,
         UNCHANGED <<vars, origin, saved, syncing, fresh>>,
         \A y \in DOMAIN server' : y \in DOMAIN server /\ server'[y].client = server[y].client,
         \A y \in DOMAIN server \ DOMAIN server' :
           r.kind = "DELETE" /\ y = r.id /\ y \notin Resolved \cup Edited,
         Asked'
  PROVE  CInv'
<1>1. UNCHANGED <<ops, shown, remap, eventRemap, held>>
  BY DEF vars
<1>2. Resolved' = Resolved /\ Edited' = Edited /\ InUse' = InUse
  BY <1>1, SameNames
<1>3. NamesInv'
  BY <1>1, SameEvents, NamesKept
<1>4. RowsInv'
  BY <1>1, <1>2, RowsKept
<1>5. FreshInUse'
  <2>1. \A q \in wire : q = r
    BY DEF WInv, Idle
  <2>2. syncing => \A n \in InUse \cap DOMAIN server' : n \in DOMAIN fresh
    BY DEF CInv, FreshInUse
  <2>3. Quiet => \A n \in InUse \cap DOMAIN fresh :
          n \in DOMAIN server' \/ (s.id = n /\ s.kind = "DELETE")
    BY <2>1 DEF CInv, FreshInUse
  <2> QED BY <1>2, <2>2, <2>3 DEF FreshInUse, Quiet
<1>6. SavedInUse' /\ AllThere'
  BY <1>1, <1>2 DEF CInv, SavedInUse, AllThere, Quiet
<1> QED BY <1>3, <1>4, <1>5, <1>6 DEF CInv

LEMMA ServePostCopies ==
  ASSUME SInv, WInv, CInv, ServePost
  PROVE  CInv'
<1>1. PICK r \in wire, h \in held :
        /\ r.kind = "POST" /\ r.answer = "none"
        /\ \/ /\ CreatedUnder(h.ticket) = {}
              /\ Insert(h.ticket, r.fields, Event(r.id))
              /\ Answered(r, "ok", NewId(h.ticket))
           \/ \E id \in CreatedUnder(h.ticket) :
                /\ Answered(r, "ok", id)
                /\ UNCHANGED <<server, origin>>
  BY DEF ServePost
<1>2. UNCHANGED <<vars, text, saved, syncing, fresh>>
  BY DEF ServePost
<1>3. CASE /\ CreatedUnder(h.ticket) = {}
           /\ Insert(h.ticket, r.fields, Event(r.id))
           /\ Answered(r, "ok", NewId(h.ticket))
  BY <1>1, <1>2, <1>3, InsertCopies
<1>4. ASSUME NEW id \in CreatedUnder(h.ticket), Answered(r, "ok", id), UNCHANGED <<server, origin>>
      PROVE  CInv'
  <2>1. /\ r \in Requests /\ SentFor(r, h) /\ \A k \in held : k = h /\ h.ticket \in DOMAIN ops
    BY HeldFacts DEF SInv, Synced, OnWire
  <2>2. PICK s : wire' = {s} /\ s.id = r.id /\ s.kind = r.kind /\ s.answer = "ok" /\ s.row = id
    BY <1>4, <2>1, AnsweredRequest
  <2>3. \A y \in CreatedUnder(h.ticket) :
          y \in DOMAIN server /\ origin[y] = Event(r.id) /\ y # r.id
    BY <2>1, MadeByHeld DEF CreatedUnder, SentFor
  <2>4. CreatedUnder(h.ticket) \subseteq {id}
    BY <2>3 DEF CInv, RowsInv, OneCopy
  <2>5. r.id \notin DOMAIN server /\ id \notin DOMAIN eventRemap /\ id \in DOMAIN server
        /\ origin[id] = Event(r.id) /\ id # r.id
    BY <1>1, <2>3 DEF CInv, Asked, RowsInv, Gone
  <2>6. CreatedUnder(h.ticket)' = CreatedUnder(h.ticket) /\ Event(r.id)' = Event(r.id)
    BY <1>4 DEF CreatedUnder, Event
  <2>7. Asked'
    <3>1. held' = held /\ eventRemap' = eventRemap
      BY <1>2 DEF vars
    <3>2. /\ \A q \in wire' : q = s
          /\ \A k \in held' : k = h
      BY <2>1, <2>2, <3>1
    <3>3. /\ s.id \notin DOMAIN server' /\ origin'[s.row] = Event(s.id)' /\ s.row # s.id
          /\ s.row \notin DOMAIN eventRemap' /\ s.row \in DOMAIN server' /\ s.kind = "POST"
          /\ CreatedUnder(h.ticket)' \subseteq {s.row}
      BY <1>1, <1>4, <2>2, <2>4, <2>5, <2>6, <3>1
    <3> QED BY <3>2, <3>3 DEF Asked
  <2> QED BY <1>2, <1>4, <2>2, <2>7, AnswerCopies
<1> QED BY <1>1, <1>3, <1>4

LEMMA ServeChangeCopies ==
  ASSUME SInv, WInv, CInv, ServeChange
  PROVE  CInv'
<1>1. PICK r \in wire :
        /\ r.kind \in {"PATCH", "DELETE"} /\ r.answer = "none"
        /\ IF r.id \notin DOMAIN server
           THEN Answered(r, "missing", NoId) /\ UNCHANGED server
           ELSE /\ Answered(r, "ok", NoId)
                /\ server' = IF r.kind = "PATCH"
                             THEN [server EXCEPT ![r.id].fields = r.fields]
                             ELSE Without(server, {r.id})
  BY DEF ServeChange
<1>2. UNCHANGED <<vars, origin, saved, syncing, fresh>>
  BY DEF ServeChange
<1>3. PICK h \in held : TRUE
  BY <1>1 DEF SInv, Synced, OnWire
<1>4. /\ r \in Requests /\ SentFor(r, h) /\ \A s \in wire : s = r
  BY DEF SInv, Synced, OnWire, WInv, Idle
<1>5. \E s : /\ wire' = {s} /\ s.id = r.id /\ s.kind = r.kind
             /\ s.answer = IF r.id \in DOMAIN server THEN "ok" ELSE "missing"
  <2>1. Answered(r, IF r.id \in DOMAIN server THEN "ok" ELSE "missing", NoId)
    BY <1>1
  <2> QED BY <1>4, <2>1, AnsweredRequest
<1>6. PICK s : /\ wire' = {s} /\ s.id = r.id /\ s.kind = r.kind
               /\ s.answer = IF r.id \in DOMAIN server THEN "ok" ELSE "missing"
  BY <1>5
<1>7. /\ held' = held /\ \A k \in held : k = h
      /\ h.ticket \in DOMAIN ops /\ ops[h.ticket] = h.op
      /\ \A t \in DOMAIN ops : h.ticket <= t /\ t \in Nat
      /\ \A q \in wire' : q = s
  BY <1>2, <1>6, HeldFacts DEF vars, SInv, IInv, TypeOK
<1>8. r.kind = "PATCH" => r.id \in DOMAIN fresh
  BY DEF CInv, Asked
<1>9. CASE r.id \notin DOMAIN server
  <2>1. UNCHANGED server /\ s.answer = "missing"
    BY <1>1, <1>6, <1>9
  <2>2. Asked'
    BY <1>1, <1>2, <1>6, <1>7, <1>8, <1>9, <2>1 DEF Asked
  <2> QED BY <1>2, <1>6, <2>1, <2>2, AnswerCopies
<1>10. CASE r.id \in DOMAIN server /\ r.kind = "PATCH"
  <2>1. server' = [server EXCEPT ![r.id].fields = r.fields] /\ s.answer = "ok"
    BY <1>1, <1>6, <1>10
  <2>2. /\ DOMAIN server' = DOMAIN server
        /\ \A y \in DOMAIN server : server'[y].client = server[y].client
    <3>1. \A id \in DOMAIN server : server[id] \in [client : Nat, fields : Contents]
      BY DEF SInv, Synced, Clients
    <3> QED BY <2>1, <3>1
  <2>3. CreatedUnder(h.ticket) = {}
    <3>1. SUFFICES ASSUME NEW y \in CreatedUnder(h.ticket) PROVE FALSE
      OBVIOUS
    <3>2. y \in DOMAIN server /\ origin[y] = Event(h.op.target) /\ y # h.op.target
      BY <1>7, MadeByHeld DEF CreatedUnder
    <3>3. origin[r.id] = Event(h.op.target) /\ r.id = h.op.target
      BY <1>4, <1>10 DEF SentFor, SInv, Synced, Clients, Event
    <3> QED BY <1>10, <3>2, <3>3 DEF CInv, RowsInv, OneCopy
  <2>4. CreatedUnder(h.ticket)' = {}
    BY <2>2, <2>3 DEF CreatedUnder
  <2>5. Asked'
    BY <1>2, <1>6, <1>7, <1>8, <1>10, <2>1, <2>4 DEF Asked
  <2> QED BY <1>2, <1>6, <2>2, <2>5, AnswerCopies
<1>11. CASE r.id \in DOMAIN server /\ r.kind = "DELETE"
  <2>1. server' = Without(server, {r.id}) /\ s.answer = "ok"
    BY <1>1, <1>6, <1>11
  <2>2. /\ DOMAIN server' = DOMAIN server \ {r.id}
        /\ \A y \in DOMAIN server' : server'[y] = server[y]
    BY <2>1 DEF Without
  <2>3. r.id \notin Resolved \cup Edited
    <3>1. h.op.kind = "delete" /\ h.op.target = r.id
      BY <1>4, <1>11 DEF SentFor
    <3>2. /\ r.id \notin Resolved
          /\ \A t \in DOMAIN ops : ops[t].target = r.id => t <= h.ticket
      BY <1>7, <3>1 DEF CInv, NamesInv, DeletionsLast
    <3>3. \A t \in DOMAIN ops : ops[t].target = r.id => t = h.ticket
      BY <1>7, <3>2
    <3> QED BY <1>7, <3>1, <3>2, <3>3, Members
  <2>4. Asked'
    BY <1>2, <1>6, <1>7, <1>11, <2>1, <2>2 DEF Asked
  <2> QED BY <1>2, <1>6, <1>11, <2>2, <2>3, <2>4, AnswerCopies
<1> QED BY <1>1, <1>9, <1>10, <1>11

LEMMA OtherCopies ==
  ASSUME SInv, WInv, CInv, NEW id \in DOMAIN server,
         OtherDelete(id) \/ \E f \in Fields : OtherEdit(id, f)
  PROVE  CInv'
<1>1. UNCHANGED <<vars, origin, saved, syncing, fresh, wire>> /\ CountOther /\ (Racing \/ ~syncing)
  BY DEF OtherDelete, OtherEdit
<1>2. MaxOthers # 0
  BY <1>1 DEF CountOther, SInv, Synced, Counted
<1>3. Quiet => ~syncing /\ DOMAIN fresh = {}
  BY <1>1, <1>2 DEF Quiet, WInv, Idle
<1>4. \A y \in DOMAIN server' : y \in DOMAIN server /\ server'[y].client = server[y].client
  <2>1. \A i \in DOMAIN server : server[i] \in [client : Nat, fields : Contents]
    BY DEF SInv, Synced, Clients
  <2> QED BY <2>1 DEF OtherDelete, OtherEdit, Without
<1>5. UNCHANGED <<ops, shown, remap, eventRemap, held>>
  BY <1>1 DEF vars
<1>6. Resolved' = Resolved /\ Edited' = Edited /\ InUse' = InUse /\ \A n : Event(n)' = Event(n)
  BY <1>1, <1>5, SameNames, SameEvents
<1>7. NamesInv'
  BY <1>5, <1>6, NamesKept
<1>8. RowsInv'
  BY <1>1, <1>4, <1>5, <1>6, RowsKept
<1>9. FreshInUse' /\ SavedInUse' /\ AllThere'
  BY <1>1, <1>2, <1>3, <1>4, <1>5, <1>6 DEF CInv, FreshInUse, SavedInUse, AllThere, Quiet
<1>10. Asked'
  <2>1. \A h \in held : CreatedUnder(h.ticket)' \subseteq CreatedUnder(h.ticket)
    BY <1>4 DEF CreatedUnder
  <2>2. held # {} => ~Quiet
    BY <1>3 DEF WInv, Idle
  <2> QED BY <1>1, <1>4, <1>5, <1>6, <2>1, <2>2 DEF CInv, Asked, Quiet
<1> QED BY <1>7, <1>8, <1>9, <1>10 DEF CInv

-----------------------------------------------------------------------------
(* The user.                                                               *)

\* A temporary id not handed out yet names nothing.
LEMMA NextIsNew ==
  ASSUME SInv, WInv, CInv
  PROVE  /\ nextTempId \in Int /\ nextTempId < 0
         /\ nextTempId \notin InUse /\ nextTempId \notin DOMAIN remap
         /\ nextTempId \notin DOMAIN origin /\ nextTempId \notin DOMAIN server
         /\ nextTempId \notin DOMAIN fresh /\ nextTempId \notin DOMAIN saved
         /\ \A n \in InUse : Event(n) # nextTempId
         /\ \A y \in DOMAIN server : origin[y] # nextTempId
<1>1. nextTempId \in Int /\ nextTempId < 0
  BY IdsResolve DEF SInv
<1>2. nextTempId \notin DOMAIN wanted
  BY <1>1 DEF WInv, Ages, SInv, Synced, Origins
<1>3. nextTempId \notin InUse
  BY InUseAge
<1>4. \A n \in InUse : Event(n) \in DOMAIN wanted
  BY InUseAge DEF Ids
<1>5. nextTempId \notin DOMAIN remap
  BY <1>1 DEF WInv, Ages
<1>6. nextTempId \notin DOMAIN origin
  BY <1>1 DEF SInv, Synced, Origins
<1>7. DOMAIN server \subseteq DOMAIN origin /\ \A y \in DOMAIN server : origin[y] \in DOMAIN wanted
  BY DEF SInv, Synced, Clients, Origins
<1>8. nextTempId \notin DOMAIN fresh /\ nextTempId \notin DOMAIN saved
  BY <1>1 DEF SInv, Synced, Copies
<1> QED BY <1>1, <1>2, <1>3, <1>4, <1>5, <1>6, <1>7, <1>8

\* What a creation does to the names in use.
LEMMA CreatedNames ==
  ASSUME SInv, WInv, CInv, CreateEvent
  PROVE  /\ writes + 1 \notin DOMAIN ops /\ writes + 1 \in Nat \ {0}
         /\ \A t \in DOMAIN ops : t <= writes /\ t <= writes + 1
         /\ DOMAIN ops' = DOMAIN ops \cup {writes + 1}
         /\ \A t \in DOMAIN ops : ops'[t] = ops[t]
         /\ ops'[writes + 1].kind = "create" /\ ops'[writes + 1].target = nextTempId
         /\ Resolved' = Resolved \cup {nextTempId} /\ Edited' = Edited \cup {nextTempId}
         /\ InUse' = InUse \cup {nextTempId}
         /\ UNCHANGED <<remap, eventRemap, held, saved, syncing, fresh, wire>>
<1> DEFINE x == nextTempId
           op == NewOp("event", "create", x, NoRefs, NoBase)
<1>1. /\ writes \in Nat /\ DOMAIN ops \subseteq 1..writes
  BY DEF SInv, IInv, TypeOK, Queue
<1>2. Admitted(ops, op) = op
  <2>1. op.parked = NotHeld /\ op = [op EXCEPT !.parked = NotHeld]
    BY DEF NewOp
  <2> HIDE DEF op
  <2> QED BY <2>1, AdmittedWaits DEF WInv, NoneParked
<1>3. op.kind = "create" /\ op.target = x
  BY DEF NewOp
<1>4. /\ ops' = Extended(ops, writes + 1, op)
      /\ shown' = shown \cup {<<"event", x>>} /\ UNCHANGED <<remap, eventRemap, held>>
      /\ UNCHANGED <<saved, syncing, fresh, wire>>
  BY <1>2 DEF CreateEvent, Create
<1> HIDE DEF op, x
<1>5. /\ DOMAIN ops' = DOMAIN ops \cup {writes + 1} /\ ops'[writes + 1] = op
      /\ \A t \in DOMAIN ops : t # writes + 1 /\ ops'[t] = ops[t]
  BY <1>1, <1>4 DEF Extended
<1>6. ScreenIds("event")' = ScreenIds("event") \cup {x}
  <2>1. \A p \in shown' : p \in shown \/ p = <<"event", x>>
    BY <1>4
  <2>2. <<"event", x>> \in shown' /\ \A p \in shown : p \in shown'
    BY <1>4
  <2>3. <<"event", x>>[1] = "event" /\ <<"event", x>>[2] = x
    OBVIOUS
  <2>4. \A i : i \in ScreenIds("event")' <=> \E p \in shown' : p[1] = "event" /\ i = p[2]
    BY DEF ScreenIds
  <2>5. \A i : i \in ScreenIds("event") <=> \E p \in shown : p[1] = "event" /\ i = p[2]
    BY DEF ScreenIds
  <2> QED BY <2>1, <2>2, <2>3, <2>4, <2>5
<1>7. ResolveEvent(x) = x
  BY NextIsNew DEF ResolveEvent, Resolve, x
<1>8. \A i : ResolveEvent(i)' = ResolveEvent(i)
  BY <1>4 DEF ResolveEvent, Resolve
<1>9. Resolved' = Resolved \cup {x}
  BY <1>6, <1>7, <1>8 DEF Resolved
<1>10. Edited' = Edited \cup {x}
  BY <1>3, <1>5 DEF Edited
<1>11. InUse' = InUse \cup {x}
  BY <1>3, <1>5, <1>9 DEF InUse
<1> QED BY <1>1, <1>3, <1>4, <1>5, <1>9, <1>10, <1>11 DEF x

\* With no row made.
LEMMA QueuedCopies ==
  ASSUME SInv, WInv, CInv, CreateEvent, UNCHANGED <<server, origin>>
  PROVE  CInv'
<1> DEFINE x == nextTempId
           w == writes + 1
<1>1. /\ w \notin DOMAIN ops /\ \A t \in DOMAIN ops : t <= w
      /\ DOMAIN ops' = DOMAIN ops \cup {w}
      /\ \A t \in DOMAIN ops : ops'[t] = ops[t]
      /\ ops'[w].kind = "create" /\ ops'[w].target = x /\ w <= w
      /\ Resolved' = Resolved \cup {x} /\ Edited' = Edited \cup {x} /\ InUse' = InUse \cup {x}
      /\ UNCHANGED <<remap, eventRemap, held, saved, syncing, fresh, wire>>
  BY CreatedNames
<1>2. /\ x < 0 /\ ~(x > 0) /\ x \notin InUse /\ x \notin DOMAIN remap /\ x \notin DOMAIN server
      /\ x \notin DOMAIN fresh /\ x \notin DOMAIN saved /\ Event(x) = x
      /\ \A n \in InUse : Event(n) # x
      /\ \A y \in DOMAIN server : origin[y] # x
  BY NextIsNew DEF Event
<1>3. \A y \in DOMAIN server : server[y].client # w
  BY DEF WInv, Ages, SInv, IInv, TypeOK, Synced, Clients
<1> HIDE DEF x, w
<1>4. \A n : Event(n)' = Event(n)
  BY SameEvents
<1>5. \A t \in DOMAIN ops : ops[t].target \in InUse
  BY Members
<1>6. NamesInv'
  <2>1. OneName' /\ Current'
    BY <1>1, <1>2, <1>4 DEF CInv, NamesInv, OneName, Current
  <2>2. CreatedFirst'
    BY <1>1, <1>2, <1>5 DEF CInv, NamesInv, CreatedFirst
  <2>3. DeletionsLast'
    BY <1>1, <1>2, <1>5 DEF CInv, NamesInv, DeletionsLast
  <2>4. NoTemps'
    BY DEF NoTemps, CreateEvent
  <2> QED BY <2>1, <2>2, <2>3, <2>4 DEF NamesInv
<1>7. OneCopy' /\ Gone'
  BY <1>1 DEF CInv, RowsInv, OneCopy, Gone
<1>8. OneRow'
  <2>1. Resolved \subseteq InUse /\ Edited \subseteq InUse
    BY Members
  <2> QED BY <1>1, <1>2, <1>4, <2>1 DEF CInv, RowsInv, OneRow, MadeFor
<1>9. Making'
  BY <1>1, <1>3, <1>4 DEF CInv, RowsInv, Making
<1>10. FreshInUse' /\ SavedInUse' /\ AllThere'
  BY <1>1, <1>2 DEF CInv, FreshInUse, SavedInUse, AllThere, Quiet
<1>11. Asked'
  BY <1>1, <1>4 DEF CInv, Asked, CreatedUnder, Quiet
<1> QED BY <1>6, <1>7, <1>8, <1>9, <1>10, <1>11 DEF CInv, RowsInv

\* With a row made by a direct request whose answer was lost.
LEMMA PostedCopies ==
  ASSUME SInv, WInv, CInv, CreateEvent, \A t \in DOMAIN ops : ~IsWaiting(ops[t]),
         NEW c, Insert(writes + 1, c, nextTempId)
  PROVE  CInv'
<1>1. PICK x, w, R : x = nextTempId /\ w = writes + 1 /\ R = NewId(w)
  OBVIOUS
<1>2. /\ w \notin DOMAIN ops /\ w <= w
      /\ DOMAIN ops' = DOMAIN ops \cup {w}
      /\ ops'[w].kind = "create" /\ ops'[w].target = x
      /\ Resolved' = Resolved \cup {x} /\ Edited' = Edited \cup {x} /\ InUse' = InUse \cup {x}
      /\ UNCHANGED <<remap, eventRemap, held, saved, syncing, fresh, wire>>
  BY <1>1, CreatedNames
<1>3. /\ x < 0 /\ ~(x > 0) /\ x \notin InUse /\ x \notin DOMAIN remap /\ x \notin DOMAIN server
      /\ x \notin DOMAIN fresh /\ x \notin DOMAIN saved /\ x \notin DOMAIN origin
      /\ \A n \in InUse : Event(n) # x
      /\ \A y \in DOMAIN server : origin[y] # x
  BY <1>1, NextIsNew
<1>4. \A y \in DOMAIN server : server[y].client # w
  BY <1>1 DEF WInv, Ages, SInv, IInv, TypeOK, Synced, Clients
<1>5. R \in Nat \ {0} /\ R \notin DOMAIN origin
  BY <1>1, CreatedNames, NewIdIsNew DEF Insert
<1>6. /\ server' = Extended(server, R, [client |-> w, fields |-> c])
      /\ origin' = Extended(origin, R, x)
  BY <1>1 DEF Insert
<1>7. x # R
  BY <1>3, <1>5
<1>8. R \notin InUse
  BY <1>5, InUseAge
<1>9. DOMAIN ops = {} /\ held = {} /\ wire = {}
  <2>1. DOMAIN ops = {}
    BY DEF WInv, NoneParked
  <2> QED BY <2>1, HeldFacts DEF SInv, Synced, OnWire
<1>10. /\ DOMAIN server' = DOMAIN server \cup {R} /\ server'[R].client = w
       /\ origin'[R] = x /\ DOMAIN origin' = DOMAIN origin \cup {R}
       /\ \A y \in DOMAIN origin : y # R /\ origin'[y] = origin[y]
       /\ \A y \in DOMAIN server : y \in DOMAIN origin /\ server'[y] = server[y]
  BY <1>5, <1>6 DEF Extended, SInv, Synced, Clients
<1>11. /\ \A n \in InUse : n # R /\ Event(n)' = Event(n)
       /\ Event(x)' = x
  <2>1. \A n : n # R => (n \in DOMAIN origin' <=> n \in DOMAIN origin)
    BY <1>10
  <2>2. \A n : n # R => Event(n)' = Event(n)
    BY <1>10, <2>1 DEF Event
  <2>3. Event(x) = x
    BY <1>3 DEF Event
  <2> QED BY <1>7, <1>8, <2>2, <2>3
<1>12. NamesInv'
  <2>1. OneName'
    <3>1. \A a, b \in InUse : Event(a) = Event(b) => a = b
      BY DEF CInv, NamesInv, OneName
    <3> QED BY <1>2, <1>3, <1>11, <3>1 DEF OneName
  <2>2. Current'
    BY <1>2, <1>3 DEF CInv, NamesInv, Current
  <2>3. CreatedFirst' /\ DeletionsLast'
    BY <1>2, <1>3, <1>9 DEF CreatedFirst, DeletionsLast
  <2>4. NoTemps'
    BY DEF NoTemps, CreateEvent
  <2> QED BY <2>1, <2>2, <2>3, <2>4 DEF NamesInv
<1>13. OneCopy'
  <2>1. \A y \in DOMAIN server : origin'[y] = origin[y] /\ origin'[y] # x
    BY <1>3, <1>10
  <2>2. \A y, z \in DOMAIN server : origin'[y] = origin'[z] => y = z
    BY <2>1 DEF CInv, RowsInv, OneCopy
  <2> QED BY <1>10, <2>1, <2>2 DEF OneCopy
<1>14. OneRow'
  <2>1. Resolved \subseteq InUse /\ Edited \subseteq InUse
    BY Members
  <2>2. ASSUME NEW y \in DOMAIN server, NEW n \in InUse, Event(n) = origin[y], y # n
        PROVE  n \notin Resolved \cup Edited /\ n \notin DOMAIN fresh
    BY <1>9, <2>2 DEF CInv, RowsInv, OneRow, MadeFor
  <2>3. ASSUME NEW y \in DOMAIN server', NEW n \in InUse', Event(n)' = origin'[y]
        PROVE  \/ y = n
               \/ server'[y].client \in DOMAIN ops' /\ ops'[server'[y].client].target = n
               \/ n \notin Resolved' \cup Edited' /\ n \notin DOMAIN fresh'
    <3>1. CASE y = R
      <4>1. n = x
        BY <1>2, <1>3, <1>10, <1>11, <2>3, <3>1
      <4> QED BY <1>2, <1>10, <3>1, <4>1
    <3>2. CASE y \in DOMAIN server
      <4>1. origin'[y] = origin[y] /\ origin[y] # x
        BY <1>3, <1>10, <3>2
      <4>2. n # x /\ n \in InUse /\ Event(n) = origin[y]
        BY <1>2, <1>11, <2>3, <4>1
      <4> QED BY <1>2, <2>2, <3>2, <4>2
    <3> QED BY <1>10, <3>1, <3>2
  <2> QED BY <2>3 DEF OneRow, MadeFor
<1>15. Making'
  <2>1. ASSUME NEW y \in DOMAIN server', NEW t \in DOMAIN ops', server'[y].client = t
        PROVE  y = R /\ t = w
    BY <1>2, <1>4, <1>9, <1>10, <2>1
  <2>2. /\ \A u \in DOMAIN ops' : w <= u
        /\ ops'[w].target # R /\ origin'[R] = Event(ops[w].target)'
        /\ ops'[w].target \notin DOMAIN fresh'
    <3>1. ops'[w].target = x
      BY <1>2
    <3>2. Event(ops[w].target)' = Event(x)'
      BY <3>1 DEF Event
    <3> QED BY <1>2, <1>3, <1>7, <1>9, <1>10, <1>11, <3>1, <3>2
  <2> QED BY <1>2, <2>1, <2>2 DEF Making
<1>16. Gone'
  BY <1>2, <1>5, <1>10 DEF CInv, RowsInv, Gone, WInv, Ages
<1>17. FreshInUse'
  BY <1>2, <1>3, <1>7, <1>9, <1>10, <1>11 DEF CInv, FreshInUse, Quiet
<1>18. SavedInUse' /\ AllThere' /\ Asked'
  BY <1>2, <1>3, <1>9, <1>10 DEF CInv, SavedInUse, AllThere, Asked, Quiet
<1> QED BY <1>12, <1>13, <1>14, <1>15, <1>16, <1>17, <1>18 DEF CInv, RowsInv

LEMMA CreateEventCopies ==
  ASSUME SInv, WInv, CInv, CreateEvent
  PROVE  CInv'
<1>1. \/ UNCHANGED <<server, origin>>
      \/ /\ \A t \in DOMAIN ops : ~IsWaiting(ops[t])
         /\ \E c : Insert(writes + 1, c, nextTempId)
  BY DEF CreateEvent
<1> QED BY <1>1, QueuedCopies, PostedCopies

\* Changes of what is in use.
LEMMA ChangedCopies ==
  ASSUME SInv, WInv, CInv, NamesInv',
         UNCHANGED <<remap, eventRemap, held, server, origin, saved, syncing, fresh, wire>>,
         InUse' \subseteq InUse, Resolved' \cup Edited' \subseteq Resolved \cup Edited,
         \A t \in DOMAIN ops' :
           \/ t \in DOMAIN ops /\ ops'[t].kind = ops[t].kind /\ ops'[t].target = ops[t].target
           \/ t = writes + 1,
         \A t \in DOMAIN ops \ DOMAIN ops' :
           /\ \A h \in held : t # h.ticket
           /\ held = {} => ops[t].target \notin Resolved' \cup Edited'
  PROVE  CInv'
<1>1. writes \in Nat /\ \A t \in DOMAIN ops : t \in Nat /\ t <= writes
  BY DEF SInv, IInv, TypeOK, Queue
<1>2. \A y \in DOMAIN server : server[y].client # writes + 1
  BY <1>1 DEF WInv, Ages, SInv, Synced, Clients
<1>3. \A n : Event(n)' = Event(n)
  BY SameEvents
<1>4. OneCopy' /\ Gone'
  BY DEF CInv, RowsInv, OneCopy, Gone
<1>5. OneRow'
  <2>1. ASSUME NEW y \in DOMAIN server, NEW n \in InUse', Event(n) = origin[y], y # n, ~MadeFor(y, n)'
        PROVE  n \notin Resolved' \cup Edited' /\ n \notin DOMAIN fresh
    <3>1. n \in InUse
      OBVIOUS
    <3>2. CASE MadeFor(y, n)
      <4>1. PICK t \in DOMAIN ops : server[y].client = t /\ ops[t].target = n
        BY <3>2 DEF MadeFor
      <4>2. t \notin DOMAIN ops'
        BY <1>1, <2>1, <4>1 DEF MadeFor
      <4>3. held = {}
        BY <4>1, <4>2, MadeByHeld
      <4> QED BY <4>1, <4>2, <4>3 DEF CInv, RowsInv, Making
    <3>3. CASE ~MadeFor(y, n)
      BY <2>1, <3>1, <3>3 DEF CInv, RowsInv, OneRow
    <3> QED BY <3>2, <3>3
  <2> QED BY <1>3, <2>1 DEF OneRow
<1>6. Making'
  <2>1. ASSUME NEW y \in DOMAIN server, NEW t \in DOMAIN ops', server[y].client = t
        PROVE  /\ \A u \in DOMAIN ops' : t <= u
               /\ ops'[t].kind # "delete" /\ ops'[t].target # y /\ origin[y] = Event(ops'[t].target)
               /\ ops'[t].target \in DOMAIN fresh => held # {}
    <3>1. t \in DOMAIN ops /\ ops'[t].kind = ops[t].kind /\ ops'[t].target = ops[t].target
      BY <1>2, <2>1
    <3>2. t <= writes + 1
      BY <1>1, <3>1
    <3> QED BY <2>1, <3>1, <3>2 DEF CInv, RowsInv, Making
  <2> QED BY <1>3, <2>1 DEF Making
<1>7. FreshInUse' /\ SavedInUse' /\ AllThere'
  BY DEF CInv, FreshInUse, SavedInUse, AllThere, Quiet
<1>8. Asked'
  BY <1>3 DEF CInv, Asked, CreatedUnder, Quiet
<1> QED BY <1>4, <1>5, <1>6, <1>7, <1>8 DEF CInv, RowsInv

LEMMA UpdateEventCopies ==
  ASSUME SInv, WInv, CInv, NEW id \in ScreenIds("event"), UpdateEvent(id)
  PROVE  CInv'
<1> DEFINE x == ResolveEvent(id)
<1>1. /\ Update("event", id, NoRefs, ServerCopy(x))
      /\ UNCHANGED <<server, origin, saved, syncing, fresh, wire>>
  BY DEF UpdateEvent
<1>2. UNCHANGED <<remap, eventRemap, held, shown>>
  BY <1>1 DEF Update
<1>3. x \in Resolved
  BY DEF Resolved
<1>4. PICK t \in DOMAIN ops' :
        /\ t \in DOMAIN ops \/ t = writes + 1
        /\ DOMAIN ops' = DOMAIN ops \cup {t}
        /\ \A u \in DOMAIN ops : u # t => ops'[u] = ops[u]
        /\ ops'[t].target = x
        /\ IF t \in DOMAIN ops
           THEN ops[t].target = x /\ ops'[t].kind = ops[t].kind
           ELSE ops'[t].kind = "update"
  BY <1>1, UpdateQueue DEF WInv
<1> HIDE DEF x
<1>5. \A u \in DOMAIN ops : /\ u \in DOMAIN ops' /\ u <= writes + 1
                            /\ ops'[u].target = ops[u].target /\ ops'[u].kind = ops[u].kind
  <2>1. writes \in Nat /\ DOMAIN ops \subseteq 1..writes
    BY DEF SInv, IInv, TypeOK, Queue
  <2> QED BY <1>4, <2>1
<1>6. Resolved' = Resolved
  BY <1>2 DEF Resolved, ScreenIds, ResolveEvent, Resolve
<1>7. \A n \in Edited' : n \in Edited \/ n = x
  BY <1>4, <1>5 DEF Edited
<1>8. InUse' = InUse
  BY <1>3, <1>4, <1>5, <1>6 DEF InUse
<1>9. \A n : Event(n)' = Event(n)
  BY <1>1, SameEvents
<1>10. OneName' /\ Current'
  BY <1>2, <1>8, <1>9 DEF CInv, NamesInv, OneName, Current
<1>11. CreatedFirst'
  BY <1>4, <1>5 DEF CInv, NamesInv, CreatedFirst
<1>12. DeletionsLast'
  <2>1. ASSUME NEW d \in DOMAIN ops', ops'[d].kind = "delete"
        PROVE  /\ ops'[d].target \notin Resolved
               /\ \A u \in DOMAIN ops' : ops'[u].target = ops'[d].target => u <= d
    <3>1. d \in DOMAIN ops /\ ops[d].kind = "delete" /\ ops'[d].target = ops[d].target
      BY <1>4, <1>5, <2>1
    <3> QED BY <1>3, <1>4, <1>5, <3>1 DEF CInv, NamesInv, DeletionsLast
  <2> QED BY <1>6, <2>1 DEF DeletionsLast
<1>13. NoTemps'
  BY <1>2, <1>4, <1>5 DEF CInv, NamesInv, NoTemps, ScreenIds
<1> QED BY <1>1, <1>2, <1>3, <1>4, <1>5, <1>6, <1>7, <1>8, <1>10, <1>11, <1>12, <1>13,
           ChangedCopies DEF NamesInv

LEMMA DeleteEventCopies ==
  ASSUME SInv, WInv, CInv, NEW id \in ScreenIds("event"), DeleteEvent(id)
  PROVE  CInv'
<1> DEFINE x == ResolveEvent(id)
           gone == Replaced("event", x)
<1>1. /\ Delete("event", id, NoRefs, ServerCopy(x))
      /\ UNCHANGED <<server, origin, saved, syncing, fresh, wire>>
  BY DEF DeleteEvent
<1>2. /\ UNCHANGED <<remap, eventRemap, held>>
      /\ shown' = shown \ {<<"event", i>> : i \in {j \in ScreenIds("event") : ResolveEvent(j) = x}}
  BY <1>1 DEF Delete, Target
<1>3. x \in Resolved /\ x \in InUse
  BY DEF Resolved, InUse
<1>4. /\ \A t \in DOMAIN ops' :
           \/ t \in DOMAIN ops \ gone /\ ops'[t] = ops[t]
           \/ t = writes + 1 /\ ops'[t].kind = "delete" /\ ops'[t].target = x
      /\ \A t \in DOMAIN ops \ gone : t \in DOMAIN ops' /\ ops'[t] = ops[t]
      /\ \A t \in gone : t \in DOMAIN ops /\ ops[t].target = x /\ \A h \in held : t # h.ticket
  BY <1>1, DeleteQueue DEF WInv
<1>5. \A t \in DOMAIN ops \ gone : ops[t].target = x => t = sending
  BY DEF Replaced, About, SInv, Outboxed, Queued, EventOp
<1> HIDE DEF x, gone
<1>6. /\ writes \in Nat /\ \A t \in DOMAIN ops : t \in Nat \ {0} /\ t <= writes + 1 /\ t # writes + 1
  BY DEF SInv, IInv, TypeOK, Queue
<1>7. \A i \in ScreenIds("event")' : i \in ScreenIds("event") /\ ResolveEvent(i) # x
  <2>1. \A p \in shown : p[1] = "event" => p = <<"event", p[2]>>
    BY DEF SInv, IInv, TypeOK
  <2>2. \A i : i \in ScreenIds("event") <=> \E p \in shown : p[1] = "event" /\ i = p[2]
    BY DEF ScreenIds
  <2>3. \A i : i \in ScreenIds("event")' <=> \E p \in shown' : p[1] = "event" /\ i = p[2]
    BY DEF ScreenIds
  <2>4. \A i \in ScreenIds("event") : ResolveEvent(i) = x => <<"event", i>> \notin shown'
    BY <1>2
  <2> QED BY <1>2, <2>1, <2>2, <2>3, <2>4
<1>8. \A i : ResolveEvent(i)' = ResolveEvent(i)
  BY <1>2 DEF ResolveEvent, Resolve
<1>9. Resolved' \subseteq Resolved \ {x}
  BY <1>7, <1>8 DEF Resolved
<1>10. Edited' \subseteq Edited
  BY <1>4 DEF Edited
<1>11. InUse' \subseteq InUse
  BY <1>3, <1>4, <1>9 DEF InUse
<1>12. held = {} => x \notin Resolved' \cup Edited'
  <2>1. held = {} => \A t \in DOMAIN ops \ gone : ops[t].target # x
    BY <1>5, <1>6 DEF WInv, Idle, Nobody
  <2>2. held = {} => x \notin Edited'
    BY <1>4, <2>1 DEF Edited
  <2> QED BY <1>9, <2>2
<1>13. \A n : Event(n)' = Event(n)
  BY <1>1, SameEvents
<1>14. OneName' /\ Current'
  BY <1>2, <1>11, <1>13 DEF CInv, NamesInv, OneName, Current
<1>15. CreatedFirst'
  BY <1>4, <1>6 DEF CInv, NamesInv, CreatedFirst
<1>16. DeletionsLast'
  <2>1. ASSUME NEW d \in DOMAIN ops', ops'[d].kind = "delete"
        PROVE  /\ ops'[d].target \notin Resolved'
               /\ \A u \in DOMAIN ops' : ops'[u].target = ops'[d].target => u <= d
    <3>1. CASE d \in DOMAIN ops \ gone /\ ops'[d] = ops[d]
      <4>1. /\ ops[d].target \notin Resolved
            /\ \A t \in DOMAIN ops : ops[t].target = ops[d].target => t <= d
        BY <2>1, <3>1 DEF CInv, NamesInv, DeletionsLast
      <4> QED BY <1>3, <1>4, <1>9, <3>1, <4>1
    <3>2. CASE d = writes + 1 /\ ops'[d].target = x
      BY <1>4, <1>6, <1>9, <3>2
    <3> QED BY <1>4, <2>1, <3>1, <3>2
  <2> QED BY <2>1 DEF DeletionsLast
<1>17. NoTemps'
  BY <1>4, <1>7 DEF CInv, NamesInv, NoTemps
<1>18. NamesInv'
  BY <1>14, <1>15, <1>16, <1>17 DEF NamesInv
<1>19. \A t \in DOMAIN ops \ DOMAIN ops' :
         /\ \A h \in held : t # h.ticket
         /\ held = {} => ops[t].target \notin Resolved' \cup Edited'
  BY <1>4, <1>12
<1> QED BY <1>1, <1>2, <1>4, <1>9, <1>10, <1>11, <1>18, <1>19, ChangedCopies

-----------------------------------------------------------------------------
LEMMA StepCopies ==
  ASSUME CanCreate => MaxOthers = 0, MaxOthers = 0 \/ ~Racing \/ MaxResets = 0,
         SInv, WInv, CInv, [SyncNext]_allVars
  PROVE  CInv'
<1>1. CASE CreateEvent \/ \E id \in ScreenIds("event") : UpdateEvent(id) \/ DeleteEvent(id)
  BY <1>1, CreateEventCopies, UpdateEventCopies, DeleteEventCopies
<1>2. CASE EngineSteps
  BY <1>2, ReadServerCopies, TakeNextCopies, SendCopies, SettleDeletionCopies, TakeChangedCopies,
     TakeCreatedCopies, SyncEndsCopies, KilledCopies DEF EngineSteps
<1>3. CASE ServerSteps
  BY <1>3, ServePostCopies, ServeChangeCopies, OtherCopies DEF ServerSteps
<1>4. CASE UNCHANGED allVars \/ \E id \in ScreenIds("event") : OpenForm(id)
  <2>1. UNCHANGED <<vars, text, server, origin, saved, syncing, fresh, wire, wanted, unwanted, others>>
    BY <1>4, OpenFormOnly DEF allVars, syncVars
  <2>2. UNCHANGED <<ops, shown, remap, eventRemap, held, server, origin, saved, syncing, fresh, wire>>
    BY <2>1 DEF vars, syncVars
  <2>3. Resolved' = Resolved /\ Edited' = Edited /\ InUse' = InUse
    BY <2>2, SameNames
  <2>4. NamesInv' /\ RowsInv'
    BY <2>2, <2>3, SameEvents, NamesKept, RowsKept
  <2>5. FreshInUse' /\ SavedInUse' /\ AllThere'
    BY <2>2, <2>3 DEF CInv, FreshInUse, SavedInUse, AllThere, Quiet
  <2>6. Asked'
    BY <2>2, SameEvents DEF CInv, Asked, CreatedUnder, Quiet
  <2> QED BY <2>4, <2>5, <2>6 DEF CInv
<1> QED BY <1>1, <1>2, <1>3, <1>4 DEF SyncNext, UserWrites

LEMMA SyncInitCopies == ASSUME SyncInit PROVE CInv
<1>1. /\ server = [id \in Known["event"] |-> [client |-> Nobody, fields |-> [f \in Fields |-> First]]]
      /\ origin = [id \in Known["event"] |-> id]
      /\ syncing = FALSE /\ DOMAIN fresh = {} /\ wire = {}
  BY DEF SyncInit, Nothing
<1>2. DOMAIN ops = {} /\ DOMAIN remap = {} /\ DOMAIN eventRemap = {}
      /\ \A i \in ScreenIds("event") : i \in Known["event"]
  BY DEF SyncInit, Init, ScreenIds
<1>3. Known["event"] \subseteq Nat \ {0}
  BY OutboxAssumption DEF AllEntities
<1>4. Edited = {} /\ \A n \in InUse : n \in Known["event"]
  BY <1>2, <1>3 DEF InUse, Resolved, Edited, ResolveEvent, Resolve
<1>5. \A n : Event(n) = n
  BY <1>1 DEF Event
<1>6. NamesInv
  <2>1. OneName /\ Current /\ CreatedFirst /\ DeletionsLast
    BY <1>2, <1>5 DEF OneName, Current, CreatedFirst, DeletionsLast
  <2>2. NoTemps
    BY <1>2, <1>3 DEF NoTemps
  <2> QED BY <2>1, <2>2 DEF NamesInv
<1>7. RowsInv
  BY <1>1, <1>2, <1>5 DEF RowsInv, OneCopy, OneRow, Making, Gone
<1>8. AllThere
  BY <1>1, <1>4, Members DEF AllThere
<1>9. FreshInUse /\ SavedInUse /\ Asked
  BY <1>1, <1>2 DEF FreshInUse, SavedInUse, Asked
<1> QED BY <1>6, <1>7, <1>8, <1>9 DEF CInv

LEMMA CInvHolds ==
  /\ CanCreate => MaxOthers = 0
  /\ MaxOthers = 0 \/ ~Racing \/ MaxResets = 0
  => (SyncSpec => [](SInv /\ WInv /\ CInv))
<1> SUFFICES ASSUME CanCreate => MaxOthers = 0, MaxOthers = 0 \/ ~Racing \/ MaxResets = 0
             PROVE  SyncSpec => [](SInv /\ WInv /\ CInv)
  OBVIOUS
<1>1. SyncInit => CInv
  BY SyncInitCopies
<1>2. SInv /\ WInv /\ CInv /\ [SyncNext]_allVars => CInv'
  BY StepCopies
<1> QED BY <1>1, <1>2, WInvHolds, PTL DEF SyncSpec

\* An event is on the server once, however often its creation is sent: while no device
\* creates events the others also change, and unless others write while this device
\* syncs and is restarted (sync_engine.dart, _createEvent; event.go, CreateEvent).
THEOREM EventsOnce ==
  /\ CanCreate => MaxOthers = 0
  /\ MaxOthers = 0 \/ ~Racing \/ MaxResets = 0
  => (SyncSpec => []OneCopy)
<1> SUFFICES ASSUME CanCreate => MaxOthers = 0, MaxOthers = 0 \/ ~Racing \/ MaxResets = 0
             PROVE  SyncSpec => []OneCopy
  OBVIOUS
<1>1. CInv => OneCopy
  BY DEF CInv, RowsInv
<1> QED BY <1>1, CInvHolds, PTL

-----------------------------------------------------------------------------
(* Every edit arrives.                                                     *)

\* Where it does: nobody else writes during a sync, no edit puts a field back, no form
\* is open across a sync, answers are lost only to a device alone that creates nothing,
\* and where others write this device creates nothing and goes on running.
Settings ==
  /\ ~Racing /\ ~Reverts /\ ~HeldForms
  /\ LostAnswers => MaxOthers = 0 /\ ~CanCreate
  /\ MaxOthers = 0 \/ (~CanCreate /\ MaxResets = 0)

\* The ops about event e; what op t says of field f, and whether it leaves it as it was.
On(e)        == {t \in DOMAIN ops : Event(ops[t].target) = e}
Says(t, f)   == text[ops[t].write][f]
Leaves(t, f) == ops[t].base # NoBase /\ Says(t, f) = ops[t].base[f]

\* The last op about e says what is wanted of f.
Ahead(e, f) ==
  \E t \in On(e) : /\ \A u \in On(e) : u <= t
                   /\ Says(t, f) = wanted[e][f] /\ ~Leaves(t, f)

\* The server has what is wanted; so has the saved copy, when others may write.
Has(e, f) ==
  \E y \in DOMAIN server :
    /\ origin[y] = e /\ server[y].fields[f] = wanted[e][f]
    /\ MaxOthers = 0 \/ syncing \/ (y \in DOMAIN saved /\ saved[y][f] = wanted[e][f])

\* No op changes f, and the server has what is wanted.
There(e, f) == (\A t \in On(e) : Leaves(t, f)) /\ Has(e, f)

\* The event was deleted elsewhere, and whatever creates it again says what is wanted.
NoRow(e) == \A y \in DOMAIN server : origin[y] # e
ToRestore(e, f) ==
  /\ On(e) # {} /\ NoRow(e)
  /\ \A t \in On(e) : Leaves(t, f) /\ Says(t, f) = wanted[e][f]

Reaches ==
  \A e \in DOMAIN wanted \ unwanted : \A f \in Fields :
    wanted[e][f] # Untouched => Ahead(e, f) \/ There(e, f) \/ ToRestore(e, f)

\* The values of the writes still to come are nowhere yet.
Past(c, n) == \A f \in Fields : c[f] \notin (n + 1)..MaxWrites
Based == {t \in DOMAIN ops : ops[t].kind # "delete" /\ ops[t].base # NoBase}
RowsPast ==
  /\ \A id \in DOMAIN server : Past(server[id].fields, writes)
  /\ \A id \in DOMAIN saved : Past(saved[id], writes)
  /\ \A id \in DOMAIN fresh : Past(fresh[id], writes)
  /\ \A r \in wire : Past(r.fields, writes)
WritesPast ==
  /\ \A w \in DOMAIN text : Past(text[w], writes)
  /\ \A e \in DOMAIN wanted : Past(wanted[e], writes)
  /\ \A t \in Based : Past(ops[t].base, writes)

\* What is being deleted is not wanted.
DeletesUnwanted ==
  \A t \in DOMAIN ops : ops[t].kind = "delete" => Event(ops[t].target) \in unwanted

\* The edits of one event share their base: none, while it was not saved, or, where
\* others may write, the saved copy.
OneBaseEach ==
  \A t, u \in DOMAIN ops :
    /\ ops[t].kind # "delete" /\ ops[u].kind # "delete"
    /\ Event(ops[t].target) = Event(ops[u].target)
    => ops[t].base = ops[u].base
Baseless ==
  \A t \in DOMAIN ops :
    /\ ops[t].kind # "delete" /\ ops[t].base = NoBase /\ ops[t].target \in Resolved
    => /\ ops[t].target \notin DOMAIN saved
       /\ ~syncing => ops[t].target \notin DOMAIN server
BasedOnSaved ==
  MaxOthers = 0 \/ syncing \/
    \A t \in Based : ops[t].target \in DOMAIN saved /\ ops[t].base = saved[ops[t].target]
Alike == OneBaseEach /\ Baseless /\ BasedOnSaved

\* What is saved: what is on screens, between syncs; where answers are lost, all there is.
SavedKnown ==
  /\ ~syncing => \A n \in Resolved \cap DOMAIN server : n \in DOMAIN saved
  /\ LostAnswers => DOMAIN server \subseteq DOMAIN saved
  /\ DOMAIN saved \subseteq DOMAIN origin
  /\ CanCreate \/ DOMAIN wanted \subseteq DOMAIN origin

\* The rows made for what waits are those of a request just answered; where answers are
\* lost, nothing is created.
NoReplay ==
  /\ \A y \in DOMAIN server : server[y].client \in DOMAIN ops =>
       \E r \in wire : r.kind = "POST" /\ r.answer = "ok" /\ r.row = y
  /\ LostAnswers => \A r \in wire : r.kind # "POST" /\ ~(r.kind = "PATCH" /\ r.answer = "missing")

\* The sync knows the server but for the change just answered, and sends what it says.
FreshSame ==
  /\ DOMAIN fresh \subseteq DOMAIN origin
  /\ \A id \in DOMAIN fresh \cap DOMAIN server :
       \/ fresh[id] = server[id].fields
       \/ \E r \in wire : r.kind = "PATCH" /\ r.answer = "ok" /\ r.id = id
SentSays ==
  \A r \in wire, h \in held :
    /\ r.kind = "POST" => r.fields = text[h.op.write]
    /\ r.kind = "PATCH" => r.fields = Merged(h.op.base, fresh[r.id], text[h.op.write])
    /\ r.kind = "PATCH" /\ r.answer = "ok" =>
         r.id \in DOMAIN server /\ server[r.id].fields = r.fields
    /\ r.kind = "POST" /\ r.answer = "ok" =>
         /\ r.row \in DOMAIN server /\ server[r.row].fields = r.fields
         /\ r.row \notin DOMAIN saved

QueueSays == DeletesUnwanted /\ Alike
EInv == /\ Reaches /\ RowsPast /\ WritesPast /\ QueueSays
        /\ SavedKnown /\ NoReplay /\ FreshSame /\ SentSays

\* What is wanted has arrived once nothing waits.
LEMMA ArrivedOnceSent ==
  ASSUME EInv, CInv
  PROVE  EditsArrive
<1> SUFFICES ASSUME DOMAIN ops = {},
                    NEW e \in DOMAIN wanted \ unwanted,
                    NEW g \in Fields, wanted[e][g] # Untouched
             PROVE  \E id \in DOMAIN server :
                      /\ origin[id] = e
                      /\ \A f \in Fields : wanted[e][f] \in {Untouched, server[id].fields[f]}
  BY DEF EditsArrive
<1>1. On(e) = {}
  BY DEF On
<1>2. \A f \in Fields : wanted[e][f] # Untouched => Has(e, f)
  BY <1>1 DEF EInv, Reaches, Ahead, There, ToRestore
<1>3. PICK y \in DOMAIN server : origin[y] = e
  BY <1>2 DEF Has
<1>4. \A x \in DOMAIN server : origin[x] = e => x = y
  BY <1>3 DEF CInv, RowsInv, OneCopy
<1>5. \A f \in Fields : wanted[e][f] # Untouched => server[y].fields[f] = wanted[e][f]
  BY <1>2, <1>4 DEF Has
<1> QED BY <1>3, <1>5

LEMMA SettingsGive ==
  ASSUME Settings
  PROVE  /\ CanCreate => MaxOthers = 0
         /\ MaxOthers = 0 \/ ~Racing \/ MaxResets = 0
         /\ Quiet
         /\ MaxOthers = 0 \/ (~LostAnswers /\ MaxResets = 0)
         /\ LostAnswers => ~CanCreate
BY DEF Settings, Quiet

\* Steps that leave what the ops say alone.
LEMMA SameSays ==
  ASSUME UNCHANGED <<ops, text, origin>>
  PROVE  \A e : On(e)' = On(e) /\ \A t, f : /\ Says(t, f)' = Says(t, f)
                                            /\ Leaves(t, f)' = Leaves(t, f)
<1>1. \A n : Event(n)' = Event(n)
  BY SameEvents
<1> QED BY <1>1 DEF On, Says, Leaves

LEMMA ReachesKept ==
  ASSUME Reaches, UNCHANGED <<wanted, unwanted>>,
         \A e \in DOMAIN wanted \ unwanted :
           On(e)' = On(e) /\ \A t \in On(e), f \in Fields : /\ Says(t, f)' = Says(t, f)
                                                            /\ Leaves(t, f)' = Leaves(t, f),
         \A e \in DOMAIN wanted \ unwanted, f \in Fields :
           /\ There(e, f) => Has(e, f)'
           /\ ToRestore(e, f) => NoRow(e)' \/ Has(e, f)'
  PROVE  Reaches'
<1> SUFFICES ASSUME NEW e \in DOMAIN wanted \ unwanted, NEW f \in Fields, wanted[e][f] # Untouched
             PROVE  (Ahead(e, f) \/ There(e, f) \/ ToRestore(e, f))'
  BY DEF Reaches
<1>1. CASE Ahead(e, f)
  BY <1>1 DEF Ahead
<1>2. CASE There(e, f)
  BY <1>2 DEF There
<1>3. CASE ToRestore(e, f)
  <2>1. CASE NoRow(e)'
    BY <1>3, <2>1 DEF ToRestore
  <2>2. CASE Has(e, f)'
    BY <1>3, <2>2 DEF ToRestore, There
  <2> QED BY <1>3, <2>1, <2>2
<1> QED BY <1>1, <1>2, <1>3 DEF Reaches

\* The op held is about its event, and the request under way is about that op.
LEMMA HeldSays ==
  ASSUME SInv, WInv, NEW h \in held
  PROVE  /\ h.ticket \in On(Event(h.op.target))
         /\ \A t \in DOMAIN ops : t <= h.ticket => t = h.ticket
         /\ \A f : Says(h.ticket, f) = text[h.op.write][f]
         /\ \A f : Leaves(h.ticket, f) <=> h.op.base # NoBase /\ text[h.op.write][f] = h.op.base[f]
         /\ h.op.write \in DOMAIN text /\ h.op.write \in 1..writes
         /\ \A r \in wire : SentFor(r, h) /\ r.id = h.op.target /\ \A s \in wire : s = r
<1>1. /\ h.ticket \in DOMAIN ops /\ ops[h.ticket] = h.op
      /\ \A t \in DOMAIN ops : h.ticket <= t
  BY HeldFacts
<1>2. \A t \in DOMAIN ops : t \in Nat
  BY DEF SInv, IInv, TypeOK
<1>3. h.op.write \in 1..writes /\ DOMAIN text = 1..writes
  BY DEF SInv, Outboxed, Taken, EventOp, Synced, Texts
<1>4. \A r \in wire : SentFor(r, h) /\ r.id = h.op.target /\ \A s \in wire : s = r
  BY DEF SInv, Synced, OnWire, SentFor, WInv, Idle
<1> QED BY <1>1, <1>2, <1>3, <1>4 DEF On, Says, Leaves

\* Nothing is on the wire while nothing is held.
LEMMA NothingSent ==
  ASSUME SInv, held = {}
  PROVE  wire = {}
BY DEF SInv, Synced, OnWire

\* Steps that leave the queue and what was written alone.
LEMMA SameWrites ==
  ASSUME EInv, UNCHANGED <<ops, text, wanted, unwanted, origin, writes>>
  PROVE  WritesPast' /\ DeletesUnwanted' /\ OneBaseEach'
<1>1. \A n : Event(n)' = Event(n)
  BY SameEvents
<1>2. WritesPast'
  BY DEF EInv, WritesPast, Based
<1>3. DeletesUnwanted' /\ OneBaseEach'
  BY <1>1 DEF EInv, QueueSays, DeletesUnwanted, Alike, OneBaseEach
<1> QED BY <1>2, <1>3

LEMMA ReadServerEdits ==
  ASSUME SInv, WInv, CInv, EInv, ReadServer
  PROVE  EInv'
<1>1. /\ UNCHANGED <<vars, text, server, origin, wire, wanted, unwanted, others>>
      /\ UNCHANGED <<ops, held, writes, shown, remap, eventRemap>>
      /\ fresh' = Rows(server) /\ saved' = Rows(server) /\ held = {} /\ syncing' /\ ~syncing
  BY DEF ReadServer, vars
<1>2. wire = {}
  BY <1>1, NothingSent
<1>3. /\ DOMAIN fresh' = DOMAIN server /\ DOMAIN saved' = DOMAIN server
      /\ \A id \in DOMAIN server : fresh'[id] = server[id].fields /\ saved'[id] = server[id].fields
  BY <1>1 DEF Rows
<1>4. Resolved' = Resolved
  BY <1>1, SameNames
<1>5. Reaches'
  <2>1. \A e, f : (There(e, f) => Has(e, f)') /\ (ToRestore(e, f) => NoRow(e)')
    BY <1>1 DEF There, ToRestore, Has, NoRow
  <2> QED BY <1>1, <2>1, SameSays, ReachesKept DEF EInv
<1>6. RowsPast'
  BY <1>1, <1>2, <1>3 DEF EInv, RowsPast
<1>7. WritesPast' /\ DeletesUnwanted' /\ OneBaseEach'
  BY <1>1, SameWrites
<1>8. Baseless' /\ BasedOnSaved'
  BY <1>1, <1>3, <1>4 DEF EInv, QueueSays, Alike, Baseless, BasedOnSaved
<1>9. SavedKnown'
  BY <1>1, <1>3 DEF EInv, SavedKnown, SInv, Synced, Clients
<1>10. NoReplay'
  BY <1>1 DEF EInv, NoReplay
<1>11. FreshSame'
  BY <1>1, <1>3 DEF FreshSame, SInv, Synced, Clients
<1>12. SentSays'
  BY <1>1 DEF SentSays
<1> QED BY <1>5, <1>6, <1>7, <1>8, <1>9, <1>10, <1>11, <1>12 DEF EInv, QueueSays, Alike

\* A request made: nothing else changes.
LEMMA SentEdits ==
  ASSUME SInv, WInv, CInv, EInv,
         UNCHANGED <<vars, text, server, origin, saved, syncing, fresh, wanted, unwanted>>,
         \A s \in wire : ~(s.kind = "POST" /\ s.answer = "ok") /\ ~(s.kind = "PATCH" /\ s.answer = "ok"),
         NEW r, wire' = {r}, r.answer = "none", Past(r.fields, writes),
         LostAnswers => r.kind # "POST",
         \A h \in held : /\ r.kind = "POST" => r.fields = text[h.op.write]
                         /\ r.kind = "PATCH" => r.fields = Merged(h.op.base, fresh[r.id], text[h.op.write])
  PROVE  EInv'
<1>1. UNCHANGED <<ops, held, writes, shown, remap, eventRemap>>
  BY DEF vars
<1>2. Resolved' = Resolved
  BY <1>1, SameNames
<1>3. Reaches'
  <2>1. \A e, f : (There(e, f) => Has(e, f)') /\ (ToRestore(e, f) => NoRow(e)')
    BY <1>1 DEF There, ToRestore, Has, NoRow
  <2> QED BY <1>1, <2>1, SameSays, ReachesKept DEF EInv
<1>4. RowsPast'
  BY <1>1 DEF EInv, RowsPast
<1>5. WritesPast' /\ DeletesUnwanted' /\ OneBaseEach'
  BY <1>1, SameWrites
<1>6. Baseless' /\ BasedOnSaved'
  BY <1>1, <1>2 DEF EInv, QueueSays, Alike, Baseless, BasedOnSaved, Based
<1>7. SavedKnown'
  BY <1>1, <1>2 DEF EInv, SavedKnown
<1>8. NoReplay'
  BY <1>1 DEF EInv, NoReplay
<1>9. FreshSame'
  BY <1>1 DEF EInv, FreshSame
<1>10. SentSays'
  <2>1. \A n : Merged(n, fresh[r.id], text)' = Merged(n, fresh[r.id], text)
    BY DEF Merged
  <2>2. \A h \in held : r.kind = "PATCH" => r.fields = Merged(h.op.base, fresh'[r.id], text'[h.op.write])
    BY DEF Merged
  <2> QED BY <1>1, <2>2 DEF SentSays, Merged
<1> QED BY <1>3, <1>4, <1>5, <1>6, <1>7, <1>8, <1>9, <1>10 DEF EInv, QueueSays, Alike

\* A merge of what was there has nothing newer.
LEMMA MergedPast ==
  ASSUME NEW base, NEW now, NEW mine, Past(now, writes), Past(mine, writes)
  PROVE  Past(Merged(base, now, mine), writes)
BY DEF Merged, Past

\* Left alone, an edit of an event the sync did not find is a creation made here.
LEMMA FoundAlone ==
  ASSUME SInv, WInv, CInv, EInv, MaxOthers = 0, ~CanCreate, NEW h \in held, h.op.kind # "delete"
  PROVE  ~IsCreation(h.op) /\ ~Missing(h.op.target) /\ h.op.target \in DOMAIN server
<1>1. h.ticket \in DOMAIN ops /\ ops[h.ticket] = h.op /\ h.op.target \in InUse /\ h.op.target \in Edited /\ syncing
  BY HeldFacts
<1>2. ~IsCreation(h.op)
  BY <1>1 DEF CInv, NamesInv, NoTemps, IsCreation
<1>3. h.op.target > 0
  <2>1. Event(h.op.target) \in DOMAIN origin
    BY <1>1, InUseAge DEF EInv, SavedKnown, Ids
  <2> QED BY <1>1, <2>1, InUseAge DEF Event
<1>4. h.op.target \in DOMAIN server
  BY <1>1, <1>3 DEF CInv, AllThere
<1>5. h.op.target \in DOMAIN fresh
  BY <1>1, <1>4 DEF CInv, FreshInUse
<1> QED BY <1>1, <1>2, <1>3, <1>4, <1>5, InUseAge DEF Missing

LEMMA SendEdits ==
  ASSUME Settings, SInv, WInv, CInv, EInv, SendWrite \/ SendDeletion \/ CreateAgain
  PROVE  EInv'
<1>1. UNCHANGED <<vars, text, server, origin, saved, syncing, fresh, wanted, unwanted>>
  BY DEF SendWrite, SendDeletion, CreateAgain
<1>2. CASE SendWrite
  <2>1. PICK h \in held :
          /\ h.op.kind \in {"create", "update"}
          /\ wire' = IF IsCreation(h.op) \/ Missing(h.op.target)
                     THEN {Request("POST", h.op.target, text[h.op.write])}
                     ELSE {Request("PATCH", h.op.target,
                                   Merged(h.op.base, fresh[h.op.target], text[h.op.write]))}
    BY <1>2 DEF SendWrite
  <2>2. wire = {} /\ \A k \in held : k = h
    BY <1>2, HeldFacts DEF SendWrite
  <2>3. Past(text[h.op.write], writes)
    BY HeldSays DEF EInv, WritesPast
  <2>4. CASE IsCreation(h.op) \/ Missing(h.op.target)
    <3>1. wire' = {Request("POST", h.op.target, text[h.op.write])}
      BY <2>1, <2>4
    <3>2. PICK r : wire' = {r} /\ r.kind = "POST" /\ r.fields = text[h.op.write] /\ r.answer = "none"
      BY <3>1, RequestMade
    <3>3. ~LostAnswers
      BY <2>1, <2>4, FoundAlone DEF Settings
    <3> QED BY <1>1, <2>2, <2>3, <3>2, <3>3, SentEdits
  <2>5. CASE ~(IsCreation(h.op) \/ Missing(h.op.target))
    <3>1. wire' = {Request("PATCH", h.op.target,
                           Merged(h.op.base, fresh[h.op.target], text[h.op.write]))}
      BY <2>1, <2>5
    <3>2. PICK r : /\ wire' = {r} /\ r.kind = "PATCH" /\ r.answer = "none" /\ r.id = h.op.target
                   /\ r.fields = Merged(h.op.base, fresh[h.op.target], text[h.op.write])
      BY <3>1, RequestMade
    <3>3. Past(r.fields, writes)
      BY <2>3, <2>5, <3>2, MergedPast DEF Missing, EInv, RowsPast
    <3> QED BY <1>1, <2>2, <3>2, <3>3, SentEdits
  <2> QED BY <2>4, <2>5
<1>3. CASE SendDeletion
  <2>1. PICK h \in held : /\ ~Missing(h.op.target)
                          /\ wire' = {Request("DELETE", h.op.target, fresh[h.op.target])}
    BY <1>3 DEF SendDeletion
  <2>2. wire = {}
    BY <1>3 DEF SendDeletion
  <2>3. PICK r : /\ wire' = {r} /\ r.kind = "DELETE" /\ r.answer = "none"
                 /\ r.fields = fresh[h.op.target]
    BY <2>1, RequestMade
  <2>4. Past(r.fields, writes)
    BY <2>1, <2>3 DEF Missing, EInv, RowsPast
  <2> QED BY <1>1, <2>2, <2>3, <2>4, SentEdits
<1>4. CASE CreateAgain
  <2>1. PICK s \in wire, h \in held :
          /\ s.kind = "PATCH" /\ s.answer = "missing"
          /\ wire' = {Request("POST", s.id, text[h.op.write])}
    BY <1>4 DEF CreateAgain
  <2>2. (\A k \in wire : k = s) /\ \A k \in held : k = h
    BY HeldSays, HeldFacts
  <2>3. Past(text[h.op.write], writes)
    BY HeldSays DEF EInv, WritesPast
  <2>4. PICK r : wire' = {r} /\ r.kind = "POST" /\ r.fields = text[h.op.write] /\ r.answer = "none"
    BY <2>1, RequestMade
  <2>5. ~LostAnswers
    BY <2>1 DEF EInv, NoReplay
  <2> QED BY <1>1, <2>1, <2>2, <2>3, <2>4, <2>5, SentEdits
<1> QED BY <1>2, <1>3, <1>4

LEMMA TakeNextEdits ==
  ASSUME SInv, WInv, CInv, EInv, TakeNext
  PROVE  EInv'
<1>1. /\ UNCHANGED syncVars
      /\ UNCHANGED <<ops, writes, shown, remap, eventRemap>> /\ held = {}
  BY DEF TakeNext, Take
<1>2. UNCHANGED <<text, server, origin, saved, syncing, fresh, wire, wanted, unwanted>> /\ wire' = {}
  BY <1>1, NothingSent DEF syncVars
<1>3. Resolved' = Resolved
  BY <1>1, SameNames
<1>4. Reaches'
  <2>1. \A e, f : (There(e, f) => Has(e, f)') /\ (ToRestore(e, f) => NoRow(e)')
    BY <1>2 DEF There, ToRestore, Has, NoRow
  <2> QED BY <1>1, <1>2, <2>1, SameSays, ReachesKept DEF EInv
<1>5. WritesPast' /\ DeletesUnwanted' /\ OneBaseEach'
  BY <1>1, <1>2, SameWrites
<1>6. RowsPast' /\ NoReplay' /\ FreshSame'
  BY <1>1, <1>2 DEF EInv, RowsPast, NoReplay, FreshSame
<1>7. Baseless' /\ BasedOnSaved' /\ SavedKnown'
  BY <1>1, <1>2, <1>3 DEF EInv, QueueSays, Alike, Baseless, BasedOnSaved, Based, SavedKnown
<1>8. SentSays'
  BY <1>2 DEF SentSays
<1> QED BY <1>4, <1>5, <1>6, <1>7, <1>8 DEF EInv, QueueSays, Alike

LEMMA GiveUpEdits ==
  ASSUME Settings, SInv, WInv, CInv, EInv, GiveUp
  PROVE  EInv'
<1>1. /\ UNCHANGED <<text, server, origin, wanted, unwanted>>
      /\ UNCHANGED <<ops, writes, shown, remap, eventRemap>>
      /\ held' = {} /\ wire' = {} /\ ~syncing' /\ DOMAIN fresh' = {}
      /\ saved' \in {Rows(server), saved}
  BY DEF GiveUp, Abort, Saves, Nothing
<1>2. LostAnswers /\ MaxOthers = 0 /\ ~CanCreate
  BY DEF GiveUp, Settings
<1>3. Resolved' = Resolved
  BY <1>1, SameNames
<1>4. DOMAIN server \subseteq DOMAIN saved
  BY <1>2 DEF EInv, SavedKnown
<1>5. /\ DOMAIN saved' \in {DOMAIN server, DOMAIN saved}
      /\ \A id \in DOMAIN saved' : saved'[id] = saved[id] \/ (id \in DOMAIN server /\ saved'[id] = server[id].fields)
  BY <1>1 DEF Rows
<1>6. Reaches'
  <2>1. \A e, f : (There(e, f) => Has(e, f)') /\ (ToRestore(e, f) => NoRow(e)')
    BY <1>1, <1>2 DEF There, ToRestore, Has, NoRow
  <2> QED BY <1>1, <2>1, SameSays, ReachesKept DEF EInv
<1>7. WritesPast' /\ DeletesUnwanted' /\ OneBaseEach'
  BY <1>1, SameWrites
<1>8. RowsPast'
  <2>1. \A id \in DOMAIN saved' : Past(saved'[id], writes)
    BY <1>1 DEF EInv, RowsPast, Rows
  <2> QED BY <1>1, <2>1 DEF EInv, RowsPast
<1>9. Baseless'
  BY <1>1, <1>3, <1>4, <1>5 DEF EInv, QueueSays, Alike, Baseless
<1>10. BasedOnSaved'
  BY <1>2 DEF BasedOnSaved
<1>11. SavedKnown'
  BY <1>1, <1>3, <1>4, <1>5 DEF EInv, SavedKnown, SInv, Synced, Clients
<1>12. NoReplay'
  BY <1>1, <1>2 DEF EInv, NoReplay
<1>13. FreshSame' /\ SentSays'
  BY <1>1 DEF FreshSame, SentSays
<1> QED BY <1>6, <1>7, <1>8, <1>9, <1>10, <1>11, <1>12, <1>13 DEF EInv, QueueSays, Alike

LEMMA EndSyncEdits ==
  ASSUME Settings, SInv, WInv, CInv, EInv, EndSync
  PROVE  EInv'
<1>1. /\ UNCHANGED <<text, server, origin, wire, wanted, unwanted>>
      /\ UNCHANGED <<ops, held, writes, shown, remap, eventRemap>>
      /\ held = {} /\ ~syncing' /\ DOMAIN fresh' = {}
      /\ saved' = Rows(server) \/ (LostAnswers /\ saved' = saved)
  BY DEF EndSync, Saves, Nothing, vars
<1>2. DOMAIN ops = {}
  BY DEF EndSync, WInv, NoneParked
<1>3. wire = {}
  BY <1>1, NothingSent
<1>4. Resolved' = Resolved
  BY <1>1, SameNames
<1>5. \/ /\ DOMAIN saved' = DOMAIN server
         /\ \A id \in DOMAIN server : saved'[id] = server[id].fields
      \/ LostAnswers /\ saved' = saved
  BY <1>1 DEF Rows
<1>6. Reaches'
  <2>1. \A e, f : There(e, f) => Has(e, f)'
    <3>1. CASE MaxOthers = 0
      BY <1>1, <3>1 DEF There, Has
    <3>2. CASE MaxOthers # 0
      BY <1>1, <1>5, <3>2, SettingsGive DEF There, Has
    <3> QED BY <3>1, <3>2
  <2>2. \A e, f : ToRestore(e, f) => NoRow(e)'
    BY <1>1 DEF ToRestore, NoRow
  <2> QED BY <1>1, <2>1, <2>2, SameSays, ReachesKept DEF EInv
<1>7. WritesPast' /\ DeletesUnwanted' /\ OneBaseEach'
  BY <1>1, SameWrites
<1>8. RowsPast'
  <2>1. \A id \in DOMAIN saved' : Past(saved'[id], writes)
    BY <1>1 DEF EInv, RowsPast, Rows
  <2> QED BY <1>1, <2>1 DEF EInv, RowsPast
<1>9. Baseless' /\ BasedOnSaved'
  BY <1>1, <1>2 DEF Baseless, BasedOnSaved, Based
<1>10. SavedKnown'
  BY <1>1, <1>4, <1>5 DEF EInv, SavedKnown, SInv, Synced, Clients
<1>11. NoReplay'
  BY <1>1 DEF EInv, NoReplay
<1>12. FreshSame' /\ SentSays'
  BY <1>1 DEF FreshSame, SentSays
<1> QED BY <1>6, <1>7, <1>8, <1>9, <1>10, <1>11, <1>12 DEF EInv, QueueSays, Alike

\* What the screens show after a restart: what was saved and shown, and what waits to
\* be created.
LEMMA ShownAgain ==
  ASSUME SInv, CInv, Quiet, Killed, NEW n \in Resolved'
  PROVE  \/ n \in Resolved /\ n \in DOMAIN saved
         \/ n < 0 /\ \E c \in DOMAIN ops : ops[c].kind = "create" /\ ops[c].target = n
<1>1. /\ DOMAIN remap' = {} /\ DOMAIN eventRemap' = {}
      /\ shown' = Reread({p \in shown : p[2] \in DOMAIN saved}, ops)
  BY DEF Killed, Restart
<1>2. \A t \in DOMAIN ops : ops[t].entity = "event"
  BY DEF SInv, Outboxed, Queued, EventOp
<1>3. \A i : ResolveEvent(i)' = i
  BY <1>1 DEF ResolveEvent, Resolve
<1>4. n \in ScreenIds("event")'
  BY <1>3 DEF Resolved
<1>5. \/ n \in ScreenIds("event") /\ n \in DOMAIN saved
      \/ \E c \in DOMAIN ops : ops[c].kind = "create" /\ ops[c].target = n
  BY <1>1, <1>2, <1>4 DEF ScreenIds, Reread, Creations, IsCreation
<1>6. CASE n \in ScreenIds("event") /\ n \in DOMAIN saved
  <2>1. n > 0 /\ n \notin DOMAIN eventRemap
    BY <1>6 DEF CInv, SavedInUse, SInv, Synced, Copies
  <2>2. n \in Int
    BY <1>6 DEF SInv, Outboxed, EventsShown, ScreenIds, Ids
  <2>3. ResolveEvent(n) = n
    BY <2>1, <2>2 DEF ResolveEvent
  <2> QED BY <1>6, <2>3 DEF Resolved
<1>7. CASE \E c \in DOMAIN ops : ops[c].kind = "create" /\ ops[c].target = n
  BY <1>7 DEF CInv, NamesInv, CreatedFirst
<1> QED BY <1>5, <1>6, <1>7

LEMMA KilledEdits ==
  ASSUME Settings, SInv, WInv, CInv, EInv, Killed
  PROVE  EInv'
<1>1. /\ UNCHANGED <<text, server, origin, saved, wanted, unwanted>>
      /\ UNCHANGED <<ops, writes>>
      /\ held' = {} /\ wire' = {} /\ ~syncing' /\ DOMAIN fresh' = {} /\ resets < MaxResets
      /\ LostAnswers \/ wire = {}
  BY DEF Killed, Restart, CountReset, Nothing
<1>2. MaxOthers = 0
  BY <1>1, SettingsGive DEF SInv, IInv, TypeOK
<1>3. \A n \in Resolved' : /\ n \in DOMAIN saved => n \in Resolved
                           /\ n \in DOMAIN server => n \in DOMAIN saved
  <2>1. \A i \in DOMAIN saved \cup DOMAIN server : i > 0 /\ i \in Int
    BY DEF EInv, SavedKnown, SInv, Synced, Clients, Origins
  <2>2. \A t \in DOMAIN ops : ops[t].target \in Int
    BY DEF SInv, IInv, TypeOK, Op
  <2> QED BY <2>1, <2>2, ShownAgain, SettingsGive
<1>4. Reaches'
  <2>1. \A e, f : (There(e, f) => Has(e, f)') /\ (ToRestore(e, f) => NoRow(e)')
    BY <1>1, <1>2 DEF There, ToRestore, Has, NoRow
  <2> QED BY <1>1, <2>1, SameSays, ReachesKept DEF EInv
<1>5. WritesPast' /\ DeletesUnwanted' /\ OneBaseEach'
  BY <1>1, SameWrites
<1>6. RowsPast'
  BY <1>1 DEF EInv, RowsPast
<1>7. Baseless'
  <2>1. ASSUME NEW t \in DOMAIN ops, ops[t].kind # "delete", ops[t].base = NoBase, ops[t].target \in Resolved'
        PROVE  ops[t].target \notin DOMAIN saved /\ ops[t].target \notin DOMAIN server
    BY <1>3, <2>1 DEF EInv, QueueSays, Alike, Baseless
  <2> QED BY <1>1, <2>1 DEF Baseless
<1>8. BasedOnSaved'
  BY <1>2 DEF BasedOnSaved
<1>9. SavedKnown'
  BY <1>1, <1>3 DEF EInv, SavedKnown
<1>10. NoReplay'
  BY <1>1 DEF EInv, NoReplay
<1>11. FreshSame' /\ SentSays'
  BY <1>1 DEF FreshSame, SentSays
<1> QED BY <1>4, <1>5, <1>6, <1>7, <1>8, <1>9, <1>10, <1>11 DEF EInv, QueueSays, Alike

LEMMA ServePostEdits ==
  ASSUME Settings, SInv, WInv, CInv, EInv, ServePost
  PROVE  EInv'
<1>1. PICK r \in wire, h \in held :
        /\ r.kind = "POST" /\ r.answer = "none"
        /\ \/ /\ CreatedUnder(h.ticket) = {}
              /\ Insert(h.ticket, r.fields, Event(r.id))
              /\ Answered(r, "ok", NewId(h.ticket))
           \/ \E id \in CreatedUnder(h.ticket) :
                /\ Answered(r, "ok", id)
                /\ UNCHANGED <<server, origin>>
  BY DEF ServePost
<1>2. /\ UNCHANGED <<vars, text, saved, syncing, fresh, wanted, unwanted>>
      /\ UNCHANGED <<ops, held, writes, shown, remap, eventRemap>>
  BY DEF ServePost, vars
<1>3. /\ r \in Requests /\ SentFor(r, h) /\ (\A s \in wire : s = r) /\ \A k \in held : k = h
      /\ h.ticket \in DOMAIN ops /\ h.ticket \in Nat /\ syncing
      /\ h.ticket \in On(Event(h.op.target)) /\ r.id = h.op.target
      /\ \A f : Says(h.ticket, f) = text[h.op.write][f]
  BY HeldFacts, HeldSays DEF SInv, Synced, OnWire
<1>4. \A y \in DOMAIN server : server[y].client \notin DOMAIN ops
  BY <1>1, <1>3 DEF EInv, NoReplay
<1>5. CreatedUnder(h.ticket) = {}
  BY <1>3, <1>4 DEF CreatedUnder
<1> DEFINE R == NewId(h.ticket)
           e0 == Event(r.id)
<1>6. Insert(h.ticket, r.fields, e0) /\ Answered(r, "ok", R)
  BY <1>1, <1>5
<1>7. PICK s : /\ wire' = {s} /\ s.id = r.id /\ s.kind = "POST" /\ s.fields = r.fields
               /\ s.answer = "ok" /\ s.row = R
  BY <1>1, <1>3, <1>6, AnsweredRequest
<1>8. R \notin DOMAIN origin
  BY <1>3, <1>6, NewIdIsNew DEF Insert
<1>9. /\ server' = Extended(server, R, [client |-> h.ticket, fields |-> r.fields])
      /\ origin' = Extended(origin, R, e0)
  BY <1>6 DEF Insert
<1>10. /\ DOMAIN server' = DOMAIN server \cup {R}
       /\ server'[R].client = h.ticket /\ server'[R].fields = r.fields
       /\ origin'[R] = e0 /\ DOMAIN origin' = DOMAIN origin \cup {R}
       /\ \A y \in DOMAIN server : y # R => server'[y] = server[y]
       /\ \A y \in DOMAIN origin : y # R => origin'[y] = origin[y]
  BY <1>9 DEF Extended
<1> HIDE DEF R
<1>11. /\ R \notin DOMAIN server /\ R \notin DOMAIN saved /\ R \notin DOMAIN fresh
       /\ \A y \in DOMAIN server : server'[y] = server[y] /\ origin'[y] = origin[y] /\ y # R
  BY <1>8, <1>10 DEF SInv, Synced, Clients, EInv, SavedKnown, FreshSame
<1>12. \A n \in InUse : n # R /\ Event(n)' = Event(n)
  <2>1. \A n \in InUse : n \in DOMAIN origin \/ (n < 0 /\ n \notin DOMAIN origin)
    BY InUseAge
  <2>2. R \in Nat
    BY <1>3, <1>6, NewIdIsNew DEF Insert, R
  <2> QED BY <1>8, <1>10, <2>1, <2>2, InUseAge DEF Event
<1>13. /\ \A e : On(e)' = On(e)
       /\ \A t, f : Says(t, f)' = Says(t, f) /\ Leaves(t, f)' = Leaves(t, f)
  BY <1>2, <1>12, Members DEF On, Says, Leaves
<1>14. Resolved' = Resolved
  BY <1>2, SameNames
<1>15. ~LostAnswers
  BY <1>1 DEF EInv, NoReplay
<1>16. r.fields = text[h.op.write]
  BY <1>1 DEF EInv, SentSays
<1>17. Reaches'
  <2>1. ASSUME NEW e, NEW f, There(e, f) PROVE Has(e, f)'
    <3>1. PICK y \in DOMAIN server : origin[y] = e /\ server[y].fields[f] = wanted[e][f]
      BY <2>1 DEF There, Has
    <3> QED BY <1>2, <1>3, <1>10, <1>11, <3>1 DEF Has
  <2>2. ASSUME NEW e, NEW f, ToRestore(e, f) PROVE NoRow(e)' \/ Has(e, f)'
    <3>1. CASE e = e0
      <4>1. r.fields[f] = wanted[e][f]
        BY <1>3, <1>16, <2>2, <3>1 DEF ToRestore
      <4> QED BY <1>2, <1>3, <1>10, <3>1, <4>1 DEF Has
    <3>2. CASE e # e0
      <4>1. \A y \in DOMAIN server : origin[y] # e
        BY <2>2 DEF ToRestore, NoRow
      <4>2. \A y \in DOMAIN server' : origin'[y] # e
        BY <1>10, <1>11, <3>2, <4>1
      <4> QED BY <4>2 DEF NoRow
    <3> QED BY <3>1, <3>2
  <2> QED BY <1>2, <1>13, <2>1, <2>2, ReachesKept DEF EInv
<1>18. RowsPast'
  <2>1. Past(r.fields, writes)
    BY DEF EInv, RowsPast
  <2>2. \A id \in DOMAIN server' : Past(server'[id].fields, writes)
    BY <1>10, <1>11, <2>1 DEF EInv, RowsPast
  <2> QED BY <1>2, <1>7, <2>1, <2>2 DEF EInv, RowsPast
<1>19. WritesPast'
  BY <1>2 DEF EInv, WritesPast, Based
<1>20. DeletesUnwanted' /\ OneBaseEach'
  BY <1>2, <1>12, Members DEF EInv, QueueSays, DeletesUnwanted, Alike, OneBaseEach
<1>21. Baseless' /\ BasedOnSaved'
  BY <1>2, <1>3, <1>14 DEF EInv, QueueSays, Alike, Baseless, BasedOnSaved
<1>22. SavedKnown'
  BY <1>2, <1>3, <1>10, <1>15 DEF EInv, SavedKnown
<1>23. NoReplay'
  <2>1. \A y \in DOMAIN server' : server'[y].client \in DOMAIN ops => y = R
    BY <1>4, <1>10, <1>11
  <2> QED BY <1>2, <1>7, <1>15, <2>1 DEF NoReplay
<1>24. FreshSame'
  <2>1. \A id \in DOMAIN fresh \cap DOMAIN server' : fresh[id] = server'[id].fields
    BY <1>1, <1>3, <1>10, <1>11 DEF EInv, FreshSame
  <2> QED BY <1>2, <1>10, <2>1 DEF EInv, FreshSame
<1>25. SentSays'
  BY <1>2, <1>3, <1>7, <1>10, <1>11, <1>16 DEF SentSays
<1> QED BY <1>17, <1>18, <1>19, <1>20, <1>21, <1>22, <1>23, <1>24, <1>25 DEF EInv, QueueSays, Alike

\* A change answered: no row is new, and what is wanted of a row is still in it.
LEMMA ChangeEdits ==
  ASSUME SInv, WInv, CInv, EInv, syncing,
         UNCHANGED <<vars, text, origin, saved, syncing, fresh, wanted, unwanted>>,
         \A r \in wire : ~(r.kind = "POST" /\ r.answer = "ok"),
         \A y \in DOMAIN server' :
           /\ y \in DOMAIN server /\ server'[y].client = server[y].client
           /\ Past(server'[y].fields, writes),
         \A e \in DOMAIN wanted \ unwanted, f \in Fields : There(e, f) => Has(e, f)',
         \A s \in wire' : /\ Past(s.fields, writes)
                          /\ LostAnswers => s.kind # "POST"
                          /\ LostAnswers => ~(s.kind = "PATCH" /\ s.answer = "missing"),
         FreshSame', SentSays'
  PROVE  EInv'
<1>1. UNCHANGED <<ops, held, writes, shown, remap, eventRemap>>
  BY DEF vars
<1>2. Resolved' = Resolved
  BY <1>1, SameNames
<1>3. Reaches'
  <2>1. \A e, f : ToRestore(e, f) => NoRow(e)'
    BY DEF ToRestore, NoRow
  <2> QED BY <1>1, <2>1, SameSays, ReachesKept DEF EInv
<1>4. RowsPast'
  BY <1>1 DEF EInv, RowsPast
<1>5. WritesPast' /\ DeletesUnwanted' /\ OneBaseEach'
  BY <1>1, SameWrites
<1>6. Baseless' /\ BasedOnSaved'
  BY <1>1, <1>2 DEF EInv, QueueSays, Alike, Baseless, BasedOnSaved
<1>7. SavedKnown'
  BY <1>1, <1>2 DEF EInv, SavedKnown
<1>8. NoReplay'
  <2>1. \A y \in DOMAIN server : server[y].client \notin DOMAIN ops
    BY DEF EInv, NoReplay
  <2> QED BY <1>1, <2>1 DEF NoReplay
<1> QED BY <1>3, <1>4, <1>5, <1>6, <1>7, <1>8 DEF EInv, QueueSays, Alike

LEMMA ServeChangeEdits ==
  ASSUME Settings, SInv, WInv, CInv, EInv, ServeChange
  PROVE  EInv'
<1>1. PICK r \in wire :
        /\ r.kind \in {"PATCH", "DELETE"} /\ r.answer = "none"
        /\ IF r.id \notin DOMAIN server
           THEN Answered(r, "missing", NoId) /\ UNCHANGED server
           ELSE /\ Answered(r, "ok", NoId)
                /\ server' = IF r.kind = "PATCH"
                             THEN [server EXCEPT ![r.id].fields = r.fields]
                             ELSE Without(server, {r.id})
  BY DEF ServeChange
<1>2. /\ UNCHANGED <<vars, text, origin, saved, syncing, fresh, wanted, unwanted>>
      /\ UNCHANGED <<ops, held, writes>>
  BY DEF ServeChange, vars
<1>3. PICK h \in held : TRUE
  BY <1>1 DEF SInv, Synced, OnWire
<1>4. /\ r \in Requests /\ SentFor(r, h) /\ (\A s \in wire : s = r) /\ \A k \in held : k = h
      /\ h.ticket \in DOMAIN ops /\ ops[h.ticket] = h.op /\ syncing
      /\ h.ticket \in On(Event(h.op.target)) /\ r.id = h.op.target
      /\ \A f : Leaves(h.ticket, f) <=> h.op.base # NoBase /\ text[h.op.write][f] = h.op.base[f]
  BY HeldFacts, HeldSays DEF SInv, Synced, OnWire
<1>5. PICK s : /\ wire' = {s} /\ s.id = r.id /\ s.kind = r.kind /\ s.fields = r.fields
               /\ s.answer = IF r.id \in DOMAIN server THEN "ok" ELSE "missing"
  <2>1. Answered(r, IF r.id \in DOMAIN server THEN "ok" ELSE "missing", NoId)
    BY <1>1
  <2> QED BY <1>4, <2>1, AnsweredRequest
<1>6. \A id \in DOMAIN server : server[id] \in [client : Nat, fields : Contents]
  BY DEF SInv, Synced, Clients
<1>7. Past(s.fields, writes) /\ \A id \in DOMAIN server : Past(server[id].fields, writes)
  BY <1>5 DEF EInv, RowsPast
<1>8. \A id \in DOMAIN fresh \cap DOMAIN server : fresh[id] = server[id].fields
  BY <1>1, <1>4 DEF EInv, FreshSame
<1>9. /\ r.kind = "PATCH" => r.fields = Merged(h.op.base, fresh[r.id], text[h.op.write])
      /\ \A k : Merged(k.op.base, fresh[s.id], text[k.op.write])'
                  = Merged(k.op.base, fresh[s.id], text[k.op.write])
  <2>1. r.kind = "PATCH" => r.fields = Merged(h.op.base, fresh[r.id], text[h.op.write])
    BY DEF EInv, SentSays
  <2>2. \A k : Merged(k.op.base, fresh[s.id], text[k.op.write])'
                  = Merged(k.op.base, fresh[s.id], text[k.op.write])
    BY <1>2 DEF Merged
  <2> QED BY <2>1, <2>2
<1>10. CASE r.id \notin DOMAIN server
  <2>1. UNCHANGED server /\ s.answer = "missing"
    BY <1>1, <1>5, <1>10
  <2>2. LostAnswers => r.kind # "PATCH"
    BY <1>4, <1>10, FoundAlone DEF SentFor, Settings
  <2>3. FreshSame'
    BY <1>2, <1>8, <2>1 DEF EInv, FreshSame
  <2>4. SentSays'
    BY <1>1, <1>2, <1>4, <1>5, <1>9, <2>1 DEF SentSays
  <2>5. \A e, f : There(e, f) => Has(e, f)'
    BY <1>2, <2>1 DEF There, Has
  <2> QED BY <1>1, <1>2, <1>4, <1>5, <1>7, <2>1, <2>2, <2>3, <2>4, <2>5, ChangeEdits
<1>11. CASE r.id \in DOMAIN server /\ r.kind = "PATCH"
  <2>1. server' = [server EXCEPT ![r.id].fields = r.fields] /\ s.answer = "ok"
    BY <1>1, <1>5, <1>11
  <2>2. /\ DOMAIN server' = DOMAIN server
        /\ \A y \in DOMAIN server : server'[y].client = server[y].client
        /\ \A y \in DOMAIN server : y # r.id => server'[y].fields = server[y].fields
        /\ server'[r.id].fields = r.fields
    BY <1>6, <1>11, <2>1
  <2>3. FreshSame'
    BY <1>2, <1>5, <1>8, <1>11, <2>1, <2>2 DEF EInv, FreshSame
  <2>4. SentSays'
    BY <1>2, <1>4, <1>5, <1>9, <1>11, <2>1, <2>2 DEF SentSays
  <2>5. ASSUME NEW e, NEW f \in Fields, There(e, f) PROVE Has(e, f)'
    <3>1. PICK y \in DOMAIN server : origin[y] = e /\ server[y].fields[f] = wanted[e][f]
      BY <2>5 DEF There, Has
    <3>2. CASE y = r.id
      <4>1. e = Event(h.op.target)
        BY <1>4, <3>1, <3>2 DEF SInv, Synced, Clients, Event
      <4>2. Leaves(h.ticket, f)
        BY <1>4, <2>5, <4>1 DEF There
      <4>3. r.id \in DOMAIN fresh
        BY <1>11 DEF CInv, Asked
      <4>4. r.fields[f] = fresh[r.id][f]
        BY <1>4, <1>9, <1>11, <4>2 DEF Merged
      <4>5. server'[y].fields[f] = wanted[e][f]
        BY <1>8, <1>11, <2>2, <3>1, <3>2, <4>3, <4>4
      <4> QED BY <1>2, <1>4, <2>2, <3>1, <4>5 DEF Has
    <3>3. CASE y # r.id
      BY <1>2, <1>4, <2>2, <3>1, <3>3 DEF Has
    <3> QED BY <3>2, <3>3
  <2>6. \A y \in DOMAIN server' : Past(server'[y].fields, writes)
    BY <1>5, <1>7, <2>2
  <2> QED BY <1>1, <1>2, <1>4, <1>5, <1>7, <1>11, <2>1, <2>2, <2>3, <2>4, <2>5, <2>6, ChangeEdits
<1>12. CASE r.id \in DOMAIN server /\ r.kind = "DELETE"
  <2>1. server' = Without(server, {r.id})
    BY <1>1, <1>12
  <2>2. /\ DOMAIN server' = DOMAIN server \ {r.id}
        /\ \A y \in DOMAIN server' : server'[y] = server[y]
    BY <2>1 DEF Without
  <2>3. FreshSame'
    BY <1>2, <1>8, <2>2 DEF EInv, FreshSame
  <2>4. SentSays'
    BY <1>2, <1>4, <1>5, <1>12 DEF SentSays
  <2>5. Event(h.op.target) \in unwanted /\ origin[r.id] = Event(h.op.target)
    BY <1>4, <1>12 DEF SentFor, EInv, QueueSays, DeletesUnwanted, SInv, Synced, Clients, Event
  <2>6. ASSUME NEW e \in DOMAIN wanted \ unwanted, NEW f \in Fields, There(e, f) PROVE Has(e, f)'
    <3>1. PICK y \in DOMAIN server : origin[y] = e /\ server[y].fields[f] = wanted[e][f]
      BY <2>6 DEF There, Has
    <3>2. y # r.id
      BY <2>5, <3>1
    <3> QED BY <1>2, <1>4, <2>2, <3>1, <3>2 DEF Has
  <2> QED BY <1>1, <1>2, <1>4, <1>5, <1>7, <1>12, <2>2, <2>3, <2>4, <2>6, ChangeEdits
<1> QED BY <1>1, <1>10, <1>11, <1>12

-----------------------------------------------------------------------------
(* Another device.                                                         *)

\* It writes between syncs only, and never where events are created here.
LEMMA OtherSettings ==
  ASSUME Settings, SInv, WInv, CountOther, Racing \/ ~syncing
  PROVE  /\ MaxOthers # 0 /\ ~CanCreate /\ ~LostAnswers
         /\ ~syncing /\ held = {} /\ wire = {} /\ DOMAIN fresh = {}
<1>1. MaxOthers # 0
  BY DEF CountOther, SInv, Synced, Counted
<1>2. ~syncing /\ ~CanCreate /\ ~LostAnswers
  BY <1>1 DEF Settings
<1>3. held = {} /\ DOMAIN fresh = {}
  BY <1>2 DEF WInv, Idle
<1> QED BY <1>1, <1>2, <1>3, NothingSent

\* Between syncs, what it leaves alone.
LEMMA OtherEdits ==
  ASSUME Settings, SInv, WInv, CInv, EInv, CountOther, Racing \/ ~syncing,
         UNCHANGED <<vars, text, origin, saved, syncing, fresh, wire, unwanted>>,
         \A y \in DOMAIN server' :
           /\ y \in DOMAIN server /\ server'[y].client = server[y].client
           /\ Past(server'[y].fields, writes),
         DOMAIN wanted' = DOMAIN wanted, \A e \in DOMAIN wanted : Past(wanted'[e], writes)
  PROVE  RowsPast' /\ WritesPast' /\ QueueSays' /\ SavedKnown' /\ NoReplay' /\ FreshSame' /\ SentSays'
<1>1. UNCHANGED <<ops, held, writes, shown, remap, eventRemap>>
  BY DEF vars
<1>2. /\ MaxOthers # 0 /\ ~CanCreate /\ ~LostAnswers
      /\ ~syncing /\ held = {} /\ wire = {} /\ DOMAIN fresh = {}
  BY OtherSettings
<1>3. Resolved' = Resolved /\ \A n : Event(n)' = Event(n)
  BY <1>1, SameNames, SameEvents
<1>4. RowsPast' /\ WritesPast'
  BY <1>1 DEF EInv, RowsPast, WritesPast, Based
<1>5. QueueSays'
  BY <1>1, <1>3 DEF EInv, QueueSays, DeletesUnwanted, Alike, OneBaseEach, Baseless, BasedOnSaved, Based
<1>6. SavedKnown'
  BY <1>1, <1>3 DEF EInv, SavedKnown
<1>7. NoReplay'
  BY <1>1, <1>2 DEF EInv, NoReplay
<1>8. FreshSame' /\ SentSays'
  BY <1>1, <1>2 DEF EInv, FreshSame, SentSays
<1> QED BY <1>4, <1>5, <1>6, <1>7, <1>8

LEMMA UntouchedPast ==
  ASSUME NEW n \in Nat
  PROVE  Untouched \notin (n + 1)..MaxWrites
BY DEF Untouched

LEMMA OtherEditEdits ==
  ASSUME Settings, SInv, WInv, CInv, EInv, NEW id \in DOMAIN server, NEW g \in Fields, OtherEdit(id, g)
  PROVE  EInv'
<1> DEFINE e0 == Event(id)
           v  == MaxWrites + others + 1
<1>1. /\ CountOther /\ (Racing \/ ~syncing)
      /\ UNCHANGED <<vars, text, origin, saved, syncing, fresh, wire, unwanted>>
      /\ server' = [server EXCEPT ![id].fields[g] = v]
      /\ wanted' = [wanted EXCEPT ![e0][g] = IF Contends(id, g) THEN @ ELSE Untouched]
  BY DEF OtherEdit
<1>2. UNCHANGED <<ops, writes>>
  BY <1>1 DEF vars
<1>3. /\ \A y \in DOMAIN server : server[y] \in [client : Nat, fields : Contents]
      /\ e0 = origin[id] /\ e0 \in DOMAIN wanted
      /\ \A e \in DOMAIN wanted : wanted[e] \in [Fields -> Values \cup {Untouched}]
      /\ writes \in Nat /\ others \in Nat /\ MaxWrites \in Nat
  BY OutboxAssumption DEF SInv, IInv, TypeOK, Synced, Clients, Event, Origins, Wants, Counted
<1> HIDE DEF e0
<1>4. /\ DOMAIN server' = DOMAIN server
      /\ \A y \in DOMAIN server : server'[y].client = server[y].client
      /\ \A y \in DOMAIN server, f \in Fields :
           server'[y].fields[f] = IF y = id /\ f = g THEN v ELSE server[y].fields[f]
  BY <1>1, <1>3 DEF Contents
<1>5. /\ DOMAIN wanted' = DOMAIN wanted
      /\ \A e \in DOMAIN wanted, f \in Fields :
           wanted'[e][f] = IF e = e0 /\ f = g /\ ~Contends(id, g) THEN Untouched ELSE wanted[e][f]
  BY <1>1, <1>3
<1>6. /\ MaxOthers # 0 /\ ~syncing
  BY <1>1, OtherSettings
<1>7. RowsPast' /\ WritesPast' /\ QueueSays' /\ SavedKnown' /\ NoReplay' /\ FreshSame' /\ SentSays'
  <2>1. v \notin (writes + 1)..MaxWrites /\ Untouched \notin (writes + 1)..MaxWrites
    BY <1>3, UntouchedPast
  <2>2. \A y \in DOMAIN server' : Past(server'[y].fields, writes)
    BY <1>4, <2>1 DEF EInv, RowsPast, Past
  <2>3. \A e \in DOMAIN wanted : Past(wanted'[e], writes)
    BY <1>5, <2>1 DEF EInv, WritesPast, Past
  <2> HIDE DEF v
  <2> QED BY <1>1, <1>4, <1>5, <2>2, <2>3, OtherEdits
<1>8. Reaches'
  <2> SUFFICES ASSUME NEW e \in DOMAIN wanted \ unwanted, NEW f \in Fields, wanted'[e][f] # Untouched
               PROVE  (Ahead(e, f) \/ There(e, f) \/ ToRestore(e, f))'
    BY <1>1, <1>5 DEF Reaches
  <2>1. wanted'[e][f] = wanted[e][f] /\ (e = e0 /\ f = g => Contends(id, g))
    BY <1>5
  <2>2. On(e)' = On(e) /\ \A t : Says(t, f)' = Says(t, f) /\ Leaves(t, f)' = Leaves(t, f)
    BY <1>1, <1>2, SameSays
  <2>3. Ahead(e, f) \/ There(e, f) \/ ToRestore(e, f)
    BY <2>1 DEF EInv, Reaches
  <2>4. CASE Ahead(e, f)
    BY <2>1, <2>2, <2>4 DEF Ahead
  <2>5. CASE ~Ahead(e, f)
    <3>1. \A t \in On(e) : Leaves(t, f)
      BY <2>3, <2>5 DEF There, ToRestore
    <3>2. ~(e = e0 /\ f = g)
      <4>1. SUFFICES ASSUME e = e0, f = g PROVE FALSE
        OBVIOUS
      <4>2. PICK t \in WaitingOn(id) : ops[t].base # NoBase /\ text[ops[t].write][g] # ops[t].base[g]
        BY <2>1, <4>1 DEF Contends
      <4>3. t \in On(e) /\ ~Leaves(t, f)
        BY <4>1, <4>2 DEF WaitingOn, About, On, Leaves, Says, e0
      <4> QED BY <3>1, <4>3
    <3>3. CASE There(e, f)
      <4>1. PICK y \in DOMAIN server :
              /\ origin[y] = e /\ server[y].fields[f] = wanted[e][f]
              /\ y \in DOMAIN saved /\ saved[y][f] = wanted[e][f]
        BY <1>6, <3>3 DEF There, Has
      <4>2. server'[y].fields[f] = server[y].fields[f]
        BY <1>3, <1>4, <3>2, <4>1
      <4>3. Has(e, f)'
        BY <1>1, <1>4, <2>1, <4>1, <4>2 DEF Has
      <4> QED BY <2>2, <3>1, <4>3 DEF There
    <3>4. CASE ToRestore(e, f)
      <4>1. NoRow(e)'
        BY <1>1, <1>4, <3>4 DEF ToRestore, NoRow
      <4> QED BY <2>1, <2>2, <3>4, <4>1 DEF ToRestore
    <3> QED BY <2>3, <2>5, <3>3, <3>4
  <2> QED BY <2>4, <2>5
<1> QED BY <1>7, <1>8 DEF EInv

\* What waits on the row another device deletes.
LEMMA WaitsOn ==
  ASSUME SInv, CInv, NEW id, NEW t \in WaitingOn(id), NEW u \in On(Event(id))
  PROVE  ops[u].target = id
<1>1. ops[t].target \in InUse /\ ops[t].target = id /\ ops[u].target \in InUse /\ Event(ops[u].target) = Event(id)
  BY Members DEF WaitingOn, About, On
<1> QED BY <1>1 DEF CInv, NamesInv, OneName

LEMMA OtherDeleteEdits ==
  ASSUME Settings, SInv, WInv, CInv, EInv, NEW id \in DOMAIN server, OtherDelete(id)
  PROVE  EInv'
<1> DEFINE e0 == Event(id)
           edited == \E t \in WaitingOn(id) : ops[t].kind = "update"
<1>1. /\ CountOther /\ (Racing \/ ~syncing)
      /\ UNCHANGED <<vars, text, origin, saved, syncing, fresh, wire, unwanted>>
      /\ server' = Without(server, {id})
      /\ wanted' = IF edited THEN wanted ELSE [wanted EXCEPT ![e0] = [f \in Fields |-> Untouched]]
  BY DEF OtherDelete
<1>2. UNCHANGED <<ops, writes>>
  BY <1>1 DEF vars
<1>3. e0 = origin[id] /\ e0 \in DOMAIN wanted /\ writes \in Nat
  BY DEF SInv, IInv, TypeOK, Synced, Clients, Event, Origins
<1> HIDE DEF e0, edited
<1>4. DOMAIN server' = DOMAIN server \ {id} /\ \A y \in DOMAIN server' : server'[y] = server[y]
  BY <1>1 DEF Without
<1>5. /\ DOMAIN wanted' = DOMAIN wanted
      /\ \A e \in DOMAIN wanted : wanted'[e] = IF e = e0 /\ ~edited THEN [f \in Fields |-> Untouched]
                                               ELSE wanted[e]
  BY <1>1, <1>3
<1>6. /\ MaxOthers # 0 /\ ~syncing /\ wire = {}
  BY <1>1, OtherSettings
<1>7. RowsPast' /\ WritesPast' /\ QueueSays' /\ SavedKnown' /\ NoReplay' /\ FreshSame' /\ SentSays'
  <2>1. \A y \in DOMAIN server' : Past(server'[y].fields, writes)
    BY <1>4 DEF EInv, RowsPast
  <2>2. Past([f \in Fields |-> Untouched], writes)
    BY <1>3, UntouchedPast DEF Past
  <2>3. \A e \in DOMAIN wanted : Past(wanted'[e], writes)
    BY <1>5, <2>2 DEF EInv, WritesPast
  <2> QED BY <1>1, <1>4, <1>5, <2>1, <2>3, OtherEdits
<1>8. Reaches'
  <2> SUFFICES ASSUME NEW e \in DOMAIN wanted \ unwanted, NEW f \in Fields, wanted'[e][f] # Untouched
               PROVE  (Ahead(e, f) \/ There(e, f) \/ ToRestore(e, f))'
    BY <1>1, <1>5 DEF Reaches
  <2>1. wanted'[e][f] = wanted[e][f] /\ (e = e0 => edited)
    BY <1>5
  <2>2. On(e)' = On(e) /\ \A t : Says(t, f)' = Says(t, f) /\ Leaves(t, f)' = Leaves(t, f)
    BY <1>1, <1>2, SameSays
  <2>3. Ahead(e, f) \/ There(e, f) \/ ToRestore(e, f)
    BY <2>1 DEF EInv, Reaches
  <2>4. CASE Ahead(e, f)
    BY <2>1, <2>2, <2>4 DEF Ahead
  <2>5. CASE There(e, f)
    <3>1. PICK y \in DOMAIN server :
            /\ origin[y] = e /\ server[y].fields[f] = wanted[e][f]
            /\ y \in DOMAIN saved /\ saved[y][f] = wanted[e][f]
      BY <1>6, <2>5 DEF There, Has
    <3>2. CASE y # id
      <4>1. Has(e, f)'
        BY <1>1, <1>4, <2>1, <3>1, <3>2 DEF Has
      <4> QED BY <2>2, <2>5, <4>1 DEF There
    <3>3. CASE y = id
      <4>1. e = e0 /\ edited
        BY <1>3, <2>1, <3>1, <3>3
      <4>2. PICK t0 \in WaitingOn(id) : ops[t0].kind = "update"
        BY <4>1 DEF edited
      <4>3. t0 \in On(e)
        BY <4>1 DEF WaitingOn, About, On, e0
      <4>4. ASSUME NEW t \in On(e) PROVE Says(t, f) = wanted[e][f]
        <5>1. ops[t].target = id
          BY <4>1, <4>2, WaitsOn DEF e0
        <5>2. ops[t].kind # "delete"
          BY DEF EInv, QueueSays, DeletesUnwanted, On
        <5>3. Leaves(t, f)
          BY <2>5 DEF There
        <5>4. t \in Based
          BY <5>2, <5>3 DEF Based, Leaves, On
        <5>5. ops[t].base = saved[id]
          BY <1>6, <5>1, <5>4 DEF EInv, QueueSays, Alike, BasedOnSaved
        <5> QED BY <3>1, <3>3, <5>3, <5>5 DEF Leaves
      <4>5. NoRow(e)'
        <5>1. \A x \in DOMAIN server : origin[x] = e => x = id
          BY <3>1, <3>3 DEF CInv, RowsInv, OneCopy
        <5> QED BY <1>1, <1>4, <5>1 DEF NoRow
      <4> QED BY <2>1, <2>2, <2>5, <4>3, <4>4, <4>5 DEF There, ToRestore
    <3> QED BY <3>2, <3>3
  <2>6. CASE ToRestore(e, f)
    <3>1. NoRow(e)'
      BY <1>1, <1>4, <2>6 DEF ToRestore, NoRow
    <3> QED BY <2>1, <2>2, <2>6, <3>1 DEF ToRestore
  <2> QED BY <2>3, <2>4, <2>5, <2>6
<1> QED BY <1>7, <1>8 DEF EInv

-----------------------------------------------------------------------------
(* The answers.                                                            *)

\* The op held is done: what it said of its event, if it was the last to say it, the
\* server has.
LEMMA DoneEdits ==
  ASSUME SInv, WInv, CInv, EInv, NEW h \in held, NEW id, NEW givenUp, Complete(h, id, givenUp),
         wire' = {}, UNCHANGED <<text, server, origin, saved, syncing, wanted, unwanted>>,
         Rewrites(h, id) => id \in DOMAIN origin /\ origin[id] = Event(h.op.target) /\ id \notin DOMAIN saved,
         \A n \in Resolved' : \/ n \in Resolved \/ (Rewrites(h, id) /\ n = id)
                              \/ (givenUp /\ n = h.op.target),
         \A n \in DOMAIN fresh' : Past(fresh'[n], writes),
         FreshSame',
         Event(h.op.target) \notin unwanted => ~NoRow(Event(h.op.target)),
         \A f \in Fields :
           /\ Event(h.op.target) \notin unwanted
           /\ text[h.op.write][f] = wanted[Event(h.op.target)][f]
           /\ ~(h.op.base # NoBase /\ text[h.op.write][f] = h.op.base[f])
           => Has(Event(h.op.target), f)
  PROVE  EInv'
<1> DEFINE e0 == Event(h.op.target)
<1>1. /\ DOMAIN ops' = DOMAIN ops \ {h.ticket}
      /\ \A t \in DOMAIN ops' :
           /\ ops'[t].kind = ops[t].kind /\ ops'[t].base = ops[t].base
           /\ ops'[t].write = ops[t].write
           /\ ops'[t].target = IF Rewrites(h, id) /\ ops[t].target = h.op.target
                               THEN id ELSE ops[t].target
  BY CompleteQueue
<1>2. /\ UNCHANGED writes /\ held' = {}
      /\ givenUp => h.op.kind = "delete"
  BY DEF Complete
<1>3. /\ h.ticket \in DOMAIN ops /\ ops[h.ticket] = h.op /\ syncing
      /\ h.ticket \in On(e0) /\ \A t \in DOMAIN ops : t <= h.ticket => t = h.ticket
      /\ \A f : Says(h.ticket, f) = text[h.op.write][f]
      /\ \A f : Leaves(h.ticket, f) <=> h.op.base # NoBase /\ text[h.op.write][f] = h.op.base[f]
  BY HeldFacts, HeldSays
<1>4. \A n : Event(n)' = Event(n)
  BY SameEvents
<1>5. \A t \in DOMAIN ops' : Event(ops[t].target)' = Event(ops[t].target)
  <2>1. SUFFICES ASSUME NEW t \in DOMAIN ops' PROVE Event(ops[t].target)' = Event(ops[t].target)
    OBVIOUS
  <2>2. CASE Rewrites(h, id) /\ ops[t].target = h.op.target
    BY <1>1, <2>2 DEF Event
  <2>3. CASE ~(Rewrites(h, id) /\ ops[t].target = h.op.target)
    BY <1>1, <2>3 DEF Event
  <2> QED BY <2>2, <2>3
<1>6. /\ \A e : On(e)' = On(e) \ {h.ticket}
      /\ \A e : e # e0 => On(e)' = On(e)
      /\ \A t \in DOMAIN ops' : \A f : Says(t, f)' = Says(t, f) /\ Leaves(t, f)' = Leaves(t, f)
      /\ \A e : On(e)' \subseteq DOMAIN ops'
  <2>1. \A e : On(e)' = On(e) \ {h.ticket}
    BY <1>1, <1>5 DEF On
  <2>2. \A e : e # e0 => h.ticket \notin On(e)
    BY <1>3 DEF On
  <2>3. \A t \in DOMAIN ops' : \A f : Says(t, f)' = Says(t, f) /\ Leaves(t, f)' = Leaves(t, f)
    BY <1>1 DEF Says, Leaves
  <2> QED BY <2>1, <2>2, <2>3 DEF On
<1>7. Reaches'
  <2> SUFFICES ASSUME NEW e \in DOMAIN wanted \ unwanted, NEW f \in Fields, wanted[e][f] # Untouched
               PROVE  (Ahead(e, f) \/ There(e, f) \/ ToRestore(e, f))'
    BY DEF Reaches
  <2>1. Has(e, f)' <=> Has(e, f)
    BY DEF Has
  <2>2. CASE Ahead(e, f)
    <3>1. PICK t \in On(e) : /\ \A u \in On(e) : u <= t
                             /\ Says(t, f) = wanted[e][f] /\ ~Leaves(t, f)
      BY <2>2 DEF Ahead
    <3>2. CASE t = h.ticket
      <4>1. e = e0 /\ On(e) = {h.ticket}
        BY <1>3, <3>1, <3>2 DEF On
      <4>2. Has(e, f)
        BY <1>3, <3>1, <3>2, <4>1
      <4>3. On(e)' = {}
        BY <1>6, <4>1
      <4> QED BY <2>1, <4>2, <4>3 DEF There
    <3>3. CASE t # h.ticket
      <4>1. t \in On(e)' /\ t \in DOMAIN ops' /\ \A u \in On(e)' : u <= t
        BY <1>6, <3>1, <3>3
      <4>2. Says(t, f)' = wanted'[e][f] /\ ~Leaves(t, f)'
        BY <1>6, <3>1, <4>1
      <4> QED BY <4>1, <4>2 DEF Ahead
    <3> QED BY <3>2, <3>3
  <2>3. CASE There(e, f)
    <3>1. \A t \in On(e)' : Leaves(t, f)'
      BY <1>6, <2>3 DEF There
    <3> QED BY <2>1, <2>3, <3>1 DEF There
  <2>4. CASE ToRestore(e, f)
    <3>1. e # e0
      BY <2>4 DEF ToRestore
    <3>2. On(e)' = On(e) /\ \A t \in On(e) : Says(t, f)' = Says(t, f) /\ Leaves(t, f)' = Leaves(t, f)
      BY <1>6, <3>1
    <3>3. NoRow(e)'
      BY <2>4 DEF ToRestore, NoRow
    <3> QED BY <2>4, <3>2, <3>3 DEF ToRestore
  <2> QED BY <2>2, <2>3, <2>4 DEF EInv, Reaches
<1>8. RowsPast'
  BY <1>2 DEF EInv, RowsPast
<1>9. WritesPast'
  BY <1>1, <1>2 DEF EInv, WritesPast, Based
<1>10. DeletesUnwanted' /\ OneBaseEach'
  BY <1>1, <1>5 DEF EInv, QueueSays, DeletesUnwanted, Alike, OneBaseEach
<1>11. Baseless'
  <2> SUFFICES ASSUME NEW t \in DOMAIN ops', ops[t].kind # "delete", ops[t].base = NoBase,
                      ops'[t].target \in Resolved'
               PROVE  ops'[t].target \notin DOMAIN saved
    BY <1>1, <1>3 DEF Baseless
  <2>1. CASE Rewrites(h, id) /\ ops'[t].target = id
    BY <2>1
  <2>2. CASE ~(Rewrites(h, id) /\ ops'[t].target = id)
    <3>1. ops'[t].target = ops[t].target
      BY <1>1, <2>2
    <3>2. CASE ops[t].target \in Resolved
      BY <1>1, <3>1, <3>2 DEF EInv, QueueSays, Alike, Baseless
    <3>3. CASE givenUp /\ ops[t].target = h.op.target
      BY <1>1, <1>2, <1>3, <3>3 DEF CInv, NamesInv, DeletionsLast
    <3> QED BY <2>2, <3>1, <3>2, <3>3
  <2> QED BY <2>1, <2>2
<1>12. BasedOnSaved' /\ SavedKnown'
  BY <1>3 DEF BasedOnSaved, EInv, SavedKnown
<1>13. NoReplay'
  <2>1. \A y \in DOMAIN server : server[y].client \notin DOMAIN ops'
    BY <1>1, MadeByHeld
  <2> QED BY <2>1 DEF NoReplay
<1>14. SentSays'
  BY DEF SentSays
<1> QED BY <1>7, <1>8, <1>9, <1>10, <1>11, <1>12, <1>13, <1>14 DEF EInv, QueueSays, Alike

LEMMA SettleDeletionEdits ==
  ASSUME SInv, WInv, CInv, EInv, SettleDeletion
  PROVE  EInv'
<1>1. /\ wire = {} /\ UNCHANGED <<text, server, origin, saved, syncing, fresh, wire, wanted, unwanted>>
  BY DEF SettleDeletion, syncVars
<1>2. PICK h \in held, givenUp \in BOOLEAN : h.op.kind = "delete" /\ Complete(h, NoId, givenUp)
  BY DEF SettleDeletion
<1>3. ~Rewrites(h, NoId) /\ UNCHANGED writes
  BY <1>2 DEF Rewrites, Complete
<1>4. \A n \in Resolved' : n \in Resolved \/ (givenUp /\ n = h.op.target)
  BY <1>1, <1>2, DoneNames
<1>5. Event(h.op.target) \in unwanted
  BY <1>2, HeldFacts DEF EInv, QueueSays, DeletesUnwanted
<1>6. FreshSame' /\ \A n \in DOMAIN fresh' : Past(fresh'[n], writes)
  BY <1>1 DEF EInv, FreshSame, RowsPast
<1> QED BY <1>1, <1>2, <1>3, <1>4, <1>5, <1>6, DoneEdits

LEMMA TakeAnswerEdits ==
  ASSUME Settings, SInv, WInv, CInv, EInv, TakeAnswer
  PROVE  EInv'
<1>1. PICK r \in wire, h \in held :
        /\ r.answer = "ok" \/ (r.answer = "missing" /\ r.kind = "DELETE")
        /\ Complete(h, r.row, FALSE)
        /\ fresh' = CASE r.kind = "POST"   -> Extended(fresh, r.row, r.fields)
                      [] r.kind = "PATCH"  -> Extended(fresh, r.id, r.fields)
                      [] r.kind = "DELETE" -> Without(fresh, {r.id})
  BY DEF TakeAnswer
<1>2. wire' = {} /\ UNCHANGED <<text, server, origin, saved, syncing, wanted, unwanted>>
  BY DEF TakeAnswer
<1>3. /\ SentFor(r, h) /\ r.id = h.op.target /\ (\A s \in wire : s = r) /\ syncing
      /\ r.kind \in {"POST", "PATCH", "DELETE"}
      /\ h.ticket \in DOMAIN ops /\ ops[h.ticket] = h.op
  BY HeldSays, HeldFacts DEF SInv, Synced, OnWire, Requests
<1>4. Past(r.fields, writes)
  BY DEF EInv, RowsPast
<1> DEFINE e0 == Event(h.op.target)
<1>5. CASE r.kind = "DELETE"
  <2>1. fresh' = Without(fresh, {r.id}) /\ r.row = NoId
    BY <1>1, <1>3, <1>5 DEF SentFor
  <2>2. DOMAIN fresh' \subseteq DOMAIN fresh /\ \A n \in DOMAIN fresh' : fresh'[n] = fresh[n]
    BY <2>1 DEF Without
  <2>3. FreshSame' /\ \A n \in DOMAIN fresh' : Past(fresh'[n], writes)
    BY <1>2, <1>3, <1>5, <2>2 DEF EInv, FreshSame, RowsPast
  <2>4. e0 \in unwanted
    BY <1>3, <1>5 DEF SentFor, EInv, QueueSays, DeletesUnwanted
  <2>5. Complete(h, NoId, FALSE) /\ ~Rewrites(h, NoId)
    BY <1>1, <2>1 DEF Rewrites
  <2>6. \A n \in Resolved' : n \in Resolved
    BY <1>2, <2>5, DoneNames
  <2> QED BY <1>2, <2>3, <2>4, <2>5, <2>6, DoneEdits
<1>6. CASE r.kind = "PATCH"
  <2>1. fresh' = Extended(fresh, r.id, r.fields) /\ r.row = NoId /\ r.answer = "ok"
    BY <1>1, <1>3, <1>6 DEF SentFor
  <2>2. DOMAIN fresh' = DOMAIN fresh \cup {r.id}
        /\ \A n \in DOMAIN fresh' : fresh'[n] = IF n = r.id THEN r.fields ELSE fresh[n]
    BY <2>1 DEF Extended
  <2>3. /\ r.id \in DOMAIN server /\ server[r.id].fields = r.fields
        /\ r.fields = Merged(h.op.base, fresh[r.id], text[h.op.write])
    BY <1>6, <2>1 DEF EInv, SentSays
  <2>4. r.id \in DOMAIN origin /\ origin[r.id] = e0
    BY <1>3, <2>3 DEF SInv, Synced, Clients, Event
  <2>5. FreshSame' /\ \A n \in DOMAIN fresh' : Past(fresh'[n], writes)
    <3>1. DOMAIN fresh' \subseteq DOMAIN origin'
      BY <1>2, <2>2, <2>4 DEF EInv, FreshSame
    <3>2. \A n \in DOMAIN fresh' \cap DOMAIN server : fresh'[n] = server[n].fields
      BY <1>3, <2>2, <2>3 DEF EInv, FreshSame
    <3>3. \A n \in DOMAIN fresh' : Past(fresh'[n], writes)
      BY <1>4, <2>2 DEF EInv, RowsPast
    <3> QED BY <1>2, <3>1, <3>2, <3>3 DEF FreshSame
  <2>6. ~NoRow(e0)
    BY <2>3, <2>4 DEF NoRow
  <2>7. ASSUME NEW f \in Fields, text[h.op.write][f] = wanted[e0][f],
               ~(h.op.base # NoBase /\ text[h.op.write][f] = h.op.base[f])
        PROVE  Has(e0, f)
    <3>1. r.fields[f] = text[h.op.write][f]
      BY <2>3, <2>7 DEF Merged
    <3> QED BY <1>3, <2>3, <2>4, <2>7, <3>1 DEF Has
  <2>8. Complete(h, NoId, FALSE) /\ ~Rewrites(h, NoId)
    BY <1>1, <2>1 DEF Rewrites
  <2>9. \A n \in Resolved' : n \in Resolved
    BY <1>2, <2>8, DoneNames
  <2> QED BY <1>2, <2>5, <2>6, <2>7, <2>8, <2>9, DoneEdits
<1>7. CASE r.kind = "POST"
  <2> DEFINE R == r.row
  <2>1. fresh' = Extended(fresh, R, r.fields) /\ r.answer = "ok" /\ h.op.kind # "delete"
    BY <1>1, <1>3, <1>7 DEF SentFor
  <2>2. /\ R \in DOMAIN server /\ server[R].fields = r.fields /\ R \notin DOMAIN saved
        /\ r.fields = text[h.op.write]
    BY <1>7, <2>1 DEF EInv, SentSays
  <2>3. /\ h.op.target \notin DOMAIN server /\ origin[R] = e0 /\ R # h.op.target /\ R \notin DOMAIN eventRemap
    BY <1>3, <1>7, <2>1 DEF CInv, Asked
  <2>4. R \in DOMAIN origin /\ R # NoId
    BY <1>3, <1>7, <2>1 DEF SentFor
  <2>5. Complete(h, R, FALSE)
    BY <1>1
  <2> HIDE DEF R
  <2>6. DOMAIN fresh' = DOMAIN fresh \cup {R}
        /\ \A n \in DOMAIN fresh' : fresh'[n] = IF n = R THEN r.fields ELSE fresh[n]
    BY <2>1 DEF Extended
  <2>7. FreshSame' /\ \A n \in DOMAIN fresh' : Past(fresh'[n], writes)
    <3>1. DOMAIN fresh' \subseteq DOMAIN origin'
      BY <1>2, <2>4, <2>6 DEF EInv, FreshSame
    <3>2. \A n \in DOMAIN fresh' \cap DOMAIN server : fresh'[n] = server[n].fields
      BY <1>3, <1>7, <2>2, <2>6 DEF EInv, FreshSame
    <3>3. \A n \in DOMAIN fresh' : Past(fresh'[n], writes)
      BY <1>4, <2>6 DEF EInv, RowsPast
    <3> QED BY <1>2, <3>1, <3>2, <3>3 DEF FreshSame
  <2>8. ~NoRow(e0)
    BY <2>2, <2>3 DEF NoRow
  <2>9. \A f \in Fields : text[h.op.write][f] = wanted[e0][f] => Has(e0, f)
    BY <1>3, <2>2, <2>3 DEF Has
  <2>10. \A n \in Resolved' : n = R \/ n \in Resolved
    BY <1>2, <2>1, <2>3, <2>4, <2>5, SettingsGive, RenamedNames
  <2>11. Rewrites(h, R)
    BY <2>3, <2>4 DEF Rewrites
  <2> QED BY <1>2, <2>2, <2>3, <2>4, <2>5, <2>7, <2>8, <2>9, <2>10, <2>11, DoneEdits
<1> QED BY <1>3, <1>5, <1>6, <1>7

-----------------------------------------------------------------------------
(* The user.                                                               *)

\* A write leaves the rows and the sync alone.
LEMMA WriteEdits ==
  ASSUME SInv, WInv, EInv, writes' = writes + 1, NEW c, Carries(c), Past(c, writes + 1),
         UNCHANGED <<server, origin, saved, syncing, fresh, wire, held>>,
         \A t \in DOMAIN ops' : t \in DOMAIN ops \/ t = writes + 1
  PROVE  /\ RowsPast' /\ NoReplay' /\ FreshSame' /\ SentSays'
         /\ text'[writes + 1] = c /\ \A w \in 1..writes : text'[w] = text[w]
         /\ \A w \in DOMAIN text' : Past(text'[w], writes + 1)
         /\ \A k : Past(k, writes) => Past(k, writes + 1)
         /\ writes \in Nat /\ \A t \in DOMAIN ops : t \in 1..writes /\ ops[t].write \in 1..writes
<1>1. /\ writes \in Nat /\ DOMAIN ops \subseteq 1..writes /\ DOMAIN text = 1..writes
      /\ \A t \in DOMAIN ops : ops[t].write \in 1..writes
      /\ \A h \in held : h.op.write \in 1..writes
  BY DEF SInv, IInv, TypeOK, Queue, Outboxed, Queued, Taken, EventOp, Synced, Texts
<1>2. \A k : Past(k, writes) => Past(k, writes + 1)
  BY <1>1 DEF Past
<1>3. text'[writes + 1] = c /\ DOMAIN text' = 1..(writes + 1) /\ \A w \in 1..writes : text'[w] = text[w]
  BY <1>1 DEF Carries, Extended
<1>4. \A w \in DOMAIN text' : Past(text'[w], writes + 1)
  BY <1>1, <1>2, <1>3 DEF EInv, WritesPast
<1>5. RowsPast'
  BY <1>2 DEF EInv, RowsPast
<1>6. NoReplay'
  <2>1. \A y \in DOMAIN server : server[y].client # writes + 1
    BY <1>1 DEF WInv, Ages, SInv, Synced, Clients
  <2> QED BY <2>1 DEF EInv, NoReplay
<1>7. FreshSame'
  BY DEF EInv, FreshSame
<1>8. SentSays'
  <2>1. \A r \in wire, h \in held :
          Merged(h.op.base, fresh'[r.id], text'[h.op.write]) = Merged(h.op.base, fresh[r.id], text[h.op.write])
    BY <1>1, <1>3
  <2>2. \A r \in wire, h \in held : text'[h.op.write] = text[h.op.write]
    BY <1>1, <1>3
  <2> QED BY <2>1, <2>2 DEF EInv, SentSays, Merged
<1> QED BY <1>1, <1>2, <1>3, <1>4, <1>5, <1>6, <1>7, <1>8

LEMMA CreateEventEdits ==
  ASSUME Settings, SInv, WInv, CInv, EInv, CreateEvent
  PROVE  EInv'
<1> DEFINE n == nextTempId
           c == [f \in Fields |-> writes + 1]
<1>1. CanCreate /\ ~LostAnswers /\ MaxOthers = 0
  BY SettingsGive DEF CreateEvent
<1>2. /\ UNCHANGED <<server, origin, saved, syncing, fresh, wire, held, unwanted>>
      /\ Carries(c) /\ wanted' = Extended(wanted, n, c) /\ writes' = writes + 1
      /\ Create("event", NoRefs)
  BY <1>1 DEF CreateEvent, Create, CountWrite
<1>3. /\ writes + 1 \notin DOMAIN ops
      /\ \A t \in DOMAIN ops : t <= writes /\ t <= writes + 1
      /\ DOMAIN ops' = DOMAIN ops \cup {writes + 1}
      /\ \A t \in DOMAIN ops : ops'[t] = ops[t]
      /\ ops'[writes + 1].kind = "create" /\ ops'[writes + 1].target = n
      /\ Resolved' = Resolved \cup {n}
  BY CreatedNames
<1>4. ops'[writes + 1].base = NoBase /\ ops'[writes + 1].write = writes + 1
  <2>1. NoRefs \in Bodies("event")
    BY DEF NoRefs, Bodies
  <2>2. AddsOne(ops, ops', writes + 1, "event", n, NoBase)
    BY <1>2, <2>1, CreateAdds DEF AllEntities, SInv
  <2> QED BY <1>3, <2>2 DEF AddsOne
<1>5. /\ n \notin DOMAIN origin /\ n \notin DOMAIN server /\ n \notin DOMAIN saved /\ n \notin InUse
      /\ \A m \in InUse : Event(m) # n
  BY NextIsNew
<1>6. (\A m : Event(m)' = Event(m)) /\ Event(n) = n
  BY <1>2, <1>5, SameEvents DEF Event
<1>7. /\ DOMAIN wanted' = DOMAIN wanted \cup {n} /\ wanted'[n] = c
      /\ \A e \in DOMAIN wanted : e # n => wanted'[e] = wanted[e]
  BY <1>2 DEF Extended
<1>8. writes \in Nat
  BY DEF SInv, IInv, TypeOK
<1>9. Past(c, writes + 1)
  BY <1>8 DEF Past
<1> HIDE DEF c, n
<1>10. /\ RowsPast' /\ NoReplay' /\ FreshSame' /\ SentSays'
       /\ text'[writes + 1] = c /\ \A w \in 1..writes : text'[w] = text[w]
       /\ \A w \in DOMAIN text' : Past(text'[w], writes + 1)
       /\ \A k : Past(k, writes) => Past(k, writes + 1)
       /\ \A t \in DOMAIN ops : t \in 1..writes /\ ops[t].write \in 1..writes
  BY <1>2, <1>3, <1>9, WriteEdits
<1>11. \A e : e # n => On(e)' = On(e)
  BY <1>3, <1>6 DEF On
<1>12. \A t \in DOMAIN ops : \A f : Says(t, f)' = Says(t, f) /\ Leaves(t, f)' = Leaves(t, f)
  BY <1>3, <1>10 DEF Says, Leaves
<1>13. Reaches'
  <2> SUFFICES ASSUME NEW e \in DOMAIN wanted' \ unwanted, NEW f \in Fields, wanted'[e][f] # Untouched
               PROVE  (Ahead(e, f) \/ There(e, f) \/ ToRestore(e, f))'
    BY <1>2 DEF Reaches
  <2>1. CASE e = n
    <3>1. PICK k : k = writes + 1
      OBVIOUS
    <3>2. k \in On(e)' /\ \A u \in On(e)' : u <= k
      BY <1>3, <1>6, <1>8, <2>1, <3>1 DEF On
    <3>3. Says(k, f)' = wanted'[e][f] /\ ~Leaves(k, f)'
      BY <1>4, <1>7, <1>10, <2>1, <3>1 DEF Says, Leaves
    <3> QED BY <3>2, <3>3 DEF Ahead
  <2>2. CASE e # n
    <3>1. e \in DOMAIN wanted \ unwanted /\ wanted'[e] = wanted[e] /\ On(e)' = On(e)
      BY <1>7, <1>11, <2>2
    <3>2. \A t \in On(e) : Says(t, f)' = Says(t, f) /\ Leaves(t, f)' = Leaves(t, f)
      BY <1>12 DEF On
    <3>3. (Has(e, f) => Has(e, f)') /\ (NoRow(e) => NoRow(e)')
      BY <1>2, <3>1 DEF Has, NoRow
    <3>4. Ahead(e, f) \/ There(e, f) \/ ToRestore(e, f)
      BY <3>1 DEF EInv, Reaches
    <3>5. CASE Ahead(e, f)
      BY <3>1, <3>2, <3>5 DEF Ahead
    <3>6. CASE There(e, f)
      BY <3>1, <3>2, <3>3, <3>6 DEF There
    <3>7. CASE ToRestore(e, f)
      BY <3>1, <3>2, <3>3, <3>7 DEF ToRestore
    <3> QED BY <3>4, <3>5, <3>6, <3>7
  <2> QED BY <2>1, <2>2
<1>14. WritesPast'
  <2>1. \A e \in DOMAIN wanted' : Past(wanted'[e], writes + 1)
    BY <1>7, <1>9, <1>10 DEF EInv, WritesPast
  <2>2. \A t \in Based' : Past(ops'[t].base, writes + 1)
    BY <1>3, <1>4, <1>10 DEF EInv, WritesPast, Based
  <2> QED BY <1>2, <1>10, <2>1, <2>2 DEF WritesPast
<1>15. DeletesUnwanted'
  BY <1>2, <1>3, <1>6 DEF EInv, QueueSays, DeletesUnwanted
<1>16. OneBaseEach'
  BY <1>3, <1>5, <1>6, Members DEF EInv, QueueSays, Alike, OneBaseEach
<1>17. Baseless' /\ BasedOnSaved'
  BY <1>1, <1>2, <1>3, <1>5, Members DEF EInv, QueueSays, Alike, Baseless, BasedOnSaved
<1>18. SavedKnown'
  BY <1>1, <1>2, <1>3, <1>5 DEF EInv, SavedKnown
<1> QED BY <1>10, <1>13, <1>14, <1>15, <1>16, <1>17, <1>18 DEF EInv, QueueSays, Alike

\* The base an edit gets is that of the edits of the event before it, or the saved copy's.
LEMMA EditBase ==
  ASSUME SInv, WInv, CInv, EInv, NEW x \in Resolved
  PROVE  LET given == EarliestBase("event", x, ServerCopy(x))
         IN  /\ \A t \in DOMAIN ops : ops[t].target = x => ops[t].kind # "delete" /\ ops[t].base = given
             /\ given # NoBase => \/ x \in DOMAIN saved /\ given = saved[x]
                                  \/ \E t \in Based : ops[t].target = x /\ ops[t].base = given
             /\ WaitingOn(x) = {} => given = ServerCopy(x)
             /\ given = NoBase => x \notin DOMAIN saved
             /\ given # NoBase => Past(given, writes)
<1> DEFINE based == {t \in DOMAIN ops : About(ops[t], "event", x) /\ ops[t].base # NoBase}
           given == EarliestBase("event", x, ServerCopy(x))
<1>1. \A t \in DOMAIN ops : ops[t].target = x => ops[t].kind # "delete"
  BY DEF CInv, NamesInv, DeletionsLast
<1>2. \A t \in DOMAIN ops : ops[t].entity = "event"
  BY DEF SInv, Outboxed, Queued, EventOp
<1>3. \A t, u \in DOMAIN ops : ops[t].target = x /\ ops[u].target = x => ops[t].base = ops[u].base
  BY <1>1 DEF EInv, QueueSays, Alike, OneBaseEach
<1>4. /\ x \in DOMAIN saved => ServerCopy(x) = saved[x] /\ saved[x] # NoBase /\ Past(saved[x], writes)
      /\ x \notin DOMAIN saved => ServerCopy(x) = NoBase
  BY OutboxAssumption, EventSyncAssumption DEF ServerCopy, SInv, Synced, Copies, EInv, RowsPast
<1>5. CASE based = {}
  <2>1. given = ServerCopy(x)
    BY <1>5 DEF EarliestBase
  <2>2. \A t \in DOMAIN ops : ops[t].target = x => ops[t].base = NoBase
    BY <1>2, <1>5 DEF About
  <2>3. \A t \in DOMAIN ops : ops[t].target = x => x \notin DOMAIN saved
    BY <1>1, <2>2 DEF EInv, QueueSays, Alike, Baseless
  <2> HIDE DEF given
  <2>4. \A t \in DOMAIN ops : ops[t].target = x => ops[t].base = given
    BY <1>4, <2>1, <2>2, <2>3
  <2> QED BY <1>1, <1>4, <2>1, <2>4 DEF given
<1>6. CASE based # {}
  <2> DEFINE first == CHOOSE t \in based : \A u \in based : t <= u
  <2>1. first \in based
    <3>1. based \subseteq Nat
      BY DEF SInv, IInv, TypeOK
    <3> HIDE DEF based
    <3>2. \E t \in based : \A u \in based : t <= u
      BY <1>6, <3>1, SmallestTicket
    <3> QED BY <3>2
  <2>2. given = ops[first].base
    BY <1>6 DEF EarliestBase
  <2> HIDE DEF first, given
  <2>3. first \in DOMAIN ops /\ ops[first].target = x /\ ops[first].base # NoBase
        /\ first \in WaitingOn(x)
    BY <2>1 DEF About, WaitingOn
  <2>4. first \in Based
    BY <1>1, <2>3 DEF Based
  <2>5. Past(given, writes)
    BY <2>2, <2>4 DEF EInv, WritesPast
  <2>6. \A t \in DOMAIN ops : ops[t].target = x => ops[t].base = given
    BY <1>3, <2>2, <2>3
  <2> QED BY <1>1, <2>2, <2>3, <2>4, <2>5, <2>6 DEF given
<1> QED BY <1>5, <1>6

\* What waits on an event is what its name in use is about.
LEMMA OnName ==
  ASSUME SInv, CInv, NEW x \in InUse
  PROVE  /\ On(Event(x)) = WaitingOn(x)
         /\ WaitingOn(x) = {t \in DOMAIN ops : ops[t].target = x}
<1>1. \A t \in DOMAIN ops : ops[t].entity = "event" /\ ops[t].target \in InUse
  BY Members DEF SInv, Outboxed, Queued, EventOp
<1>2. \A t \in DOMAIN ops : Event(ops[t].target) = Event(x) => ops[t].target = x
  BY <1>1 DEF CInv, NamesInv, OneName
<1> QED BY <1>1, <1>2 DEF On, WaitingOn, About

\* What a screen shows: the last change waiting, the saved copy, or what was just sent.
LEMMA ScreenSays ==
  ASSUME SInv, NEW x
  PROVE  /\ WaitingOn(x) # {} =>
              \E t \in WaitingOn(x) : /\ \A u \in WaitingOn(x) : u <= t
                                      /\ Screen(x) = text[ops[t].write]
         /\ WaitingOn(x) = {} /\ x \in DOMAIN saved => Screen(x) = saved[x]
         /\ WaitingOn(x) = {} /\ x \notin DOMAIN saved =>
              \A f \in Fields : wanted[Event(x)][f] # Untouched => Screen(x)[f] = wanted[Event(x)][f]
<1> DEFINE S == WaitingOn(x)
           t == CHOOSE t \in S : \A u \in S : u <= t
<1>1. ASSUME S # {} PROVE t \in S /\ \A u \in S : u <= t
  <2>1. writes \in Nat /\ S \in SUBSET (1..writes)
    BY DEF SInv, IInv, TypeOK, Queue, WaitingOn
  <2> HIDE DEF S
  <2>2. \E v \in S : \A u \in S : u <= v
    BY <1>1, <2>1, GreatestTicket
  <2> QED BY <2>2
<1>2. S # {} => Screen(x) = text[ops[t].write]
  BY DEF Screen
<1>3. S = {} => Screen(x) = IF x \in DOMAIN saved THEN saved[x]
                            ELSE [f \in Fields |-> IF wanted[Event(x)][f] = Untouched THEN First
                                                   ELSE wanted[Event(x)][f]]
  BY DEF Screen
<1> HIDE DEF t, S
<1>4. S # {} => \E v \in S : (\A u \in S : u <= v) /\ Screen(x) = text[ops[v].write]
  BY <1>1, <1>2
<1>5. S = {} /\ x \notin DOMAIN saved =>
        \A f \in Fields : wanted[Event(x)][f] # Untouched => Screen(x)[f] = wanted[Event(x)][f]
  BY <1>3
<1> QED BY <1>3, <1>4, <1>5 DEF S

LEMMA UpdateEventEdits ==
  ASSUME Settings, SInv, WInv, CInv, EInv, WritesInOrder',
         NEW id \in ScreenIds("event"), UpdateEvent(id)
  PROVE  EInv'
<1> DEFINE x == ResolveEvent(id)
           given == EarliestBase("event", x, ServerCopy(x))
<1>1. PICK n : n = writes + 1
  OBVIOUS
<1>2. PICK changed \in (SUBSET Fields) \ {{}} :
        /\ Update("event", id, NoRefs, ServerCopy(x))
        /\ Carries([f \in Fields |-> IF f \in changed THEN n ELSE Screen(x)[f]])
        /\ wanted' = [wanted EXCEPT ![Event(x)] =
                        [f \in Fields |-> IF f \in changed THEN n
                                          ELSE IF Event(x) \in unwanted THEN Untouched
                                          ELSE @[f]]]
  <2>1. FormOf(id) = {Screen(x)}
    BY DEF FormOf, Settings, SInv, Forms
  <2> QED BY <1>1, <2>1 DEF UpdateEvent, Settings
<1>3. /\ UNCHANGED <<server, origin, saved, syncing, fresh, wire, held, shown, remap, eventRemap>>
      /\ unwanted' = unwanted \ {Event(x)} /\ writes' = n /\ n <= MaxWrites /\ writes \in Nat
      /\ MaxWrites \in Nat
  BY <1>1, <1>2, OutboxAssumption DEF UpdateEvent, Update, CountWrite, SInv, IInv, TypeOK
<1>4. x \in Resolved /\ x \in InUse /\ x \in Ids
  <2>1. x \in Resolved /\ x \in InUse
    BY DEF Resolved, InUse
  <2> QED BY <2>1, InUseAge
<1> DEFINE e0 == Event(x)
<1>5. e0 \in DOMAIN wanted
  BY <1>4 DEF Ids
<1>6. PICK t \in DOMAIN ops' :
        /\ t \in DOMAIN ops \/ t = n
        /\ DOMAIN ops' = DOMAIN ops \cup {t}
        /\ \A u \in DOMAIN ops : u # t => ops'[u] = ops[u]
        /\ ops'[t].target = x /\ ops'[t].write = n /\ IsWaiting(ops'[t])
        /\ IF t \in DOMAIN ops
           THEN ops[t].target = x /\ ops'[t].base = ops[t].base /\ ops'[t].kind = ops[t].kind
           ELSE ops'[t].kind = "update" /\ ops'[t].base = given
  BY <1>1, <1>2, UpdateQueue DEF WInv
<1>7. /\ \A u \in DOMAIN ops : ops[u].target = x => ops[u].kind # "delete" /\ ops[u].base = given
      /\ given # NoBase => \/ x \in DOMAIN saved /\ given = saved[x]
                           \/ \E u \in Based : ops[u].target = x /\ ops[u].base = given
      /\ WaitingOn(x) = {} => given = ServerCopy(x)
      /\ given = NoBase => x \notin DOMAIN saved
      /\ given # NoBase => Past(given, writes)
  BY <1>4, EditBase
<1>8. PICK b : b = given
  OBVIOUS
<1>9. PICK c : c = [f \in Fields |-> IF f \in changed THEN n ELSE Screen(x)[f]]
  OBVIOUS
<1>10. ops'[t].base = b /\ ops'[t].kind # "delete"
  BY <1>6, <1>7, <1>8
<1>11. PICK e1 : e1 = e0
  OBVIOUS
<1>12. PICK z : z = x
  OBVIOUS
<1> HIDE DEF x, given, e0
<1>13. /\ WaitingOn(z) = On(e1) /\ On(e1) = {u \in DOMAIN ops : ops[u].target = z}
       /\ e1 = Event(z) /\ z \in Resolved /\ z \in InUse
  BY <1>4, <1>11, <1>12, OnName DEF e0
<1>14. Screen(z) \in Contents /\ Past(Screen(z), writes)
  <2>1. Screen(z) \in Contents
    BY <1>4, <1>12, ScreenIsContent
  <2>2. CASE WaitingOn(z) # {}
    <3>1. PICK u \in WaitingOn(z) : Screen(z) = text[ops[u].write]
      BY <2>2, ScreenSays
    <3>2. ops[u].write \in DOMAIN text
      BY <3>1 DEF WaitingOn, SInv, Outboxed, Queued, EventOp, Synced, Texts
    <3> QED BY <2>1, <3>1, <3>2 DEF EInv, WritesPast
  <2>3. CASE WaitingOn(z) = {} /\ z \in DOMAIN saved
    BY <2>1, <2>3, ScreenSays DEF EInv, RowsPast
  <2>4. CASE WaitingOn(z) = {} /\ z \notin DOMAIN saved
    <3>1. Screen(z) = [f \in Fields |-> IF wanted[Event(z)][f] = Untouched THEN First
                                        ELSE wanted[Event(z)][f]]
      BY <2>4 DEF Screen
    <3>2. Past(wanted[Event(z)], writes)
      BY <1>5, <1>11, <1>13 DEF EInv, WritesPast, e0
    <3> QED BY <1>3, <2>1, <3>1, <3>2 DEF Past, First
  <2> QED BY <2>1, <2>2, <2>3, <2>4
<1>15. Past(c, n)
  BY <1>1, <1>3, <1>9, <1>12, <1>14 DEF Past
<1>16. /\ RowsPast' /\ NoReplay' /\ FreshSame' /\ SentSays'
       /\ text'[n] = c /\ \A w \in 1..writes : text'[w] = text[w]
       /\ \A w \in DOMAIN text' : Past(text'[w], n)
       /\ \A k : Past(k, writes) => Past(k, n)
       /\ \A u \in DOMAIN ops : u \in 1..writes /\ ops[u].write \in 1..writes
  <2>1. Carries(c) /\ \A u \in DOMAIN ops' : u \in DOMAIN ops \/ u = writes + 1
    BY <1>1, <1>2, <1>6, <1>9
  <2> QED BY <1>1, <1>3, <1>15, <2>1, WriteEdits
<1>17. Resolved' = Resolved /\ \A m : Event(m)' = Event(m)
  BY <1>3, SameEvents DEF Resolved, ScreenIds, ResolveEvent, Resolve
<1>18. /\ On(e1)' = On(e1) \cup {t}
       /\ \A e : e # e1 => On(e)' = On(e) /\ t \notin On(e)
  <2>1. Event(ops[t].target)' = e1
    BY <1>6, <1>12, <1>13, <1>17
  <2>2. \A u \in DOMAIN ops : u # t => Event(ops[u].target)' = Event(ops[u].target)
    BY <1>6, <1>17
  <2>3. t \in DOMAIN ops => Event(ops[t].target) = e1
    BY <1>6, <1>12, <1>13
  <2> QED BY <1>6, <2>1, <2>2, <2>3 DEF On
<1>19. \A u \in On(e1)' : u <= t
  <2> SUFFICES ASSUME NEW u \in On(e1), u # t, t < u PROVE FALSE
    BY <1>1, <1>3, <1>6, <1>16, <1>18 DEF On
  <2>1. u \in DOMAIN ops /\ ops[u].target = z /\ ops'[u] = ops[u] /\ u \in DOMAIN ops'
    BY <1>6, <1>13
  <2>2. ops[u].entity = "event" /\ IsWaiting(ops[u]) /\ ops'[t].entity = "event"
    <3>1. SInv'
      BY StepSynced DEF SyncNext, UserWrites
    <3> QED BY <2>1, <3>1 DEF SInv, Outboxed, Queued, EventOp, WInv, NoneParked
  <2>3. ops'[t].write <= ops'[u].write
    BY <1>6, <1>12, <2>1, <2>2 DEF WritesInOrder, IsWaiting
  <2> QED BY <1>1, <1>3, <1>6, <1>16, <2>1, <2>3
<1>20. /\ \A u \in DOMAIN ops : \A f : u # t => Says(u, f)' = Says(u, f) /\ Leaves(u, f)' = Leaves(u, f)
       /\ \A f : Says(t, f)' = c[f] /\ (Leaves(t, f)' <=> b # NoBase /\ c[f] = b[f])
  BY <1>6, <1>10, <1>16 DEF Says, Leaves
<1>21. /\ DOMAIN wanted' = DOMAIN wanted
       /\ \A e \in DOMAIN wanted : e # e1 => wanted'[e] = wanted[e]
       /\ \A f \in Fields : wanted'[e1][f] = IF f \in changed THEN n
                                             ELSE IF e1 \in unwanted THEN Untouched ELSE wanted[e1][f]
  BY <1>2, <1>5, <1>11 DEF e0
<1>22. Reaches'
  <2> SUFFICES ASSUME NEW e \in DOMAIN wanted \ unwanted', NEW f \in Fields, wanted'[e][f] # Untouched
               PROVE  (Ahead(e, f) \/ There(e, f) \/ ToRestore(e, f))'
    BY <1>21 DEF Reaches
  <2>1. CASE e # e1
    <3>1. e \in DOMAIN wanted \ unwanted /\ wanted'[e] = wanted[e] /\ On(e)' = On(e)
      BY <1>3, <1>11, <1>18, <1>21, <2>1 DEF e0
    <3>2. \A u \in On(e) : Says(u, f)' = Says(u, f) /\ Leaves(u, f)' = Leaves(u, f)
      BY <1>18, <1>20, <2>1 DEF On
    <3>3. (Has(e, f) => Has(e, f)') /\ (NoRow(e) => NoRow(e)')
      BY <1>3, <3>1 DEF Has, NoRow
    <3>4. Ahead(e, f) \/ There(e, f) \/ ToRestore(e, f)
      BY <3>1 DEF EInv, Reaches
    <3>5. CASE Ahead(e, f)
      BY <3>1, <3>2, <3>5 DEF Ahead
    <3>6. CASE There(e, f)
      BY <3>1, <3>2, <3>3, <3>6 DEF There
    <3>7. CASE ToRestore(e, f)
      BY <3>1, <3>2, <3>3, <3>7 DEF ToRestore
    <3> QED BY <3>4, <3>5, <3>6, <3>7
  <2>2. CASE e = e1 /\ f \in changed
    <3>1. t \in On(e)' /\ \A u \in On(e)' : u <= t
      BY <1>18, <1>19, <2>2
    <3>2. c[f] = n /\ wanted'[e][f] = n
      BY <1>9, <1>21, <2>2
    <3>3. b # NoBase => b[f] # n
      BY <1>1, <1>3, <1>7, <1>8 DEF Past
    <3> QED BY <1>20, <3>1, <3>2, <3>3 DEF Ahead
  <2>3. CASE e = e1 /\ f \notin changed
    <3>1. e \in DOMAIN wanted \ unwanted /\ wanted'[e][f] = wanted[e][f] /\ wanted[e][f] # Untouched
      BY <1>21, <2>3
    <3>2. Ahead(e, f) \/ There(e, f) \/ ToRestore(e, f)
      BY <3>1 DEF EInv, Reaches
    <3>3. (Has(e, f) => Has(e, f)') /\ (NoRow(e) => NoRow(e)')
      BY <1>3, <3>1 DEF Has, NoRow
    <3>4. c[f] = Screen(z)[f]
      BY <1>9, <1>12, <2>3
    <3>5. On(e)' = On(e) \cup {t} /\ \A u \in On(e)' : u <= t
      BY <1>18, <1>19, <2>3
    <3>6. \A u \in On(e) : u # t => Says(u, f)' = Says(u, f) /\ Leaves(u, f)' = Leaves(u, f)
      BY <1>20 DEF On
    <3>7. CASE On(e) = {}
      <4>1. Has(e, f)
        BY <3>2, <3>7 DEF Ahead, There, ToRestore
      <4>2. WaitingOn(z) = {} /\ b = ServerCopy(z)
        BY <1>7, <1>8, <1>12, <1>13, <2>3, <3>7
      <4>3. CASE z \in DOMAIN saved
        <5>1. b = saved[z] /\ b # NoBase
          BY <1>7, <1>8, <1>12, <4>2, <4>3 DEF ServerCopy
        <5>2. c[f] = b[f]
          BY <3>4, <4>2, <4>3, <5>1, ScreenSays
        <5>3. \A u \in On(e)' : Leaves(u, f)'
          BY <1>20, <3>5, <3>7, <5>1, <5>2
        <5> QED BY <3>3, <4>1, <5>3 DEF There
      <4>4. CASE z \notin DOMAIN saved
        <5>1. b = NoBase
          BY <4>2, <4>4 DEF ServerCopy
        <5>2. c[f] = wanted[e][f]
          BY <1>13, <2>3, <3>1, <3>4, <4>2, <4>4, ScreenSays
        <5> QED BY <1>20, <3>1, <3>5, <5>1, <5>2 DEF Ahead
      <4> QED BY <4>3, <4>4
    <3>8. CASE On(e) # {}
      <4>1. PICK l \in On(e) : (\A u \in On(e) : u <= l) /\ Screen(z) = text[ops[l].write]
        BY <1>13, <2>3, <3>8, ScreenSays
      <4>2. l \in DOMAIN ops /\ ops[l].base = b /\ c[f] = Says(l, f)
        BY <1>7, <1>8, <1>12, <1>13, <2>3, <3>4, <4>1 DEF Says
      <4>3. Leaves(t, f)' <=> Leaves(l, f)
        BY <1>20, <4>2 DEF Leaves
      <4>4. CASE Ahead(e, f)
        <5>1. Says(l, f) = wanted[e][f] /\ ~Leaves(l, f)
          <6>1. PICK k \in On(e) : /\ \A u \in On(e) : u <= k
                                   /\ Says(k, f) = wanted[e][f] /\ ~Leaves(k, f)
            BY <4>4 DEF Ahead
          <6>2. k <= l /\ l <= k /\ k \in Nat /\ l \in Nat
            BY <1>16, <4>1, <6>1 DEF On
          <6> QED BY <6>1, <6>2
        <5> QED BY <1>20, <3>1, <3>5, <4>2, <4>3, <5>1 DEF Ahead
      <4>5. CASE There(e, f)
        <5>1. \A u \in On(e)' : Leaves(u, f)'
          BY <3>5, <3>6, <4>1, <4>3, <4>5 DEF There
        <5> QED BY <3>3, <4>5, <5>1 DEF There
      <4>6. CASE ToRestore(e, f)
        <5>1. \A u \in On(e)' : Leaves(u, f)'
          BY <3>5, <3>6, <4>1, <4>3, <4>6 DEF ToRestore
        <5>2. \A u \in On(e)' : Says(u, f)' = wanted[e][f]
          BY <1>20, <3>5, <3>6, <4>1, <4>2, <4>6 DEF ToRestore
        <5> QED BY <3>1, <3>3, <3>5, <4>6, <5>1, <5>2 DEF ToRestore
      <4> QED BY <3>2, <4>4, <4>5, <4>6
    <3> QED BY <3>7, <3>8
  <2> QED BY <2>1, <2>2, <2>3
<1>23. WritesPast'
  <2>1. \A e \in DOMAIN wanted' : Past(wanted'[e], n)
    <3>1. Past(wanted'[e1], n)
      <4>1. Past(wanted[e1], writes)
        BY <1>5, <1>11 DEF EInv, WritesPast
      <4>2. Past(wanted[e1], n) /\ Untouched \notin (n + 1)..MaxWrites
        BY <1>1, <1>3, <1>16, <4>1, UntouchedPast
      <4> QED BY <1>1, <1>3, <1>21, <4>2 DEF Past
    <3>2. \A e \in DOMAIN wanted : Past(wanted[e], n)
      BY <1>16 DEF EInv, WritesPast
    <3> QED BY <1>21, <3>1, <3>2
  <2>2. \A u \in Based' : Past(ops'[u].base, n)
    <3>1. ASSUME NEW u \in Based', u # t PROVE u \in Based /\ ops'[u].base = ops[u].base
      <4>1. u \in DOMAIN ops' /\ ops'[u].kind # "delete" /\ ops'[u].base # NoBase
        BY DEF Based
      <4>2. u \in DOMAIN ops /\ ops'[u] = ops[u]
        BY <1>6, <3>1, <4>1
      <4> QED BY <4>1, <4>2 DEF Based
    <3>2. b # NoBase => Past(b, n)
      BY <1>7, <1>8, <1>16
    <3> QED BY <1>10, <1>16, <3>1, <3>2 DEF EInv, WritesPast, Based
  <2> QED BY <1>3, <1>16, <2>1, <2>2 DEF WritesPast
<1>24. DeletesUnwanted'
  <2> SUFFICES ASSUME NEW u \in DOMAIN ops', ops'[u].kind = "delete"
               PROVE  Event(ops[u].target)' \in unwanted'
    BY DEF DeletesUnwanted
  <2>1. u \in DOMAIN ops /\ u # t /\ ops'[u] = ops[u]
    BY <1>6, <1>10
  <2>2. Event(ops[u].target) \in unwanted
    BY <2>1 DEF EInv, QueueSays, DeletesUnwanted
  <2>3. u \notin On(e1)
    BY <1>7, <1>12, <1>13, <2>1
  <2>4. Event(ops[u].target) # e1
    BY <2>1, <2>3 DEF On
  <2> QED BY <1>3, <1>11, <1>17, <2>1, <2>2, <2>4 DEF e0
<1>25. OneBaseEach'
  <2>1. \A u \in On(e1)' : ops'[u].base = b
    BY <1>6, <1>7, <1>8, <1>10, <1>12, <1>13, <1>18
  <2> SUFFICES ASSUME NEW u \in DOMAIN ops', NEW v \in DOMAIN ops',
                      ops'[u].kind # "delete", ops'[v].kind # "delete",
                      Event(ops[u].target)' = Event(ops[v].target)'
               PROVE  ops'[u].base = ops'[v].base
    BY DEF OneBaseEach
  <2>2. CASE Event(ops[u].target)' = e1
    BY <2>1, <2>2 DEF On
  <2>3. CASE Event(ops[u].target)' # e1
    <3>1. u # t /\ v # t
      BY <1>18, <2>3 DEF On
    <3>2. /\ u \in DOMAIN ops /\ ops'[u] = ops[u]
          /\ v \in DOMAIN ops /\ ops'[v] = ops[v]
      BY <1>6, <3>1
    <3> QED BY <1>17, <3>2 DEF EInv, QueueSays, Alike, OneBaseEach
  <2> QED BY <2>2, <2>3
<1>26. Baseless'
  <2> SUFFICES ASSUME NEW u \in DOMAIN ops', ops'[u].kind # "delete", ops'[u].base = NoBase,
                      ops'[u].target \in Resolved
               PROVE  /\ ops'[u].target \notin DOMAIN saved
                      /\ ~syncing => ops'[u].target \notin DOMAIN server
    BY <1>3, <1>17 DEF Baseless
  <2>1. CASE u = t
    <3>1. z \notin DOMAIN saved
      BY <1>7, <1>8, <1>10, <1>12, <2>1
    <3> QED BY <1>6, <1>12, <1>13, <2>1, <3>1 DEF EInv, SavedKnown
  <2>2. CASE u # t
    BY <1>6, <2>2 DEF EInv, QueueSays, Alike, Baseless
  <2> QED BY <2>1, <2>2
<1>27. BasedOnSaved'
  <2> SUFFICES ASSUME MaxOthers # 0, ~syncing, NEW u \in Based'
               PROVE  ops'[u].target \in DOMAIN saved /\ ops'[u].base = saved[ops'[u].target]
    BY <1>3 DEF BasedOnSaved
  <2>1. CASE u = t
    <3>1. z \in DOMAIN saved /\ b = saved[z]
      BY <1>7, <1>8, <1>10, <1>12, <2>1 DEF Based, EInv, QueueSays, Alike, BasedOnSaved
    <3> QED BY <1>6, <1>10, <1>12, <2>1, <3>1
  <2>2. CASE u # t
    <3>1. u \in Based /\ ops'[u] = ops[u]
      BY <1>6, <2>2 DEF Based
    <3> QED BY <3>1 DEF EInv, QueueSays, Alike, BasedOnSaved
  <2> QED BY <2>1, <2>2
<1>28. SavedKnown'
  BY <1>3, <1>17, <1>21 DEF EInv, SavedKnown
<1> QED BY <1>16, <1>22, <1>23, <1>24, <1>25, <1>26, <1>27, <1>28 DEF EInv, QueueSays, Alike

LEMMA DeleteEventEdits ==
  ASSUME SInv, WInv, CInv, EInv, NEW id \in ScreenIds("event"), DeleteEvent(id)
  PROVE  EInv'
<1> DEFINE x == ResolveEvent(id)
           gone == Replaced("event", x)
           c == [f \in Fields |-> First]
<1>1. PICK n : n = writes + 1
  OBVIOUS
<1>2. /\ UNCHANGED <<server, origin, saved, syncing, fresh, wire, wanted>>
      /\ Delete("event", id, NoRefs, ServerCopy(x)) /\ Carries(c)
      /\ unwanted' = unwanted \cup {Event(x)}
  BY DEF DeleteEvent
<1>3. /\ UNCHANGED <<remap, eventRemap, held>> /\ writes' = n /\ writes \in Nat
      /\ shown' = shown \ {<<"event", i>> : i \in {j \in ScreenIds("event") : ResolveEvent(j) = x}}
  <2>1. UNCHANGED <<remap, eventRemap, held>> /\ writes' = writes + 1
        /\ shown' = shown \ {<<"event", i>> : i \in {j \in ScreenIds("event") : ResolveEvent(j) = x}}
    BY <1>2 DEF Delete, Target, CountWrite
  <2>2. writes \in Nat
    BY DEF SInv, IInv, TypeOK
  <2> QED BY <1>1, <2>1, <2>2
<1>4. /\ \A t \in DOMAIN ops' :
           \/ t \in DOMAIN ops \ gone /\ ops'[t] = ops[t]
           \/ t = n /\ ops'[t].kind = "delete" /\ ops'[t].target = x
      /\ \A t \in DOMAIN ops \ gone : t \in DOMAIN ops' /\ ops'[t] = ops[t]
      /\ \A t \in gone : t \in DOMAIN ops /\ ops[t].target = x
  BY <1>1, <1>2, DeleteQueue DEF WInv
<1>5. PICK e0 : e0 = Event(x)
  OBVIOUS
<1>6. PICK z : z = x
  OBVIOUS
<1>7. Past(c, n)
  BY <1>1, <1>3, OutboxAssumption DEF Past, First
<1>8. /\ RowsPast' /\ NoReplay' /\ FreshSame' /\ SentSays'
      /\ \A w \in 1..writes : text'[w] = text[w]
      /\ \A w \in DOMAIN text' : Past(text'[w], n)
      /\ \A k : Past(k, writes) => Past(k, n)
      /\ \A u \in DOMAIN ops : u \in 1..writes /\ ops[u].write \in 1..writes
  <2> HIDE DEF c, x, gone
  <2>1. Carries(c) /\ \A u \in DOMAIN ops' : u \in DOMAIN ops \/ u = writes + 1
    BY <1>1, <1>2, <1>4
  <2> QED BY <1>1, <1>2, <1>3, <1>7, <2>1, WriteEdits
<1>9. Resolved' \subseteq Resolved
  <2>1. \A i : ResolveEvent(i)' = ResolveEvent(i)
    BY <1>3 DEF ResolveEvent, Resolve
  <2>2. ScreenIds("event")' \subseteq ScreenIds("event")
    BY <1>3 DEF ScreenIds
  <2> QED BY <2>1, <2>2 DEF Resolved
<1>10. \A m : Event(m)' = Event(m)
  BY <1>2, SameEvents
<1> HIDE DEF x, gone, c
<1>11. \A e : e # e0 => On(e)' = On(e)
  <2> SUFFICES ASSUME NEW e, e # e0 PROVE On(e)' = On(e)
    OBVIOUS
  <2>1. ASSUME NEW u \in On(e)' PROVE u \in On(e)
    <3>1. u \in DOMAIN ops' /\ Event(ops[u].target)' = e
      BY DEF On
    <3>2. Event(ops'[u].target) = e
      BY <1>10, <3>1
    <3> QED BY <1>4, <1>5, <3>1, <3>2 DEF On
  <2>2. ASSUME NEW u \in On(e) PROVE u \in On(e)'
    <3>1. u \in DOMAIN ops' /\ ops'[u] = ops[u] /\ Event(ops[u].target) = e
      BY <1>4, <1>5 DEF On
    <3>2. Event(ops[u].target)' = e
      BY <1>10, <3>1
    <3> QED BY <3>1, <3>2 DEF On
  <2> QED BY <2>1, <2>2
<1>12. \A u \in DOMAIN ops \cap DOMAIN ops' : \A f :
         Says(u, f)' = Says(u, f) /\ Leaves(u, f)' = Leaves(u, f)
  BY <1>1, <1>3, <1>4, <1>8 DEF Says, Leaves
<1>13. Reaches'
  <2> SUFFICES ASSUME NEW e \in DOMAIN wanted \ unwanted', NEW f \in Fields, wanted[e][f] # Untouched
               PROVE  (Ahead(e, f) \/ There(e, f) \/ ToRestore(e, f))'
    BY <1>2 DEF Reaches
  <2>1. e \in DOMAIN wanted \ unwanted /\ On(e)' = On(e)
    BY <1>2, <1>5, <1>11
  <2>2. \A u \in On(e) : Says(u, f)' = Says(u, f) /\ Leaves(u, f)' = Leaves(u, f)
    <3>1. \A u \in On(e) : u \in DOMAIN ops \cap DOMAIN ops'
      BY <2>1 DEF On
    <3> QED BY <1>12, <3>1
  <2>3. (Has(e, f) => Has(e, f)') /\ (NoRow(e) => NoRow(e)')
    BY <1>2 DEF Has, NoRow
  <2>4. Ahead(e, f) \/ There(e, f) \/ ToRestore(e, f)
    BY <2>1 DEF EInv, Reaches
  <2>5. CASE Ahead(e, f)
    BY <1>2, <2>1, <2>2, <2>5 DEF Ahead
  <2>6. CASE There(e, f)
    BY <2>1, <2>2, <2>3, <2>6 DEF There
  <2>7. CASE ToRestore(e, f)
    BY <1>2, <2>1, <2>2, <2>3, <2>7 DEF ToRestore
  <2> QED BY <2>4, <2>5, <2>6, <2>7
<1>14. \A u \in DOMAIN ops' : ops'[u].kind # "delete" => u \in DOMAIN ops /\ ops'[u] = ops[u]
  BY <1>4
<1>15. WritesPast'
  <2>1. \A e \in DOMAIN wanted : Past(wanted[e], n)
    BY <1>8 DEF EInv, WritesPast
  <2>2. ASSUME NEW u \in Based' PROVE Past(ops'[u].base, n)
    <3>1. u \in DOMAIN ops' /\ ops'[u].kind # "delete" /\ ops'[u].base # NoBase
      BY DEF Based
    <3>2. u \in Based /\ ops'[u] = ops[u]
      BY <1>14, <3>1 DEF Based
    <3> QED BY <1>8, <3>2 DEF EInv, WritesPast
  <2> QED BY <1>2, <1>3, <1>8, <2>1, <2>2 DEF WritesPast
<1>16. DeletesUnwanted'
  <2> SUFFICES ASSUME NEW u \in DOMAIN ops', ops'[u].kind = "delete"
               PROVE  Event(ops[u].target)' \in unwanted'
    BY DEF DeletesUnwanted
  <2>1. CASE u \in DOMAIN ops /\ ops'[u] = ops[u]
    BY <1>2, <1>10, <2>1 DEF EInv, QueueSays, DeletesUnwanted
  <2>2. CASE ops'[u].target = x
    <3>1. Event(ops[u].target)' = Event(x)
      BY <1>5, <1>10, <2>2
    <3> QED BY <1>2, <3>1
  <2> QED BY <1>4, <2>1, <2>2
<1>17. OneBaseEach'
  <2> SUFFICES ASSUME NEW u \in DOMAIN ops', NEW v \in DOMAIN ops',
                      ops'[u].kind # "delete", ops'[v].kind # "delete",
                      Event(ops[u].target)' = Event(ops[v].target)'
               PROVE  ops'[u].base = ops'[v].base
    BY DEF OneBaseEach
  <2> QED BY <1>10, <1>14 DEF EInv, QueueSays, Alike, OneBaseEach
<1>18. Baseless'
  <2> SUFFICES ASSUME NEW u \in DOMAIN ops', ops'[u].kind # "delete", ops'[u].base = NoBase,
                      ops'[u].target \in Resolved'
               PROVE  /\ ops'[u].target \notin DOMAIN saved
                      /\ ~syncing => ops'[u].target \notin DOMAIN server
    BY <1>2 DEF Baseless
  <2> QED BY <1>9, <1>14 DEF EInv, QueueSays, Alike, Baseless
<1>19. BasedOnSaved'
  <2> SUFFICES ASSUME MaxOthers # 0, ~syncing, NEW u \in Based'
               PROVE  ops'[u].target \in DOMAIN saved /\ ops'[u].base = saved[ops'[u].target]
    BY <1>2 DEF BasedOnSaved
  <2>1. u \in DOMAIN ops' /\ ops'[u].kind # "delete" /\ ops'[u].base # NoBase
    BY DEF Based
  <2>2. u \in Based /\ ops'[u] = ops[u]
    BY <1>14, <2>1 DEF Based
  <2> QED BY <2>2 DEF EInv, QueueSays, Alike, BasedOnSaved
<1>20. SavedKnown'
  BY <1>2, <1>9 DEF EInv, SavedKnown
<1> QED BY <1>8, <1>13, <1>15, <1>16, <1>17, <1>18, <1>19, <1>20 DEF EInv, QueueSays, Alike

-----------------------------------------------------------------------------
LEMMA StepEdits ==
  ASSUME Settings, SInv, WInv, CInv, EInv, WritesInOrder', [SyncNext]_allVars
  PROVE  EInv'
<1>1. CASE CreateEvent \/ \E id \in ScreenIds("event") : UpdateEvent(id) \/ DeleteEvent(id)
  BY <1>1, CreateEventEdits, UpdateEventEdits, DeleteEventEdits
<1>2. CASE EngineSteps
  BY <1>2, ReadServerEdits, TakeNextEdits, SendEdits, SettleDeletionEdits, TakeAnswerEdits,
     GiveUpEdits, EndSyncEdits, KilledEdits DEF EngineSteps
<1>3. CASE ServerSteps
  BY <1>3, ServePostEdits, ServeChangeEdits, OtherEditEdits, OtherDeleteEdits DEF ServerSteps
<1>4. CASE UNCHANGED allVars \/ \E id \in ScreenIds("event") : OpenForm(id)
  <2>1. UNCHANGED <<vars, text, server, origin, saved, syncing, fresh, wire, wanted, unwanted, others>>
    BY <1>4, OpenFormOnly DEF allVars, syncVars
  <2>2. UNCHANGED <<ops, writes, shown, remap, eventRemap, held, text, server, origin, saved, syncing,
                    fresh, wire, wanted, unwanted>>
    BY <2>1 DEF vars, syncVars
  <2>3. /\ Resolved' = Resolved
        /\ \A e : On(e)' = On(e) /\ \A t, f : Says(t, f)' = Says(t, f) /\ Leaves(t, f)' = Leaves(t, f)
    BY <2>2, SameNames, SameSays
  <2>4. Reaches'
    <3>1. \A e, f : (Has(e, f) => Has(e, f)') /\ (NoRow(e) => NoRow(e)')
      BY <2>2 DEF Has, NoRow
    <3>2. \A e, f : (There(e, f) => Has(e, f)') /\ (ToRestore(e, f) => NoRow(e)')
      BY <3>1 DEF There, ToRestore
    <3> QED BY <2>2, <2>3, <3>2, ReachesKept DEF EInv
  <2>5. WritesPast' /\ DeletesUnwanted' /\ OneBaseEach'
    BY <2>2, SameWrites
  <2>6. RowsPast' /\ Baseless' /\ BasedOnSaved' /\ SavedKnown' /\ NoReplay' /\ FreshSame'
    BY <2>2, <2>3 DEF EInv, RowsPast, QueueSays, Alike, Baseless, BasedOnSaved, Based, SavedKnown,
                      NoReplay, FreshSame
  <2>7. SentSays'
    BY <2>2 DEF EInv, SentSays, Merged
  <2> QED BY <2>4, <2>5, <2>6, <2>7 DEF EInv, QueueSays, Alike
<1> QED BY <1>1, <1>2, <1>3, <1>4 DEF SyncNext, UserWrites

LEMMA SyncInitEdits == ASSUME SyncInit PROVE EInv
<1>1. /\ server = [id \in Known["event"] |-> [client |-> Nobody, fields |-> [f \in Fields |-> First]]]
      /\ origin = [id \in Known["event"] |-> id] /\ saved = Rows(server)
      /\ wanted = [e \in Known["event"] |-> [f \in Fields |-> Untouched]]
      /\ ~syncing /\ DOMAIN fresh = {} /\ wire = {} /\ DOMAIN text = {}
  BY DEF SyncInit, Nothing
<1>2. DOMAIN ops = {} /\ writes = 0 /\ held = {}
  BY DEF SyncInit, Init
<1>3. DOMAIN saved = DOMAIN server /\ \A id \in DOMAIN saved : saved[id] = server[id].fields
  BY <1>1 DEF Rows
<1>4. Reaches
  BY <1>1 DEF Reaches
<1>5. MaxWrites \in Nat
  BY OutboxAssumption
<1>6. /\ Past([f \in Fields |-> First], writes) /\ Past([f \in Fields |-> Untouched], writes)
  BY <1>2, <1>5 DEF Past, First, Untouched
<1>7. RowsPast
  BY <1>1, <1>3, <1>6 DEF RowsPast
<1>8. WritesPast
  BY <1>1, <1>2, <1>6 DEF WritesPast, Based
<1>9. QueueSays
  BY <1>2 DEF QueueSays, DeletesUnwanted, Alike, OneBaseEach, Baseless, BasedOnSaved, Based
<1>10. SavedKnown
  BY <1>1, <1>3 DEF SavedKnown
<1>11. NoReplay /\ FreshSame /\ SentSays
  BY <1>1, <1>2 DEF NoReplay, FreshSame, SentSays
<1> QED BY <1>4, <1>7, <1>8, <1>9, <1>10, <1>11 DEF EInv

LEMMA EInvHolds ==
  Settings => (SyncSpec /\ []WritesInOrder => [](SInv /\ WInv /\ CInv /\ EInv))
<1> SUFFICES ASSUME Settings
             PROVE  SyncSpec /\ []WritesInOrder => [](SInv /\ WInv /\ CInv /\ EInv)
  OBVIOUS
<1>1. SyncSpec => [](SInv /\ WInv /\ CInv)
  BY SettingsGive, CInvHolds
<1>2. SyncInit => EInv
  BY SyncInitEdits
<1>3. SInv /\ WInv /\ CInv /\ EInv /\ WritesInOrder' /\ [SyncNext]_allVars => EInv'
  BY StepEdits
<1> QED BY <1>1, <1>2, <1>3, PTL DEF SyncSpec

\* While what waits of each event is sent in the order it was written, every edit
\* arrives: once nothing waits, the server has of each event not deleted here what was
\* last given each field here, unless it was changed elsewhere since; through lost
\* answers, restarts and deletions elsewhere (outbox.dart, _update; sync_engine.dart,
\* _merge and _updateEvent).
THEOREM EditsReach ==
  Settings => (SyncSpec /\ []WritesInOrder => []EditsArrive)
<1> SUFFICES ASSUME Settings
             PROVE  SyncSpec /\ []WritesInOrder => []EditsArrive
  OBVIOUS
<1>1. EInv /\ CInv => EditsArrive
  BY ArrivedOnceSent
<1> QED BY <1>1, EInvHolds, PTL

-----------------------------------------------------------------------------
(* The order of what waits, while no sync is broken off.                   *)

\* Of the changes of one event at most one waits that is not being sent.
Single ==
  \A t, u \in DOMAIN ops :
    /\ t < u /\ ops[t].target = ops[u].target
    /\ ops[t].kind # "delete" /\ ops[u].kind # "delete"
    => \E h \in held : t = h.ticket

QueueInOrder == WritesInOrder /\ Single

\* A change is put behind another only when that one is being sent.
LEMMA AppendsBehindSent ==
  ASSUME SInv, WInv, CInv, NEW id, NEW base, Update("event", id, NoRefs, base),
         NEW t \in DOMAIN ops, ops[t].target = ResolveEvent(id), ops[t].kind # "delete",
         writes + 1 \in DOMAIN ops'
  PROVE  \E h \in held : t = h.ticket
<1> DEFINE target == ResolveEvent(id)
           into == Foldable("event", target, NoRefs)
<1>1. /\ writes \in Nat /\ DOMAIN ops \subseteq 1..writes /\ ops[t] \in Op
      /\ ops[t].entity = "event" /\ IsWaiting(ops[t])
  BY DEF SInv, IInv, TypeOK, Queue, Outboxed, Queued, EventOp, WInv, NoneParked
<1>2. into = {}
  <2>1. ASSUME NEW u \in into, ops' = [ops EXCEPT ![u] = Folded(@, NoRefs)] PROVE FALSE
    <3>1. writes + 1 \in DOMAIN ops
      BY <2>1
    <3> QED BY <1>1, <3>1
  <2> QED BY <2>1 DEF Update, Target
<1>3. ops[t].kind \in {"create", "update"}
  BY <1>1 DEF Op, Kinds
<1>4. Dependencies(Folded(ops[t], NoRefs)) \cap CreatedAfter(ops, t) = {}
  <2> DEFINE g == Folded(ops[t], NoRefs)
  <2>1. /\ g.tags = {} /\ g.category = NoId /\ g.kind = ops[t].kind /\ g.target = target
    <3>1. ops[t].entity # "group"
      BY <1>1
    <3> QED BY <1>1, <3>1 DEF Folded, NoRefs, Op
  <2> HIDE DEF g
  <2>2. Dependencies(g) \subseteq {target}
    BY <2>1 DEF Dependencies, TagDependencies, NoId
  <2>3. target \notin CreatedAfter(ops, t)
    <3>1. ASSUME NEW c \in DOMAIN ops, ops[c].kind = "create", ops[c].target = target, c > t
          PROVE  FALSE
      BY <1>1, <3>1 DEF CInv, NamesInv, CreatedFirst
    <3> QED BY <3>1 DEF CreatedAfter, TargetsOf, Creations, IsCreation
  <2> QED BY <2>2, <2>3 DEF g
<1>5. t = sending
  <2> HIDE DEF target
  <2>1. t \in into \/ t = sending
    BY <1>1, <1>3, <1>4 DEF Foldable, About, target
  <2> QED BY <1>2, <2>1
<1>6. held # {}
  BY <1>1, <1>5 DEF WInv, Idle, Nobody
<1> QED BY <1>5, <1>6, HeldFacts

LEMMA SameOrder ==
  ASSUME QueueInOrder, UNCHANGED ops, held' = held \/ held = {}
  PROVE  QueueInOrder'
<1>1. WritesInOrder'
  BY DEF QueueInOrder, WritesInOrder
<1>2. Single'
  BY DEF QueueInOrder, Single
<1> QED BY <1>1, <1>2 DEF QueueInOrder

LEMMA CreateEventOrder ==
  ASSUME SInv, WInv, CInv, QueueInOrder, CreateEvent
  PROVE  QueueInOrder'
<1>1. PICK n : n = writes + 1
  OBVIOUS
<1>2. /\ n \notin DOMAIN ops
      /\ DOMAIN ops' = DOMAIN ops \cup {n}
      /\ \A t \in DOMAIN ops : ops'[t] = ops[t]
      /\ ops'[n].target = nextTempId
      /\ UNCHANGED held
  BY <1>1, CreatedNames
<1>3. \A t \in DOMAIN ops : ops[t].target # nextTempId
  BY NextIsNew, Members
<1>4. WritesInOrder'
  <2>1. ASSUME NEW t \in DOMAIN ops', NEW u \in DOMAIN ops', t # u, ops'[t].target = ops'[u].target
        PROVE  t \in DOMAIN ops /\ u \in DOMAIN ops
    BY <1>2, <1>3, <2>1
  <2> SUFFICES ASSUME NEW t \in DOMAIN ops', NEW u \in DOMAIN ops', t < u,
                      ops'[t].entity = ops'[u].entity, ops'[t].target = ops'[u].target,
                      IsWaiting(ops'[t]), IsWaiting(ops'[u])
               PROVE  ops'[t].write <= ops'[u].write
    BY DEF WritesInOrder, IsWaiting
  <2>2. t # u
    BY <1>1, <1>2 DEF SInv, IInv, TypeOK, Queue
  <2>3. /\ t \in DOMAIN ops /\ ops'[t] = ops[t]
        /\ u \in DOMAIN ops /\ ops'[u] = ops[u]
    BY <1>2, <2>1, <2>2
  <2> QED BY <2>3 DEF QueueInOrder, WritesInOrder
<1>5. Single'
  <2> SUFFICES ASSUME NEW t \in DOMAIN ops', NEW u \in DOMAIN ops', t < u,
                      ops'[t].target = ops'[u].target,
                      ops'[t].kind # "delete", ops'[u].kind # "delete"
               PROVE  \E h \in held : t = h.ticket
    BY <1>2 DEF Single
  <2>1. t # u
    BY <1>1, <1>2 DEF SInv, IInv, TypeOK, Queue
  <2>2. /\ t \in DOMAIN ops /\ ops'[t] = ops[t]
        /\ u \in DOMAIN ops /\ ops'[u] = ops[u]
    BY <1>2, <1>3, <2>1
  <2> QED BY <2>2 DEF QueueInOrder, Single
<1> QED BY <1>4, <1>5 DEF QueueInOrder

\* A change, folded or appended, is the last of its event and the last written.
LEMMA UpdateEventOrder ==
  ASSUME SInv, WInv, CInv, QueueInOrder, NEW id \in ScreenIds("event"), UpdateEvent(id)
  PROVE  QueueInOrder'
<1> DEFINE x == ResolveEvent(id)
<1>1. PICK n : n = writes + 1
  OBVIOUS
<1>2. Update("event", id, NoRefs, ServerCopy(x))
  BY DEF UpdateEvent
<1>3. PICK t \in DOMAIN ops' :
        /\ t \in DOMAIN ops \/ t = n
        /\ DOMAIN ops' = DOMAIN ops \cup {t} /\ \A h \in held : t # h.ticket
        /\ \A u \in DOMAIN ops : u # t => ops'[u] = ops[u]
        /\ ops'[t].target = x /\ ops'[t].write = n
        /\ t \in DOMAIN ops => ops[t].target = x /\ ops'[t].kind = ops[t].kind
  BY <1>1, <1>2, UpdateQueue DEF WInv
<1>4. UNCHANGED held /\ x \in Resolved
  BY <1>2 DEF Update, Resolved
<1>5. n \in Nat /\ \A u \in DOMAIN ops : u \in Nat /\ u < n /\ ops[u].write \in Nat /\ ops[u].write < n
  BY <1>1 DEF SInv, IInv, TypeOK, Queue, Outboxed, Queued, EventOp
<1>6. \A u \in DOMAIN ops : ops[u].target = x => ops[u].kind # "delete"
  BY <1>4 DEF CInv, NamesInv, DeletionsLast
<1>7. \A u \in DOMAIN ops : t = n /\ ops[u].target = x => \E h \in held : u = h.ticket
  <2> SUFFICES ASSUME NEW u \in DOMAIN ops, t = n, ops[u].target = x
               PROVE  \E h \in held : u = h.ticket
    OBVIOUS
  <2>1. writes + 1 \in DOMAIN ops' /\ ops[u].kind # "delete"
    BY <1>1, <1>3, <1>6
  <2> QED BY <1>2, <2>1, AppendsBehindSent
<1> HIDE DEF x
<1>8. \A u \in DOMAIN ops : ops[u].target = x => u <= t
  <2> SUFFICES ASSUME NEW u \in DOMAIN ops, ops[u].target = x, t < u PROVE FALSE
    BY <1>3, <1>5, <1>1 DEF SInv, IInv, TypeOK
  <2>1. t \in DOMAIN ops
    BY <1>1, <1>3, <1>5
  <2> QED BY <1>3, <1>6, <2>1 DEF QueueInOrder, Single
<1>9. WritesInOrder'
  <2> SUFFICES ASSUME NEW u \in DOMAIN ops', NEW v \in DOMAIN ops', u < v,
                      ops'[u].entity = ops'[v].entity, ops'[u].target = ops'[v].target,
                      IsWaiting(ops'[u]), IsWaiting(ops'[v])
               PROVE  ops'[u].write <= ops'[v].write
    BY DEF WritesInOrder, IsWaiting
  <2>1. CASE u # t /\ v # t
    <3>1. /\ u \in DOMAIN ops /\ ops'[u] = ops[u]
          /\ v \in DOMAIN ops /\ ops'[v] = ops[v]
      BY <1>3, <2>1
    <3> QED BY <3>1 DEF QueueInOrder, WritesInOrder
  <2>2. CASE u = t /\ v # t
    <3>1. v \in DOMAIN ops /\ ops[v].target = x
      BY <1>3, <2>2
    <3> QED BY <1>1, <1>3, <1>5, <1>8, <2>2, <3>1
  <2>3. CASE v = t /\ u # t
    <3>1. u \in DOMAIN ops /\ ops'[u] = ops[u]
      BY <1>3, <2>3
    <3> QED BY <1>1, <1>3, <1>5, <2>3, <3>1
  <2>4. CASE u = t /\ v = t
    BY <1>1, <1>3, <1>5, <2>4 DEF SInv, IInv, TypeOK
  <2> QED BY <2>1, <2>2, <2>3, <2>4
<1>10. Single'
  <2> SUFFICES ASSUME NEW u \in DOMAIN ops', NEW v \in DOMAIN ops', u < v,
                      ops'[u].target = ops'[v].target,
                      ops'[u].kind # "delete", ops'[v].kind # "delete"
               PROVE  \E h \in held : u = h.ticket
    BY <1>4 DEF Single
  <2>1. CASE u # t /\ v # t
    <3>1. /\ u \in DOMAIN ops /\ ops'[u] = ops[u]
          /\ v \in DOMAIN ops /\ ops'[v] = ops[v]
      BY <1>3, <2>1
    <3> QED BY <3>1 DEF QueueInOrder, Single
  <2>2. CASE u = t /\ v # t
    <3>1. v \in DOMAIN ops /\ ops[v].target = x
      BY <1>3, <2>2
    <3> QED BY <1>1, <1>3, <1>5, <1>8, <2>2, <3>1
  <2>3. CASE v = t /\ u # t
    <3>1. u \in DOMAIN ops /\ ops'[u] = ops[u] /\ ops[u].target = x
      BY <1>3, <2>3
    <3>2. CASE t \in DOMAIN ops
      <4>1. ops[t].target = x /\ ops[u].kind # "delete" /\ ops[t].kind # "delete"
        BY <1>3, <1>6, <3>1, <3>2
      <4> QED BY <2>3, <3>1, <3>2, <4>1 DEF QueueInOrder, Single
    <3>3. CASE t = n
      BY <1>7, <3>1, <3>3
    <3> QED BY <1>3, <3>2, <3>3
  <2>4. CASE u = t /\ v = t
    BY <1>1, <1>3, <1>5, <2>4 DEF SInv, IInv, TypeOK
  <2> QED BY <2>1, <2>2, <2>3, <2>4
<1> QED BY <1>9, <1>10 DEF QueueInOrder

LEMMA DeleteEventOrder ==
  ASSUME SInv, WInv, CInv, QueueInOrder, NEW id \in ScreenIds("event"), DeleteEvent(id)
  PROVE  QueueInOrder'
<1>1. PICK n : n = writes + 1
  OBVIOUS
<1>2. Delete("event", id, NoRefs, ServerCopy(ResolveEvent(id)))
  BY DEF DeleteEvent
<1>3. UNCHANGED held
  BY <1>2 DEF Delete
<1>4. \A t \in DOMAIN ops' : \/ t \in DOMAIN ops /\ ops'[t] = ops[t]
                             \/ t = n /\ ops'[t].kind = "delete" /\ ops'[t].write = n
  BY <1>1, <1>2, DeleteQueue DEF WInv
<1>5. n \in Nat /\ \A u \in DOMAIN ops : u \in Nat /\ u < n /\ ops[u].write \in Nat /\ ops[u].write < n
  BY <1>1 DEF SInv, IInv, TypeOK, Queue, Outboxed, Queued, EventOp
<1>6. WritesInOrder'
  <2> SUFFICES ASSUME NEW u \in DOMAIN ops', NEW v \in DOMAIN ops', u < v,
                      ops'[u].entity = ops'[v].entity, ops'[u].target = ops'[v].target,
                      IsWaiting(ops'[u]), IsWaiting(ops'[v])
               PROVE  ops'[u].write <= ops'[v].write
    BY DEF WritesInOrder, IsWaiting
  <2>1. u \in DOMAIN ops /\ ops'[u] = ops[u]
    BY <1>4, <1>5
  <2>2. CASE v \in DOMAIN ops /\ ops'[v] = ops[v]
    BY <2>1, <2>2 DEF QueueInOrder, WritesInOrder
  <2>3. CASE v = n /\ ops'[v].write = n
    BY <1>5, <2>1, <2>3
  <2> QED BY <1>4, <2>2, <2>3
<1>7. Single'
  <2> SUFFICES ASSUME NEW u \in DOMAIN ops', NEW v \in DOMAIN ops', u < v,
                      ops'[u].target = ops'[v].target,
                      ops'[u].kind # "delete", ops'[v].kind # "delete"
               PROVE  \E h \in held : u = h.ticket
    BY <1>3 DEF Single
  <2>1. /\ u \in DOMAIN ops /\ ops'[u] = ops[u]
        /\ v \in DOMAIN ops /\ ops'[v] = ops[v]
    BY <1>4
  <2> QED BY <2>1 DEF QueueInOrder, Single
<1> QED BY <1>6, <1>7 DEF QueueInOrder

\* An op done takes its event's new id to the ops behind it; no other op has it.
LEMMA DoneOrder ==
  ASSUME SInv, WInv, QueueInOrder, NEW h \in held, NEW id, NEW givenUp, Complete(h, id, givenUp),
         Rewrites(h, id) => id \notin InUse
  PROVE  QueueInOrder'
<1>1. /\ DOMAIN ops' = DOMAIN ops \ {h.ticket}
      /\ \A t \in DOMAIN ops' :
           /\ ops'[t].kind = ops[t].kind
           /\ ops'[t].write = ops[t].write /\ ops'[t].parked = ops[t].parked
           /\ ops'[t].target = IF Rewrites(h, id) /\ ops[t].target = h.op.target
                               THEN id ELSE ops[t].target
  BY CompleteQueue
<1>2. \A t \in DOMAIN ops : /\ ops[t].target \in InUse
                            /\ ops[t].entity = "event" /\ \A k \in held : k = h
  BY HeldFacts, Members DEF SInv, Outboxed, Queued, EventOp
<1>3. \A t, u \in DOMAIN ops' : ops'[t].target = ops'[u].target => ops[t].target = ops[u].target
  BY <1>1, <1>2
<1>4. WritesInOrder'
  <2> SUFFICES ASSUME NEW t \in DOMAIN ops', NEW u \in DOMAIN ops', t < u,
                      ops'[t].entity = ops'[u].entity, ops'[t].target = ops'[u].target,
                      IsWaiting(ops'[t]), IsWaiting(ops'[u])
               PROVE  ops'[t].write <= ops'[u].write
    BY DEF WritesInOrder, IsWaiting
  <2>1. /\ t \in DOMAIN ops /\ u \in DOMAIN ops /\ ops[t].target = ops[u].target
        /\ ops[t].entity = ops[u].entity /\ IsWaiting(ops[t]) /\ IsWaiting(ops[u])
    BY <1>1, <1>2, <1>3 DEF IsWaiting
  <2> QED BY <1>1, <2>1 DEF QueueInOrder, WritesInOrder
<1>5. Single'
  <2> SUFFICES ASSUME NEW t \in DOMAIN ops', NEW u \in DOMAIN ops', t < u,
                      ops'[t].target = ops'[u].target,
                      ops'[t].kind # "delete", ops'[u].kind # "delete"
               PROVE  FALSE
    BY DEF Single
  <2>1. /\ t \in DOMAIN ops /\ u \in DOMAIN ops /\ ops[t].target = ops[u].target
        /\ ops[t].kind # "delete" /\ ops[u].kind # "delete" /\ t # h.ticket
    BY <1>1, <1>3
  <2> QED BY <1>2, <2>1 DEF QueueInOrder, Single
<1> QED BY <1>4, <1>5 DEF QueueInOrder

LEMMA TakeAnswerOrder ==
  ASSUME SInv, WInv, CInv, CanCreate => MaxOthers = 0, QueueInOrder, TakeAnswer
  PROVE  QueueInOrder'
<1>1. PICK r \in wire, h \in held :
        /\ r.answer = "ok" \/ (r.answer = "missing" /\ r.kind = "DELETE")
        /\ Complete(h, r.row, FALSE)
  BY DEF TakeAnswer
<1>2. SentFor(r, h) /\ UNCHANGED origin
  BY DEF TakeAnswer, SInv, Synced, OnWire
<1>3. CASE r.kind # "POST"
  <2>1. ~Rewrites(h, r.row)
    BY <1>2, <1>3 DEF SentFor, Rewrites
  <2> QED BY <1>1, <2>1, DoneOrder
<1>4. CASE r.kind = "POST"
  <2>1. /\ r.row \in DOMAIN origin /\ h.op.kind # "delete" /\ r.id = h.op.target
    BY <1>1, <1>2, <1>4 DEF SentFor
  <2>2. /\ h.op.target \notin DOMAIN server
        /\ origin[r.row] = Event(h.op.target) /\ r.row # h.op.target /\ r.row \notin DOMAIN eventRemap
    BY <1>1, <1>2, <1>4, <2>1 DEF CInv, Asked
  <2>3. r.row \notin InUse
    BY <1>1, <1>2, <2>1, <2>2, RenamedNames
  <2> QED BY <1>1, <2>3, DoneOrder
<1> QED BY <1>3, <1>4

LEMMA StepOrder ==
  ASSUME CanCreate => MaxOthers = 0, ~LostAnswers, MaxResets = 0,
         SInv, WInv, CInv, QueueInOrder, [SyncNext]_allVars
  PROVE  QueueInOrder'
<1>1. CASE CreateEvent \/ \E id \in ScreenIds("event") : UpdateEvent(id) \/ DeleteEvent(id)
  BY <1>1, CreateEventOrder, UpdateEventOrder, DeleteEventOrder
<1>2. ~GiveUp /\ ~Killed
  BY DEF GiveUp, Killed, Restart, CountReset, SInv, IInv, TypeOK
<1>3. CASE TakeNext
  BY <1>3, SameOrder DEF TakeNext, Take
<1>4. CASE SettleDeletion
  <2>1. PICK h \in held, givenUp \in BOOLEAN : Complete(h, NoId, givenUp)
    BY <1>4 DEF SettleDeletion
  <2>2. ~Rewrites(h, NoId)
    BY DEF Rewrites
  <2> QED BY <2>1, <2>2, DoneOrder
<1>5. CASE ReadServer \/ SendWrite \/ SendDeletion \/ CreateAgain \/ EndSync
  <2>1. UNCHANGED <<ops, held>>
    BY <1>5 DEF ReadServer, SendWrite, SendDeletion, CreateAgain, EndSync, vars
  <2> QED BY <2>1, SameOrder
<1>6. CASE ServerSteps
  <2>1. UNCHANGED vars
    BY <1>6 DEF ServerSteps, ServePost, ServeChange, OtherDelete, OtherEdit
  <2> QED BY <2>1, SameOrder DEF vars
<1>7. CASE UNCHANGED allVars \/ \E id \in ScreenIds("event") : OpenForm(id)
  <2>1. UNCHANGED vars
    BY <1>7, OpenFormOnly DEF allVars
  <2> QED BY <2>1, SameOrder DEF vars
<1> QED BY <1>1, <1>2, <1>3, <1>4, <1>5, <1>6, <1>7, TakeAnswerOrder
        DEF SyncNext, UserWrites, EngineSteps

\* While no sync is broken off by a lost answer or a restart, the changes of an event
\* that wait were written in the order they are sent: no newer one is folded into an op
\* in front of an older one (outbox.dart, _update).
THEOREM WritesKeepOrder ==
  ~LostAnswers /\ MaxResets = 0 /\ (CanCreate => MaxOthers = 0)
  => (SyncSpec => []WritesInOrder)
<1> SUFFICES ASSUME ~LostAnswers, MaxResets = 0, CanCreate => MaxOthers = 0
             PROVE  SyncSpec => []WritesInOrder
  OBVIOUS
<1>1. SyncSpec => [](SInv /\ WInv /\ CInv)
  BY CInvHolds
<1>2. SyncInit => QueueInOrder
  BY DEF SyncInit, Init, QueueInOrder, WritesInOrder, Single
<1>3. SInv /\ WInv /\ CInv /\ QueueInOrder /\ [SyncNext]_allVars => QueueInOrder'
  BY StepOrder
<1>4. QueueInOrder => WritesInOrder
  BY DEF QueueInOrder
<1> QED BY <1>1, <1>2, <1>3, <1>4, PTL DEF SyncSpec

\* So every edit arrives where no sync is broken off: a device that goes on running and
\* whose requests are answered, alone or beside others that write between its syncs.
THEOREM EditsReachUnbroken ==
  Settings /\ ~LostAnswers /\ MaxResets = 0 => (SyncSpec => []EditsArrive)
<1> SUFFICES ASSUME Settings, ~LostAnswers, MaxResets = 0
             PROVE  SyncSpec => []EditsArrive
  OBVIOUS
<1>1. SyncSpec => []WritesInOrder
  BY SettingsGive, WritesKeepOrder
<1> QED BY <1>1, EditsReach, PTL
=============================================================================
