--------------------------- MODULE EventSyncProofs ---------------------------
(***************************************************************************)
(* Sending the outbox, for every value of the constants: what the sync     *)
(* does to the outbox is what Outbox allows, so every theorem about the    *)
(* outbox holds while it is being sent; its state is always of the right   *)
(* type; and what other devices wrote before a sync is kept by it.         *)
(***************************************************************************)
EXTENDS EventSync, OutboxProofs

-----------------------------------------------------------------------------
(* The inductive invariant.  That an answer of the server is one the       *)
(* outbox expects needs the whole way of a request: which op it was made   *)
(* from, that this op is still the one held, and under whose clientId each *)
(* row was created.  That what the screen shows of an event is a content   *)
(* needs every id in use, in the queue, on a screen or remembered, to name *)
(* an event.                                                               *)

\* The ids that name an event.
Ids == {id \in Int : Event(id) \in DOMAIN wanted}

\* A change of an event named by an id in I, made by one of the writes so far.
EventOp(op, last, I) == op.entity = "event" /\ op.write \in 1..last /\ op.target \in I

Queued == \A t \in DOMAIN ops : EventOp(ops[t], writes, Ids)

Taken ==
  /\ \A h, k \in held : h = k
  /\ \A h \in held : EventOp(h.op, writes, Ids) /\ h.ticket \in 1..writes

EventsShown == \A p \in shown : p[1] = "event" => p[2] \in Ids

Becomes ==
  /\ \A i \in DOMAIN remap : remap[i] \in DOMAIN origin
  /\ \A i \in DOMAIN eventRemap : eventRemap[i] \in DOMAIN origin

Origins ==
  /\ DOMAIN wanted \subseteq Int
  /\ \A id \in DOMAIN origin : id \in Nat \ {0} /\ origin[id] \in DOMAIN wanted

Clients ==
  /\ DOMAIN server \subseteq DOMAIN origin
  /\ \A id \in DOMAIN server :
       /\ server[id] \in [client : Nat, fields : Contents]
       /\ server[id].client = Nobody \/ id \in NewIds(server[id].client)

\* What a request r on the wire has to do with the op it was made from.
SentFor(r, h) ==
  /\ r.id = h.op.target
  /\ r.kind = "POST" => h.op.kind \in {"create", "update"}
  /\ r.kind = "PATCH" => h.op.kind = "update" /\ h.op.target > 0
  /\ r.kind = "DELETE" => h.op.kind = "delete"
  /\ r.row # NoId => r.kind = "POST" /\ r.row \in NewIds(h.ticket) /\ r.row \in DOMAIN origin
  /\ r.kind = "POST" /\ r.answer = "ok" => r.row # NoId

Requests == [kind : {"POST", "PATCH", "DELETE"}, id : Int, fields : Contents,
             answer : {"none", "ok", "missing"}, row : Nat]

OnWire ==
  /\ wire \subseteq Requests
  /\ wire # {} => held # {}
  /\ \A r \in wire, h \in held : SentFor(r, h)

Texts == DOMAIN text = 1..writes /\ \A w \in DOMAIN text : text[w] \in Contents

Copies(c) == \A id \in DOMAIN c : id > 0 /\ c[id] \in Contents

Wants ==
  /\ unwanted \subseteq DOMAIN wanted
  /\ \A e \in DOMAIN wanted : wanted[e] \in [Fields -> Values \cup {Untouched}]

Counted == others \in Nat /\ others <= MaxOthers

\* The outbox as the sync sees it, and the rest.
Outboxed == Queued /\ Taken /\ EventsShown /\ Becomes
Synced   == /\ Origins /\ Clients /\ OnWire /\ Texts /\ Copies(saved) /\ Copies(fresh)
            /\ Wants /\ Counted /\ syncing \in BOOLEAN

\* The edit form open.
Forms == form \subseteq [id : Int, fields : Contents] /\ (HeldForms \/ form = {})

SInv == IInv /\ Outboxed /\ Synced /\ Forms /\ writes <= MaxWrites

LEMMA SInvType == SInv => SyncTypeOK
BY DEF SInv, IInv, Synced, Forms, Origins, Clients, OnWire, Requests, Texts, Copies, Wants,
       Counted, SyncTypeOK

-----------------------------------------------------------------------------
(* Operators.                                                              *)

\* The start of every event is a content.
LEMMA FirstIsContent == [f \in Fields |-> First] \in Contents
BY OutboxAssumption, EventSyncAssumption DEF First, Contents, Values

LEMMA RowsCopies ==
  ASSUME Origins, Clients
  PROVE  Copies(Rows(server))
BY DEF Origins, Clients, Copies, Rows

LEMMA MergedIsContent ==
  ASSUME NEW base \in Contents \cup {NoBase}, NEW now \in Contents, NEW mine \in Contents
  PROVE  Merged(base, now, mine) \in Contents
BY DEF Merged, Contents

\* Every id in use resolves to one that names an event.
LEMMA ResolvesToEvent ==
  ASSUME IInv, Becomes, Origins, NEW id \in Ids
  PROVE  ResolveEvent(id) \in Ids
<1>1. \A i \in DOMAIN origin : i \in Ids
  BY DEF Origins, Ids, Event
<1> QED BY <1>1 DEF Becomes, ResolveEvent, Resolve, Ids

\* What names an event does so for good.
LEMMA IdsKept ==
  ASSUME DOMAIN wanted \subseteq DOMAIN wanted',
         \A id \in DOMAIN origin : id \in DOMAIN origin' /\ origin'[id] = origin[id],
         \A id \in DOMAIN origin' \ DOMAIN origin : origin'[id] \in DOMAIN wanted'
  PROVE  Ids \subseteq Ids'
BY DEF Ids, Event

\* The least free id for a clientId.
LEMMA NewIdIsNew ==
  ASSUME NEW client \in Nat, CanInsert(client)
  PROVE  NewId(client) \in NewIds(client) \ DOMAIN origin /\ NewId(client) \in Nat \ {0}
<1> DEFINE free == NewIds(client) \ DOMAIN origin
<1>1. free \in SUBSET Nat /\ free # {} /\ NewIds(client) \subseteq Nat \ {0}
  BY NewIdsPositive DEF CanInsert
<1>2. PICK id \in free : \A other \in free : id <= other
  BY <1>1, SmallestTicket
<1> QED BY <1>1, <1>2 DEF NewId

\* A row inserted stands for its event, and is under the clientId it came with.
LEMMA InsertKeeps ==
  ASSUME Origins, Clients, NEW client \in Nat \ {0}, NEW fields \in Contents,
         NEW event \in DOMAIN wanted', Insert(client, fields, event),
         DOMAIN wanted \subseteq DOMAIN wanted', DOMAIN wanted' \subseteq Int
  PROVE  /\ Origins' /\ Clients'
         /\ Ids \subseteq Ids' /\ DOMAIN origin \subseteq DOMAIN origin'
         /\ NewId(client) \in NewIds(client) /\ NewId(client) \in DOMAIN origin'
         /\ NewId(client) \in Nat \ {0}
<1> DEFINE id == NewId(client)
           row == [client |-> client, fields |-> fields]
<1>1. id \in NewIds(client) \ DOMAIN origin /\ id \in Nat \ {0}
  BY NewIdIsNew DEF Insert
<1>2. server' = Extended(server, id, row) /\ origin' = Extended(origin, id, event)
  BY DEF Insert
<1>3. row \in [client : Nat, fields : Contents] /\ row.client = client
  OBVIOUS
<1> HIDE DEF id, row
<1>4. /\ DOMAIN origin' = DOMAIN origin \cup {id} /\ origin'[id] = event
      /\ \A i \in DOMAIN origin : origin'[i] = origin[i]
  BY <1>1, <1>2 DEF Extended
<1>5. /\ DOMAIN server' = DOMAIN server \cup {id} /\ server'[id] = row
      /\ \A i \in DOMAIN server : i # id => server'[i] = server[i]
  BY <1>2 DEF Extended
<1>6. Origins'
  BY <1>1, <1>4 DEF Origins
<1>7. Clients'
  BY <1>1, <1>3, <1>4, <1>5 DEF Clients
<1>8. Ids \subseteq Ids'
  BY <1>4, IdsKept
<1> QED BY <1>1, <1>4, <1>6, <1>7, <1>8 DEF id

-----------------------------------------------------------------------------
(* What a step leaves of the outbox's part.                                *)

\* Steps that leave the outbox alone.
LEMMA OutboxLeft ==
  ASSUME Outboxed, UNCHANGED vars, Ids \subseteq Ids', DOMAIN origin \subseteq DOMAIN origin'
  PROVE  Outboxed'
BY DEF Outboxed, vars, Queued, Taken, EventsShown, Becomes, EventOp

\* Steps that leave the events alone.
LEMMA SameIds ==
  ASSUME UNCHANGED <<origin, wanted>>
  PROVE  Ids' = Ids
BY DEF Ids, Event

\* A write queues one op, about an event.
LEMMA WriteOutboxed ==
  ASSUME IInv, Outboxed, Ids \subseteq Ids', DOMAIN origin \subseteq DOMAIN origin',
         writes' = writes + 1, NEW target \in Ids', NEW given,
         AddsOne(ops, ops', writes + 1, "event", target, given),
         UNCHANGED <<remap, eventRemap, held>>,
         \A p \in shown' : p \in shown \/ p[2] = target
  PROVE  Outboxed'
<1>1. writes \in Nat
  BY DEF IInv, TypeOK
<1>2. \A op : EventOp(op, writes, Ids) => EventOp(op, writes', Ids')
  BY <1>1 DEF EventOp
<1>3. Queued'
  <2>1. ASSUME NEW i \in DOMAIN ops' PROVE EventOp(ops'[i], writes', Ids')
    <3>1. CASE i \in DOMAIN ops /\ SameThing(ops, ops', i) /\ ops'[i].write \in {ops[i].write, writes + 1}
      <4>1. EventOp(ops[i], writes, Ids)
        BY <3>1 DEF Outboxed, Queued
      <4> QED BY <1>1, <3>1, <4>1 DEF EventOp, SameThing
    <3>2. CASE ops'[i].entity = "event" /\ ops'[i].target = target /\ ops'[i].write = writes + 1
      BY <1>1, <3>2 DEF EventOp
    <3> QED BY <3>1, <3>2 DEF AddsOne
  <2> QED BY <2>1 DEF Queued
<1>4. Taken'
  BY <1>1, <1>2 DEF Outboxed, Taken, EventOp
<1>5. EventsShown' /\ Becomes'
  BY DEF Outboxed, EventsShown, Becomes
<1> QED BY <1>3, <1>4, <1>5 DEF Outboxed

\* An answer taken points what is left at an id the server gave.
LEMMA CompleteOutboxed ==
  ASSUME IInv, Outboxed, Origins, NEW h \in held, NEW id \in AnswerIds(h),
         id # NoId => id \in DOMAIN origin,
         NEW givenUp, Complete(h, id, givenUp), UNCHANGED <<origin, wanted>>
  PROVE  Outboxed'
<1> DEFINE left == Without(ops, {h.ticket})
           g == [t \in DOMAIN left |-> Rewritten(left[t], h.op.target, id, h.op.entity)]
<1>1. /\ \A t \in DOMAIN left : t \in DOMAIN ops /\ left[t] = ops[t] /\ left[t] \in Op
      /\ ops' = IF Rewrites(h, id) THEN g ELSE left
      /\ Remember(h, id) /\ writes' = writes /\ held' = {}
      /\ shown' = ShownAfter(h, id)
                    \cup (IF givenUp THEN {<<h.op.entity, h.op.target>>} ELSE {})
  BY DEF Without, IInv, TypeOK, Complete
<1>2. h.op \in Op /\ h.op.target \in Int /\ EventOp(h.op, writes, Ids)
  BY DEF IInv, TypeOK, Held, Op, Outboxed, Taken
<1>3. Ids' = Ids
  BY SameIds
<1>4. id # NoId => id \in Ids
  BY DEF Origins, Ids, Event
<1> HIDE DEF left
<1>5. \A t \in DOMAIN left : EventOp(left[t], writes, Ids)
  BY <1>1 DEF Outboxed, Queued
<1>6. Queued'
  <2>1. CASE ~Rewrites(h, id)
    BY <1>1, <1>3, <1>5, <2>1 DEF Queued
  <2>2. CASE Rewrites(h, id)
    <3>1. id \in Ids
      BY <1>4, <2>2 DEF Rewrites
    <3>2. \A t \in DOMAIN left :
            /\ g[t].entity = left[t].entity /\ g[t].write = left[t].write
            /\ g[t].target \in {left[t].target, id}
      BY <1>1, <1>2, RewrittenFields
    <3>3. DOMAIN g = DOMAIN left /\ ops' = g
      BY <1>1, <2>2
    <3> HIDE DEF g
    <3> QED BY <1>1, <1>3, <1>5, <3>1, <3>2, <3>3 DEF Queued, EventOp
  <2> QED BY <2>1, <2>2
<1>7. Taken'
  BY <1>1 DEF Taken
<1>8. EventsShown'
  BY <1>1, <1>2, <1>3, <1>4 DEF Outboxed, EventsShown, ShownAfter, EventOp
<1>9. Becomes'
  <2>1. CASE ~Rewrites(h, id)
    BY <1>1, <2>1 DEF Remember, Outboxed, Becomes
  <2>2. CASE Rewrites(h, id)
    <3>1. id \in DOMAIN origin
      BY <2>2 DEF Rewrites
    <3> QED BY <1>1, <2>2, <3>1 DEF Remember, Outboxed, Becomes, Extended
  <2> QED BY <2>1, <2>2
<1> QED BY <1>6, <1>7, <1>8, <1>9 DEF Outboxed

-----------------------------------------------------------------------------
(* The user's writes.                                                      *)

LEMMA CarriesTexts ==
  ASSUME Texts, writes \in Nat, writes' = writes + 1, NEW c \in Contents, Carries(c)
  PROVE  Texts'
<1>1. text' = Extended(text, writes + 1, c)
  BY DEF Carries
<1> QED BY <1>1 DEF Texts, Extended

LEMMA WireKept ==
  ASSUME OnWire, UNCHANGED <<wire, held>>, DOMAIN origin \subseteq DOMAIN origin'
  PROVE  OnWire'
BY DEF OnWire, SentFor

LEMMA GreatestTicket ==
  ASSUME NEW n \in Nat, NEW S \in SUBSET (1..n), S # {}
  PROVE  \E t \in S : \A u \in S : u <= t
<1> DEFINE D == {n - t : t \in S}
<1>1. D \in SUBSET Nat /\ D # {}
  <2>1. \A t \in S : t \in Nat /\ n - t \in Nat
    OBVIOUS
  <2> QED BY <2>1
<1>2. PICK d \in D : \A u \in D : d <= u
  BY <1>1, SmallestTicket
<1>3. PICK t \in S : d = n - t
  OBVIOUS
<1>4. \A u \in S : n - t <= n - u
  BY <1>2, <1>3
<1> HIDE DEF D
<1> QED BY <1>4

\* What the screen shows of an event is a content.
LEMMA ScreenIsContent ==
  ASSUME SInv, NEW target \in Ids
  PROVE  Screen(target) \in Contents
<1>1. writes \in Nat /\ DOMAIN ops \subseteq 1..writes
  BY DEF SInv, IInv, TypeOK, Queue
<1>2. CASE WaitingOn(target) # {}
  <2> DEFINE S == WaitingOn(target)
             t == CHOOSE t \in S : \A u \in S : u <= t
  <2>1. S \in SUBSET (1..writes) /\ S \subseteq DOMAIN ops
    BY <1>1 DEF WaitingOn
  <2>2. t \in S
    BY <1>1, <1>2, <2>1, GreatestTicket
  <2>3. Screen(target) = text[ops[t].write]
    BY <1>2 DEF Screen
  <2>4. ops[t].write \in 1..writes
    BY <2>1, <2>2 DEF SInv, Outboxed, Queued, EventOp
  <2> QED BY <2>3, <2>4 DEF SInv, Synced, Texts
<1>3. CASE WaitingOn(target) = {} /\ target \in DOMAIN saved
  BY <1>3 DEF Screen, SInv, Synced, Copies
<1>4. CASE WaitingOn(target) = {} /\ target \notin DOMAIN saved
  <2>1. wanted[Event(target)] \in [Fields -> Values \cup {Untouched}]
    BY DEF SInv, Synced, Wants, Ids
  <2>2. First \in Values
    BY OutboxAssumption, EventSyncAssumption DEF First, Values
  <2> QED BY <1>4, <2>1, <2>2 DEF Screen, Contents
<1> QED BY <1>2, <1>3, <1>4

\* The base of a change is one a change may have.
LEMMA ServerCopyGiven ==
  ASSUME SInv, NEW target
  PROVE  ServerCopy(target) \in GivenBases(target)
BY EventSyncAssumption DEF SInv, Synced, Copies, ServerCopy, GivenBases

LEMMA WrittenValues ==
  ASSUME SInv, writes < MaxWrites
  PROVE  writes + 1 \in Values /\ First \in Values
BY OutboxAssumption, EventSyncAssumption DEF SInv, IInv, TypeOK, Values, First

LEMMA CreateEventSynced ==
  ASSUME SInv, CreateEvent
  PROVE  Outboxed' /\ Synced' /\ [Next]_vars /\ writes' <= MaxWrites
<1> DEFINE c == [f \in Fields |-> writes + 1]
<1>1. /\ Create("event", NoRefs) /\ Carries(c)
      /\ wanted' = Extended(wanted, nextTempId, c)
      /\ UNCHANGED <<saved, syncing, fresh, wire, unwanted, others>>
  BY DEF CreateEvent
<1>2. \/ UNCHANGED <<server, origin>>
      \/ Insert(writes + 1, c, nextTempId)
  BY DEF CreateEvent
<1>3. /\ writes \in Nat /\ writes < MaxWrites /\ writes' = writes + 1
      /\ UNCHANGED <<remap, eventRemap, held>>
      /\ shown' = shown \cup {<<"event", nextTempId>>}
  BY <1>1 DEF Create, CountWrite, SInv, IInv, TypeOK
<1>4. c \in Contents
  BY <1>3, WrittenValues DEF Contents
<1> HIDE DEF c
<1>5. "event" \in AllEntities /\ NoRefs \in Bodies("event")
  BY DEF AllEntities, NoRefs, Bodies
<1>6. Next
  BY <1>1, <1>5, EventSyncAssumption DEF Next, UserStep
<1>7. nextTempId \in Int /\ nextTempId < 0
  BY IdsResolve DEF SInv
<1>8. /\ DOMAIN wanted' = DOMAIN wanted \cup {nextTempId} /\ wanted'[nextTempId] = c
      /\ \A e \in DOMAIN wanted : e # nextTempId => wanted'[e] = wanted[e]
  BY <1>1 DEF Extended
<1>9. /\ Origins' /\ Clients' /\ Ids \subseteq Ids' /\ DOMAIN origin \subseteq DOMAIN origin'
  <2>1. CASE UNCHANGED <<server, origin>>
    <3>1. Origins' /\ Clients'
      BY <1>7, <1>8, <2>1 DEF SInv, Synced, Origins, Clients
    <3> QED BY <1>8, <2>1, <3>1, IdsKept
  <2>2. CASE Insert(writes + 1, c, nextTempId)
    <3>1. /\ DOMAIN wanted \subseteq DOMAIN wanted' /\ DOMAIN wanted' \subseteq Int
          /\ nextTempId \in DOMAIN wanted' /\ writes + 1 \in Nat \ {0}
      BY <1>3, <1>7, <1>8 DEF SInv, Synced, Origins
    <3>2. Origins /\ Clients
      BY DEF SInv, Synced
    <3> QED BY <1>4, <2>2, <3>1, <3>2, InsertKeeps
  <2> QED BY <1>2, <2>1, <2>2
<1>10. nextTempId \in Ids'
  BY <1>7, <1>8, <1>9 DEF Ids, Event, Origins
<1>11. Outboxed'
  <2>1. AddsOne(ops, ops', writes + 1, "event", nextTempId, NoBase)
    BY <1>1, <1>5, CreateAdds DEF SInv
  <2> QED BY <1>3, <1>9, <1>10, <2>1, WriteOutboxed DEF SInv
<1>12. Texts'
  BY <1>1, <1>3, <1>4, CarriesTexts DEF SInv, Synced
<1>13. OnWire'
  BY <1>1, <1>3, <1>9, WireKept DEF SInv, Synced
<1>14. Wants'
  BY <1>1, <1>4, <1>8 DEF SInv, Synced, Wants, Contents
<1>15. Copies(saved)' /\ Copies(fresh)' /\ Counted' /\ (syncing \in BOOLEAN)'
  BY <1>1 DEF SInv, Synced, Counted, Copies
<1> QED BY <1>3, <1>6, <1>9, <1>11, <1>12, <1>13, <1>14, <1>15, OutboxAssumption DEF Synced

\* What the writes to an event on a screen have in common.
LEMMA ChangeSynced ==
  ASSUME SInv, NEW id \in ScreenIds("event"), NEW c \in Contents, Carries(c),
         \/ Update("event", id, NoRefs, ServerCopy(ResolveEvent(id)))
         \/ Delete("event", id, NoRefs, ServerCopy(ResolveEvent(id))),
         UNCHANGED <<server, origin, saved, syncing, fresh, wire, others>>,
         DOMAIN wanted' = DOMAIN wanted, Wants'
  PROVE  Outboxed' /\ Synced' /\ [Next]_vars /\ writes' <= MaxWrites
<1> DEFINE target == ResolveEvent(id)
           p == <<"event", id>>
<1>1. p \in shown /\ p[1] = "event" /\ p[2] = id /\ Target(p[1], p[2]) = target
  BY DEF ScreenIds, Target, SInv, IInv, TypeOK
<1>2. ServerCopy(target) \in GivenBases(target)
  BY ServerCopyGiven
<1>3. "event" \in AllEntities /\ NoRefs \in Bodies("event") /\ NoRefs \in Noted("event", id)
  BY DEF AllEntities, NoRefs, Bodies, Noted
<1>4. /\ writes \in Nat /\ writes < MaxWrites /\ writes' = writes + 1
      /\ UNCHANGED <<remap, eventRemap, held>> /\ shown' \subseteq shown
  BY DEF Update, Delete, CountWrite, SInv, IInv, TypeOK
<1>5. target \in Ids
  <2>1. id \in Ids
    BY <1>1 DEF SInv, Outboxed, EventsShown
  <2> QED BY <2>1, ResolvesToEvent DEF SInv, Outboxed, Synced
<1>6. Ids' = Ids
  BY DEF Ids, Event
<1> HIDE DEF target, p
<1>7. AddsOne(ops, ops', writes + 1, "event", target,
              EarliestBase("event", target, ServerCopy(target)))
  <2>1. CASE Update("event", id, NoRefs, ServerCopy(target))
    <3>1. Update(p[1], p[2], NoRefs, ServerCopy(target))
      BY <1>1, <2>1
    <3> QED BY <1>1, <1>2, <1>3, <3>1, UpdateAdds DEF SInv
  <2>2. CASE Delete("event", id, NoRefs, ServerCopy(target))
    <3>1. Delete(p[1], p[2], NoRefs, ServerCopy(target))
      BY <1>1, <2>2
    <3> QED BY <1>1, <1>2, <1>3, <3>1, DeleteAdds DEF SInv
  <2> QED BY <2>1, <2>2 DEF target
<1>8. Next
  <2>1. p[1] \in Entities /\ ServerCopy(target) \in GivenBases(Target(p[1], p[2]))
    BY <1>1, <1>2, EventSyncAssumption
  <2>2. \/ \E body \in Bodies(p[1]) : Update(p[1], p[2], body, ServerCopy(target))
        \/ \E body \in Noted(p[1], p[2]) : Delete(p[1], p[2], body, ServerCopy(target))
    BY <1>1, <1>3 DEF target
  <2> QED BY <1>1, <2>1, <2>2 DEF Next, UserStep
<1>9. Outboxed'
  BY <1>4, <1>5, <1>6, <1>7, WriteOutboxed DEF SInv
<1>10. Texts'
  BY <1>4, CarriesTexts DEF SInv, Synced
<1>11. OnWire'
  BY <1>4, WireKept DEF SInv, Synced
<1>12. Origins' /\ Clients' /\ Copies(saved)' /\ Copies(fresh)' /\ Counted' /\ (syncing \in BOOLEAN)'
  BY DEF SInv, Synced, Origins, Clients, Counted, Copies
<1> QED BY <1>4, <1>8, <1>9, <1>10, <1>11, <1>12, OutboxAssumption DEF Synced

LEMMA UpdateEventSynced ==
  ASSUME SInv, NEW id \in ScreenIds("event"), UpdateEvent(id)
  PROVE  Outboxed' /\ Synced' /\ [Next]_vars /\ writes' <= MaxWrites
<1> DEFINE target == ResolveEvent(id)
<1>1. PICK changed \in (SUBSET Fields) \ {{}},
           value \in {writes + 1} \cup (IF Reverts THEN {First} ELSE {}), filled \in FormOf(id) :
        /\ Update("event", id, NoRefs, ServerCopy(target))
        /\ Carries([f \in Fields |-> IF f \in changed THEN value ELSE filled[f]])
        /\ wanted' = [wanted EXCEPT ![Event(target)] =
                       [f \in Fields |-> IF f \in changed THEN value
                                         ELSE IF Event(target) \in unwanted THEN Untouched
                                         ELSE @[f]]]
        /\ unwanted' = unwanted \ {Event(target)}
        /\ UNCHANGED <<server, origin, saved, syncing, fresh, wire, others>>
  BY DEF UpdateEvent
<1>2. writes < MaxWrites
  BY <1>1 DEF Update, CountWrite
<1>3. value \in Values
  BY <1>2, WrittenValues
<1>4. target \in Ids
  <2>1. id \in Ids
    BY DEF SInv, Outboxed, EventsShown, ScreenIds
  <2> QED BY <2>1, ResolvesToEvent DEF SInv, Outboxed, Synced
<1>5. filled \in Contents
  BY <1>4, ScreenIsContent DEF FormOf, SInv, Forms
<1> HIDE DEF target
<1> DEFINE c == [f \in Fields |-> IF f \in changed THEN value ELSE filled[f]]
<1>6. c \in Contents
  BY <1>3, <1>5 DEF Contents
<1>7. Wants' /\ DOMAIN wanted' = DOMAIN wanted
  <2> DEFINE w == [f \in Fields |-> IF f \in changed THEN value
                                    ELSE IF Event(target) \in unwanted THEN Untouched
                                    ELSE wanted[Event(target)][f]]
  <2>1. Event(target) \in DOMAIN wanted
    BY <1>4 DEF Ids
  <2>2. w \in [Fields -> Values \cup {Untouched}]
    BY <1>3, <2>1 DEF SInv, Synced, Wants
  <2>3. wanted' = [wanted EXCEPT ![Event(target)] = w]
    BY <1>1
  <2> HIDE DEF w
  <2> QED BY <1>1, <2>2, <2>3 DEF SInv, Synced, Wants
<1> HIDE DEF c
<1>8. Carries(c) /\ Update("event", id, NoRefs, ServerCopy(ResolveEvent(id)))
  BY <1>1 DEF c, target
<1> QED BY <1>1, <1>6, <1>7, <1>8, ChangeSynced

LEMMA DeleteEventSynced ==
  ASSUME SInv, NEW id \in ScreenIds("event"), DeleteEvent(id)
  PROVE  Outboxed' /\ Synced' /\ [Next]_vars /\ writes' <= MaxWrites
<1>1. ResolveEvent(id) \in Ids
  <2>1. id \in Ids
    BY DEF SInv, Outboxed, EventsShown, ScreenIds
  <2> QED BY <2>1, ResolvesToEvent DEF SInv, Outboxed, Synced
<1>2. Wants' /\ DOMAIN wanted' = DOMAIN wanted
  BY <1>1 DEF DeleteEvent, SInv, Synced, Wants, Ids
<1> QED BY <1>2, FirstIsContent, ChangeSynced DEF DeleteEvent

-----------------------------------------------------------------------------
(* The engine and the server.                                              *)

\* A request made from the op held.
LEMMA RequestSent ==
  ASSUME SInv, NEW h \in held, NEW kind \in {"POST", "PATCH", "DELETE"}, NEW fields \in Contents,
         kind = "POST" => h.op.kind \in {"create", "update"},
         kind = "PATCH" => h.op.kind = "update" /\ h.op.target > 0,
         kind = "DELETE" => h.op.kind = "delete",
         wire' = {Request(kind, h.op.target, fields)}, UNCHANGED <<held, origin>>
  PROVE  OnWire'
<1> DEFINE r == Request(kind, h.op.target, fields)
<1>1. h.op.target \in Int /\ \A k \in held : k = h
  BY DEF SInv, IInv, TypeOK, Held, Op, Outboxed, Taken
<1>2. r \in Requests
  BY <1>1 DEF Request, Requests, NoId
<1>3. /\ r.id = h.op.target /\ r.kind = kind /\ r.row = NoId /\ r.answer = "none"
  BY DEF Request
<1> HIDE DEF r
<1>4. SentFor(r, h)'
  BY <1>3 DEF SentFor
<1> QED BY <1>1, <1>2, <1>4 DEF OnWire, r

\* An answer to the request on the wire.
LEMMA AnswerSent ==
  ASSUME SInv, NEW r \in wire, NEW h \in held, NEW answer \in {"ok", "missing"}, NEW row \in Nat,
         row # NoId => r.kind = "POST" /\ row \in NewIds(h.ticket) /\ row \in DOMAIN origin',
         r.kind = "POST" /\ answer = "ok" => row # NoId,
         Answered(r, answer, row), UNCHANGED held, DOMAIN origin \subseteq DOMAIN origin'
  PROVE  OnWire'
<1> DEFINE s == [r EXCEPT !.answer = answer, !.row = row]
<1>1. r \in Requests /\ SentFor(r, h) /\ \A k \in held : k = h
  BY DEF SInv, Synced, OnWire, Outboxed, Taken
<1>2. s \in Requests
  BY <1>1 DEF Requests
<1>3. s.kind = r.kind /\ s.id = r.id /\ s.answer = answer /\ s.row = row
  BY <1>1 DEF Requests
<1>4. wire' = {s}
  BY DEF Answered
<1> HIDE DEF s
<1>5. SentFor(s, h)'
  BY <1>1, <1>3 DEF SentFor
<1> QED BY <1>1, <1>2, <1>4, <1>5 DEF OnWire

\* Steps that leave the outbox and the user's wishes alone.
LEMMA EngineOnly ==
  ASSUME SInv, UNCHANGED <<vars, text, wanted, unwanted, others>>,
         Origins', Clients', OnWire', Copies(saved)', Copies(fresh)', (syncing \in BOOLEAN)',
         Ids \subseteq Ids', DOMAIN origin \subseteq DOMAIN origin'
  PROVE  Outboxed' /\ Synced' /\ [Next]_vars /\ writes' <= MaxWrites
<1>1. Outboxed'
  BY OutboxLeft DEF SInv
<1>2. Texts' /\ Wants' /\ Counted'
  BY DEF SInv, Synced, Texts, Wants, Counted, vars
<1> QED BY <1>1, <1>2 DEF SInv, Synced, vars

LEMMA ReadServerSynced ==
  ASSUME SInv, ReadServer \/ EndSync
  PROVE  Outboxed' /\ Synced' /\ [Next]_vars /\ writes' <= MaxWrites
<1>1. /\ UNCHANGED <<vars, text, server, origin, wire, wanted, unwanted, others>>
      /\ syncing' \in BOOLEAN
      /\ fresh' \in {Rows(server), Nothing} /\ saved' \in {Rows(server), saved}
  BY DEF ReadServer, EndSync, Saves
<1>2. Copies(Rows(server)) /\ Copies(saved) /\ Copies(Nothing)
  BY RowsCopies DEF SInv, Synced, Copies, Nothing
<1>3. Copies(saved)' /\ Copies(fresh)'
  BY <1>1, <1>2 DEF Copies
<1>4. Origins' /\ Clients' /\ OnWire'
  BY <1>1, WireKept DEF SInv, Synced, Origins, Clients, vars
<1>5. Ids' = Ids
  BY <1>1, SameIds
<1> QED BY <1>1, <1>3, <1>4, <1>5, EngineOnly

LEMMA SendWriteSynced ==
  ASSUME SInv, SendWrite
  PROVE  Outboxed' /\ Synced' /\ [Next]_vars /\ writes' <= MaxWrites
<1>1. PICK h \in held :
        /\ h.op.kind \in {"create", "update"}
        /\ wire' = IF IsCreation(h.op) \/ Missing(h.op.target)
                   THEN {Request("POST", h.op.target, text[h.op.write])}
                   ELSE {Request("PATCH", h.op.target,
                                 Merged(h.op.base, fresh[h.op.target], text[h.op.write]))}
  BY DEF SendWrite
<1>2. UNCHANGED <<vars, text, server, origin, saved, syncing, fresh, wanted, unwanted, others>>
  BY DEF SendWrite
<1>3. text[h.op.write] \in Contents
  BY DEF SInv, Outboxed, Taken, EventOp, Synced, Texts
<1>4. OnWire'
  <2>1. CASE IsCreation(h.op) \/ Missing(h.op.target)
    <3>1. wire' = {Request("POST", h.op.target, text[h.op.write])}
      BY <1>1, <2>1
    <3> QED BY <1>1, <1>2, <1>3, <3>1, RequestSent DEF vars
  <2>2. CASE ~IsCreation(h.op) /\ ~Missing(h.op.target)
    <3>1. h.op.target > 0 /\ fresh[h.op.target] \in Contents
      BY <2>2 DEF Missing, SInv, Synced, Copies
    <3>2. h.op.base \in Contents \cup {NoBase}
      BY EventSyncAssumption DEF SInv, IInv, TypeOK, Held, Op
    <3> DEFINE m == Merged(h.op.base, fresh[h.op.target], text[h.op.write])
    <3>3. m \in Contents
      BY <1>3, <3>1, <3>2, MergedIsContent
    <3>4. wire' = {Request("PATCH", h.op.target, m)} /\ h.op.kind = "update"
      BY <1>1, <2>2 DEF IsCreation
    <3> HIDE DEF m
    <3> QED BY <1>2, <3>1, <3>3, <3>4, RequestSent DEF vars
  <2> QED BY <2>1, <2>2
<1>5. Origins' /\ Clients' /\ Copies(saved)' /\ Copies(fresh)' /\ (syncing \in BOOLEAN)'
  BY <1>2 DEF SInv, Synced, Origins, Clients, Copies
<1>6. Ids' = Ids
  BY <1>2, SameIds
<1> QED BY <1>2, <1>4, <1>5, <1>6, EngineOnly

LEMMA SendDeletionSynced ==
  ASSUME SInv, SendDeletion
  PROVE  Outboxed' /\ Synced' /\ [Next]_vars /\ writes' <= MaxWrites
<1>1. PICK h \in held :
        /\ h.op.kind = "delete" /\ ~Missing(h.op.target)
        /\ wire' = {Request("DELETE", h.op.target, fresh[h.op.target])}
  BY DEF SendDeletion
<1>2. UNCHANGED <<vars, text, server, origin, saved, syncing, fresh, wanted, unwanted, others>>
  BY DEF SendDeletion
<1>3. fresh[h.op.target] \in Contents
  BY <1>1 DEF Missing, SInv, Synced, Copies
<1>4. OnWire'
  BY <1>1, <1>2, <1>3, RequestSent DEF vars
<1>5. Origins' /\ Clients' /\ Copies(saved)' /\ Copies(fresh)' /\ (syncing \in BOOLEAN)'
  BY <1>2 DEF SInv, Synced, Origins, Clients, Copies
<1>6. Ids' = Ids
  BY <1>2, SameIds
<1> QED BY <1>2, <1>4, <1>5, <1>6, EngineOnly

LEMMA CreateAgainSynced ==
  ASSUME SInv, CreateAgain
  PROVE  Outboxed' /\ Synced' /\ [Next]_vars /\ writes' <= MaxWrites
<1>1. PICK r \in wire, h \in held :
        r.kind = "PATCH" /\ wire' = {Request("POST", r.id, text[h.op.write])}
  BY DEF CreateAgain
<1>2. UNCHANGED <<vars, text, server, origin, saved, syncing, fresh, wanted, unwanted, others>>
  BY DEF CreateAgain
<1>3. text[h.op.write] \in Contents
  BY DEF SInv, Outboxed, Taken, EventOp, Synced, Texts
<1>4. r.id = h.op.target /\ h.op.kind = "update"
  BY <1>1 DEF SInv, Synced, OnWire, SentFor
<1>5. OnWire'
  <2>1. wire' = {Request("POST", h.op.target, text[h.op.write])}
    BY <1>1, <1>4
  <2> QED BY <1>2, <1>3, <1>4, <2>1, RequestSent DEF vars
<1>6. Origins' /\ Clients' /\ Copies(saved)' /\ Copies(fresh)' /\ (syncing \in BOOLEAN)'
  BY <1>2 DEF SInv, Synced, Origins, Clients, Copies
<1>7. Ids' = Ids
  BY <1>2, SameIds
<1> QED BY <1>2, <1>5, <1>6, <1>7, EngineOnly

LEMMA ServePostSynced ==
  ASSUME SInv, ServePost
  PROVE  Outboxed' /\ Synced' /\ [Next]_vars /\ writes' <= MaxWrites
<1>1. PICK r \in wire, h \in held :
        /\ r.kind = "POST" /\ r.answer = "none"
        /\ \/ /\ Insert(h.ticket, r.fields, Event(r.id))
              /\ Answered(r, "ok", NewId(h.ticket))
           \/ \E id \in CreatedUnder(h.ticket) :
                /\ Answered(r, "ok", id)
                /\ UNCHANGED <<server, origin>>
  BY DEF ServePost
<1>2. UNCHANGED <<vars, text, saved, syncing, fresh, wanted, unwanted, others>>
  BY DEF ServePost
<1>3. /\ r \in Requests /\ r.fields \in Contents /\ SentFor(r, h)
      /\ h.ticket \in Nat \ {0} /\ h.op.target \in Ids /\ held' = held
  BY <1>2 DEF SInv, Synced, OnWire, Requests, Outboxed, Taken, EventOp, vars
<1>4. Copies(saved)' /\ Copies(fresh)' /\ (syncing \in BOOLEAN)'
  BY <1>2 DEF SInv, Synced, Copies
<1>5. ASSUME Insert(h.ticket, r.fields, Event(r.id)), Answered(r, "ok", NewId(h.ticket))
      PROVE  /\ Origins' /\ Clients' /\ OnWire'
             /\ Ids \subseteq Ids' /\ DOMAIN origin \subseteq DOMAIN origin'
  <2>1. Event(r.id) \in DOMAIN wanted'
    BY <1>2, <1>3 DEF SentFor, Ids
  <2>2. Origins /\ Clients /\ DOMAIN wanted' = DOMAIN wanted /\ DOMAIN wanted' \subseteq Int
    BY <1>2 DEF SInv, Synced, Origins
  <2>3. /\ Origins' /\ Clients' /\ Ids \subseteq Ids' /\ DOMAIN origin \subseteq DOMAIN origin'
        /\ NewId(h.ticket) \in NewIds(h.ticket) /\ NewId(h.ticket) \in DOMAIN origin'
        /\ NewId(h.ticket) \in Nat \ {0}
    BY <1>3, <1>5, <2>1, <2>2, InsertKeeps
  <2>4. OnWire'
    BY <1>1, <1>3, <1>5, <2>3, AnswerSent DEF NoId
  <2> QED BY <2>3, <2>4
<1>6. ASSUME NEW id \in CreatedUnder(h.ticket), Answered(r, "ok", id), UNCHANGED <<server, origin>>
      PROVE  /\ Origins' /\ Clients' /\ OnWire'
             /\ Ids \subseteq Ids' /\ DOMAIN origin \subseteq DOMAIN origin'
  <2>1. id \in DOMAIN origin /\ id \in NewIds(h.ticket) /\ id \in Nat \ {0}
    BY <1>3 DEF CreatedUnder, SInv, Synced, Clients, Origins, Nobody
  <2>2. OnWire'
    BY <1>1, <1>3, <1>6, <2>1, AnswerSent DEF NoId
  <2>3. Origins' /\ Clients'
    BY <1>2, <1>6 DEF SInv, Synced, Origins, Clients
  <2> QED BY <1>2, <1>6, <2>2, <2>3, SameIds
<1> QED BY <1>1, <1>2, <1>4, <1>5, <1>6, EngineOnly

LEMMA ServeChangeSynced ==
  ASSUME SInv, ServeChange
  PROVE  Outboxed' /\ Synced' /\ [Next]_vars /\ writes' <= MaxWrites
<1>1. PICK r \in wire :
        /\ r.kind \in {"PATCH", "DELETE"} /\ r.answer = "none"
        /\ \/ Answered(r, "missing", NoId) /\ UNCHANGED server
           \/ Answered(r, "ok", NoId) /\ server' = [server EXCEPT ![r.id].fields = r.fields]
           \/ Answered(r, "ok", NoId) /\ server' = Without(server, {r.id})
  BY DEF ServeChange
<1>2. UNCHANGED <<vars, text, origin, saved, syncing, fresh, wanted, unwanted, others>>
  BY DEF ServeChange
<1>3. PICK h \in held : TRUE
  BY <1>1 DEF SInv, Synced, OnWire
<1>4. OnWire'
  BY <1>1, <1>2, <1>3, AnswerSent DEF NoId, vars
<1>5. r.fields \in Contents
  BY DEF SInv, Synced, OnWire, Requests
<1>6. Clients'
  BY <1>1, <1>2, <1>5 DEF SInv, Synced, Clients, Without
<1>7. Origins' /\ Copies(saved)' /\ Copies(fresh)' /\ (syncing \in BOOLEAN)'
  BY <1>2 DEF SInv, Synced, Origins, Copies
<1>8. Ids' = Ids
  BY <1>2, SameIds
<1> QED BY <1>2, <1>4, <1>6, <1>7, <1>8, EngineOnly

LEMMA TakeNextSynced ==
  ASSUME SInv, TakeNext
  PROVE  Outboxed' /\ Synced' /\ [Next]_vars /\ writes' <= MaxWrites
<1>1. /\ held = {} /\ UNCHANGED <<ops, writes, nextTempId, remap, eventRemap, shown, resets>>
      /\ \E t \in DOMAIN ops : held' = {[ticket |-> t, op |-> ops[t]]}
  BY DEF TakeNext, Take
<1>2. UNCHANGED syncVars
  BY DEF TakeNext
<1>3. PICK t \in DOMAIN ops : held' = {[ticket |-> t, op |-> ops[t]]}
  BY <1>1
<1>4. t \in 1..writes /\ EventOp(ops[t], writes, Ids)
  BY DEF SInv, IInv, Queue, Outboxed, Queued
<1>5. Ids' = Ids /\ wire = {}
  BY <1>1, <1>2, SameIds DEF syncVars, SInv, Synced, OnWire
<1>6. Taken'
  <2> DEFINE h == [ticket |-> t, op |-> ops[t]]
  <2>1. EventOp(h.op, writes, Ids) /\ h.ticket \in 1..writes
    BY <1>4
  <2>2. held' = {h} /\ writes' = writes /\ Ids' = Ids
    BY <1>1, <1>3, <1>5
  <2> HIDE DEF h
  <2> QED BY <2>1, <2>2 DEF Taken
<1>7. Queued' /\ EventsShown' /\ Becomes'
  BY <1>1, <1>2, <1>5 DEF SInv, Outboxed, Queued, EventsShown, Becomes, syncVars
<1>8. Synced'
  BY <1>1, <1>2, <1>5
     DEF SInv, Synced, Origins, Clients, OnWire, Texts, Copies, Wants, Counted, syncVars
<1> QED BY <1>1, <1>6, <1>7, <1>8 DEF SInv, Outboxed, TakeNext, Next, EngineStep

\* Steps that let go of the op held.
LEMMA LetGo ==
  ASSUME SInv, UNCHANGED <<text, server, origin, wanted, unwanted, others, writes>>,
         wire' = {}, Copies(saved)', Copies(fresh)', (syncing \in BOOLEAN)'
  PROVE  Synced'
BY DEF SInv, Synced, Origins, Clients, OnWire, Texts, Wants, Counted

LEMMA SettleDeletionSynced ==
  ASSUME SInv, SettleDeletion
  PROVE  Outboxed' /\ Synced' /\ [Next]_vars /\ writes' <= MaxWrites
<1>1. PICK h \in held, givenUp \in BOOLEAN : h.op.kind = "delete" /\ Complete(h, NoId, givenUp)
  BY DEF SettleDeletion
<1>2. wire = {} /\ UNCHANGED syncVars /\ writes' = writes
  BY <1>1 DEF SettleDeletion, Complete
<1>3. NoId \in AnswerIds(h)
  BY <1>1 DEF AnswerIds
<1>4. Next
  BY <1>1, <1>3 DEF Next, EngineStep, Completes
<1>5. Outboxed'
  BY <1>1, <1>2, <1>3, CompleteOutboxed DEF SInv, Synced, syncVars
<1>6. Copies(saved)' /\ Copies(fresh)' /\ (syncing \in BOOLEAN)'
  BY <1>2 DEF SInv, Synced, Copies, syncVars
<1>7. Synced'
  BY <1>2, <1>6, LetGo DEF syncVars
<1> QED BY <1>2, <1>4, <1>5, <1>7 DEF SInv

LEMMA TakeAnswerSynced ==
  ASSUME SInv, TakeAnswer
  PROVE  Outboxed' /\ Synced' /\ [Next]_vars /\ writes' <= MaxWrites
<1>1. PICK r \in wire, h \in held :
        /\ r.answer = "ok" \/ (r.answer = "missing" /\ r.kind = "DELETE")
        /\ Complete(h, r.row, FALSE)
        /\ fresh' = CASE r.kind = "POST"   -> Extended(fresh, r.row, r.fields)
                      [] r.kind = "PATCH"  -> Extended(fresh, r.id, r.fields)
                      [] r.kind = "DELETE" -> Without(fresh, {r.id})
  BY DEF TakeAnswer
<1>2. wire' = {} /\ UNCHANGED <<text, server, origin, saved, syncing, wanted, unwanted, others>>
  BY DEF TakeAnswer
<1>3. r \in Requests /\ SentFor(r, h) /\ h.op.entity = "event"
  BY DEF SInv, Synced, OnWire, Outboxed, Taken, EventOp
<1>4. r.row \in AnswerIds(h)
  <2>1. CASE r.kind = "POST"
    <3>1. r.row \in NewIds(h.ticket) /\ h.op.kind \in {"create", "update"}
      BY <1>1, <1>3, <2>1 DEF SentFor
    <3> QED BY <1>3, <3>1 DEF AnswerIds
  <2>2. CASE r.kind = "PATCH"
    BY <1>3, <2>2 DEF SentFor, AnswerIds, NoId
  <2>3. CASE r.kind = "DELETE"
    BY <1>3, <2>3 DEF SentFor, AnswerIds, NoId
  <2> QED BY <1>3, <2>1, <2>2, <2>3 DEF Requests
<1>5. Next
  BY <1>1, <1>4 DEF Next, EngineStep, Completes
<1>6. Outboxed'
  <2>1. r.row # NoId => r.row \in DOMAIN origin
    BY <1>3 DEF SentFor
  <2> QED BY <1>1, <1>2, <1>4, <2>1, CompleteOutboxed DEF SInv, Synced
<1>7. Copies(fresh)'
  <2>1. r.fields \in Contents /\ Copies(fresh)
    BY <1>3 DEF Requests, SInv, Synced
  <2>2. CASE r.kind = "POST"
    <3>1. r.row > 0
      BY <1>1, <1>3, <2>2 DEF SentFor, Requests, NoId
    <3> QED BY <1>1, <2>1, <2>2, <3>1 DEF Copies, Extended
  <2>3. CASE r.kind = "PATCH"
    <3>1. r.id > 0
      BY <1>3, <2>3 DEF SentFor
    <3> QED BY <1>1, <2>1, <2>3, <3>1 DEF Copies, Extended
  <2>4. CASE r.kind = "DELETE"
    BY <1>1, <2>1, <2>4 DEF Copies, Without
  <2> QED BY <1>3, <2>2, <2>3, <2>4 DEF Requests
<1>8. writes' = writes
  BY <1>1 DEF Complete
<1>9. Synced'
  <2>1. Copies(saved)' /\ (syncing \in BOOLEAN)'
    BY <1>2 DEF SInv, Synced, Copies
  <2> QED BY <1>2, <1>7, <1>8, <2>1, LetGo
<1> QED BY <1>5, <1>6, <1>8, <1>9 DEF SInv

LEMMA GiveUpSynced ==
  ASSUME SInv, GiveUp
  PROVE  Outboxed' /\ Synced' /\ [Next]_vars /\ writes' <= MaxWrites
<1>1. /\ Abort /\ held' = {} /\ UNCHANGED <<ops, writes, remap, eventRemap, shown>>
      /\ fresh' = Nothing /\ wire' = {} /\ syncing' = FALSE
      /\ saved' \in {Rows(server), saved}
      /\ UNCHANGED <<text, server, origin, wanted, unwanted, others>>
  BY DEF GiveUp, Abort, Saves
<1>2. Copies(Rows(server)) /\ Copies(saved) /\ Copies(Nothing)
  BY RowsCopies DEF SInv, Synced, Copies, Nothing
<1>3. Copies(saved)' /\ Copies(fresh)'
  BY <1>1, <1>2 DEF Copies
<1>4. Synced'
  BY <1>1, <1>3, LetGo
<1>5. Ids' = Ids
  BY <1>1, SameIds
<1>6. Outboxed'
  BY <1>1, <1>5 DEF SInv, Outboxed, Queued, Taken, EventsShown, Becomes
<1> QED BY <1>1, <1>4, <1>6 DEF SInv, Next, EngineStep

LEMMA KilledSynced ==
  ASSUME SInv, Killed
  PROVE  Outboxed' /\ Synced' /\ [Next]_vars /\ writes' <= MaxWrites
<1> DEFINE copy == {p \in shown : p[2] \in DOMAIN saved}
<1>1. /\ Restart(copy) /\ held' = {} /\ UNCHANGED <<ops, writes>>
      /\ DOMAIN remap' = {} /\ DOMAIN eventRemap' = {} /\ shown' = Reread(copy, ops)
      /\ fresh' = Nothing /\ wire' = {} /\ syncing' = FALSE
      /\ UNCHANGED <<text, server, origin, saved, wanted, unwanted, others>>
  BY DEF Killed, Restart
<1>2. copy \in SavedCopies
  BY DEF SavedCopies, SInv, Synced, Copies
<1>3. copy \subseteq shown
  OBVIOUS
<1> HIDE DEF copy
<1>4. Next
  BY <1>1, <1>2 DEF Next, LifeStep
<1>5. Copies(saved)' /\ Copies(fresh)'
  BY <1>1 DEF SInv, Synced, Copies, Nothing
<1>6. Synced'
  BY <1>1, <1>5, LetGo
<1>7. Ids' = Ids
  BY <1>1, SameIds
<1>8. EventsShown'
  <2>1. \A p \in shown' : p \in shown \/ \E c \in DOMAIN ops : p[2] = ops[c].target
    BY <1>1, <1>3 DEF Reread, Creations
  <2> QED BY <1>7, <2>1 DEF SInv, Outboxed, Queued, EventOp, EventsShown
<1>9. Queued' /\ Taken' /\ Becomes'
  BY <1>1, <1>7 DEF SInv, Outboxed, Queued, Taken, Becomes
<1> QED BY <1>1, <1>4, <1>6, <1>8, <1>9 DEF SInv, Outboxed

LEMMA OtherSynced ==
  ASSUME SInv, NEW id \in DOMAIN server, OtherDelete(id) \/ \E f \in Fields : OtherEdit(id, f)
  PROVE  Outboxed' /\ Synced' /\ [Next]_vars /\ writes' <= MaxWrites
<1>1. /\ others < MaxOthers /\ others' = others + 1
      /\ UNCHANGED <<vars, text, origin, saved, syncing, fresh, wire, unwanted>>
  BY DEF OtherDelete, OtherEdit, CountOther
<1>2. Event(id) \in DOMAIN wanted
  BY DEF SInv, Synced, Clients, Origins, Event
<1>3. ASSUME OtherDelete(id)
      PROVE  Clients' /\ DOMAIN wanted' = DOMAIN wanted /\ Wants'
  <2>1. /\ server' = Without(server, {id})
        /\ wanted' \in {wanted, [wanted EXCEPT ![Event(id)] = [f \in Fields |-> Untouched]]}
    BY <1>3 DEF OtherDelete
  <2>2. Clients'
    BY <1>1, <2>1 DEF SInv, Synced, Clients, Without
  <2>3. DOMAIN wanted' = DOMAIN wanted /\ Wants'
    BY <1>1, <2>1 DEF SInv, Synced, Wants
  <2> QED BY <2>2, <2>3
<1>4. ASSUME NEW f \in Fields, OtherEdit(id, f)
      PROVE  Clients' /\ DOMAIN wanted' = DOMAIN wanted /\ Wants'
  <2> DEFINE v == MaxWrites + others + 1
  <2>1. v \in Values
    BY <1>1, OutboxAssumption, EventSyncAssumption DEF Values, First, SInv, Synced, Counted
  <2>2. /\ server' = [server EXCEPT ![id].fields[f] = v]
        /\ wanted' = [wanted EXCEPT ![Event(id)][f] = IF Contends(id, f) THEN @ ELSE Untouched]
    BY <1>4 DEF OtherEdit
  <2> HIDE DEF v
  <2>3. Clients'
    BY <1>1, <2>1, <2>2 DEF SInv, Synced, Clients, Contents
  <2>4. DOMAIN wanted' = DOMAIN wanted /\ Wants'
    BY <1>1, <2>2 DEF SInv, Synced, Wants
  <2> QED BY <2>3, <2>4
<1>5. Clients' /\ DOMAIN wanted' = DOMAIN wanted /\ Wants'
  BY <1>3, <1>4
<1>6. Origins' /\ Ids' = Ids
  BY <1>1, <1>5 DEF SInv, Synced, Origins, Ids, Event
<1>7. Outboxed'
  BY <1>1, <1>6, OutboxLeft DEF SInv
<1>8. /\ OnWire' /\ Texts' /\ Copies(saved)' /\ Copies(fresh)' /\ Counted'
      /\ (syncing \in BOOLEAN)'
  BY <1>1, EventSyncAssumption DEF SInv, Synced, OnWire, SentFor, Texts, Copies, Counted, vars
<1> QED BY <1>1, <1>5, <1>6, <1>7, <1>8 DEF SInv, Synced, vars

-----------------------------------------------------------------------------
\* Opening a form leaves everything else alone.
LEMMA OpenFormOnly ==
  ASSUME NEW id, OpenForm(id)
  PROVE  UNCHANGED <<vars, text, server, origin, saved, syncing, fresh, wire, wanted, unwanted,
                     others>>
BY DEF OpenForm

LEMMA OpenFormSynced ==
  ASSUME SInv, NEW id \in ScreenIds("event"), OpenForm(id)
  PROVE  Outboxed' /\ Synced' /\ [Next]_vars /\ writes' <= MaxWrites
<1>1. UNCHANGED <<vars, text, server, origin, saved, syncing, fresh, wire, wanted, unwanted, others>>
  BY OpenFormOnly
<1>2. Ids' = Ids
  BY <1>1, SameIds
<1>3. /\ Origins' /\ Clients' /\ OnWire' /\ Copies(saved)' /\ Copies(fresh)'
      /\ (syncing \in BOOLEAN)'
  BY <1>1 DEF SInv, Synced, Origins, Clients, OnWire, SentFor, Copies, vars
<1> QED BY <1>1, <1>2, <1>3, EngineOnly

\* A form open was filled with what its event's screen had.
LEMMA StepForms ==
  ASSUME SInv, [SyncNext]_allVars
  PROVE  Forms'
<1>1. CASE UserWrites
  <2>1. CASE \E id \in ScreenIds("event") : OpenForm(id)
    <3>1. PICK id \in ScreenIds("event") : OpenForm(id)
      BY <2>1
    <3>2. id \in Ids
      BY DEF SInv, Outboxed, EventsShown, ScreenIds
    <3>3. Screen(ResolveEvent(id)) \in Contents
      BY <3>2, ResolvesToEvent, ScreenIsContent DEF SInv, Outboxed, Synced
    <3>4. id \in Int
      BY <3>2 DEF SInv, IInv, TypeOK, ScreenIds
    <3> QED BY <3>1, <3>3, <3>4 DEF OpenForm, Forms
  <2>2. CASE CreateEvent \/ \E id \in ScreenIds("event") : UpdateEvent(id) \/ DeleteEvent(id)
    BY <2>2 DEF CreateEvent, UpdateEvent, DeleteEvent, Forms
  <2> QED BY <1>1, <2>1, <2>2 DEF UserWrites
<1>2. CASE EngineSteps
  <2>1. form' \in {form, {}}
    BY <1>2 DEF EngineSteps, ReadServer, TakeNext, SendWrite, SendDeletion, SettleDeletion, TakeAnswer,
                CreateAgain, GiveUp, EndSync, Killed, syncVars
  <2> QED BY <2>1 DEF SInv, Forms
<1>3. CASE ServerSteps
  BY <1>3 DEF ServerSteps, ServePost, ServeChange, OtherEdit, OtherDelete, SInv, Forms
<1>4. CASE UNCHANGED allVars
  BY <1>4 DEF allVars, syncVars, SInv, Forms
<1> QED BY <1>1, <1>2, <1>3, <1>4 DEF SyncNext

LEMMA StepSynced ==
  ASSUME SInv, [SyncNext]_allVars
  PROVE  SInv' /\ [Next]_vars
<1>1. Outboxed' /\ Synced' /\ [Next]_vars /\ writes' <= MaxWrites
  <2>1. CASE UserWrites
    BY <2>1, CreateEventSynced, OpenFormSynced, UpdateEventSynced, DeleteEventSynced DEF UserWrites
  <2>2. CASE EngineSteps
    BY <2>2, ReadServerSynced, TakeNextSynced, SendWriteSynced, SendDeletionSynced,
       SettleDeletionSynced, TakeAnswerSynced, CreateAgainSynced, GiveUpSynced, KilledSynced
    DEF EngineSteps
  <2>3. CASE ServerSteps
    BY <2>3, ServePostSynced, ServeChangeSynced, OtherSynced DEF ServerSteps
  <2>4. CASE UNCHANGED allVars
    <3>1. UNCHANGED <<vars, syncVars>>
      BY <2>4 DEF allVars
    <3>2. Ids' = Ids
      BY <3>1, SameIds DEF syncVars
    <3>3. /\ Origins' /\ Clients' /\ OnWire' /\ Copies(saved)' /\ Copies(fresh)'
          /\ (syncing \in BOOLEAN)'
      BY <3>1 DEF SInv, Synced, Origins, Clients, OnWire, SentFor, Copies, vars, syncVars
    <3> QED BY <3>1, <3>2, <3>3, EngineOnly DEF syncVars
  <2> QED BY <2>1, <2>2, <2>3, <2>4 DEF SyncNext
<1>2. IInv'
  BY <1>1, StepIInv DEF SInv
<1> QED BY <1>1, <1>2, StepForms DEF SInv

LEMMA SyncInitSynced == ASSUME SyncInit PROVE SInv
<1>1. Init /\ IInv
  BY InitIInv DEF SyncInit
<1> DEFINE known == Known["event"]
<1>2. known \subseteq Nat \ {0}
  BY OutboxAssumption DEF AllEntities
<1>3. /\ text = [w \in {} |-> 0]
      /\ server = [id \in known |-> [client |-> Nobody, fields |-> [f \in Fields |-> First]]]
      /\ origin = [id \in known |-> id]
      /\ saved = Rows(server) /\ form = {}
      /\ syncing = FALSE /\ fresh = Nothing /\ wire = {}
      /\ wanted = [e \in known |-> [f \in Fields |-> Untouched]]
      /\ unwanted = {} /\ others = 0
  BY DEF SyncInit
<1>4. /\ DOMAIN ops = {} /\ writes = 0 /\ DOMAIN remap = {} /\ DOMAIN eventRemap = {} /\ held = {}
      /\ \A p \in shown : p[1] = "event" => p[2] \in known
  BY <1>1 DEF Init
<1> HIDE DEF known
<1>5. Origins /\ Clients
  <2>1. [f \in Fields |-> First] \in Contents
    BY FirstIsContent
  <2> QED BY <1>2, <1>3, <2>1 DEF Origins, Clients, Nobody
<1>6. \A id \in known : id \in Ids
  BY <1>2, <1>3 DEF Ids, Event
<1>7. Outboxed
  BY <1>4, <1>6 DEF Outboxed, Queued, Taken, EventsShown, Becomes
<1>8. Copies(saved) /\ Copies(fresh)
  BY <1>3, <1>5, RowsCopies DEF Copies, Nothing
<1>9. OnWire /\ Texts /\ Wants /\ Counted
  BY <1>3, <1>4, EventSyncAssumption DEF OnWire, Texts, Wants, Counted
<1>10. syncing \in BOOLEAN /\ writes <= MaxWrites
  <2>1. MaxWrites \in Nat
    BY OutboxAssumption
  <2>2. syncing = FALSE
    BY <1>3
  <2>3. writes = 0
    BY <1>4
  <2>4. writes <= MaxWrites
    BY <2>1, <2>3
  <2> QED BY <2>2, <2>4
<1> QED BY <1>1, <1>3, <1>5, <1>7, <1>8, <1>9, <1>10 DEF SInv, Synced, Forms

LEMMA SInvHolds == SyncSpec => []SInv
BY SyncInitSynced, StepSynced, PTL DEF SyncSpec

-----------------------------------------------------------------------------
\* The state of a sync is of the right type: every text sent, saved or shown is
\* the content of an event (sync_engine.dart).
THEOREM SyncTypeCorrect == SyncSpec => []SyncTypeOK
BY SInvHolds, SInvType, PTL

\* Whatever the engine and the server do, the outbox does what Outbox says it
\* may: the engine completes an op only with an answer the outbox expects of it.
THEOREM SyncImplementsOutbox == SyncSpec => SyncsAsOutbox
<1>1. SyncInit => Init
  BY DEF SyncInit
<1>2. SInv /\ [SyncNext]_allVars => [Next]_vars
  BY StepSynced
<1> QED BY <1>1, <1>2, SInvHolds, PTL DEF SyncSpec, SyncsAsOutbox

-----------------------------------------------------------------------------
(* What a sync leaves to others, when nobody else writes during it.  The   *)
(* events concerned are those the server had from the start and still has; *)
(* their ids name nothing else, ever.  A change waiting here differs from  *)
(* its base only where the user of this device wanted it to, it always has *)
(* a base, and all changes of one event have the same; so a merge takes    *)
(* from it nothing else.  For that to stay so the sync must know what the  *)
(* server has, and what it has on the wire must be made from it.           *)

Live == Known["event"] \cap DOMAIN server

\* No other id stands for one of these events.
OwnNames ==
  /\ \A id \in Known["event"] : id \in DOMAIN origin /\ origin[id] = id
  /\ \A id \in DOMAIN origin : origin[id] \in Live => id = origin[id]

\* The engine parks no event, so it works on the first op of the queue.
NoneParked == \A t \in DOMAIN ops : IsWaiting(ops[t])

HeldFirst ==
  \A h \in held :
    /\ sending = h.ticket /\ h.ticket \in DOMAIN ops /\ ops[h.ticket] = h.op
    /\ \A t \in DOMAIN ops : ~(t < h.ticket)

Own(op) ==
  op.target \in Live =>
    /\ op.kind # "create" /\ op.base # NoBase
    /\ op.kind = "update" =>
         \A f \in Fields :
           text[op.write][f] # op.base[f] => HeldForms \/ wanted[op.target][f] # Untouched

\* What a step changes of them, unless a form may have been filled before a sync.
OwnFields == HeldForms \/ ChangesOwnFields

AllOwn == \A t \in DOMAIN ops : Own(ops[t])

BasedAlike ==
  \A t, u \in DOMAIN ops :
    ops[t].target = ops[u].target /\ ops[t].target \in Live => ops[t].base = ops[u].base

\* What was edited before the user deleted it is edited before the deletion.
DeletedLast ==
  \A id \in Live \cap unwanted : \A t \in DOMAIN ops :
    ops[t].target = id /\ ops[t].kind = "update" =>
      \E d \in DOMAIN ops : t < d /\ ops[d].target = id /\ ops[d].kind = "delete"

OwnQueue == NoneParked /\ AllOwn /\ BasedAlike /\ DeletedLast

SavedLive == Live \subseteq DOMAIN saved

\* The sync knows what the server has, but for a change just answered.
FreshLive ==
  syncing =>
    \A id \in Live :
      /\ id \in DOMAIN fresh
      /\ \/ fresh[id] = server[id].fields
         \/ \E r \in wire : r.kind = "PATCH" /\ r.id = id /\ r.answer = "ok"

\* A request about one of these events: a merge, or a deletion not yet done of
\* what it was based on.
Sends(r) ==
  r.id \in Live =>
    /\ r.kind # "POST" /\ r.answer # "missing"
    /\ r.kind = "DELETE" =>
         r.answer = "none" /\ \A h \in held : h.op.base = server[r.id].fields
    /\ r.kind = "PATCH" =>
         \A h \in held :
           r.fields = IF r.answer = "ok" THEN server[r.id].fields
                      ELSE Merged(h.op.base, server[r.id].fields, text[h.op.write])

LiveSent ==
  /\ held # {} => syncing
  /\ \A r, s \in wire : r = s
  /\ \A r \in wire : Sends(r)

KInv == OwnNames /\ HeldFirst /\ OwnQueue /\ SavedLive /\ FreshLive /\ LiveSent

-----------------------------------------------------------------------------
\* These events are named by their ids and by nothing else.
LEMMA LiveNames ==
  ASSUME KInv
  PROVE  /\ \A id \in Live : Event(id) = id
         /\ \A id : Event(id) \in Live => Event(id) = id
BY DEF KInv, OwnNames, Live, Event

\* A row the server makes is of none of them.
LEMMA InsertOwn ==
  ASSUME KInv, NEW client \in Nat, NEW fields, NEW event, event \notin Live,
         Insert(client, fields, event)
  PROVE  Live' = Live /\ OwnNames' /\ \A id \in Live : server'[id] = server[id]
<1> DEFINE id == NewId(client)
<1>1. id \notin DOMAIN origin
  BY NewIdIsNew DEF Insert
<1>2. id \notin Known["event"]
  BY <1>1 DEF KInv, OwnNames
<1>3. /\ server' = Extended(server, id, [client |-> client, fields |-> fields])
      /\ origin' = Extended(origin, id, event)
  BY DEF Insert
<1> HIDE DEF id
<1>4. /\ DOMAIN server' = DOMAIN server \cup {id}
      /\ \A i \in DOMAIN server : i # id => server'[i] = server[i]
      /\ DOMAIN origin' = DOMAIN origin \cup {id} /\ origin'[id] = event
      /\ \A i \in DOMAIN origin : origin'[i] = origin[i]
  BY <1>1, <1>3 DEF Extended
<1>5. Live' = Live
  BY <1>2, <1>4 DEF Live
<1>6. OwnNames'
  BY <1>4, <1>5 DEF KInv, OwnNames
<1> QED BY <1>2, <1>4, <1>5, <1>6 DEF Live

\* With nothing parked what enters the queue waits.
LEMMA AdmittedWaits ==
  ASSUME NEW left, \A t \in DOMAIN left : IsWaiting(left[t]), NEW op, op.parked = NotHeld,
         op = [op EXCEPT !.parked = NotHeld]
  PROVE  Admitted(left, op) = op
<1> DEFINE P == {c \in Creations(left) : ~IsWaiting(left[c])}
<1>1. P = {}
  BY DEF Creations
<1>2. TargetsOf(left, {}) = {}
  BY DEF TargetsOf
<1>3. BlockedReason(left, op, {}, [c \in DOMAIN left |-> left[c].parked]) = NotHeld
  BY <1>2 DEF BlockedReason
<1>4. Admitted(left, op) = [op EXCEPT !.parked = NotHeld]
  BY <1>1, <1>3 DEF Admitted
<1> QED BY <1>4

\* A queue that loses its first ops, or has others pointed elsewhere.
LEMMA QueueLess ==
  ASSUME KInv, Live' \subseteq Live, UNCHANGED <<text, wanted, unwanted>>,
         \A t \in DOMAIN ops' :
           /\ t \in DOMAIN ops
           /\ ops'[t].kind = ops[t].kind /\ ops'[t].base = ops[t].base
           /\ ops'[t].write = ops[t].write /\ ops'[t].parked = ops[t].parked
           /\ ops'[t].target # ops[t].target
                => ops[t].target \notin Live /\ ops'[t].target \notin Live,
         \A t \in DOMAIN ops', d \in DOMAIN ops \ DOMAIN ops' : ~(t < d)
  PROVE  OwnQueue'
<1>1. NoneParked' BY DEF KInv, OwnQueue, NoneParked, IsWaiting
<1>2. AllOwn'
  <2>1. ASSUME NEW t \in DOMAIN ops', ops'[t].target \in Live' PROVE Own(ops[t])'
    <3>1. ops'[t].target = ops[t].target /\ Own(ops[t])
      BY <2>1 DEF KInv, OwnQueue, AllOwn
    <3> QED BY <2>1, <3>1 DEF Own
  <2> QED BY <2>1 DEF AllOwn, Own
<1>3. BasedAlike' BY DEF KInv, OwnQueue, BasedAlike
<1>4. DeletedLast'
  <2>1. ASSUME NEW id \in Live' \cap unwanted', NEW t \in DOMAIN ops',
               ops'[t].target = id, ops'[t].kind = "update"
        PROVE  \E d \in DOMAIN ops' : t < d /\ ops'[d].target = id /\ ops'[d].kind = "delete"
    <3>1. t \in DOMAIN ops /\ ops[t].target = id /\ ops[t].kind = "update" /\ id \in Live \cap unwanted
      BY <2>1
    <3>2. PICK d \in DOMAIN ops : t < d /\ ops[d].target = id /\ ops[d].kind = "delete"
      BY <3>1 DEF KInv, OwnQueue, DeletedLast
    <3>3. d \in DOMAIN ops'
      BY <3>2
    <3> QED BY <3>1, <3>2, <3>3
  <2> QED BY <2>1 DEF DeletedLast
<1> QED BY <1>1, <1>2, <1>3, <1>4 DEF OwnQueue

\* A queue that changes only beside these events.
LEMMA QueueBeside ==
  ASSUME SInv, KInv, Live' = Live, NoneParked', NEW c, Carries(c),
         \A t \in DOMAIN ops' : ops'[t].target \in Live => t \in DOMAIN ops /\ ops'[t] = ops[t],
         \A t \in DOMAIN ops : ops[t].target \in Live => t \in DOMAIN ops' /\ ops'[t] = ops[t],
         \A id \in Live : wanted'[id] = wanted[id],
         Live \cap unwanted' = Live \cap unwanted
  PROVE  OwnQueue'
<1>1. \A t \in DOMAIN ops : text'[ops[t].write] = text[ops[t].write]
  BY DEF Carries, Extended, SInv, IInv, TypeOK, Outboxed, Queued, EventOp, Synced, Texts
<1>2. AllOwn'
  <2>1. ASSUME NEW t \in DOMAIN ops', ops'[t].target \in Live' PROVE Own(ops[t])'
    <3>1. t \in DOMAIN ops /\ ops'[t] = ops[t] /\ Own(ops[t])
      BY <2>1 DEF KInv, OwnQueue, AllOwn
    <3> QED BY <1>1, <2>1, <3>1 DEF Own
  <2> QED BY <2>1 DEF AllOwn, Own
<1>3. BasedAlike' BY DEF KInv, OwnQueue, BasedAlike
<1>4. DeletedLast'
  <2>1. ASSUME NEW id \in Live' \cap unwanted', NEW t \in DOMAIN ops',
               ops'[t].target = id, ops'[t].kind = "update"
        PROVE  \E d \in DOMAIN ops' : t < d /\ ops'[d].target = id /\ ops'[d].kind = "delete"
    <3>1. t \in DOMAIN ops /\ ops[t].target = id /\ ops[t].kind = "update" /\ id \in Live \cap unwanted
      BY <2>1
    <3>2. PICK d \in DOMAIN ops : t < d /\ ops[d].target = id /\ ops[d].kind = "delete"
      BY <3>1 DEF KInv, OwnQueue, DeletedLast
    <3> QED BY <3>1, <3>2
  <2> QED BY <2>1 DEF DeletedLast
<1> QED BY <1>2, <1>3, <1>4 DEF OwnQueue

\* What the user's writes have in common.
LEMMA WriteOwn ==
  ASSUME SInv, KInv, Live' = Live, \A id \in Live : server'[id] = server[id],
         OwnNames', OwnQueue', UNCHANGED <<saved, syncing, fresh, wire, held, sending>>,
         NEW c, Carries(c),
         \A t \in DOMAIN ops' : t \in DOMAIN ops \/ t = writes + 1,
         \A h \in held : h.ticket \in DOMAIN ops' /\ ops'[h.ticket] = ops[h.ticket]
  PROVE  KInv' /\ OwnFields
<1>1. HeldFirst'
  <2>1. writes \in Nat /\ DOMAIN ops \subseteq 1..writes
    BY DEF SInv, IInv, TypeOK, Queue
  <2>2. \A h \in held : ~(writes + 1 < h.ticket)
    BY <2>1 DEF KInv, HeldFirst
  <2> QED BY <2>2 DEF KInv, HeldFirst
<1>2. \A h \in held : text'[h.op.write] = text[h.op.write]
  BY DEF Carries, Extended, SInv, IInv, TypeOK, Outboxed, Taken, EventOp, Synced, Texts
<1>3. SavedLive' /\ FreshLive'
  BY DEF KInv, SavedLive, FreshLive
<1>4. LiveSent'
  <2>1. ASSUME NEW r \in wire, r.id \in Live PROVE Sends(r)'
    BY <1>2, <2>1 DEF KInv, LiveSent, Sends
  <2> QED BY <2>1 DEF KInv, LiveSent, Sends
<1>5. OwnFields
  BY DEF OwnFields, ChangesOwnFields, Live
<1> QED BY <1>1, <1>3, <1>4, <1>5 DEF KInv

LEMMA CreateEventOwn ==
  ASSUME SInv, KInv, CreateEvent
  PROVE  KInv' /\ OwnFields
<1> DEFINE c == [f \in Fields |-> writes + 1]
           op == NewOp("event", "create", nextTempId, NoRefs, NoBase)
<1>1. /\ Create("event", NoRefs) /\ Carries(c) /\ wanted' = Extended(wanted, nextTempId, c)
      /\ \/ UNCHANGED <<server, origin>>
         \/ Insert(writes + 1, c, nextTempId)
      /\ UNCHANGED <<saved, syncing, fresh, wire, unwanted>>
  BY DEF CreateEvent
<1> HIDE DEF c
<1>2. writes \in Nat /\ DOMAIN ops \subseteq 1..writes /\ nextTempId < 0 /\ nextTempId \in Int
  BY IdsResolve DEF SInv, IInv, TypeOK, Queue
<1>3. nextTempId \notin Live
  BY <1>2, OutboxAssumption DEF Live, AllEntities
<1>4. Live' = Live /\ OwnNames' /\ \A id \in Live : server'[id] = server[id]
  <2>1. CASE UNCHANGED <<server, origin>>
    BY <2>1 DEF KInv, OwnNames, Live
  <2>2. CASE Insert(writes + 1, c, nextTempId)
    BY <1>2, <1>3, <2>2, InsertOwn
  <2> QED BY <1>1, <2>1, <2>2
<1>5. Admitted(ops, op) = op
  <2>1. op.parked = NotHeld /\ op = [op EXCEPT !.parked = NotHeld]
    BY DEF NewOp
  <2> HIDE DEF op
  <2> QED BY <2>1, AdmittedWaits DEF KInv, OwnQueue, NoneParked
<1>6. op.target = nextTempId /\ IsWaiting(op)
  BY DEF NewOp, IsWaiting
<1>7. ops' = Extended(ops, writes + 1, op) /\ UNCHANGED <<sending, held>>
  BY <1>1, <1>5 DEF Create
<1> HIDE DEF op
<1>8. /\ DOMAIN ops' = DOMAIN ops \cup {writes + 1} /\ ops'[writes + 1] = op
      /\ \A t \in DOMAIN ops : t # writes + 1 /\ ops'[t] = ops[t]
  BY <1>2, <1>7 DEF Extended
<1>9. NoneParked'
  BY <1>6, <1>8 DEF KInv, OwnQueue, NoneParked, IsWaiting
<1>10. \A id \in Live : wanted'[id] = wanted[id]
  <2>1. \A id \in Live : id \in DOMAIN wanted
    BY DEF Live, KInv, OwnNames, SInv, Synced, Origins
  <2> QED BY <1>1, <1>3, <2>1 DEF Extended
<1>11. OwnQueue'
  BY <1>1, <1>3, <1>4, <1>6, <1>8, <1>9, <1>10, QueueBeside
<1>12. \A h \in held : h.ticket \in DOMAIN ops' /\ ops'[h.ticket] = ops[h.ticket]
  BY <1>8 DEF KInv, HeldFirst
<1> QED BY <1>1, <1>4, <1>7, <1>8, <1>11, <1>12, WriteOwn

\* The base a change of one of these events gets: the one the waiting changes of
\* the event have, and the saved copy when there is none.
LEMMA GivenBase ==
  ASSUME SInv, KInv, NEW target \in Live
  PROVE  LET given == EarliestBase("event", target, ServerCopy(target))
         IN  /\ given # NoBase
             /\ \A t \in DOMAIN ops : ops[t].target = target => ops[t].base = given
             /\ WaitingOn(target) = {} => given = saved[target]
<1> DEFINE based == {t \in DOMAIN ops : About(ops[t], "event", target) /\ ops[t].base # NoBase}
           given == EarliestBase("event", target, ServerCopy(target))
<1>1. \A t \in DOMAIN ops : ops[t].target = target => ops[t].entity = "event" /\ ops[t].base # NoBase
  BY DEF SInv, Outboxed, Queued, EventOp, KInv, OwnQueue, AllOwn, Own
<1>2. CASE based = {}
  <2>1. given = ServerCopy(target)
    BY <1>2 DEF EarliestBase
  <2>2. target > 0 /\ target \in DOMAIN saved
    BY OutboxAssumption DEF Live, AllEntities, KInv, SavedLive
  <2>3. ServerCopy(target) = saved[target] /\ saved[target] # NoBase
    BY <2>2, OutboxAssumption, EventSyncAssumption DEF ServerCopy, SInv, Synced, Copies
  <2> QED BY <1>1, <1>2, <2>1, <2>3 DEF About
<1>3. CASE based # {}
  <2> DEFINE first == CHOOSE t \in based : \A u \in based : t <= u
  <2>1. first \in based
    <3>1. based \subseteq Nat
      BY DEF SInv, IInv, TypeOK
    <3> HIDE DEF based
    <3>2. \E t \in based : \A u \in based : t <= u
      BY <1>3, <3>1, SmallestTicket
    <3> QED BY <3>2
  <2>2. given = ops[first].base
    BY <1>3 DEF EarliestBase
  <2>3. WaitingOn(target) # {}
    BY <2>1 DEF WaitingOn
  <2> HIDE DEF first, given
  <2>4. \A t \in DOMAIN ops : ops[t].target = target => ops[t].base = ops[first].base
    BY <2>1 DEF KInv, OwnQueue, BasedAlike, About
  <2>5. given # NoBase
    BY <2>1, <2>2
  <2> QED BY <2>2, <2>3, <2>4, <2>5 DEF given
<1> QED BY <1>2, <1>3

\* On a screen: no deletion waits, so what waits is a change of an event the user
\* did not delete since.
LEMMA ShownNotDeleted ==
  ASSUME SInv, KInv, NEW target \in Live, OnScreen(target), NEW t \in DOMAIN ops,
         ops[t].target = target
  PROVE  t \in WaitingOn(target) /\ ops[t].kind = "update" /\ target \notin unwanted
<1>1. \A d \in DOMAIN ops : ops[d].target = target => d \in WaitingOn(target)
  BY DEF SInv, Outboxed, Queued, EventOp, WaitingOn, About
<1>2. \A d \in DOMAIN ops : ops[d].target = target => ops[d].kind # "delete"
  BY <1>1 DEF OnScreen
<1>3. ops[t].kind \in Kinds /\ ops[t].kind # "create"
  BY DEF SInv, IInv, TypeOK, Op, KInv, OwnQueue, AllOwn, Own
<1>4. ops[t].kind = "update"
  BY <1>2, <1>3 DEF Kinds
<1>5. target \notin unwanted
  BY <1>2, <1>4 DEF KInv, OwnQueue, DeletedLast
<1> QED BY <1>1, <1>4, <1>5

\* What the screen shows of it differs from that base only where the user of this
\* device wanted it to.
LEMMA ScreenOwn ==
  ASSUME SInv, KInv, NEW target \in Live, OnScreen(target), NEW f \in Fields,
         Screen(target)[f] # EarliestBase("event", target, ServerCopy(target))[f]
  PROVE  target \notin unwanted /\ (HeldForms \/ wanted[target][f] # Untouched)
<1> DEFINE given == EarliestBase("event", target, ServerCopy(target))
           S == WaitingOn(target)
           t == CHOOSE t \in S : \A u \in S : u <= t
<1>1. S # {}
  <2>1. target \in DOMAIN saved
    BY DEF KInv, SavedLive
  <2>2. S = {} => Screen(target) = given
    BY <2>1, GivenBase DEF Screen
  <2> QED BY <2>2
<1>2. t \in S
  <2>1. writes \in Nat /\ S \in SUBSET (1..writes)
    BY DEF SInv, IInv, TypeOK, Queue, WaitingOn
  <2> HIDE DEF S
  <2>2. \E v \in S : \A u \in S : u <= v
    BY <1>1, <2>1, GreatestTicket
  <2> QED BY <2>2
<1>3. Screen(target) = text[ops[t].write]
  BY <1>1 DEF Screen
<1> HIDE DEF t
<1>4. t \in DOMAIN ops /\ ops[t].target = target
  BY <1>2 DEF WaitingOn, About
<1>5. ops[t].kind = "update" /\ target \notin unwanted
  BY <1>4, ShownNotDeleted
<1>6. ops[t].base = given
  BY <1>4, GivenBase
<1> HIDE DEF given, S
<1>7. Own(ops[t]) /\ text[ops[t].write][f] # ops[t].base[f]
  BY <1>3, <1>4, <1>6 DEF KInv, OwnQueue, AllOwn, given
<1> QED BY <1>4, <1>5, <1>7 DEF Own

\* An edit either folds into a waiting op or is the last op of the queue.
LEMMA UpdateQueue ==
  ASSUME SInv, NoneParked, HeldFirst, NEW id, NEW base,
         Update("event", id, NoRefs, base)
  PROVE  LET target == ResolveEvent(id)
         IN  \E t \in DOMAIN ops' :
               /\ t \in DOMAIN ops \/ t = writes + 1
               /\ DOMAIN ops' = DOMAIN ops \cup {t} /\ \A h \in held : t # h.ticket
               /\ \A u \in DOMAIN ops : u # t => ops'[u] = ops[u]
               /\ ops'[t].target = target /\ ops'[t].write = writes + 1 /\ IsWaiting(ops'[t])
               /\ IF t \in DOMAIN ops
                  THEN ops[t].target = target /\ ops'[t].base = ops[t].base
                         /\ ops'[t].kind = ops[t].kind
                  ELSE ops'[t].kind = "update" /\ ops'[t].base = EarliestBase("event", target, base)
<1> DEFINE target == ResolveEvent(id)
           into == Foldable("event", target, NoRefs)
           given == EarliestBase("event", target, base)
           op == NewOp("event", "update", target, NoRefs, given)
<1>1. /\ writes \in Nat /\ DOMAIN ops \subseteq 1..writes /\ \A t \in DOMAIN ops : ops[t] \in Op
      /\ Target("event", id) = target
  BY DEF SInv, IInv, TypeOK, Queue, Target
<1>2. \/ \E t \in into : ops' = [ops EXCEPT ![t] = Folded(@, NoRefs)]
      \/ ops' = Extended(ops, writes + 1, Admitted(ops, op))
  BY <1>1 DEF Update
<1>3. CASE \E t \in into : ops' = [ops EXCEPT ![t] = Folded(@, NoRefs)]
  <2>1. PICK t \in into : ops' = [ops EXCEPT ![t] = Folded(@, NoRefs)]
    BY <1>3
  <2>2. t \in DOMAIN ops /\ ops[t].target = target /\ t # sending /\ IsWaiting(ops[t])
    BY DEF Foldable, About
  <2>3. \A h \in held : t # h.ticket
    BY <2>2 DEF HeldFirst
  <2>4. /\ ops'[t].kind = ops[t].kind /\ ops'[t].target = ops[t].target
        /\ ops'[t].base = ops[t].base /\ ops'[t].parked = ops[t].parked
        /\ ops'[t].write = writes + 1
    <3>1. ops'[t] = Folded(ops[t], NoRefs)
      BY <2>1, <2>2
    <3>2. NoRefs.tags \in SUBSET Int /\ NoRefs.category \in Int
      BY DEF NoRefs, NoId
    <3> QED BY <1>1, <2>2, <3>1, <3>2, FoldedFields
  <2>5. DOMAIN ops' = DOMAIN ops \cup {t} /\ \A u \in DOMAIN ops : u # t => ops'[u] = ops[u]
    BY <2>1, <2>2
  <2> QED BY <2>2, <2>3, <2>4, <2>5 DEF IsWaiting
<1>4. CASE ops' = Extended(ops, writes + 1, Admitted(ops, op))
  <2>1. op.parked = NotHeld /\ op = [op EXCEPT !.parked = NotHeld]
    BY DEF NewOp
  <2>2. op.target = target /\ op.kind = "update" /\ op.base = given /\ op.write = writes + 1
    BY DEF NewOp
  <2> HIDE DEF op
  <2>3. Admitted(ops, op) = op
    BY <2>1, AdmittedWaits DEF NoneParked
  <2>4. writes + 1 \notin DOMAIN ops /\ \A h \in held : writes + 1 # h.ticket
    BY <1>1 DEF HeldFirst
  <2>5. /\ DOMAIN ops' = DOMAIN ops \cup {writes + 1} /\ ops'[writes + 1] = op
        /\ \A u \in DOMAIN ops : u # writes + 1 => ops'[u] = ops[u]
    BY <1>4, <2>3 DEF Extended
  <2> QED BY <2>1, <2>2, <2>4, <2>5 DEF IsWaiting
<1> QED BY <1>2, <1>3, <1>4

LEMMA UpdateEventOwn ==
  ASSUME SInv, KInv, NEW id \in ScreenIds("event"), UpdateEvent(id)
  PROVE  KInv' /\ OwnFields
<1> DEFINE target == ResolveEvent(id)
           given == EarliestBase("event", target, ServerCopy(target))
<1>1. PICK changed \in (SUBSET Fields) \ {{}},
           value \in {writes + 1} \cup (IF Reverts THEN {First} ELSE {}), filled \in FormOf(id) :
        /\ OnScreen(target)
        /\ Update("event", id, NoRefs, ServerCopy(target))
        /\ Carries([f \in Fields |-> IF f \in changed THEN value ELSE filled[f]])
        /\ wanted' = [wanted EXCEPT ![Event(target)] =
                       [f \in Fields |-> IF f \in changed THEN value
                                         ELSE IF Event(target) \in unwanted THEN Untouched
                                         ELSE @[f]]]
        /\ unwanted' = unwanted \ {Event(target)}
        /\ UNCHANGED <<server, origin, saved, syncing, fresh, wire, others>>
  BY DEF UpdateEvent
<1> DEFINE c == [f \in Fields |-> IF f \in changed THEN value ELSE filled[f]]
<1>2. Carries(c)
  BY <1>1
<1>11. HeldForms \/ filled = Screen(target)
  BY DEF FormOf, SInv, Forms
<1>3. PICK t \in DOMAIN ops' :
        /\ t \in DOMAIN ops \/ t = writes + 1
        /\ DOMAIN ops' = DOMAIN ops \cup {t} /\ \A h \in held : t # h.ticket
        /\ \A u \in DOMAIN ops : u # t => ops'[u] = ops[u]
        /\ ops'[t].target = target /\ ops'[t].write = writes + 1 /\ IsWaiting(ops'[t])
        /\ IF t \in DOMAIN ops
           THEN ops[t].target = target /\ ops'[t].base = ops[t].base /\ ops'[t].kind = ops[t].kind
           ELSE ops'[t].kind = "update" /\ ops'[t].base = given
  BY <1>1, UpdateQueue DEF KInv, OwnQueue
<1> HIDE DEF target, c
<1>4. Live' = Live /\ OwnNames' /\ UNCHANGED <<held, sending, server>> /\ DOMAIN wanted' = DOMAIN wanted
  BY <1>1 DEF Live, KInv, OwnNames, Update
<1>5. NoneParked'
  BY <1>3 DEF KInv, OwnQueue, NoneParked, IsWaiting
<1>6. OwnQueue'
  <2>1. CASE target \notin Live
    <3>1. Event(target) \notin Live
      BY <2>1, LiveNames
    <3>2. \A i \in Live : wanted'[i] = wanted[i]
      BY <1>1, <3>1
    <3>3. Live \cap unwanted' = Live \cap unwanted
      BY <1>1, <3>1
    <3> QED BY <1>2, <1>3, <1>4, <1>5, <2>1, <3>2, <3>3, QueueBeside
  <2>2. CASE target \in Live
    <3>1. Event(target) = target /\ target \in DOMAIN wanted
      BY <2>2, LiveNames DEF SInv, Synced, Origins, KInv, OwnNames, Live
    <3>2. value # Untouched
      BY DEF SInv, IInv, TypeOK, First, Untouched
    <3>3. /\ \A u \in DOMAIN ops : ops[u].target = target =>
               ops[u].kind = "update" /\ target \notin unwanted /\ ops[u].base = given
          /\ given # NoBase
      BY <1>1, <2>2, ShownNotDeleted, GivenBase
    <3>4. HeldForms \/ \A f \in Fields : filled[f] # given[f] =>
            target \notin unwanted /\ wanted[target][f] # Untouched
      <4>1. ASSUME ~HeldForms, NEW f \in Fields, Screen(target)[f] # given[f]
            PROVE  target \notin unwanted /\ wanted[target][f] # Untouched
        BY <1>1, <2>2, <4>1, ScreenOwn
      <4> QED BY <1>11, <4>1
    <3>5. /\ ops'[t].target = target /\ ops'[t].kind = "update" /\ ops'[t].base = given
          /\ ops'[t].write = writes + 1
      BY <1>3, <3>3
    <3> HIDE DEF given
    <3>6. /\ \A f \in changed : wanted'[target][f] = value
          /\ \A f \in Fields \ changed :
               target \notin unwanted => wanted'[target][f] = wanted[target][f]
          /\ \A i \in Live : i # target => wanted'[i] = wanted[i]
      BY <1>1, <3>1
    <3>7. \A u \in DOMAIN ops : text'[ops[u].write] = text[ops[u].write]
      BY <1>2 DEF Carries, Extended, SInv, IInv, TypeOK, Outboxed, Queued, EventOp, Synced, Texts
    <3>8. text'[writes + 1] = c
      BY <1>2 DEF Carries, Extended
    <3>9. AllOwn'
      <4>1. ASSUME NEW u \in DOMAIN ops', u # t PROVE Own(ops[u])'
        <5>1. u \in DOMAIN ops /\ ops'[u] = ops[u] /\ Own(ops[u])
          BY <1>3, <4>1 DEF KInv, OwnQueue, AllOwn
        <5>2. CASE ops[u].target # target
          BY <1>4, <3>6, <3>7, <5>1, <5>2 DEF Own
        <5>3. CASE ops[u].target = target
          BY <1>4, <2>2, <3>2, <3>3, <3>6, <3>7, <5>1, <5>3 DEF Own
        <5> QED BY <5>2, <5>3
      <4>2. Own(ops[t])'
        <5>1. \A f \in Fields : c[f] # given[f] => HeldForms \/ wanted'[target][f] # Untouched
          BY <3>2, <3>4, <3>6 DEF c
        <5> QED BY <3>3, <3>5, <3>8, <5>1 DEF Own
      <4> QED BY <4>1, <4>2 DEF AllOwn
    <3>10. BasedAlike'
      <4>1. \A u \in DOMAIN ops' : ops'[u].target = target => ops'[u].base = given
        BY <1>3, <3>3, <3>5
      <4>2. \A u \in DOMAIN ops' : ops'[u].target # target => u \in DOMAIN ops /\ ops'[u] = ops[u]
        BY <1>3, <3>5
      <4> QED BY <1>4, <4>1, <4>2 DEF KInv, OwnQueue, BasedAlike
    <3>11. DeletedLast'
      <4>1. ASSUME NEW i \in Live' \cap unwanted', NEW u \in DOMAIN ops',
                   ops'[u].target = i, ops'[u].kind = "update"
            PROVE  \E d \in DOMAIN ops' : u < d /\ ops'[d].target = i /\ ops'[d].kind = "delete"
        <5>1. i \in Live \cap unwanted /\ i # target
          BY <1>1, <1>4, <3>1, <4>1
        <5>2. u \in DOMAIN ops /\ ops'[u] = ops[u]
          BY <1>3, <3>5, <4>1, <5>1
        <5>3. PICK d \in DOMAIN ops : u < d /\ ops[d].target = i /\ ops[d].kind = "delete"
          BY <4>1, <5>1, <5>2 DEF KInv, OwnQueue, DeletedLast
        <5>4. d # t
          BY <1>3, <5>1, <5>3
        <5> QED BY <1>3, <5>3, <5>4
      <4> QED BY <4>1 DEF DeletedLast
    <3> QED BY <1>5, <3>9, <3>10, <3>11 DEF OwnQueue
  <2> QED BY <2>1, <2>2
<1>7. \A h \in held : h.ticket \in DOMAIN ops' /\ ops'[h.ticket] = ops[h.ticket]
  BY <1>3 DEF KInv, HeldFirst
<1> QED BY <1>1, <1>2, <1>3, <1>4, <1>6, <1>7, WriteOwn

LEMMA DeleteEventOwn ==
  ASSUME SInv, KInv, NEW id \in ScreenIds("event"), DeleteEvent(id)
  PROVE  KInv' /\ OwnFields
<1> DEFINE target == ResolveEvent(id)
           given == EarliestBase("event", target, ServerCopy(target))
           gone == Replaced("event", target)
           left == Without(ops, gone)
           op == NewOp("event", "delete", target, NoRefs, given)
           c == [f \in Fields |-> First]
<1>1. /\ OnScreen(target) /\ Carries(c) /\ unwanted' = unwanted \cup {Event(target)}
      /\ Delete("event", id, NoRefs, ServerCopy(target))
      /\ UNCHANGED <<server, origin, saved, syncing, fresh, wire, wanted, others>>
  BY DEF DeleteEvent
<1> HIDE DEF c
<1>2. /\ writes \in Nat /\ DOMAIN ops \subseteq 1..writes
      /\ Target("event", id) = target
  BY DEF SInv, IInv, TypeOK, Queue, Target
<1>3. \A t \in gone : t \in DOMAIN ops /\ ops[t].target = target /\ \A h \in held : t # h.ticket
  BY DEF Replaced, About, KInv, HeldFirst
<1>4. DOMAIN left = DOMAIN ops \ gone /\ \A t \in DOMAIN left : left[t] = ops[t]
  BY DEF Without
<1>5. Admitted(left, op) = op
  <2>1. op.parked = NotHeld /\ op = [op EXCEPT !.parked = NotHeld]
    BY DEF NewOp
  <2> HIDE DEF op, left
  <2> QED BY <1>4, <2>1, AdmittedWaits DEF KInv, OwnQueue, NoneParked
<1>6. op.target = target /\ op.kind = "delete" /\ op.base = given /\ IsWaiting(op)
  BY DEF NewOp, IsWaiting
<1>7. \/ (\E t \in gone : IsCreation(ops[t])) /\ ops' = left
      \/ ops' = Extended(left, writes + 1, op)
  BY <1>1, <1>2, <1>5 DEF Delete, DeleteOp
<1> HIDE DEF target, gone, left, op
<1>8. \A t \in DOMAIN ops' : \/ t \in DOMAIN left /\ ops'[t] = ops[t]
                             \/ t = writes + 1 /\ ops'[t] = op
  BY <1>2, <1>4, <1>7 DEF Extended
<1>9. \A t \in DOMAIN left : t \in DOMAIN ops' /\ ops'[t] = ops[t]
  BY <1>2, <1>4, <1>7 DEF Extended
<1>10. Live' = Live /\ OwnNames' /\ UNCHANGED <<held, sending, server>>
  BY <1>1 DEF Live, KInv, OwnNames, Delete
<1>11. NoneParked'
  BY <1>4, <1>6, <1>8 DEF KInv, OwnQueue, NoneParked, IsWaiting
<1>12. OwnQueue'
  <2>1. CASE target \notin Live
    <3>1. Event(target) \notin Live
      BY <2>1, LiveNames
    <3>2. Live \cap unwanted' = Live \cap unwanted
      BY <1>1, <3>1
    <3> QED BY <1>1, <1>3, <1>4, <1>6, <1>8, <1>9, <1>10, <1>11, <2>1, <3>2, QueueBeside
  <2>2. CASE target \in Live
    <3>1. /\ \A u \in DOMAIN ops : ops[u].target = target => ops[u].base = given
          /\ given # NoBase
      BY <2>2, GivenBase
    <3>2. Event(target) = target
      BY <2>2, LiveNames
    <3>3. writes + 1 \in DOMAIN ops' /\ ops'[writes + 1] = op
      <4>1. \A t \in gone : ~IsCreation(ops[t])
        BY <1>3, <2>2 DEF KInv, OwnQueue, AllOwn, Own, IsCreation
      <4> QED BY <1>7, <4>1 DEF Extended
    <3> HIDE DEF given
    <3>4. \A u \in DOMAIN ops : text'[ops[u].write] = text[ops[u].write]
      BY <1>1 DEF Carries, Extended, SInv, IInv, TypeOK, Outboxed, Queued, EventOp, Synced, Texts
    <3>5. AllOwn'
      <4>1. ASSUME NEW u \in DOMAIN ops', u \in DOMAIN left, ops'[u] = ops[u] PROVE Own(ops[u])'
        <5>1. Own(ops[u])
          BY <1>4, <4>1 DEF KInv, OwnQueue, AllOwn
        <5> QED BY <1>1, <1>4, <1>10, <3>4, <4>1, <5>1 DEF Own
      <4>2. ASSUME NEW u \in DOMAIN ops', ops'[u] = op PROVE Own(ops[u])'
        BY <1>6, <3>1, <4>2 DEF Own
      <4> QED BY <1>8, <4>1, <4>2 DEF AllOwn
    <3>6. BasedAlike'
      <4>1. \A u \in DOMAIN ops' : ops'[u].target = target => ops'[u].base = given
        BY <1>4, <1>6, <1>8, <3>1
      <4>2. \A u \in DOMAIN ops' : ops'[u].target # target => u \in DOMAIN ops /\ ops'[u] = ops[u]
        BY <1>4, <1>6, <1>8
      <4> QED BY <1>10, <4>1, <4>2 DEF KInv, OwnQueue, BasedAlike
    <3>7. DeletedLast'
      <4>1. ASSUME NEW i \in Live' \cap unwanted', NEW u \in DOMAIN ops',
                   ops'[u].target = i, ops'[u].kind = "update"
            PROVE  \E d \in DOMAIN ops' : u < d /\ ops'[d].target = i /\ ops'[d].kind = "delete"
        <5>1. u \in DOMAIN left /\ u \in DOMAIN ops /\ ops'[u] = ops[u] /\ u < writes + 1
          BY <1>2, <1>4, <1>6, <1>8, <4>1
        <5>2. CASE i = target
          BY <1>6, <3>3, <5>1, <5>2
        <5>3. CASE i # target
          <6>1. i \in Live \cap unwanted
            BY <1>1, <1>10, <3>2, <5>3
          <6>2. PICK d \in DOMAIN ops : u < d /\ ops[d].target = i /\ ops[d].kind = "delete"
            BY <4>1, <5>1, <6>1 DEF KInv, OwnQueue, DeletedLast
          <6>3. d \in DOMAIN left
            BY <1>3, <1>4, <5>3, <6>2
          <6> QED BY <1>9, <6>2, <6>3
        <5> QED BY <5>2, <5>3
      <4> QED BY <4>1 DEF DeletedLast
    <3> QED BY <1>11, <3>5, <3>6, <3>7 DEF OwnQueue
  <2> QED BY <2>1, <2>2
<1>13. \A h \in held : h.ticket \in DOMAIN ops' /\ ops'[h.ticket] = ops[h.ticket]
  BY <1>3, <1>4, <1>9 DEF KInv, HeldFirst
<1>14. \A t \in DOMAIN ops' : t \in DOMAIN ops \/ t = writes + 1
  BY <1>4, <1>8
<1> QED BY <1>1, <1>10, <1>12, <1>13, <1>14, WriteOwn

-----------------------------------------------------------------------------
(* The engine.                                                             *)

\* Steps that change nothing on the server nor in what it gave.
LEMMA SameLive ==
  ASSUME KInv, UNCHANGED <<server, origin>>
  PROVE  Live' = Live /\ OwnNames' /\ OwnFields
BY DEF Live, KInv, OwnNames, OwnFields, ChangesOwnFields

\* Steps of a sync on the same queue and the same op, while the server stays.
LEMMA SameQueue ==
  ASSUME KInv, UNCHANGED <<vars, text, server, origin, wanted, unwanted>>
  PROVE  /\ Live' = Live /\ OwnNames' /\ OwnFields /\ OwnQueue' /\ HeldFirst'
<1>1. Live' = Live /\ OwnNames' /\ OwnFields
  BY SameLive
<1>2. ops' = ops /\ held' = held /\ sending' = sending
  BY DEF vars
<1>3. OwnQueue'
  BY <1>1, <1>2, QueueLess
<1>4. HeldFirst'
  BY <1>2 DEF KInv, HeldFirst
<1> QED BY <1>1, <1>3, <1>4

\* Steps that let go of the op held, on the same queue.
LEMMA LetGoOwn ==
  ASSUME KInv, UNCHANGED <<ops, text, server, origin, wanted, unwanted>>,
         held' = {}, wire' = {}, SavedLive', syncing' = FALSE
  PROVE  KInv' /\ OwnFields
<1>1. Live' = Live /\ OwnNames' /\ OwnFields
  BY SameLive
<1>2. OwnQueue'
  BY <1>1, QueueLess
<1>3. HeldFirst' /\ FreshLive' /\ LiveSent'
  BY DEF HeldFirst, FreshLive, LiveSent
<1> QED BY <1>1, <1>2, <1>3 DEF KInv

LEMMA SavedAgain ==
  ASSUME KInv, UNCHANGED server, saved' \in {Rows(server), saved}
  PROVE  SavedLive'
BY DEF KInv, SavedLive, Live, Rows

LEMMA ReadServerOwn ==
  ASSUME SInv, KInv, ReadServer
  PROVE  KInv' /\ OwnFields
<1>1. /\ UNCHANGED <<vars, text, server, origin, wire, wanted, unwanted>>
      /\ held = {} /\ fresh' = Rows(server) /\ saved' = Rows(server)
  BY DEF ReadServer
<1>2. Live' = Live /\ OwnNames' /\ OwnFields /\ OwnQueue' /\ HeldFirst'
  BY <1>1, SameQueue
<1>3. SavedLive'
  BY <1>1, SavedAgain
<1>4. FreshLive'
  BY <1>1, <1>2 DEF FreshLive, Live, Rows
<1>5. LiveSent'
  <2>1. wire' = {} /\ held' = {}
    BY <1>1 DEF SInv, Synced, OnWire, vars
  <2> QED BY <2>1 DEF LiveSent
<1> QED BY <1>2, <1>3, <1>4, <1>5 DEF KInv

LEMMA TakeNextOwn ==
  ASSUME SInv, KInv, TakeNext
  PROVE  KInv' /\ OwnFields
<1>1. /\ syncing /\ UNCHANGED syncVars /\ UNCHANGED ops /\ held = {}
      /\ \E t \in DOMAIN ops :
           /\ \A u \in DOMAIN ops : IsWaiting(ops[u]) => t <= u
           /\ sending' = t /\ held' = {[ticket |-> t, op |-> ops[t]]}
  BY DEF TakeNext, Take
<1>2. PICK t \in DOMAIN ops :
        /\ \A u \in DOMAIN ops : IsWaiting(ops[u]) => t <= u
        /\ sending' = t /\ held' = {[ticket |-> t, op |-> ops[t]]}
  BY <1>1
<1>3. Live' = Live /\ OwnNames' /\ OwnFields
  BY <1>1, SameLive DEF syncVars
<1>4. OwnQueue'
  BY <1>1, <1>3, QueueLess DEF syncVars
<1>5. HeldFirst'
  <2>1. \A u \in DOMAIN ops : ~(u < t)
    <3>1. \A u \in DOMAIN ops : u \in Nat /\ IsWaiting(ops[u])
      BY DEF SInv, IInv, TypeOK, KInv, OwnQueue, NoneParked
    <3> QED BY <1>2, <3>1
  <2> QED BY <1>1, <1>2, <2>1 DEF HeldFirst
<1>6. SavedLive' /\ FreshLive'
  BY <1>1, <1>3 DEF KInv, SavedLive, FreshLive, syncVars
<1>7. LiveSent'
  <2>1. wire' = {}
    BY <1>1 DEF SInv, Synced, OnWire, syncVars
  <2> QED BY <1>1, <2>1 DEF LiveSent, syncVars
<1> QED BY <1>3, <1>4, <1>5, <1>6, <1>7 DEF KInv

\* The op held is still in the queue; one about these events has a base.
LEMMA HeldOwn ==
  ASSUME SInv, KInv, NEW h \in held
  PROVE  /\ Own(h.op) /\ syncing /\ h.op.kind \in Kinds
         /\ \A id \in Live : id > 0
         /\ \A k \in held : k = h
BY OutboxAssumption
   DEF KInv, HeldFirst, OwnQueue, AllOwn, LiveSent, SInv, IInv, TypeOK, Held, Op, Outboxed, Taken,
       Live, AllEntities

\* A request sent while nothing is on the wire.
LEMMA SentOwn ==
  ASSUME SInv, KInv, UNCHANGED <<vars, text, server, origin, saved, syncing, fresh, wanted, unwanted>>,
         NEW r, wire' = {r}, Sends(r)',
         \A s \in wire : ~(s.kind = "PATCH" /\ s.id \in Live /\ s.answer = "ok"), held # {}
  PROVE  KInv' /\ OwnFields
<1>1. Live' = Live /\ OwnNames' /\ OwnFields /\ OwnQueue' /\ HeldFirst'
  BY SameQueue
<1>2. SavedLive'
  BY <1>1 DEF KInv, SavedLive
<1>3. FreshLive'
  BY <1>1 DEF KInv, FreshLive
<1>4. LiveSent'
  BY DEF KInv, LiveSent
<1> QED BY <1>1, <1>2, <1>3, <1>4 DEF KInv

LEMMA RequestMade ==
  ASSUME NEW kind, NEW id, NEW fields, wire' = {Request(kind, id, fields)}
  PROVE  \E r : /\ wire' = {r} /\ r.kind = kind /\ r.id = id /\ r.fields = fields
                /\ r.answer = "none"
<1> DEFINE s == Request(kind, id, fields)
<1>1. s.kind = kind /\ s.id = id /\ s.fields = fields /\ s.answer = "none"
  BY DEF Request
<1> HIDE DEF s
<1> QED BY <1>1 DEF s

LEMMA SendWriteOwn ==
  ASSUME SInv, KInv, SendWrite
  PROVE  KInv' /\ OwnFields
<1>1. PICK h \in held :
        /\ h.op.kind \in {"create", "update"}
        /\ wire' = IF IsCreation(h.op) \/ Missing(h.op.target)
                   THEN {Request("POST", h.op.target, text[h.op.write])}
                   ELSE {Request("PATCH", h.op.target,
                                 Merged(h.op.base, fresh[h.op.target], text[h.op.write]))}
  BY DEF SendWrite
<1>2. wire = {} /\ UNCHANGED <<vars, text, server, origin, saved, syncing, fresh, wanted, unwanted>>
  BY DEF SendWrite
<1>3. Live' = Live /\ held' = held
  BY <1>2, SameLive DEF vars
<1>4. CASE h.op.target \notin Live
  <2>1. PICK r : wire' = {r} /\ r.id = h.op.target
    <3>1. \E kind, fields : wire' = {Request(kind, h.op.target, fields)}
      BY <1>1
    <3> QED BY <3>1, RequestMade
  <2>2. Sends(r)'
    BY <1>3, <1>4, <2>1 DEF Sends
  <2> QED BY <1>2, <2>1, <2>2, SentOwn
<1>5. CASE h.op.target \in Live
  <2> DEFINE m == Merged(h.op.base, fresh[h.op.target], text[h.op.write])
  <2>1. ~IsCreation(h.op) /\ ~(h.op.target < 0)
    BY <1>5, HeldOwn, OutboxAssumption DEF Own, IsCreation, Live, AllEntities
  <2>2. h.op.target \in DOMAIN fresh /\ fresh[h.op.target] = server[h.op.target].fields
    BY <1>2, <1>5, HeldOwn DEF KInv, FreshLive
  <2>3. wire' = {Request("PATCH", h.op.target, m)}
    BY <1>1, <2>1, <2>2 DEF Missing
  <2>4. m = Merged(h.op.base, server[h.op.target].fields, text[h.op.write])
    BY <2>2
  <2> HIDE DEF m
  <2>5. PICK r : /\ wire' = {r} /\ r.id = h.op.target /\ r.fields = m
                 /\ r.kind = "PATCH" /\ r.answer = "none"
    BY <2>3, RequestMade
  <2>6. \A k \in held : r.fields = Merged(k.op.base, server[r.id].fields, text[k.op.write])
    BY <2>4, <2>5, HeldOwn
  <2>7. Sends(r)'
    BY <1>2, <1>3, <2>5, <2>6 DEF Sends, Merged
  <2> QED BY <1>2, <2>5, <2>7, SentOwn
<1> QED BY <1>4, <1>5

LEMMA SendDeletionOwn ==
  ASSUME SInv, KInv, SendDeletion
  PROVE  KInv' /\ OwnFields
<1>1. PICK h \in held :
        /\ h.op.kind = "delete" /\ ~EditedSince(h.op.base, fresh[h.op.target])
        /\ wire' = {Request("DELETE", h.op.target, fresh[h.op.target])}
  BY DEF SendDeletion
<1>2. wire = {} /\ UNCHANGED <<vars, text, server, origin, saved, syncing, fresh, wanted, unwanted>>
  BY DEF SendDeletion
<1>3. PICK r : wire' = {r} /\ r.kind = "DELETE" /\ r.id = h.op.target /\ r.answer = "none"
  BY <1>1, RequestMade
<1>4. Live' = Live /\ held' = held
  BY <1>2, SameLive DEF vars
<1>5. Sends(r)'
  <2>1. ASSUME r.id \in Live, NEW k \in held PROVE k.op.base = server[r.id].fields
    <3>1. k = h /\ syncing /\ h.op.base # NoBase
      BY <1>3, <2>1, HeldOwn DEF Own
    <3>2. fresh[r.id] = server[r.id].fields
      BY <1>2, <2>1, <3>1 DEF KInv, FreshLive
    <3> QED BY <1>1, <1>3, <3>1, <3>2 DEF EditedSince
  <2> QED BY <1>2, <1>3, <1>4, <2>1 DEF Sends
<1> QED BY <1>2, <1>3, <1>5, SentOwn

\* An edit created again is of an event the server does not have any more.
LEMMA CreateAgainOwn ==
  ASSUME SInv, KInv, CreateAgain
  PROVE  KInv' /\ OwnFields
<1>1. PICK r \in wire, h \in held :
        /\ r.kind = "PATCH" /\ r.answer = "missing"
        /\ wire' = {Request("POST", r.id, text[h.op.write])}
  BY DEF CreateAgain
<1>2. UNCHANGED <<vars, text, server, origin, saved, syncing, fresh, wanted, unwanted>>
  BY DEF CreateAgain
<1>3. r.id \notin Live /\ \A s \in wire : s = r
  BY <1>1 DEF KInv, LiveSent, Sends
<1>4. Live' = Live
  BY <1>2, SameLive
<1>5. PICK s : wire' = {s} /\ s.id = r.id
  BY <1>1, RequestMade
<1>6. Sends(s)'
  BY <1>3, <1>4, <1>5 DEF Sends
<1> QED BY <1>2, <1>3, <1>5, <1>6, SentOwn

\* An op completed goes; what it renames was and is none of these events.
LEMMA CompleteOwn ==
  ASSUME SInv, KInv, NEW h \in held, NEW id, id # NoId => h.op.target \notin Live /\ id \in NewIds(h.ticket),
         NEW givenUp, Complete(h, id, givenUp), wire' = {},
         UNCHANGED <<text, server, origin, wanted, unwanted, saved, syncing>>, FreshLive'
  PROVE  KInv' /\ OwnFields
<1> DEFINE left == Without(ops, {h.ticket})
           g == [t \in DOMAIN left |-> Rewritten(left[t], h.op.target, id, h.op.entity)]
<1>1. Live' = Live /\ OwnNames' /\ OwnFields
  BY SameLive
<1>2. /\ DOMAIN left = DOMAIN ops \ {h.ticket} /\ \A t \in DOMAIN left : left[t] = ops[t]
      /\ \A t \in DOMAIN ops : ops[t] \in Op
      /\ h.op.target \in Int /\ h.ticket \in 1..MaxWrites
  BY OutboxAssumption DEF Without, SInv, IInv, TypeOK, Held, Op, Outboxed, Taken
<1>3. ops' = (IF Rewrites(h, id) THEN g ELSE left) /\ held' = {}
  BY DEF Complete
<1>4. id # NoId => id \notin Live
  <2>1. "event" \in AllEntities
    BY DEF AllEntities
  <2> QED BY <1>2, <2>1, ServerAssumption DEF Live
<1> HIDE DEF left
<1>5. /\ DOMAIN ops' = DOMAIN left
      /\ \A t \in DOMAIN ops' :
           /\ ops'[t].kind = ops[t].kind /\ ops'[t].base = ops[t].base
           /\ ops'[t].write = ops[t].write /\ ops'[t].parked = ops[t].parked
           /\ ops'[t].target # ops[t].target
                => ops[t].target \notin Live /\ ops'[t].target \notin Live
  <2>1. CASE ~Rewrites(h, id)
    BY <1>2, <1>3, <2>1
  <2>2. CASE Rewrites(h, id)
    <3>1. id \notin Live /\ h.op.target \notin Live
      BY <1>4, <2>2 DEF Rewrites
    <3>2. \A t \in DOMAIN left :
            /\ g[t].kind = ops[t].kind /\ g[t].base = ops[t].base
            /\ g[t].write = ops[t].write /\ g[t].parked = ops[t].parked
            /\ g[t].target = ops[t].target \/ (g[t].target = id /\ ops[t].target = h.op.target)
      BY <1>2, RewrittenFields
    <3>3. DOMAIN g = DOMAIN left /\ ops' = g
      BY <1>3, <2>2
    <3> HIDE DEF g
    <3> QED BY <3>1, <3>2, <3>3
  <2> QED BY <2>1, <2>2
<1>6. \A t \in DOMAIN ops', d \in DOMAIN ops \ DOMAIN ops' : ~(t < d)
  BY <1>2, <1>5 DEF KInv, HeldFirst
<1>7. OwnQueue'
  <2>1. \A t \in DOMAIN ops' : t \in DOMAIN ops
    BY <1>2, <1>5
  <2>2. Live' \subseteq Live
    BY <1>1
  <2> QED BY <1>5, <1>6, <2>1, <2>2, QueueLess
<1>8. HeldFirst' /\ LiveSent' /\ SavedLive'
  BY <1>1, <1>3 DEF HeldFirst, LiveSent, KInv, SavedLive
<1> QED BY <1>1, <1>7, <1>8 DEF KInv

LEMMA SettleDeletionOwn ==
  ASSUME SInv, KInv, SettleDeletion
  PROVE  KInv' /\ OwnFields
<1>1. PICK h \in held, givenUp \in BOOLEAN : Complete(h, NoId, givenUp)
  BY DEF SettleDeletion
<1>2. wire = {} /\ UNCHANGED syncVars
  BY DEF SettleDeletion
<1>3. FreshLive'
  BY <1>2 DEF KInv, FreshLive, Live, syncVars
<1> QED BY <1>1, <1>2, <1>3, CompleteOwn DEF syncVars

LEMMA TakeAnswerOwn ==
  ASSUME SInv, KInv, TakeAnswer
  PROVE  KInv' /\ OwnFields
<1>1. PICK r \in wire, h \in held :
        /\ r.answer = "ok" \/ (r.answer = "missing" /\ r.kind = "DELETE")
        /\ Complete(h, r.row, FALSE)
        /\ fresh' = CASE r.kind = "POST"   -> Extended(fresh, r.row, r.fields)
                      [] r.kind = "PATCH"  -> Extended(fresh, r.id, r.fields)
                      [] r.kind = "DELETE" -> Without(fresh, {r.id})
  BY DEF TakeAnswer
<1>2. wire' = {} /\ UNCHANGED <<text, server, origin, saved, syncing, wanted, unwanted>>
  BY DEF TakeAnswer
<1>3. r \in Requests /\ SentFor(r, h) /\ Sends(r) /\ \A s \in wire : s = r
  BY DEF SInv, Synced, OnWire, KInv, LiveSent
<1>4. r.row # NoId => h.op.target \notin Live /\ r.row \in NewIds(h.ticket)
  BY <1>3 DEF SentFor, Sends
<1>5. syncing /\ h.ticket \in 1..MaxWrites
  BY HeldOwn, OutboxAssumption DEF SInv, IInv, TypeOK, Outboxed, Taken
<1>6. \A id \in Live : id \in DOMAIN fresh /\ (id # r.id => fresh[id] = server[id].fields)
  BY <1>3, <1>5 DEF KInv, FreshLive
<1>7. CASE r.kind = "POST"
  <2>1. r.row \notin Live /\ r.id \notin Live
    <3>1. r.row # NoId
      BY <1>1, <1>3, <1>7 DEF SentFor
    <3>2. "event" \in AllEntities
      BY DEF AllEntities
    <3> QED BY <1>3, <1>4, <1>5, <1>7, <3>1, <3>2, ServerAssumption DEF Live, Sends
  <2>2. \A id \in Live : id \in DOMAIN fresh' /\ fresh'[id] = server[id].fields
    BY <1>1, <1>6, <1>7, <2>1 DEF Extended
  <2>3. FreshLive'
    BY <1>2, <2>2 DEF FreshLive, Live
  <2> QED BY <1>1, <1>2, <1>4, <2>3, CompleteOwn
<1>8. CASE r.kind = "PATCH"
  <2>1. r.id \in Live => r.fields = server[r.id].fields
    BY <1>1, <1>3, <1>8 DEF Sends
  <2>2. \A id \in Live : id \in DOMAIN fresh' /\ fresh'[id] = server[id].fields
    BY <1>1, <1>6, <1>8, <2>1 DEF Extended
  <2>3. FreshLive'
    BY <1>2, <2>2 DEF FreshLive, Live
  <2> QED BY <1>1, <1>2, <1>4, <2>3, CompleteOwn
<1>9. CASE r.kind = "DELETE"
  <2>1. r.id \notin Live
    BY <1>1, <1>3, <1>9 DEF Sends
  <2>2. \A id \in Live : id \in DOMAIN fresh' /\ fresh'[id] = server[id].fields
    BY <1>1, <1>6, <1>9, <2>1 DEF Without
  <2>3. FreshLive'
    BY <1>2, <2>2 DEF FreshLive, Live
  <2> QED BY <1>1, <1>2, <1>4, <2>3, CompleteOwn
<1> QED BY <1>3, <1>7, <1>8, <1>9 DEF Requests

LEMMA SyncEndsOwn ==
  ASSUME SInv, KInv, GiveUp \/ EndSync \/ Killed
  PROVE  KInv' /\ OwnFields
<1>1. /\ UNCHANGED <<ops, text, server, origin, wanted, unwanted>>
      /\ held' = {} /\ syncing' = FALSE /\ saved' \in {Rows(server), saved}
  BY DEF GiveUp, EndSync, Killed, Saves, Abort, Restart, vars
<1>2. wire' = {}
  BY DEF GiveUp, EndSync, Killed, SInv, Synced, OnWire
<1>3. SavedLive'
  BY <1>1, SavedAgain
<1> QED BY <1>1, <1>2, <1>3, LetGoOwn

-----------------------------------------------------------------------------
(* The server and the other devices.                                       *)

LEMMA AnsweredRequest ==
  ASSUME NEW r \in Requests, NEW answer, NEW row, Answered(r, answer, row)
  PROVE  \E s : /\ wire' = {s} /\ s.id = r.id /\ s.kind = r.kind /\ s.fields = r.fields
                /\ s.answer = answer /\ s.row = row
<1> DEFINE s == [r EXCEPT !.answer = answer, !.row = row]
<1>1. /\ s.id = r.id /\ s.kind = r.kind /\ s.fields = r.fields /\ s.answer = answer
      /\ s.row = row
  BY DEF Requests
<1>2. wire' = {s}
  BY DEF Answered
<1> HIDE DEF s
<1> QED BY <1>1, <1>2

LEMMA ServePostOwn ==
  ASSUME SInv, KInv, ServePost
  PROVE  KInv' /\ OwnFields
<1>1. PICK r \in wire, h \in held :
        /\ r.kind = "POST" /\ r.answer = "none"
        /\ \/ Insert(h.ticket, r.fields, Event(r.id))
           \/ UNCHANGED <<server, origin>>
        /\ \E row : Answered(r, "ok", row)
  BY DEF ServePost
<1>2. UNCHANGED <<vars, text, saved, syncing, fresh, wanted, unwanted>>
  BY DEF ServePost
<1>3. /\ r.id \notin Live /\ r \in Requests /\ h.ticket \in Nat /\ \A s \in wire : s = r
  BY <1>1 DEF KInv, LiveSent, Sends, SInv, Synced, OnWire, IInv, TypeOK, Held
<1>4. Event(r.id) \notin Live
  BY <1>3, LiveNames
<1>5. Live' = Live /\ OwnNames' /\ \A id \in Live : server'[id] = server[id]
  <2>1. CASE Insert(h.ticket, r.fields, Event(r.id))
    BY <1>3, <1>4, <2>1, InsertOwn
  <2>2. CASE UNCHANGED <<server, origin>>
    BY <2>2, SameLive
  <2> QED BY <1>1, <2>1, <2>2
<1>6. OwnQueue' /\ HeldFirst' /\ ops' = ops /\ held' = held
  <2>1. ops' = ops /\ held' = held /\ sending' = sending
    BY <1>2 DEF vars
  <2>2. OwnQueue'
    BY <1>2, <1>5, <2>1, QueueLess
  <2> QED BY <2>1, <2>2 DEF KInv, HeldFirst
<1>7. SavedLive'
  BY <1>2, <1>5 DEF KInv, SavedLive
<1>8. FreshLive'
  BY <1>1, <1>2, <1>3, <1>5 DEF KInv, FreshLive
<1>9. LiveSent'
  <2>1. PICK s : wire' = {s} /\ s.id = r.id
    BY <1>1, <1>3, AnsweredRequest
  <2> QED BY <1>2, <1>3, <1>5, <1>6, <2>1 DEF KInv, LiveSent, Sends
<1>10. OwnFields
  BY <1>5 DEF OwnFields, ChangesOwnFields, Live
<1> QED BY <1>5, <1>6, <1>7, <1>8, <1>9, <1>10 DEF KInv

\* An edit the server takes over changes only what the merge takes from this device.
LEMMA ServeChangeOwn ==
  ASSUME SInv, KInv, ServeChange
  PROVE  KInv' /\ OwnFields
<1>1. PICK r \in wire :
        /\ r.kind \in {"PATCH", "DELETE"} /\ r.answer = "none"
        /\ IF r.id \notin DOMAIN server
           THEN Answered(r, "missing", NoId) /\ UNCHANGED server
           ELSE /\ Answered(r, "ok", NoId)
                /\ server' = IF r.kind = "PATCH"
                             THEN [server EXCEPT ![r.id].fields = r.fields]
                             ELSE Without(server, {r.id})
  BY DEF ServeChange
<1>2. UNCHANGED <<vars, text, origin, saved, syncing, fresh, wanted, unwanted>>
  BY DEF ServeChange
<1>3. PICK h \in held : TRUE
  BY <1>1 DEF SInv, Synced, OnWire
<1>4. /\ r \in Requests /\ SentFor(r, h) /\ Sends(r) /\ Own(h.op)
      /\ \A s \in wire : s = r
  BY HeldOwn DEF SInv, Synced, OnWire, KInv, LiveSent
<1>5. PICK s : /\ wire' = {s} /\ s.id = r.id /\ s.kind = r.kind /\ s.fields = r.fields
               /\ s.answer = IF r.id \notin DOMAIN server THEN "missing" ELSE "ok"
  BY <1>1, <1>4, AnsweredRequest
<1>6. /\ Live' = (IF r.kind = "DELETE" THEN Live \ {r.id} ELSE Live)
      /\ \A id \in Live' : id # r.id => server'[id] = server[id]
      /\ r.id \in Live' => server'[r.id].fields = r.fields /\ r.kind = "PATCH"
  <2>1. CASE r.id \notin DOMAIN server
    BY <1>1, <2>1 DEF Live
  <2>2. CASE r.id \in DOMAIN server /\ r.kind = "PATCH"
    <3>1. server' = [server EXCEPT ![r.id].fields = r.fields]
      BY <1>1, <2>2
    <3>2. server[r.id] \in [client : Nat, fields : Contents]
      BY <2>2 DEF SInv, Synced, Clients
    <3> QED BY <2>2, <3>1, <3>2 DEF Live
  <2>3. CASE r.id \in DOMAIN server /\ r.kind = "DELETE"
    BY <1>1, <2>3 DEF Live, Without
  <2> QED BY <1>1, <2>1, <2>2, <2>3
<1>7. OwnNames'
  BY <1>2, <1>6 DEF KInv, OwnNames
<1>8. OwnQueue' /\ HeldFirst' /\ ops' = ops /\ held' = held
  <2>1. ops' = ops /\ held' = held /\ sending' = sending
    BY <1>2 DEF vars
  <2>2. Live' \subseteq Live
    BY <1>6
  <2>3. OwnQueue'
    BY <1>2, <2>1, <2>2, QueueLess
  <2> QED BY <2>1, <2>3 DEF KInv, HeldFirst
<1>9. SavedLive'
  BY <1>2, <1>6 DEF KInv, SavedLive
<1>10. FreshLive'
  <2>1. ASSUME syncing, NEW id \in Live'
        PROVE  /\ id \in DOMAIN fresh
               /\ \/ fresh[id] = server'[id].fields
                  \/ \E q \in wire' : q.kind = "PATCH" /\ q.id = id /\ q.answer = "ok"
    <3>1. id \in Live /\ id \in DOMAIN fresh /\ fresh[id] = server[id].fields
      BY <1>1, <1>4, <1>6, <2>1 DEF KInv, FreshLive
    <3>2. CASE id # r.id
      BY <1>6, <2>1, <3>1, <3>2
    <3>3. CASE id = r.id
      BY <1>5, <1>6, <2>1, <3>1, <3>3 DEF Live
    <3> QED BY <3>2, <3>3
  <2> QED BY <1>2, <2>1 DEF FreshLive
<1>11. LiveSent'
  <2>1. Sends(s)'
    <3>1. ASSUME r.id \in Live'
          PROVE  s.kind = "PATCH" /\ s.answer = "ok" /\ s.fields = server'[s.id].fields
      BY <1>5, <1>6, <3>1 DEF Live
    <3> QED BY <1>5, <3>1 DEF Sends
  <2> QED BY <1>2, <1>5, <1>8, <2>1 DEF KInv, LiveSent
<1>12. OwnFields
  <2>1. ASSUME ~HeldForms, NEW id \in Known["event"] \cap DOMAIN server \cap DOMAIN server',
               NEW f \in Fields,
               server'[id].fields[f] # server[id].fields[f]
        PROVE  wanted[id][f] # Untouched
    <3>1. id \in Live /\ id \in Live' /\ id = r.id
      BY <1>6, <2>1 DEF Live
    <3>2. r.kind = "PATCH" /\ server'[id].fields = r.fields
      BY <1>6, <3>1
    <3>3. /\ r.fields = Merged(h.op.base, server[id].fields, text[h.op.write])
          /\ h.op.kind = "update" /\ h.op.target = id
      BY <1>1, <1>4, <3>1, <3>2 DEF Sends, SentFor
    <3>4. h.op.base # NoBase
      BY <1>4, <3>1, <3>3 DEF Own
    <3>5. text[h.op.write][f] # h.op.base[f]
      BY <2>1, <3>2, <3>3, <3>4 DEF Merged
    <3> QED BY <1>4, <2>1, <3>1, <3>3, <3>5 DEF Own
  <2> QED BY <2>1 DEF OwnFields, ChangesOwnFields
<1> QED BY <1>7, <1>8, <1>9, <1>10, <1>11, <1>12 DEF KInv

\* Another device writes while nobody syncs.
LEMMA OtherOwn ==
  ASSUME ~Racing, SInv, KInv, NEW id \in DOMAIN server,
         OtherDelete(id) \/ \E f \in Fields : OtherEdit(id, f)
  PROVE  KInv' /\ OwnFields
<1>1. /\ others' = others + 1 /\ ~syncing
      /\ UNCHANGED <<vars, text, origin, saved, syncing, fresh, wire, unwanted>>
  BY DEF OtherDelete, OtherEdit, CountOther
<1>2. others \in Nat /\ held = {} /\ wire = {} /\ ops' = ops /\ held' = {} /\ wire' = {}
  BY <1>1 DEF SInv, Synced, Counted, KInv, LiveSent, OnWire, vars
<1>3. OwnFields
  BY <1>1, <1>2 DEF OwnFields, ChangesOwnFields
<1>4. \A i \in Live : i \in DOMAIN wanted /\ wanted[i] \in [Fields -> Values \cup {Untouched}]
  BY DEF Live, KInv, OwnNames, SInv, Synced, Origins, Wants
<1>5. Event(id) \in Live => Event(id) = id
  BY LiveNames
<1>6. Live' \subseteq Live
  BY DEF OtherDelete, OtherEdit, Live, Without
<1>7. \A t \in DOMAIN ops, f \in Fields :
        /\ ~HeldForms /\ ops[t].target \in Live' /\ ops[t].kind = "update"
        /\ text[ops[t].write][f] # ops[t].base[f]
        => wanted'[ops[t].target][f] # Untouched
  <2>1. SUFFICES ASSUME NEW t \in DOMAIN ops, NEW f \in Fields,
                        ~HeldForms, ops[t].target \in Live', ops[t].kind = "update",
                        text[ops[t].write][f] # ops[t].base[f]
                 PROVE  wanted'[ops[t].target][f] # Untouched
    OBVIOUS
  <2> DEFINE i == ops[t].target
  <2>2. i \in Live /\ wanted[i][f] # Untouched /\ ops[t].base # NoBase
    BY <1>6, <2>1 DEF KInv, OwnQueue, AllOwn, Own
  <2>3. CASE OtherDelete(id)
    <3>1. Event(id) # i
      BY <1>5, <2>1, <2>2, <2>3 DEF OtherDelete, Live, Without
    <3> QED BY <2>2, <2>3, <3>1 DEF OtherDelete
  <2>4. ASSUME NEW e \in Fields, OtherEdit(id, e) PROVE wanted'[i][f] # Untouched
    <3>1. wanted' = [wanted EXCEPT ![Event(id)][e] = IF Contends(id, e) THEN @ ELSE Untouched]
      BY <2>4 DEF OtherEdit
    <3>2. CASE Event(id) = i /\ e = f
      <4>1. id = i
        BY <1>5, <2>2, <3>2
      <4>2. ops[t].entity = "event"
        BY DEF SInv, Outboxed, Queued, EventOp
      <4>3. t \in WaitingOn(id)
        BY <4>1, <4>2 DEF WaitingOn, About
      <4>4. Contends(id, e)
        BY <2>1, <2>2, <3>2, <4>3 DEF Contends
      <4>5. wanted'[i][f] = wanted[i][f]
        BY <1>4, <2>2, <3>1, <3>2, <4>4
      <4> QED BY <2>2, <4>5
    <3>3. CASE ~(Event(id) = i /\ e = f)
      <4>1. wanted'[i][f] = wanted[i][f]
        BY <1>4, <2>2, <3>1, <3>3
      <4> QED BY <2>2, <4>1
    <3> QED BY <3>2, <3>3
  <2> QED BY <2>3, <2>4
<1>8. OwnQueue'
  <2>1. NoneParked' /\ BasedAlike' /\ DeletedLast'
    BY <1>1, <1>2, <1>6 DEF KInv, OwnQueue, NoneParked, BasedAlike, DeletedLast
  <2>2. AllOwn'
    BY <1>1, <1>2, <1>6, <1>7 DEF KInv, OwnQueue, AllOwn, Own
  <2> QED BY <2>1, <2>2 DEF OwnQueue
<1>9. OwnNames'
  BY <1>1, <1>6 DEF KInv, OwnNames
<1>10. HeldFirst' /\ SavedLive' /\ FreshLive' /\ LiveSent'
  BY <1>1, <1>2, <1>6 DEF HeldFirst, KInv, SavedLive, FreshLive, LiveSent
<1> QED BY <1>3, <1>8, <1>9, <1>10 DEF KInv

-----------------------------------------------------------------------------
\* Opening a form changes nothing else.
LEMMA OpenFormOwn ==
  ASSUME SInv, KInv, NEW id, OpenForm(id)
  PROVE  KInv' /\ OwnFields
<1>1. UNCHANGED <<vars, text, server, origin, saved, syncing, fresh, wire, wanted, unwanted, others>>
  BY OpenFormOnly
<1>2. Live' = Live /\ OwnNames' /\ OwnFields /\ OwnQueue' /\ HeldFirst'
  BY <1>1, SameQueue
<1>3. SavedLive' /\ FreshLive'
  BY <1>1, <1>2 DEF KInv, SavedLive, FreshLive
<1>4. LiveSent'
  BY <1>1, <1>2 DEF KInv, LiveSent, Sends, vars
<1> QED BY <1>2, <1>3, <1>4 DEF KInv

\* Every step keeps the invariant, and changes of these events only what is wanted.
LEMMA StepOwn ==
  ASSUME ~Racing, SInv, KInv, [SyncNext]_allVars
  PROVE  KInv' /\ OwnFields
<1>1. CASE UserWrites
  BY <1>1, CreateEventOwn, OpenFormOwn, UpdateEventOwn, DeleteEventOwn DEF UserWrites
<1>2. CASE EngineSteps
  BY <1>2, ReadServerOwn, TakeNextOwn, SendWriteOwn, SendDeletionOwn, SettleDeletionOwn,
     TakeAnswerOwn, CreateAgainOwn, SyncEndsOwn
  DEF EngineSteps
<1>3. CASE ServerSteps
  BY <1>3, ServePostOwn, ServeChangeOwn, OtherOwn DEF ServerSteps
<1>4. CASE UNCHANGED allVars
  <2>1. UNCHANGED <<vars, syncVars>>
    BY <1>4 DEF allVars
  <2>2. Live' = Live /\ OwnNames' /\ OwnFields /\ OwnQueue' /\ HeldFirst'
    BY <2>1, SameQueue DEF syncVars
  <2>3. SavedLive' /\ FreshLive'
    BY <2>1, <2>2 DEF KInv, SavedLive, FreshLive, syncVars
  <2>4. LiveSent'
    BY <2>1, <2>2 DEF KInv, LiveSent, Sends, syncVars, vars
  <2> QED BY <2>2, <2>3, <2>4 DEF KInv
<1> QED BY <1>1, <1>2, <1>3, <1>4 DEF SyncNext

\* What a sync deletes of these events is what the deletion was based on.
DeletesBase ==
  others' = others =>
    \A id \in Live \ DOMAIN server' : \A h \in held : h.op.base = server[id].fields

LEMMA StepDeletes ==
  ASSUME SInv, KInv, [SyncNext]_allVars
  PROVE  DeletesBase
<1>1. SUFFICES ASSUME others' = others, NEW id \in Live \ DOMAIN server', NEW h \in held
               PROVE  h.op.base = server[id].fields
  BY DEF DeletesBase
<1>2. others \in Nat /\ server' # server
  BY <1>1 DEF SInv, Synced, Counted, Live
<1>3. ServeChange
  <2>1. CASE UserWrites
    <3>1. CreateEvent
      BY <1>2, <2>1 DEF UserWrites, OpenForm, UpdateEvent, DeleteEvent
    <3>2. Live' = Live
      <4>1. writes \in Nat /\ nextTempId \notin Live
        BY IdsResolve, OutboxAssumption DEF SInv, IInv, TypeOK, Live, AllEntities
      <4> QED BY <1>2, <3>1, <4>1, InsertOwn DEF CreateEvent
    <3> QED BY <1>1, <3>2 DEF Live
  <2>2. CASE EngineSteps
    BY <1>2, <2>2
    DEF EngineSteps, ReadServer, TakeNext, SendWrite, SendDeletion, SettleDeletion, TakeAnswer,
        CreateAgain, GiveUp, EndSync, Killed, syncVars
  <2>3. CASE ServePost
    <3>1. PICK r \in wire, k \in held :
            r.kind = "POST" /\ Insert(k.ticket, r.fields, Event(r.id))
      BY <1>2, <2>3 DEF ServePost
    <3>2. r.id \notin Live /\ k.ticket \in Nat
      BY <3>1 DEF KInv, LiveSent, Sends, SInv, IInv, TypeOK, Held
    <3>3. Event(r.id) \notin Live
      BY <3>2, LiveNames
    <3>4. Live' = Live
      BY <3>1, <3>2, <3>3, InsertOwn
    <3> QED BY <1>1, <3>4 DEF Live
  <2>4. CASE \E i \in DOMAIN server : OtherDelete(i) \/ \E f \in Fields : OtherEdit(i, f)
    BY <1>1, <1>2, <2>4 DEF OtherDelete, OtherEdit, CountOther
  <2>5. CASE UNCHANGED allVars
    BY <1>2, <2>5 DEF allVars, syncVars
  <2> QED BY <2>1, <2>2, <2>3, <2>4, <2>5 DEF SyncNext, ServerSteps
<1>4. PICK r \in wire : r.kind = "DELETE" /\ server' = Without(server, {r.id})
  BY <1>1, <1>3 DEF ServeChange, Live
<1>5. r.id = id
  BY <1>1, <1>4 DEF Without, Live
<1> QED BY <1>1, <1>4, <1>5 DEF KInv, LiveSent, Sends

LEMMA SyncInitOwn == ASSUME SyncInit PROVE KInv
<1>1. /\ server = [id \in Known["event"] |-> [client |-> Nobody, fields |-> [f \in Fields |-> First]]]
      /\ origin = [id \in Known["event"] |-> id]
      /\ saved = Rows(server) /\ syncing = FALSE /\ wire = {}
  BY DEF SyncInit
<1>2. DOMAIN ops = {} /\ held = {}
  BY DEF SyncInit, Init
<1>3. OwnNames
  BY <1>1 DEF OwnNames
<1>4. SavedLive
  BY <1>1 DEF SavedLive, Live, Rows
<1>5. OwnQueue /\ HeldFirst
  BY <1>2 DEF OwnQueue, NoneParked, AllOwn, BasedAlike, DeletedLast, HeldFirst
<1>6. FreshLive /\ LiveSent
  BY <1>1, <1>2 DEF FreshLive, LiveSent
<1> QED BY <1>3, <1>4, <1>5, <1>6 DEF KInv

LEMMA KInvHolds == ~Racing => (SyncSpec => [](SInv /\ KInv))
<1> SUFFICES ASSUME ~Racing PROVE SyncSpec => [](SInv /\ KInv)
  OBVIOUS
<1>1. SyncInit => KInv
  BY SyncInitOwn
<1>2. SInv /\ KInv /\ [SyncNext]_allVars => KInv'
  BY StepOwn
<1> QED BY <1>1, <1>2, SInvHolds, PTL DEF SyncSpec

\* With the other devices quiet while this one syncs, and no sync while an edit form is
\* open, a sync changes of an event the server already had only the fields the user of
\* this device gave a value: what others wrote stays (sync_engine.dart, _merge).
THEOREM OthersFieldsStay == ~Racing /\ ~HeldForms => (SyncSpec => TheirsKept)
<1> SUFFICES ASSUME ~Racing, ~HeldForms PROVE SyncSpec => TheirsKept
  OBVIOUS
<1>1. SInv /\ KInv /\ [SyncNext]_allVars => [ChangesOwnFields]_allVars
  BY StepOwn DEF OwnFields
<1> QED BY <1>1, KInvHolds, PTL DEF SyncSpec, TheirsKept

\* Nor does it delete one of them that another device edited since the deletion was
\* made here: a deletion is sent only while the server has what it was based on
\* (sync_engine.dart, _deleteEvent), however fields are put back.
THEOREM DeletedAsBased == ~Racing => (SyncSpec => [][DeletesBase]_allVars)
<1> SUFFICES ASSUME ~Racing PROVE SyncSpec => [][DeletesBase]_allVars
  OBVIOUS
<1>1. SInv /\ KInv /\ [SyncNext]_allVars => [DeletesBase]_allVars
  BY StepDeletes
<1> QED BY <1>1, KInvHolds, PTL DEF SyncSpec
=============================================================================
