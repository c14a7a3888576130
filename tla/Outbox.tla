------------------------------- MODULE Outbox -------------------------------
(***************************************************************************)
(* The outbox of the Flutter client (homl-ui/lib/data/sync/outbox.dart):   *)
(* the changes made while the server is out of reach, kept in order until  *)
(* the server has them.  The module has the outbox itself, the engine that *)
(* takes one op at a time from it, the screens that write into it with the *)
(* ids they hold, storage failures, restarts of the app and the end of a   *)
(* session.                                                                *)
(*                                                                         *)
(* The list of the code is a function from tickets to ops.  A ticket is    *)
(* the number of the write that added the op: the list is only appended    *)
(* to, filtered and edited in place, so its order is the order of tickets. *)
(* The ticket also stands for the op's unique id (its clientId).  A body   *)
(* is abstracted to what the outbox reads of it: the tag ids it uses       *)
(* (tagsId, members, idParentTag), its category id (0: none), and the      *)
(* number of the write whose text it carries.                              *)
(***************************************************************************)
EXTENDS Integers, FiniteSets

CONSTANTS
  Entities,     \* the kinds of thing this instance writes
  Known,        \* entity -> ids (positive) of what the server already has
  Bases,        \* server copies an edit may be based on
  NoBase,       \* no such copy
  MaxWrites,    \* bound: writes made by the user
  MaxResets,    \* bound: restarts, ends of session and retries by the user
  StorageFails, \* whether persisting a completion may fail
  LateReplies,  \* whether a session may end while a request is under way
  Recreations   \* bound: times the server has to create one op's thing again

AllEntities == {"event", "tag", "category", "group"}
Kinds       == {"create", "update", "delete"}
ParkReasons == {"refused", "missingTag", "missingParent",
                "encryptionChanged", "dataReplaced"}

NoId    == 0      \* no category, no server id
NotHeld == "none" \* the op is not parked
Nobody  == 0      \* no op is being sent
FirstTempId == -2

ASSUME OutboxAssumption ==
  /\ Entities \subseteq AllEntities
  /\ Known \in [AllEntities -> SUBSET (Nat \ {0})]
  /\ NoBase \notin Bases
  /\ MaxWrites \in Nat /\ MaxResets \in Nat /\ Recreations \in Nat
  /\ StorageFails \in BOOLEAN /\ LateReplies \in BOOLEAN

VARIABLES
  ops,        \* ticket -> op, the waiting ops
  writes,     \* number of writes so far; the next ticket is writes + 1
  nextTempId, \* the next temporary id (they go down)
  remap,      \* temporary id -> the server id it became
  eventRemap, \* server id of an event -> the one it was created again under
  sending,    \* ticket marked as being sent, or Nobody
  held,       \* the engine's copy of the op it works on: a set of at most one
  shown,      \* <<entity, id>> pairs the screens hold
  resets      \* restarts, ends of session and retries so far

vars == <<ops, writes, nextTempId, remap, eventRemap, sending, held, shown, resets>>

Op == [entity : AllEntities, kind : Kinds, target : Int,
       tags : SUBSET Int, category : Int, base : Bases \cup {NoBase},
       write : Nat, parked : ParkReasons \cup {NotHeld}]

Held == [ticket : Nat, op : Op]

-----------------------------------------------------------------------------
(* What an op is about, and what it needs on the server first.             *)

IsCreation(op) == op.kind = "create"
IsWaiting(op)  == op.parked = NotHeld
About(op, e, id) == op.entity = e /\ op.target = id

TagDependencies(op) == {id \in op.tags : id < 0}

Dependencies(op) ==
  TagDependencies(op)
    \cup (IF ~IsCreation(op) /\ op.target < 0 THEN {op.target} ELSE {})
    \cup (IF op.category < 0 THEN {op.category} ELSE {})

\* The creations of f, and the temporary ids those of a set of tickets get.
Creations(f)    == {t \in DOMAIN f : IsCreation(f[t])}
TargetsOf(f, S) == {f[t].target : t \in S}

CreatedAfter(f, t) == TargetsOf(f, {c \in Creations(f) : c > t})

Without(f, S)    == [t \in DOMAIN f \ S |-> f[t]]
Extended(f, t, op) == [u \in DOMAIN f \cup {t} |-> IF u = t THEN op ELSE f[u]]

(* Ids a screen holds, resolved the way the code resolves them.            *)
Resolve(id)      == IF id < 0 /\ id \in DOMAIN remap THEN remap[id] ELSE id
ResolveEvent(id) == IF id < 0 THEN Resolve(id)
                    ELSE IF id \in DOMAIN eventRemap THEN eventRemap[id] ELSE id
TargetAsHeld(e, id) == id \* variant: not resolved
Target(e, id)    == IF e = "event" THEN ResolveEvent(id) ELSE Resolve(id)

-----------------------------------------------------------------------------
(* Holding ops back.                                                       *)

MissingReason(op, ids) ==
  IF TagDependencies(op) \cap ids # {} THEN "missingTag" ELSE "missingParent"

\* Why op cannot go while the creations with tickets in P are held back, the
\* creation c for the reason why[c].
BlockedReason(f, op, P, why) ==
  IF ~IsCreation(op) /\ \E c \in P : f[c].target = op.target
  THEN why[CHOOSE c \in P : f[c].target = op.target]
  ELSE IF Dependencies(op) \cap TargetsOf(f, P) # {}
       THEN MissingReason(op, TargetsOf(f, P))
       ELSE NotHeld

\* op as it enters the queue: parked at once when it needs a parked creation.
Admitted(f, op) ==
  [op EXCEPT !.parked =
     BlockedReason(f, op, {c \in Creations(f) : ~IsWaiting(f[c])},
                   [c \in DOMAIN f |-> f[c].parked])]

\* Variant: nothing goes with t.
GoesAlone(f, t, Eligible, S) == S = {i \in DOMAIN f : i = t}

\* The tickets that go with t: t, and in turn every op eligible for it that
\* needs what an earlier one of them creates.
GoesWith(f, t, Eligible, S) ==
  S = {i \in DOMAIN f :
         \/ i = t
         \/ /\ i \in Eligible
            /\ Dependencies(f[i]) \cap TargetsOf(f, {c \in S \cap Creations(f) : c < i}) # {}}

\* Why ticket i of the cascade S started at t for reason is parked.  A
\* creation of the cascade is itself there for something missing, so its
\* reason needs no recursion.
CascadeReason(f, t, reason, S, i) ==
  LET creation == S \cap Creations(f)
      before   == {c \in creation : c < i}
      why == [c \in creation |->
                IF c = t THEN reason
                ELSE MissingReason(f[c], TargetsOf(f, {b \in creation : b < c}))]
  IN IF i = t THEN reason ELSE BlockedReason(f, f[i], before, why)

\* f with t held back for reason, and with it what waits for it.
Park(f, t, reason, g) ==
  \E S \in SUBSET DOMAIN f :
    /\ GoesWith(f, t, {i \in DOMAIN f : IsWaiting(f[i])}, S)
    /\ g = [i \in DOMAIN f |->
              IF i \in S
              THEN [f[i] EXCEPT !.parked = CascadeReason(f, t, reason, S, i)]
              ELSE f[i]]

-----------------------------------------------------------------------------
(* What the screens may put in a body.  The repositories resolve the       *)
(* category and main tag of a tag before the first await, so either the    *)
(* id held or what it became since may arrive; the tags of an event and    *)
(* the members of a group are passed as the screen holds them.             *)

ScreenIds(e) == {p[2] : p \in {q \in shown : q[1] = e}}
Either(ids)  == ids \cup {Resolve(id) : id \in ids}

Bodies(e) ==
  [tags : CASE e = "event"    -> {{}} \cup {{id} : id \in ScreenIds("tag")}
            [] e = "tag"      -> {{}} \cup {{id} : id \in Either(ScreenIds("tag"))}
            [] e = "group"    -> {{id} : id \in ScreenIds("tag")}
            [] e = "category" -> {{}},
   category : IF e \in {"tag", "group"} THEN Either(ScreenIds("category")) ELSE {NoId}]

NewOp(e, kind, target, body, base) ==
  [entity |-> e, kind |-> kind, target |-> target, tags |-> body.tags,
   category |-> body.category, base |-> base, write |-> writes + 1,
   parked |-> NotHeld]

\* A body folded into a waiting op: it replaces what it carries.  The update
\* of a group carries no category.
Folded(op, body) ==
  [op EXCEPT !.tags = body.tags,
             !.category = IF op.entity = "group" THEN @ ELSE body.category,
             !.write = writes + 1]

-----------------------------------------------------------------------------
Init ==
  /\ ops = [t \in {} |-> 0]
  /\ writes = 0
  /\ nextTempId = FirstTempId
  /\ remap = [id \in {} |-> 0]
  /\ eventRemap = [id \in {} |-> 0]
  /\ sending = Nobody
  /\ held = {}
  /\ shown = UNION {{e} \X Known[e] : e \in AllEntities}
  /\ resets = 0

CountWrite == writes < MaxWrites /\ writes' = writes + 1

\* _newTempId counts down.
UpwardTempId(id) == id + 1
TempIdAfter(id)  == id - 1

\* createTag, createEvent, createCategory, createGroup.
Create(e, body) ==
  /\ CountWrite
  /\ ops' = Extended(ops, writes + 1,
              Admitted(ops, NewOp(e, "create", nextTempId, body, NoBase)))
  /\ nextTempId' = TempIdAfter(nextTempId)
  /\ shown' = shown \cup {<<e, nextTempId>>}
  /\ UNCHANGED <<remap, eventRemap, sending, held, resets>>

\* Variants that fold into the op being sent, or whatever was created since.
FoldableWhileSending(e, target, body) ==
  {t \in DOMAIN ops :
     /\ About(ops[t], e, target) /\ IsWaiting(ops[t]) /\ ops[t].kind \in {"create", "update"}
     /\ Dependencies(Folded(ops[t], body)) \cap CreatedAfter(ops, t) = {}}
FoldableAnyOrder(e, target, body) ==
  {t \in DOMAIN ops :
     /\ About(ops[t], e, target) /\ IsWaiting(ops[t]) /\ t # sending
     /\ ops[t].kind \in {"create", "update"}}

\* The waiting ops a change of e/target with this body folds into.
Foldable(e, target, body) ==
  {t \in DOMAIN ops :
     /\ About(ops[t], e, target)
     /\ t # sending
     /\ IsWaiting(ops[t])
     /\ ops[t].kind \in {"create", "update"}
     /\ Dependencies(Folded(ops[t], body)) \cap CreatedAfter(ops, t) = {}}

\* Variant: every change keeps the base it was given.
OwnBase(e, target, base) == base

\* The base the first waiting op of the thing has, else the one given.
EarliestBase(e, target, base) ==
  LET based == {t \in DOMAIN ops : About(ops[t], e, target) /\ ops[t].base # NoBase}
  IN IF based = {} THEN base
     ELSE ops[CHOOSE t \in based : \A u \in based : t <= u].base

\* A change made on a screen is based on the saved server copy, if any.
GivenBases(target) == IF target > 0 THEN Bases \cup {NoBase} ELSE {NoBase}

\* updateEvent, updateTag, updateCategory, updateGroup.
Update(e, id, body, base) ==
  /\ CountWrite
  /\ <<e, id>> \in shown
  /\ LET target == Target(e, id)
         into   == Foldable(e, target, body)
     IN /\ e = "tag" => \A p \in body.tags : Resolve(p) # target
        /\ \/ \E t \in into :
                /\ \A u \in into : t <= u
                /\ ops' = [ops EXCEPT ![t] = Folded(@, body)]
           \/ /\ into = {}
              /\ ops' = Extended(ops, writes + 1,
                          Admitted(ops, NewOp(e, "update", target,
                            IF e = "group" THEN [body EXCEPT !.category = NoId] ELSE body,
                            EarliestBase(e, target, base))))
  /\ UNCHANGED <<nextTempId, remap, eventRemap, sending, held, shown, resets>>

\* A deletion replaces the waiting ops in gone, and is itself queued unless
\* the creation was among them.
DeleteOp(e, target, gone, body, base) ==
  IF \E t \in gone : IsCreation(ops[t])
  THEN Without(ops, gone)
  ELSE Extended(Without(ops, gone), writes + 1,
         Admitted(Without(ops, gone),
           NewOp(e, "delete", target, body, EarliestBase(e, target, base))))

\* The ops a deletion replaces: every op of an event but the one being sent
\* (deleteEvent); of anything else its waiting edits, never its creation
\* (_delete).
Replaced(e, target) ==
  {t \in DOMAIN ops :
     /\ About(ops[t], e, target)
     /\ t # sending
     /\ e # "event" => ops[t].kind = "update" /\ IsWaiting(ops[t])}

\* What a deletion notes: the main tag a synonym hands its events to.
Noted(e, id) ==
  [tags : IF e = "tag"
          THEN {{}} \cup {{p} : p \in ScreenIds("tag") \ {id, Target(e, id)}}
          ELSE {{}},
   category : {NoId}]

\* deleteEvent, deleteTag, deleteCategory, deleteGroup.
Delete(e, id, body, base) ==
  /\ CountWrite
  /\ <<e, id>> \in shown
  /\ LET target == Target(e, id)
     IN /\ ops' = DeleteOp(e, target, Replaced(e, target), body, base)
        /\ shown' = shown \ {<<e, i>> : i \in {j \in ScreenIds(e) : Target(e, j) = target}}
  /\ UNCHANGED <<nextTempId, remap, eventRemap, sending, held, resets>>

-----------------------------------------------------------------------------
(* The engine: one op at a time, in order.                                 *)

\* Variant: the head of the queue or nothing, parked or not.
TakeHead ==
  /\ held = {}
  /\ \E t \in DOMAIN ops :
       /\ IsWaiting(ops[t])
       /\ \A u \in DOMAIN ops : t <= u
       /\ sending' = t
       /\ held' = {[ticket |-> t, op |-> ops[t]]}
  /\ UNCHANGED <<ops, writes, nextTempId, remap, eventRemap, shown, resets>>

\* nextToSend.
Take ==
  /\ held = {}
  /\ \E t \in DOMAIN ops :
       /\ IsWaiting(ops[t])
       /\ \A u \in DOMAIN ops : IsWaiting(ops[u]) => t <= u
       /\ sending' = t
       /\ held' = {[ticket |-> t, op |-> ops[t]]}
  /\ UNCHANGED <<ops, writes, nextTempId, remap, eventRemap, shown, resets>>

\* The engine's own check before a request: a tag, category or group change
\* that still needs a temporary id, or an event using a temporary tag.
Unsendable(op) ==
  IF op.entity # "event" THEN Dependencies(op) # {}
  ELSE op.kind # "delete" /\ TagDependencies(op) # {}

UnsendableReason(op) ==
  IF TagDependencies(op) # {} \/ (op.entity = "tag" /\ op.target < 0)
  THEN "missingTag" ELSE "missingParent"

\* park: by that check, or on the server's refusal.
HoldBack ==
  /\ \E h \in held, reason \in {"refused", "missingTag", "missingParent"} :
       /\ IF Unsendable(h.op) THEN reason = UnsendableReason(h.op)
          ELSE reason = "refused" /\ (h.op.target > 0 \/ h.op.kind # "delete")
       /\ IF h.ticket \in DOMAIN ops THEN Park(ops, h.ticket, reason, ops')
          ELSE ops' = ops
  /\ sending' = Nobody
  /\ held' = {}
  /\ UNCHANGED <<writes, nextTempId, remap, eventRemap, shown, resets>>

\* Before sending, the ops written for another encryption or generation.
ParkStale ==
  /\ held = {}
  /\ \E t \in DOMAIN ops, reason \in {"encryptionChanged", "dataReplaced"} :
       IsWaiting(ops[t]) /\ Park(ops, t, reason, ops')
  /\ sending' = Nobody
  /\ UNCHANGED <<writes, nextTempId, remap, eventRemap, held, shown, resets>>

\* The server (external): the id it answers for a creation, or for an edit
\* that had to create its event again; NoId for what answers none.
FirstFree == 100
NewIds(t) == {FirstFree * again + t : again \in 1..(Recreations + 1)}
AnswerIds(h) ==
  CASE h.op.kind = "create" ->
         NewIds(h.ticket) \cup (IF h.op.entity \in {"tag", "group"}
                                THEN Known[h.op.entity] ELSE {})
    [] h.op.kind = "update" /\ h.op.entity = "event" ->
         (IF h.op.target > 0 THEN {NoId} ELSE {}) \cup NewIds(h.ticket)
    [] OTHER -> {NoId}

\* A row created is given an id no row had: neither one the server started
\* with, nor one another op's thing was created under.
ASSUME ServerAssumption ==
  \A t \in 1..MaxWrites :
    /\ \A e \in AllEntities : NewIds(t) \cap Known[e] = {}
    /\ \A u \in 1..MaxWrites : t # u => NewIds(t) \cap NewIds(u) = {}

RewrittenSet(ids, from, to) == {IF id = from THEN to ELSE id : id \in ids}

\* _rewrite on one op: a temporary id is unique and replaced wherever it is
\* used; the server id of an event only names an event.
Rewritten(op, from, to, e) ==
  [op EXCEPT
     !.target = IF @ = from /\ (from < 0 \/ op.entity = e) THEN to ELSE @,
     !.tags = IF from < 0 THEN RewrittenSet(@, from, to) ELSE @,
     !.category = IF from < 0 /\ @ = from THEN to ELSE @]

Rewrites(h, id) == id # NoId /\ h.op.target # id

Remember(h, id) ==
  LET from == h.op.target
  IN IF ~Rewrites(h, id) THEN UNCHANGED <<remap, eventRemap>>
     ELSE IF from < 0
     THEN /\ remap' = Extended(remap, from, id)
          /\ UNCHANGED eventRemap
     ELSE /\ eventRemap' = [i \in DOMAIN eventRemap \cup {from} |->
                              IF i = from THEN id
                              ELSE IF eventRemap[i] = from THEN id ELSE eventRemap[i]]
          /\ UNCHANGED remap

\* What a waiting deletion is about is on no screen (projectEvents).
Hidden(f, e, id) == \E t \in DOMAIN f : f[t].kind = "delete" /\ About(f[t], e, id)

\* The screens after an answer: what was created, unless deleted meanwhile.
ShownAfter(h, id) ==
  shown \cup (IF id # NoId /\ ~Hidden(ops, h.op.entity, h.op.target)
              THEN {<<h.op.entity, id>>} ELSE {})

\* complete: op h reached the server, which answered id, or needs no sending
\* any more: a deletion may have been given up for an edit made elsewhere.
Complete(h, id, givenUp) ==
  /\ ~Unsendable(h.op)
  /\ givenUp => h.op.kind = "delete" /\ h.op.target > 0
  /\ LET left == Without(ops, {h.ticket})
     IN ops' = IF Rewrites(h, id)
               THEN [t \in DOMAIN left |-> Rewritten(left[t], h.op.target, id, h.op.entity)]
               ELSE left
  /\ Remember(h, id)
  /\ shown' = ShownAfter(h, id)
                \cup (IF givenUp THEN {<<h.op.entity, h.op.target>>} ELSE {})
  /\ sending' = Nobody
  /\ held' = {}
  /\ UNCHANGED <<writes, nextTempId, resets>>

Completes ==
  \E h \in held : \E id \in AnswerIds(h), givenUp \in BOOLEAN : Complete(h, id, givenUp)

\* complete when the store fails: the ops are reloaded as they were, what
\* was remembered stays, and the sync stops.
CompleteUnsaved ==
  /\ StorageFails
  /\ \E h \in held : \E id \in AnswerIds(h) :
       /\ ~Unsendable(h.op)
       /\ Remember(h, id)
  /\ sending' = Nobody
  /\ held' = {}
  /\ UNCHANGED <<ops, writes, nextTempId, shown, resets>>

\* abortSend: no answer, whether or not the request arrived.
Abort ==
  /\ held # {}
  /\ sending' = Nobody
  /\ held' = {}
  /\ UNCHANGED <<ops, writes, nextTempId, remap, eventRemap, shown, resets>>

-----------------------------------------------------------------------------
(* The user's sheet of waiting changes, and the life of the app.           *)

CountReset == resets < MaxResets /\ resets' = resets + 1

RetryParked ==
  /\ CountReset
  /\ ops' = [t \in DOMAIN ops |-> [ops[t] EXCEPT !.parked = NotHeld]]
  /\ UNCHANGED <<writes, nextTempId, remap, eventRemap, sending, held, shown>>

\* discard: the op and, in turn, what needs what it creates.
Discard(t) ==
  /\ t \in DOMAIN ops
  /\ \E S \in SUBSET DOMAIN ops :
       /\ GoesWith(ops, t, DOMAIN ops, S)
       /\ ops' = Without(ops, S)
       /\ shown' = shown \cup {<<ops[i].entity, ops[i].target>> :
                                 i \in {j \in S : ops[j].kind = "delete"}}
  /\ UNCHANGED <<writes, nextTempId, remap, eventRemap, sending, held, resets>>

\* What the screens show of the copy saved on the device, which may be older
\* than what they last showed, and of the persisted outbox.
SavedCopies == SUBSET {p \in shown : p[2] > 0}
Reread(copy, f) ==
  copy \cup {<<f[c].entity, f[c].target>> :
               c \in {b \in Creations(f) : ~Hidden(f, f[b].entity, f[b].target)}}

\* The app is killed and started again.
Restart(copy) ==
  /\ CountReset
  /\ remap' = [id \in {} |-> 0] /\ eventRemap' = [id \in {} |-> 0]
  /\ sending' = Nobody /\ held' = {}
  /\ shown' = Reread(copy, ops)
  /\ UNCHANGED <<ops, writes, nextTempId>>

\* Variant: forget starts the temporary ids again, the persisted ones too.
TempIdRestarted(keep) == FirstTempId
TempIdKept(keep) == IF keep THEN nextTempId ELSE FirstTempId

\* The session ends (endSession, purge, changeServer, then forget): the ops
\* are kept for the next sign-in or wiped.  The engine is not stopped.
EndSession(keep, copy) ==
  /\ CountReset
  /\ LateReplies \/ held = {}
  /\ remap' = [id \in {} |-> 0] /\ eventRemap' = [id \in {} |-> 0]
  /\ sending' = Nobody
  /\ ops' = IF keep THEN ops ELSE [t \in {} |-> 0]
  /\ nextTempId' = TempIdKept(keep)
  /\ shown' = Reread(copy, ops')
  /\ UNCHANGED <<writes, held>>

-----------------------------------------------------------------------------
UserStep ==
  \/ \E e \in Entities : \E body \in Bodies(e) : Create(e, body)
  \/ \E p \in shown : \E base \in GivenBases(Target(p[1], p[2])) :
       /\ p[1] \in Entities
       /\ \/ \E body \in Bodies(p[1]) : Update(p[1], p[2], body, base)
          \/ \E body \in Noted(p[1], p[2]) : Delete(p[1], p[2], body, base)
  \/ \E t \in DOMAIN ops : Discard(t)
  \/ RetryParked

EngineStep ==
  Take \/ HoldBack \/ ParkStale \/ Completes \/ CompleteUnsaved \/ Abort

LifeStep ==
  \E copy \in SavedCopies : Restart(copy) \/ \E keep \in BOOLEAN : EndSession(keep, copy)

Next == UserStep \/ EngineStep \/ LifeStep

Spec == Init /\ [][Next]_vars

(* The engine runs again whenever the server answers and on every write,   *)
(* so an op that waits is taken, and a server that is reached again and    *)
(* again ends up answering: strong fairness, since the answer is lost when *)
(* the send is aborted.                                                    *)
FairSpec == Spec /\ WF_vars(Take) /\ SF_vars(Completes \/ HoldBack)

-----------------------------------------------------------------------------
(* Properties.                                                             *)

TypeOK ==
  /\ DOMAIN ops \subseteq Nat /\ \A t \in DOMAIN ops : ops[t] \in Op
  /\ writes \in Nat
  /\ nextTempId \in Int /\ nextTempId <= FirstTempId
  /\ DOMAIN remap \subseteq Int /\ \A i \in DOMAIN remap : remap[i] \in Nat \ {0}
  /\ DOMAIN eventRemap \subseteq Nat /\ \A i \in DOMAIN eventRemap : eventRemap[i] \in Nat \ {0}
  /\ sending \in Nat
  /\ held \subseteq Held
  /\ shown \subseteq AllEntities \X Int
  /\ resets \in Nat

\* What an op needs was queued before it ("In order", outbox.dart:661): sent
\* in order, a creation always goes before whatever uses it.  discard relies
\* on it too, dropping dependants in one pass.
DependencyOrder ==
  \A t \in DOMAIN ops, c \in Creations(ops) :
    ops[c].target \in Dependencies(ops[t]) => c <= t

\* A temporary id names one creation, which keeps it until it is sent
\* (outbox.dart:26-29): no completion ever points a waiting creation at a
\* server id, and no id is handed out twice.
TempIdsNameOneCreation ==
  /\ \A c \in Creations(ops) : ops[c].target < 0 /\ nextTempId < ops[c].target
  /\ \A c, d \in Creations(ops) : ops[c].target = ops[d].target => c = d

\* What the engine is sending is what the queue still holds under that op
\* (outbox.dart:195-198): a completion removes nothing the server was not
\* sent.
SentIsQueued ==
  \A h \in held : h.ticket \in DOMAIN ops => ops[h.ticket] = h.op

\* A creation that leaves the queue without reaching the server (discarded,
\* or deleted again) takes along every waiting op that needs it
\* (outbox.dart:656-657).
DropCascades ==
  [][\A c \in Creations(ops) :
       (c \notin DOMAIN ops' /\ ops[c].target \notin DOMAIN remap')
         => \A t \in DOMAIN ops' : ops[c].target \notin Dependencies(ops'[t])]_vars

\* The waiting changes of one thing share the base of the first
\* (outbox.dart:105-107), however they were folded, parked or retargeted.
OneBase ==
  \A t, u \in DOMAIN ops :
    /\ ops[t].entity = ops[u].entity /\ ops[t].target = ops[u].target
    /\ ops[t].base # NoBase /\ ops[u].base # NoBase
    => ops[t].base = ops[u].base

\* While completions are saved, no waiting change stays aimed at a temporary
\* id the server has replaced (outbox.dart:207-209).
TargetsFollow ==
  \A t \in DOMAIN ops : ops[t].target \notin DOMAIN remap

\* A waiting op is sent, dropped or parked in the end.
Delivered ==
  \A t \in 1..MaxWrites :
    (t \in DOMAIN ops /\ IsWaiting(ops[t]))
      ~> (t \notin DOMAIN ops \/ ~IsWaiting(ops[t]))

(* Stated by the code or its documentation, and not what the code does.    *)

\* The waiting changes of one thing are in the order they were made, so the
\* last one sent is the last one made (offline-sync.md:40-41, 71-82).
WritesInOrder ==
  \A t, u \in DOMAIN ops :
    /\ t < u
    /\ ops[t].entity = ops[u].entity /\ ops[t].target = ops[u].target
    /\ IsWaiting(ops[t]) /\ IsWaiting(ops[u])
    => ops[t].write <= ops[u].write

\* A temporary id the server has replaced is used by no waiting op, whatever
\* the screens still hold (offline-sync.md:63-67).
TempRefsResolved ==
  \A t \in DOMAIN ops : TagDependencies(ops[t]) \cap DOMAIN remap = {}
=============================================================================
