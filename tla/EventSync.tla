----------------------------- MODULE EventSync -----------------------------
(***************************************************************************)
(* Sending the outbox (homl-ui/lib/data/sync/sync_engine.dart): the events *)
(* of one account, written on this device through its outbox and on other  *)
(* devices directly, and the server that has them                          *)
(* (homl-web/src/internal/application/event.go).                           *)
(*                                                                         *)
(* The outbox is module Outbox, restricted to events and to the steps a    *)
(* sync is made of; this module adds what its ops carry, the server's      *)
(* rows, the copy saved on the device, the engine's reading of the server, *)
(* and the one request on the wire, whose answer may be lost.              *)
(*                                                                         *)
(* An event is what a merge compares: a value for each of its fields       *)
(* (description, period, tags).  A base of Outbox is such a content.       *)
(***************************************************************************)
EXTENDS Outbox

CONSTANTS
  Fields,       \* the fields of an event that merge on their own
  MaxOthers,    \* bound: changes made on other devices
  CanCreate,    \* whether events are also created here
  LostAnswers,  \* whether a request or its answer may be lost
  Racing,       \* whether other devices also write during a sync
  Reverts,      \* whether an edit may put a field back as it first was
  HeldForms     \* whether the server may be read while an edit form is open

First    == 0   \* the value of every field of an event known from the start
Values   == First..(MaxWrites + MaxOthers)
Contents == [Fields -> Values]
Untouched == -1 \* a field the user of this device has no say in

ASSUME EventSyncAssumption ==
  /\ "event" \in Entities
  /\ Bases = Contents
  /\ MaxOthers \in Nat
  /\ {CanCreate, LostAnswers, Racing, Reverts, HeldForms} \subseteq BOOLEAN

VARIABLES
  text,     \* write -> the content it carries
  server,   \* id -> row: the clientId it was created under, its content
  origin,   \* id ever given by the server -> the event it stands for
  saved,    \* id -> content, the copy of the events saved on the device
  form,     \* the edit form open, as it was filled: a set of at most one
  syncing,  \* whether a sync has read the server
  fresh,    \* id -> content, the server as the sync knows it
  wire,     \* the request under way, a set of at most one
  wanted,   \* event -> field -> what the user last gave it, or Untouched
  unwanted, \* the events the user deleted here
  others    \* changes made on other devices so far

syncVars == <<text, server, origin, saved, form, syncing, fresh, wire, wanted, unwanted, others>>
allVars  == <<vars, syncVars>>

NoRefs  == [tags |-> {}, category |-> NoId]
Nothing == [id \in {} |-> First]

\* An event is named by the id it first had: the server's, or the temporary
\* one of its creation here.
Event(id) == IF id \in DOMAIN origin THEN origin[id] ELSE id

Rows(s) == [id \in DOMAIN s |-> s[id].fields]

Request(kind, id, fields) ==
  [kind |-> kind, id |-> id, fields |-> fields, answer |-> "none", row |-> NoId]

-----------------------------------------------------------------------------
SyncInit ==
  /\ Init
  /\ text = [w \in {} |-> 0]
  /\ server = [id \in Known["event"] |-> [client |-> Nobody, fields |-> [f \in Fields |-> First]]]
  /\ origin = [id \in Known["event"] |-> id]
  /\ saved = Rows(server) /\ form = {}
  /\ syncing = FALSE /\ fresh = Nothing /\ wire = {}
  /\ wanted = [e \in Known["event"] |-> [f \in Fields |-> Untouched]]
  /\ unwanted = {}
  /\ others = 0

-----------------------------------------------------------------------------
(* The user.                                                               *)

WaitingOn(target) == {t \in DOMAIN ops : About(ops[t], "event", target)}

\* projectEvents: what the screen shows is the last waiting change, else the
\* saved copy.  An event just sent, not saved yet, still shows as written.
Screen(target) ==
  IF WaitingOn(target) # {}
  THEN text[ops[CHOOSE t \in WaitingOn(target) : \A u \in WaitingOn(target) : u <= t].write]
  ELSE IF target \in DOMAIN saved THEN saved[target]
  ELSE [f \in Fields |-> IF wanted[Event(target)][f] = Untouched THEN First
                         ELSE wanted[Event(target)][f]]

\* _serverCopy: the base of a change made now.
ServerCopy(target) ==
  IF target > 0 /\ target \in DOMAIN saved THEN saved[target] ELSE NoBase

Carries(c) == text' = Extended(text, writes + 1, c)

\* The row a creation under clientId gets, and its id: never one given before.
NewId(client) ==
  CHOOSE id \in NewIds(client) \ DOMAIN origin :
    \A other \in NewIds(client) \ DOMAIN origin : id <= other
CanInsert(client) == NewIds(client) \ DOMAIN origin # {}

Insert(client, fields, event) ==
  LET id == NewId(client)
  IN /\ CanInsert(client)
     /\ server' = Extended(server, id, [client |-> client, fields |-> fields])
     /\ origin' = Extended(origin, id, event)

\* createEvent: queued, perhaps after a direct POST under the same clientId
\* whose answer was lost.
CreateEvent ==
  LET c == [f \in Fields |-> writes + 1]
  IN /\ CanCreate
     /\ Create("event", NoRefs)
     /\ Carries(c)
     /\ wanted' = Extended(wanted, nextTempId, c)
     /\ \/ UNCHANGED <<server, origin>>
        \/ /\ LostAnswers
           /\ \A t \in DOMAIN ops : ~IsWaiting(ops[t])
           /\ Insert(writes + 1, c, nextTempId)
     /\ form' = {}
     /\ UNCHANGED <<saved, syncing, fresh, wire, unwanted, others>>

\* An event whose deletion waits is on no screen.
OnScreen(target) == \A t \in WaitingOn(target) : ops[t].kind # "delete"

\* EditEventPage: the form takes the event's fields once, when it opens, and is
\* left or saved before the user writes anything else.
OpenForm(id) ==
  LET target == ResolveEvent(id)
  IN /\ HeldForms /\ writes < MaxWrites
     /\ OnScreen(target)
     /\ form' = {[id |-> id, fields |-> Screen(target)]}
     /\ UNCHANGED <<vars, text, server, origin, saved, syncing, fresh, wire, wanted,
                    unwanted, others>>

\* What the form of id was filled with: just now, or when the one open was.
FormOf(id) == {Screen(ResolveEvent(id))} \cup {k.fields : k \in {k \in form : k.id = id}}

\* updateEvent, queued: the whole event as the form has it, with some fields
\* changed, on the copy saved by now.  Of an event deleted here before (the
\* deletion was given up), earlier edits went with the deletion.
UpdateEvent(id) ==
  LET target == ResolveEvent(id)
  IN \E changed \in (SUBSET Fields) \ {{}},
        value \in {writes + 1} \cup (IF Reverts THEN {First} ELSE {}),
        filled \in FormOf(id) :
       /\ OnScreen(target)
       /\ Update("event", id, NoRefs, ServerCopy(target))
       /\ Carries([f \in Fields |-> IF f \in changed THEN value ELSE filled[f]])
       /\ wanted' = [wanted EXCEPT ![Event(target)] =
                       [f \in Fields |-> IF f \in changed THEN value
                                         ELSE IF Event(target) \in unwanted THEN Untouched
                                         ELSE @[f]]]
       /\ unwanted' = unwanted \ {Event(target)}
       /\ form' = {}
       /\ UNCHANGED <<server, origin, saved, syncing, fresh, wire, others>>

\* deleteEvent, queued.
DeleteEvent(id) ==
  /\ OnScreen(ResolveEvent(id))
  /\ Delete("event", id, NoRefs, ServerCopy(ResolveEvent(id)))
  /\ Carries([f \in Fields |-> First])
  /\ unwanted' = unwanted \cup {Event(ResolveEvent(id))}
  /\ form' = {}
  /\ UNCHANGED <<server, origin, saved, syncing, fresh, wire, wanted, others>>

-----------------------------------------------------------------------------
(* The engine.                                                             *)

\* _readServer, at the start of a sync that has something to send; the
\* conditional reads save what they get.
ReadServer ==
  /\ ~syncing /\ held = {}
  /\ \E t \in DOMAIN ops : IsWaiting(ops[t])
  /\ syncing' = TRUE
  /\ fresh' = Rows(server)
  /\ saved' = Rows(server)
  /\ UNCHANGED <<vars, text, server, origin, form, wire, wanted, unwanted, others>>

TakeNext ==
  /\ syncing
  /\ Take
  /\ UNCHANGED syncVars

\* Variants of _merge and of _deleteEvent's check.
MineOnly(base, now, mine) == mine
TheirsFirst(base, now, mine) ==
  IF base = NoBase THEN mine
  ELSE [f \in Fields |-> IF now[f] # base[f] THEN now[f] ELSE mine[f]]
NeverEdited(base, now) == FALSE

\* _merge: a field this device changed since the base takes its value, any
\* other the server's.
Merged(base, now, mine) ==
  IF base = NoBase THEN mine
  ELSE [f \in Fields |-> IF mine[f] # base[f] THEN mine[f] ELSE now[f]]

EditedSince(base, now) == base # NoBase /\ base # now

Missing(target) == target < 0 \/ target \notin DOMAIN fresh

\* _createEvent and _updateEvent up to their request: an edit of an event
\* deleted elsewhere creates it again.
SendWrite ==
  /\ wire = {}
  /\ \E h \in held :
       /\ h.op.kind \in {"create", "update"}
       /\ wire' = LET mine == text[h.op.write]
                  IN IF IsCreation(h.op) \/ Missing(h.op.target)
                     THEN {Request("POST", h.op.target, mine)}
                     ELSE {Request("PATCH", h.op.target,
                                   Merged(h.op.base, fresh[h.op.target], mine))}
  /\ UNCHANGED <<vars, text, server, origin, saved, form, syncing, fresh, wanted, unwanted, others>>

\* _deleteEvent up to its request.
SendDeletion ==
  /\ wire = {}
  /\ \E h \in held :
       /\ h.op.kind = "delete"
       /\ ~Missing(h.op.target)
       /\ ~EditedSince(h.op.base, fresh[h.op.target])
       /\ wire' = {Request("DELETE", h.op.target, fresh[h.op.target])}
  /\ UNCHANGED <<vars, text, server, origin, saved, form, syncing, fresh, wanted, unwanted, others>>

\* Variant: a deletion given up is left waiting.
SettleMissing ==
  /\ wire = {}
  /\ \E h \in held :
       h.op.kind = "delete" /\ Missing(h.op.target) /\ Complete(h, NoId, FALSE)
  /\ UNCHANGED syncVars

\* _deleteEvent when it sends nothing: gone already, or edited elsewhere.
SettleDeletion ==
  /\ wire = {}
  /\ \E h \in held :
       /\ h.op.kind = "delete"
       /\ \/ Missing(h.op.target) /\ Complete(h, NoId, FALSE)
          \/ /\ ~Missing(h.op.target)
             /\ EditedSince(h.op.base, fresh[h.op.target])
             /\ Complete(h, NoId, TRUE)
  /\ UNCHANGED syncVars

-----------------------------------------------------------------------------
(* The server.                                                             *)

Answered(r, answer, row) == wire' = {[r EXCEPT !.answer = answer, !.row = row]}

\* Variant: the row a replay is answered with is looked up without its clientId.
AnyRow(client) == DOMAIN server

CreatedUnder(client) == {id \in DOMAIN server : server[id].client = client}

\* Variant: a replayed creation makes another row.
ServePostAgain ==
  /\ \E r \in wire, h \in held :
       /\ r.kind = "POST" /\ r.answer = "none"
       /\ Insert(h.ticket, r.fields, Event(r.id))
       /\ Answered(r, "ok", NewId(h.ticket))
  /\ UNCHANGED <<vars, text, saved, form, syncing, fresh, wanted, unwanted, others>>

\* CreateEvent: a clientId it has is answered with the row it made, and
\* nothing else of the body is looked at.
ServePost ==
  /\ \E r \in wire, h \in held :
       /\ r.kind = "POST" /\ r.answer = "none"
       /\ \/ /\ CreatedUnder(h.ticket) = {}
             /\ Insert(h.ticket, r.fields, Event(r.id))
             /\ Answered(r, "ok", NewId(h.ticket))
          \/ \E id \in CreatedUnder(h.ticket) :
               /\ Answered(r, "ok", id)
               /\ UNCHANGED <<server, origin>>
  /\ UNCHANGED <<vars, text, saved, form, syncing, fresh, wanted, unwanted, others>>

\* UpdateEvent and DeleteEvent: the row as a whole, or 404.
ServeChange ==
  /\ \E r \in wire :
       /\ r.kind \in {"PATCH", "DELETE"} /\ r.answer = "none"
       /\ IF r.id \notin DOMAIN server
          THEN Answered(r, "missing", NoId) /\ UNCHANGED server
          ELSE /\ Answered(r, "ok", NoId)
               /\ server' = IF r.kind = "PATCH"
                            THEN [server EXCEPT ![r.id].fields = r.fields]
                            ELSE Without(server, {r.id})
  /\ UNCHANGED <<vars, text, origin, saved, form, syncing, fresh, wanted, unwanted, others>>

-----------------------------------------------------------------------------
(* The answers.                                                            *)

TakeAnswer ==
  /\ \E r \in wire, h \in held :
       /\ r.answer = "ok" \/ (r.answer = "missing" /\ r.kind = "DELETE")
       /\ Complete(h, r.row, FALSE)
       /\ fresh' = CASE r.kind = "POST"   -> Extended(fresh, r.row, r.fields)
                     [] r.kind = "PATCH"  -> Extended(fresh, r.id, r.fields)
                     [] r.kind = "DELETE" -> Without(fresh, {r.id})
  /\ wire' = {}
  /\ UNCHANGED <<text, server, origin, saved, form, syncing, wanted, unwanted, others>>

\* An edit whose event was deleted between the read and the write.
CreateAgain ==
  /\ \E r \in wire, h \in held :
       /\ r.kind = "PATCH" /\ r.answer = "missing"
       /\ wire' = {Request("POST", r.id, text[h.op.write])}
  /\ UNCHANGED <<vars, text, server, origin, saved, form, syncing, fresh, wanted, unwanted, others>>

\* _saveSnapshot, at the end of _cycle: the server's state is saved, unless
\* it cannot be read.  (It is not read when nothing was done: then it is what
\* ReadServer saved, or what another device made of it since.)
Saves == saved' = Rows(server) \/ (LostAnswers /\ saved' = saved)

\* No answer: the sync stops, whether or not the request arrived.
GiveUp ==
  /\ LostAnswers
  /\ Abort
  /\ syncing' = FALSE /\ fresh' = Nothing /\ wire' = {}
  /\ Saves
  /\ UNCHANGED <<text, server, origin, form, wanted, unwanted, others>>

\* Nothing left to send.
EndSync ==
  /\ syncing /\ held = {}
  /\ \A t \in DOMAIN ops : ~IsWaiting(ops[t])
  /\ syncing' = FALSE /\ fresh' = Nothing
  /\ Saves
  /\ UNCHANGED <<vars, text, server, origin, form, wire, wanted, unwanted, others>>

\* The app is killed, with or without a request under way.
Killed ==
  /\ Restart({p \in shown : p[2] \in DOMAIN saved})
  /\ LostAnswers \/ wire = {}
  /\ syncing' = FALSE /\ fresh' = Nothing /\ wire' = {} /\ form' = {}
  /\ UNCHANGED <<text, server, origin, saved, wanted, unwanted, others>>

-----------------------------------------------------------------------------
(* Another device (external), online.                                      *)

CountOther == others < MaxOthers /\ others' = others + 1

\* Whether a change waiting here touches field f of the event id stands for.
Contends(id, f) ==
  \E t \in WaitingOn(id) :
    ops[t].kind = "update" /\ ops[t].base # NoBase /\ text[ops[t].write][f] # ops[t].base[f]

\* What it edits is its own from then on, unless this device is about to
\* change it too.
OtherEdit(id, f) ==
  /\ CountOther
  /\ Racing \/ ~syncing
  /\ server' = [server EXCEPT ![id].fields[f] = MaxWrites + others + 1]
  /\ wanted' = [wanted EXCEPT ![Event(id)][f] = IF Contends(id, f) THEN @ ELSE Untouched]
  /\ UNCHANGED <<vars, text, origin, saved, form, syncing, fresh, wire, unwanted>>

\* What it deletes is gone, unless this device is about to edit it.
OtherDelete(id) ==
  /\ CountOther
  /\ Racing \/ ~syncing
  /\ server' = Without(server, {id})
  /\ wanted' = IF \E t \in WaitingOn(id) : ops[t].kind = "update" THEN wanted
               ELSE [wanted EXCEPT ![Event(id)] = [f \in Fields |-> Untouched]]
  /\ UNCHANGED <<vars, text, origin, saved, form, syncing, fresh, wire, unwanted>>

-----------------------------------------------------------------------------
UserWrites ==
  \/ CreateEvent
  \/ \E id \in ScreenIds("event") : OpenForm(id) \/ UpdateEvent(id) \/ DeleteEvent(id)

EngineSteps ==
  \/ ReadServer \/ TakeNext
  \/ SendWrite \/ SendDeletion \/ SettleDeletion
  \/ TakeAnswer \/ CreateAgain
  \/ GiveUp \/ EndSync \/ Killed

ServerSteps ==
  \/ ServePost \/ ServeChange
  \/ \E id \in DOMAIN server : OtherDelete(id) \/ \E f \in Fields : OtherEdit(id, f)

SyncNext == UserWrites \/ EngineSteps \/ ServerSteps

SyncSpec == SyncInit /\ [][SyncNext]_allVars

(* A sync starts whenever the server answers again, and the engine then    *)
(* goes on by itself.  Requests may be lost for ever, but not all of them: *)
(* what is sent again and again is answered in the end.                    *)
FairSyncSpec ==
  /\ SyncSpec
  /\ WF_allVars(ReadServer) /\ WF_allVars(TakeNext) /\ WF_allVars(EndSync)
  /\ SF_allVars(SendWrite \/ SendDeletion \/ SettleDeletion)
  /\ SF_allVars(ServePost \/ ServeChange)
  /\ SF_allVars(TakeAnswer \/ CreateAgain)

-----------------------------------------------------------------------------
(* Properties.                                                             *)

SyncTypeOK ==
  /\ TypeOK
  /\ DOMAIN text = 1..writes /\ \A w \in DOMAIN text : text[w] \in Contents
  /\ DOMAIN server \subseteq DOMAIN origin
  /\ \A id \in DOMAIN server : server[id] \in [client : Nat, fields : Contents]
  /\ \A id \in DOMAIN saved : id > 0 /\ saved[id] \in Contents
  /\ form \subseteq [id : Int, fields : Contents] /\ (HeldForms \/ form = {})
  /\ \A id \in DOMAIN fresh : id > 0 /\ fresh[id] \in Contents
  /\ syncing \in BOOLEAN
  /\ wire \subseteq [kind : {"POST", "PATCH", "DELETE"}, id : Int, fields : Contents,
                     answer : {"none", "ok", "missing"}, row : Nat]
  /\ unwanted \subseteq DOMAIN wanted
  /\ \A e \in DOMAIN wanted : wanted[e] \in [Fields -> Values \cup {Untouched}]
  /\ others \in Nat

\* The engine drives the outbox as Outbox lets it be driven: it completes the op
\* it holds, and no other, with an answer a server may give to that op
\* (sync_engine.dart:132-142, outbox.dart:195-209).
SyncsAsOutbox == Init /\ [][Next]_vars

\* An event is on the server once: a creation sent again after a lost answer,
\* directly or from the queue, and an event created again after its deletion
\* elsewhere never end up as two (offline-sync.md:172-174).
OneCopy ==
  \A x, y \in DOMAIN server : origin[x] = origin[y] => x = y

\* Unless it is deleted, every field of an event the user changed here, and
\* nobody changed elsewhere since, has the user's value on the server once
\* nothing waits: folded, sent twice, merged or created again, no edit is
\* lost (sync_engine.dart:132-137, 141-142).
EditsArrive ==
  (DOMAIN ops = {} /\ held = {}) =>
    \A e \in DOMAIN wanted \ unwanted :
      (\E f \in Fields : wanted[e][f] # Untouched) =>
        \E id \in DOMAIN server :
          /\ origin[id] = e
          /\ \A f \in Fields : wanted[e][f] \in {Untouched, server[id].fields[f]}

\* What a step changes of the events the server had from the start, unless it is
\* another device's: fields the user of this device gave a value.
ChangesOwnFields ==
  \A id \in Known["event"] \cap DOMAIN server \cap DOMAIN server' : \A f \in Fields :
    (server'[id].fields[f] # server[id].fields[f] /\ others' = others)
      => wanted[id][f] # Untouched

\* Of an event the server already had (one created here has no base to merge
\* against), a sync changes no field but those the user of this device changed
\* (offline-sync.md:143-146): what other devices wrote in the others stays.
TheirsKept == [][ChangesOwnFields]_allVars

\* A sync deletes an event only as the user last saw it: one edited elsewhere
\* since stays (offline-sync.md:124, 159-160; sync_engine.dart:138).
DeletesWhatWasSeen ==
  [][\A id \in DOMAIN server \ DOMAIN server' : others' = others =>
       \A h \in held : h.op.base \in {NoBase, server[id].fields}]_allVars

\* An event the user deleted here is gone from the server once nothing waits,
\* when nobody else touches it.
DeletionsArrive ==
  (DOMAIN ops = {} /\ held = {}) =>
    \A id \in DOMAIN server : origin[id] \notin unwanted

\* With the server answering now and then, everything written is sent.
Drains == <>[](DOMAIN ops = {} /\ held = {} /\ wire = {})
=============================================================================
