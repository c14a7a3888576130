------------------------------ MODULE Library ------------------------------
(***************************************************************************)
(* The rows of one user on the server (homl-web: application/ over         *)
(* persistence/): categories, tags and their synonyms, tag groups, events, *)
(* and the end-to-end encryption flag.  A write is two steps: the request  *)
(* arrives (the middleware reads the flag, the service validates what it   *)
(* was sent against the rows as they are), then its transaction runs on    *)
(* the rows as they are by then.  Nothing locks a row between the two.  A  *)
(* write the service does not validate is one step, and a migration is     *)
(* three: its transaction compares the ids in a snapshot and rewrites the  *)
(* rows afterwards, holding the user's row between the two.  A refused     *)
(* request changes nothing.                                                *)
(*                                                                         *)
(* A name stands for every spelling with the same title case, a row's mode *)
(* for how its name or text is stored: "rest", encrypted by the server, or *)
(* "blob", encrypted by the client.                                        *)
(***************************************************************************)
EXTENDS Integers, FiniteSets, FiniteSetsExt, Functions

CONSTANTS
  Names,        \* names a user gives tags and groups
  Typed,        \* names the clients send: some may be reserved
  Periods,      \* periods the clients send
  ClientIds,    \* ids clients choose for what they create
  DaysPerMonth, MonthsPerYear, MaxPeriodYears, Years,
  Workers,      \* bound: requests between arrival and commit at the same time
  MaxRequests,  \* bound: requests
  MaxPicked,    \* bound: tags of an event or a group a request names
  Mixes,        \* bound: the kinds of request one behaviour sends, a set of sets
  Starts        \* bound: the libraries a behaviour starts from

None == 0

ASSUME LibraryAssumption ==
  /\ DaysPerMonth \in Nat \ {0} /\ MonthsPerYear \in Nat \ {0} /\ MaxPeriodYears \in Nat
  /\ Years \subseteq Nat /\ MaxRequests \in Nat /\ None \notin ClientIds
  /\ Periods \subseteq [first : Nat \ {0}, last : Nat, ongoing : BOOLEAN]

\* The names the backend derives from a period, days being counted from 1.
Month(day)    == (day - 1) \div DaysPerMonth
MonthName(m)  == <<"month", m % MonthsPerYear>>
YearName(m)   == <<"year", m \div MonthsPerYear>>
Ongoing       == <<"ongoing", 0>>
BlacklistTags == {MonthName(m) : m \in 0..MonthsPerYear - 1} \cup {Ongoing}
isReservedTagName(n) == n \in BlacklistTags \cup {<<"year", y>> : y \in Years}
AllNames      == Names \cup {n \in Typed \cup BlacklistTags : isReservedTagName(n)}
                       \cup {<<"year", y>> : y \in Years}

\* A year is reserved whether or not an event has it, so the years of the
\* periods are; a name a client sends is the user's unless it is reserved.
ASSUME NamesAssumption ==
  /\ \A p \in Periods : \A m \in Month(p.first)..Month(IF p.last = None THEN p.first ELSE p.last) :
       m \div MonthsPerYear \in Years
  /\ \A n \in Typed : n \in Names \/ isReservedTagName(n)

Modes == {"rest", "blob"}
ModeOf(e2ee) == IF e2ee THEN "blob" ELSE "rest"

VARIABLES
  account,  \* isE2eeEnabled, and the data generation
  cats,     \* id -> kind, clientId, mode
  tags,     \* id -> name, category, parent or None, mode
  groups,   \* id -> name, category, members, mode
  events,   \* id -> clientId, period, linked tags, mode
  next,     \* the ids the tables hand out next
  w,        \* worker -> the request between its arrival and its commit
  sent, kinds,
  \* what happened, for the properties
  answers,  \* <<table, clientId, id>> answered to a create
  stale,    \* the workers whose request read tags another rearranged since
  crossed,  \* a write was validated against tags another request rearranged
  mixed,    \* a write committed in the mode the account had when it arrived
  overlooked,  \* a migration committed past a tag or group it did not know of
  veiled    \* the account was encrypted at some time

rows  == <<account, cats, tags, groups, events, next>>
notes == <<answers, stale, crossed, mixed, overlooked, veiled>>
vars  == <<rows, w, sent, kinds, notes>>

Idle == [op |-> "none"]

Init ==
  /\ \E s \in Starts :
       /\ cats = s.cats /\ tags = s.tags /\ groups = s.groups /\ events = s.events
       /\ next = s.next /\ account = [e2ee |-> s.e2ee, generation |-> 0]
       /\ veiled = s.e2ee
  /\ w = [r \in Workers |-> Idle]
  /\ sent = 0 /\ kinds \in Mixes
  /\ answers = {} /\ stale = {} /\ crossed = FALSE /\ mixed = FALSE /\ overlooked = FALSE

----------------------------------------------------------------------------
(* Operators shared by the requests. *)

Cats == DOMAIN cats
Tags == DOMAIN tags
Extend(f, k, v) == [x \in DOMAIN f \cup {k} |-> IF x = k THEN v ELSE f[x]]

FindIdByKind(kind) == CHOOSE c \in Cats : cats[c].kind = kind
FindIdByClientId(table, cid) == {x \in DOMAIN table : cid # None /\ table[x].cid = cid}

\* COALESCE(idParentTag, id).
Root(t) == IF tags[t].parent = None THEN t ELSE tags[t].parent
isLocked(c) == cats[c].kind \in {"date", "other"}

\* The unique keys: a name once per category, in either column.
UniqueNames(table) ==
  \A x, y \in DOMAIN table :
    (table[x].cat = table[y].cat /\ table[x].name = table[y].name
       /\ table[x].mode = table[y].mode) => x = y

\* Variant: the synonyms stay.
CascadeNothing(gone) == gone

\* Deleting tags cascades to their synonyms, their links and memberships: what
\* goes is the least set with them that has the synonyms of its own.
CascadeTags(gone) ==
  LET cascades == {S \in SUBSET Tags : gone \subseteq S
                                        /\ \A t \in Tags : tags[t].parent \in S => t \in S}
  IN  {t \in Tags : \A S \in cascades : t \in S}
Strip(table, field, gone) == [x \in DOMAIN table |-> [table[x] EXCEPT ![field] = @ \ gone]]

\* FindEventsWithTags: the events matching every name through its synonym group.
Matches(e, n, mode) ==
  \E named \in Tags, t \in events[e].links :
    /\ tags[named].name = n /\ tags[named].mode = mode
    /\ Root(named) = Root(t)
FindEventsWithTags(names) ==
  {e \in DOMAIN events : \A n \in names : Matches(e, n, ModeOf(account.e2ee))}
\* GetEvents: each requested name counts once; an empty filter lists every event.
GetEvents(filter) ==
  [e \in FindEventsWithTags({filter[i] : i \in DOMAIN filter}) |-> events[e].links]

\* GetAllCategoriesWithTags and GetAllTagGroups, as GET /categories answers them:
\* the server decrypts what it stored itself, and fails on a client's blob.
StoredAs(C, T, G, E, mode) ==
  \A table \in {C, T, G, E} : \A x \in DOMAIN table : table[x].mode = mode
Readable == StoredAs(cats, tags, groups, events, ModeOf(account.e2ee))
GetCategories == [c \in Cats |->
                    [tags   |-> {t \in Tags : tags[t].cat = c},
                     groups |-> {g \in DOMAIN groups : groups[g].cat = c}]]

----------------------------------------------------------------------------
(* A request arrives, and ends. *)

\* The requests whose validation reads how other tags hang together.
ReadsTags(q) == \/ q.op \in {"createTag", "updateTag"} /\ q.parent # None
                \/ q.op \in {"createGroup", "updateGroup"}

Allowed(op) == op \in kinds /\ sent < MaxRequests
Free(op) == {r \in Workers : Allowed(op) /\ w[r].op = "none"}
Arrive(r, q) ==
  /\ w' = [w EXCEPT ![r] = q] /\ sent' = sent + 1
  /\ UNCHANGED <<rows, kinds, notes>>

\* The step moved a tag, changed what it is a synonym of, or added a synonym.
Rearranged ==
  \E t \in DOMAIN tags' :
    IF t \in Tags THEN tags'[t].cat # tags[t].cat \/ tags'[t].parent # tags[t].parent
    ELSE tags'[t].parent # None

Outdated == {r \in Workers : Rearranged /\ ReadsTags(w[r])}

\* The handler's body has no tag groups: it hands the service none.
MigrationData(body) ==
  [cats |-> body.cats, tags |-> body.tags, groups |-> <<>>, events |-> body.events]

\* Variant: nothing is locked.
NothingLocked == FALSE

\* A migration past its comparison: it holds the user's row, and the foreign keys
\* of a new category or event, another migration and a purge wait for that row.
UserLocked == \E r \in Workers : w[r].op = "rewrite"

\* What the comparison could not see: a tag or a group made since.
Overlooks(q) ==
  q.op = "rewrite" /\ LET data == MigrationData(q.body) IN
                      ~(Tags \subseteq DOMAIN data.tags /\ DOMAIN groups \subseteq DOMAIN data.groups)

\* The transaction of r's request commits.
Commit(r) ==
  /\ w' = [w EXCEPT ![r] = Idle]
  /\ stale' = (stale \cup Outdated) \ {r}
  /\ crossed' = (crossed \/ r \in stale)
  /\ mixed' = (mixed \/ w[r].e2ee # account.e2ee)
  /\ overlooked' = (overlooked \/ Overlooks(w[r]))
  /\ veiled' = (veiled \/ account'.e2ee)
  /\ UNCHANGED <<sent, kinds>>

\* A request that is one step.
Serve ==
  /\ sent' = sent + 1
  /\ stale' = stale \cup Outdated
  /\ UNCHANGED <<w, kinds, answers, crossed, mixed, overlooked, veiled>>

\* A create whose clientId is already there: answered with the row, nothing touched.
Replay(op, table, name, cid) ==
  /\ Allowed(op) /\ sent' = sent + 1
  /\ \E x \in FindIdByClientId(table, cid) : answers' = answers \cup {<<name, cid, x>>}
  /\ UNCHANGED <<rows, w, kinds, stale, crossed, mixed, overlooked, veiled>>

\* The transaction fails and rolls back: a constraint refuses it, the database
\* stays away, five deadlocks in a row, the request's time is up.
Abort(r) ==
  /\ w[r].op # "none" /\ w' = [w EXCEPT ![r] = Idle] /\ stale' = stale \ {r}
  /\ UNCHANGED <<rows, sent, kinds, answers, crossed, mixed, overlooked, veiled>>

Answer(table, cid, id) ==
  answers' = IF cid = None THEN answers ELSE answers \cup {<<table, cid, id>>}

----------------------------------------------------------------------------
(* Categories. *)

\* CreateCategory finds what an earlier call with the same clientId created ...
ReplayCategory(cid) == Replay("createCategory", cats, "cats", cid)
\* ... or goes on to insert.
AskCreateCategory(r, cid) ==
  /\ FindIdByClientId(cats, cid) = {}
  /\ Arrive(r, [op |-> "createCategory", e2ee |-> account.e2ee, cid |-> cid])

\* Variant: no key on the clientId.
InsertAnyCategory(q) ==
  /\ cats' = Extend(cats, next.cat, [kind |-> "custom", cid |-> q.cid, mode |-> ModeOf(q.e2ee)])
  /\ next' = [next EXCEPT !.cat = @ + 1]
  /\ Answer("cats", q.cid, next.cat)
  /\ UNCHANGED <<account, tags, groups, events>>

InsertCategory(q) ==
  /\ ~UserLocked /\ FindIdByClientId(cats, q.cid) = {}
  /\ cats' = Extend(cats, next.cat, [kind |-> "custom", cid |-> q.cid, mode |-> ModeOf(q.e2ee)])
  /\ next' = [next EXCEPT !.cat = @ + 1]
  /\ Answer("cats", q.cid, next.cat)
  /\ UNCHANGED <<account, tags, groups, events>>

\* The insert ran into another replay's row: look it up again, in a second step.
Duplicate(r, op, table) ==
  /\ w[r].op = op /\ FindIdByClientId(table, w[r].cid) # {}
  /\ w' = [w EXCEPT ![r] = [op |-> "again", table |-> op, cid |-> w[r].cid]]
  /\ UNCHANGED <<rows, sent, kinds, notes>>
FindAgain(r, op, table, name) ==
  /\ w[r].op = "again" /\ w[r].table = op
  /\ \E x \in FindIdByClientId(table, w[r].cid) : answers' = answers \cup {<<name, w[r].cid, x>>}
  /\ w' = [w EXCEPT ![r] = Idle]
  /\ UNCHANGED <<rows, sent, kinds, stale, crossed, mixed, overlooked, veiled>>

AskUpdateCategory(r, c) ==
  /\ c \in Cats /\ ~isLocked(c)
  /\ Arrive(r, [op |-> "updateCategory", e2ee |-> account.e2ee, id |-> c])
UpdateCategory(q) ==
  /\ cats' = IF q.id \in Cats THEN [cats EXCEPT ![q.id].mode = ModeOf(q.e2ee)] ELSE cats
  /\ UNCHANGED <<account, tags, groups, events, next, answers>>

\* The events linked to one of a set of tags.
Linked(S) == {e \in DOMAIN events : events[e].links \cap S # {}}
Keep(S) == Restrict(events, DOMAIN events \ S)

MoveTags(c) ==
  LET other == FindIdByKind("other")
      Moved(table) ==
        [x \in DOMAIN table |->
           IF table[x].cat = c THEN [table[x] EXCEPT !.cat = other] ELSE table[x]]
  IN  /\ tags' = Moved(tags) /\ UniqueNames(tags')
      /\ groups' = Moved(groups) /\ UniqueNames(groups')
      /\ UNCHANGED events
DropTags(c, deleteEvents) ==
  LET inside == {t \in Tags : tags[t].cat = c}
      gone   == CascadeTags(inside)
  IN  /\ tags' = Restrict(tags, Tags \ gone)
      /\ groups' = Strip(Restrict(groups, {g \in DOMAIN groups : groups[g].cat # c}),
                         "members", gone)
      /\ events' = Strip(IF deleteEvents THEN Keep(Linked(inside)) ELSE events, "links", gone)
DeleteCategory(c, moveTags, deleteEvents) ==
  /\ Allowed("deleteCategory")
  /\ c \in Cats /\ ~isLocked(c)
  /\ cats' = Restrict(cats, Cats \ {c})
  /\ IF moveTags THEN MoveTags(c) ELSE DropTags(c, deleteEvents)
  /\ UNCHANGED <<account, next>>
  /\ Serve

\* Variant: date tags count like any other.
ExclusiveOfAll(S) == {e \in Linked(S) : events[e].links \subseteq S}

\* The events that have a tag of S and no other tag outside S but date tags.
Exclusive(S) == {e \in Linked(S) : \A t \in events[e].links \ S : cats[tags[t].cat].kind = "date"}
GetCategoryUsage(c) ==
  LET inside == {t \in Tags : tags[t].cat = c}
  IN  [tags |-> Cardinality(inside), events |-> Cardinality(Linked(inside)),
       exclusiveEvents |-> Cardinality(Exclusive(inside))]

----------------------------------------------------------------------------
(* Tags and synonyms. *)

\* The parent is another tag, no synonym, and of the same category.
validateParent(t, cat, parent) ==
  parent # None => /\ parent # t /\ parent \in Tags
                   /\ tags[parent].parent = None /\ tags[parent].cat = cat
\* The server cannot read an encrypted name: the client has to keep the rules.
validateTag(t, name, cat, parent) ==
  /\ cat \in Cats
  /\ ~account.e2ee => cats[cat].kind # "date" /\ ~isReservedTagName(name)
  /\ validateParent(t, cat, parent)
\* The date tags belong to the backend, unless it cannot read them.
rejectDateCategoryTag(t) == ~account.e2ee /\ cats[tags[t].cat].kind = "date"
HasSynonyms(t) == \E s \in Tags : tags[s].parent = t

TagRow(q) == [name |-> q.name, cat |-> q.cat, parent |-> q.parent, mode |-> ModeOf(q.e2ee)]
\* Foreign keys of a tag that is written.
TagRefersToRows(q) == q.cat \in Cats /\ (q.parent = None \/ q.parent \in Tags)

AskCreateTag(r, name, cat, parent) ==
  /\ validateTag(None, name, cat, parent)
  /\ Arrive(r, [op |-> "createTag", e2ee |-> account.e2ee,
                name |-> name, cat |-> cat, parent |-> parent])
CreateTag(q) ==
  /\ TagRefersToRows(q)
  /\ tags' = Extend(tags, next.tag, TagRow(q)) /\ UniqueNames(tags')
  /\ next' = [next EXCEPT !.tag = @ + 1]
  /\ UNCHANGED <<account, cats, groups, events, answers>>

AskUpdateTag(r, t, name, cat, parent) ==
  /\ t \in Tags /\ ~rejectDateCategoryTag(t)
  /\ parent # None => ~HasSynonyms(t)
  /\ validateTag(t, name, cat, parent)
  /\ Arrive(r, [op |-> "updateTag", e2ee |-> account.e2ee, id |-> t,
                name |-> name, cat |-> cat, parent |-> parent])

\* Variant: the synonyms stay in their category.
TagAlone(q) == [t \in Tags |-> IF t = q.id THEN TagRow(q) ELSE tags[t]]

\* The synonyms of a main tag follow it.
WithSynonyms(q) ==
  [t \in Tags |->
     IF t = q.id THEN TagRow(q)
     ELSE IF q.parent = None /\ tags[t].parent = q.id THEN [tags[t] EXCEPT !.cat = q.cat]
     ELSE tags[t]]
\* Variant: only a tag that moves leaves its groups.
MembershipsOfMoved(q) ==
  [g \in DOMAIN groups |->
     IF groups[g].cat # q.cat THEN [groups[g] EXCEPT !.members = @ \ {q.id}] ELSE groups[g]]

\* A tag turned synonym hands its memberships to its main tag, in the groups of
\* its category; a tag that moved leaves the groups of the others.
Memberships(q) ==
  [g \in DOMAIN groups |->
     LET G == groups[g] IN
     IF q.id \notin G.members THEN G
     ELSE IF q.parent # None
     THEN [G EXCEPT !.members = (@ \ {q.id}) \cup (IF G.cat = q.cat THEN {q.parent} ELSE {})]
     ELSE IF G.cat # q.cat THEN [G EXCEPT !.members = @ \ {q.id}] ELSE G]
UpdateTag(q) ==
  /\ q.id \in Tags => TagRefersToRows(q)
  /\ tags' = WithSynonyms(q) /\ UniqueNames(tags')
  /\ groups' = Memberships(q)
  /\ UNCHANGED <<account, cats, events, next, answers>>

\* Variant: the links of a synonym go with it.
RepointNone(t) == [e \in DOMAIN events |-> events[e]]

\* The links of a deleted synonym go to its main tag.
Repoint(t) ==
  [e \in DOMAIN events |->
     IF t \in events[e].links THEN [events[e] EXCEPT !.links = (@ \ {t}) \cup {tags[t].parent}]
     ELSE events[e]]
SynonymGroup(t) == {s \in Tags : Root(s) = t}
DeleteTag(t, deleteEvents) ==
  /\ Allowed("deleteTag")
  /\ t \in Tags /\ ~rejectDateCategoryTag(t)
  /\ LET gone == CascadeTags({t})
     IN  /\ tags' = Restrict(tags, Tags \ gone)
         /\ groups' = Strip(groups, "members", gone)
         /\ events' = Strip(IF tags[t].parent # None THEN Repoint(t)
                            ELSE IF deleteEvents THEN Keep(Linked(SynonymGroup(t))) ELSE events,
                            "links", gone)
  /\ UNCHANGED <<account, cats, next>>
  /\ Serve

GetTagUsage(t) ==
  [events |-> Cardinality(Linked(SynonymGroup(t))),
   exclusiveEvents |-> Cardinality(Exclusive(SynonymGroup(t)))]

----------------------------------------------------------------------------
(* Tag groups. *)

CheckMainTagsInCategory(members, cat) ==
  \A t \in members : t \in Tags /\ tags[t].parent = None /\ tags[t].cat = cat
validateTagGroup(cat, name, members) ==
  /\ cat \in Cats /\ cats[cat].kind # "date"
  /\ members # {} /\ CheckMainTagsInCategory(members, cat)
  /\ ~account.e2ee => ~isReservedTagName(name)

AskCreateTagGroup(r, name, cat, members) ==
  /\ validateTagGroup(cat, name, members)
  /\ Arrive(r, [op |-> "createGroup", e2ee |-> account.e2ee,
                name |-> name, cat |-> cat, members |-> members])
CreateTagGroup(q) ==
  /\ q.cat \in Cats /\ q.members \subseteq Tags
  /\ groups' = Extend(groups, next.group, [name |-> q.name, cat |-> q.cat, members |-> q.members,
                                           mode |-> ModeOf(q.e2ee)])
  /\ UniqueNames(groups')
  /\ next' = [next EXCEPT !.group = @ + 1]
  /\ UNCHANGED <<account, cats, tags, events, answers>>

\* A group keeps its category: the stored one is validated against.
AskUpdateTagGroup(r, g, name, members) ==
  /\ g \in DOMAIN groups /\ validateTagGroup(groups[g].cat, name, members)
  /\ Arrive(r, [op |-> "updateGroup", e2ee |-> account.e2ee, id |-> g,
                name |-> name, members |-> members])
UpdateTagGroup(q) ==
  /\ q.id \in DOMAIN groups /\ q.members \subseteq Tags
  /\ groups' = [groups EXCEPT ![q.id].name = q.name, ![q.id].members = q.members,
                              ![q.id].mode = ModeOf(q.e2ee)]
  /\ UniqueNames(groups')
  /\ UNCHANGED <<account, cats, tags, events, next, answers>>

DeleteTagGroup(g) ==
  /\ Allowed("deleteGroup")
  /\ g \in DOMAIN groups
  /\ groups' = Restrict(groups, DOMAIN groups \ {g})
  /\ UNCHANGED <<account, cats, tags, events, next>>
  /\ Serve

----------------------------------------------------------------------------
(* Events. *)

\* validatePeriod: last None is a single day, or an open period when ongoing.
validPeriod(p) ==
  p.last # None => /\ ~p.ongoing /\ p.first <= p.last
                   /\ p.last <= p.first + MaxPeriodYears * MonthsPerYear * DaysPerMonth
normalized(p) == IF p.last = p.first THEN [p EXCEPT !.last = None] ELSE p
\* Variant: only the months a period begins and ends in.
EndsTagNames(p) ==
  LET months == {Month(p.first), Month(IF p.last = None THEN p.first ELSE p.last)}
  IN  {MonthName(m) : m \in months} \cup {YearName(m) : m \in months}
        \cup (IF p.ongoing THEN {Ongoing} ELSE {})

\* Every month and year of the period; of an open one, only those it starts in.
DateTagNames(p) ==
  LET end    == IF p.last = None THEN p.first ELSE p.last
      months == Month(p.first)..Month(end)
  IN  {MonthName(m) : m \in months} \cup {YearName(m) : m \in months}
        \cup (IF p.ongoing THEN {Ongoing} ELSE {})

FindTagIdByTagAndIdCategory(n, cat) ==
  {t \in Tags : tags[t].name = n /\ tags[t].cat = cat /\ tags[t].mode = "rest"}
\* buildDateTags looks the date tags up before the transaction; a client that
\* encrypts sends its own.
buildDateTags(p) ==
  IF account.e2ee THEN [cat |-> None, found |-> {}, missing |-> {}]
  ELSE LET date == FindIdByKind("date")
       IN  [cat     |-> date,
            found   |-> UNION {FindTagIdByTagAndIdCategory(n, date) : n \in DateTagNames(p)},
            missing |-> {n \in DateTagNames(p) : FindTagIdByTagAndIdCategory(n, date) = {}}]
CheckTagsBelongToUser(tagsId) == tagsId \subseteq Tags
\* What a client links: it leaves date tags to the backend while that can read them.
Linkable == {t \in Tags : account.e2ee \/ cats[tags[t].cat].kind # "date"}

\* CreateAllTags: a date tag another write created since the lookup is taken as
\* it is, one still missing is inserted; the new ids follow each other.
Inserted(d) == {n \in d.missing : FindTagIdByTagAndIdCategory(n, d.cat) = {}}
CreateAllTags(d) ==
  LET new == CHOOSE f \in [Inserted(d) -> next.tag..next.tag + Cardinality(Inserted(d)) - 1] :
               IsInjective(f)
  IN  /\ d.missing # {} => d.cat \in Cats
      /\ tags' = [t \in Tags \cup Range(new) |->
                    IF t \in Tags THEN tags[t]
                    ELSE [name |-> CHOOSE n \in Inserted(d) : new[n] = t, cat |-> d.cat,
                          parent |-> None, mode |-> "rest"]]
DateTagIds(d) ==
  d.found \cup UNION {{t \in DOMAIN tags' : tags'[t].name = n /\ tags'[t].cat = d.cat
                                           /\ tags'[t].mode = "rest"} : n \in d.missing}
EventRow(q, cid) ==
  [cid |-> cid, first |-> q.period.first, last |-> q.period.last, ongoing |-> q.period.ongoing,
   links |-> q.tagsId \cup DateTagIds(q.date), mode |-> ModeOf(q.e2ee)]
\* The foreign keys of the links.
LinksHold(q) == q.tagsId \cup q.date.found \subseteq DOMAIN tags'

EventRequest(op, id, cid, p, tagsId) ==
  [op |-> op, e2ee |-> account.e2ee, id |-> id, cid |-> cid, period |-> normalized(p),
   tagsId |-> tagsId, date |-> buildDateTags(p)]

ReplayEvent(cid) == Replay("createEvent", events, "events", cid)
AskCreateEvent(r, cid, p, tagsId) ==
  /\ FindIdByClientId(events, cid) = {}
  /\ validPeriod(p) /\ CheckTagsBelongToUser(tagsId)
  /\ Arrive(r, EventRequest("createEvent", None, cid, p, tagsId))
InsertEvent(q) ==
  /\ ~UserLocked /\ FindIdByClientId(events, q.cid) = {}
  /\ CreateAllTags(q.date) /\ LinksHold(q)
  /\ events' = Extend(events, next.event, EventRow(q, q.cid))
  /\ next' = [next EXCEPT !.event = @ + 1, !.tag = @ + Cardinality(Inserted(q.date))]
  /\ Answer("events", q.cid, next.event)
  /\ UNCHANGED <<account, cats, groups>>

AskUpdateEvent(r, e, p, tagsId) ==
  /\ e \in DOMAIN events  \* the client's; the server looks only in the transaction
  /\ validPeriod(p) /\ CheckTagsBelongToUser(tagsId)
  /\ Arrive(r, EventRequest("updateEvent", e, None, p, tagsId))
UpdateEventWithTags(q) ==
  /\ q.id \in DOMAIN events
  /\ CreateAllTags(q.date) /\ LinksHold(q)
  /\ events' = [events EXCEPT ![q.id] = EventRow(q, @.cid)]
  /\ next' = [next EXCEPT !.tag = @ + Cardinality(Inserted(q.date))]
  /\ UNCHANGED <<account, cats, groups, answers>>

DeleteEvent(e) ==
  /\ Allowed("deleteEvent")
  /\ e \in DOMAIN events /\ events' = Keep({e})
  /\ UNCHANGED <<account, cats, tags, groups, next>>
  /\ Serve

----------------------------------------------------------------------------
(* End-to-end encryption. *)

\* What the client sends: every row it fetched, encrypted (or decrypted).
Payload ==
  [cats   |-> DOMAIN GetCategories,
   tags   |-> [t \in UNION {GetCategories[c].tags : c \in Cats} |-> tags[t].name],
   groups |-> [g \in UNION {GetCategories[c].groups : c \in Cats} |-> groups[g].name],
   events |-> DOMAIN GetEvents(<<>>)]
AskMigrate(r) ==
  /\ Readable
  /\ Arrive(r, [op |-> "migrate", e2ee |-> account.e2ee,
                enable |-> ~account.e2ee, body |-> Payload])

\* The payload has to name exactly the rows there are.
IdSetsMatch(data) ==
  /\ data.cats = Cats /\ DOMAIN data.tags = Tags
  /\ DOMAIN data.groups = DOMAIN groups /\ data.events = DOMAIN events
\* The rows it names are rewritten, one by one.
Rewritten(table, ids, enable) ==
  [x \in DOMAIN table |-> IF x \in ids THEN [table[x] EXCEPT !.mode = ModeOf(enable)] ELSE table[x]]
Renamed(table, names, enable) ==
  [x \in DOMAIN table |->
     IF x \in DOMAIN names THEN [table[x] EXCEPT !.name = names[x], !.mode = ModeOf(enable)]
     ELSE table[x]]
\* The transaction begins: it locks the user's row and compares the ids.
CheckIds(r) ==
  /\ w[r].op = "migrate" /\ ~UserLocked
  /\ account.e2ee # w[r].enable /\ IdSetsMatch(MigrationData(w[r].body))
  /\ w' = [w EXCEPT ![r] = [op |-> "rewrite", e2ee |-> w[r].e2ee, enable |-> w[r].enable,
                            body |-> w[r].body]]
  /\ UNCHANGED <<rows, sent, kinds, notes>>
\* ... and goes on with the rows as they are by then.
Migrate(q) ==
  LET data == MigrationData(q.body) IN
  /\ tags'   = Renamed(tags, data.tags, q.enable) /\ UniqueNames(tags')
  /\ groups' = Renamed(groups, data.groups, q.enable) /\ UniqueNames(groups')
  /\ cats'   = Rewritten(cats, data.cats, q.enable)
  /\ events' = Rewritten(events, data.events, q.enable)
  /\ account' = [account EXCEPT !.e2ee = q.enable]
  /\ UNCHANGED <<next, answers>>

seedDefaultCategories(first) ==
  [c \in first..first + 2 |->
     [kind |-> CASE c = first -> "date" [] c = first + 1 -> "person" [] OTHER -> "other",
      cid |-> None, mode |-> "rest"]]
Purge ==
  /\ Allowed("purge")
  /\ account.e2ee /\ ~UserLocked
  /\ cats' = seedDefaultCategories(next.cat) /\ next' = [next EXCEPT !.cat = @ + 3]
  /\ tags' = <<>> /\ groups' = <<>> /\ events' = <<>>
  /\ account' = [e2ee |-> FALSE, generation |-> account.generation + 1]
  /\ Serve

----------------------------------------------------------------------------

\* The sets of at most MaxPicked tags a client sends.
Picks(S) == UNION {kSubset(k, S) : k \in 0..MaxPicked}

CategoryWrites ==
  \/ \E cid \in ClientIds : ReplayCategory(cid)
  \/ \E r \in Free("createCategory"), cid \in ClientIds \cup {None} : AskCreateCategory(r, cid)
  \/ \E r \in Workers : Duplicate(r, "createCategory", cats)
  \/ \E r \in Workers : FindAgain(r, "createCategory", cats, "cats")
  \/ \E r \in Free("updateCategory"), c \in Cats : AskUpdateCategory(r, c)
  \/ \E c \in Cats, moveTags, deleteEvents \in BOOLEAN : DeleteCategory(c, moveTags, deleteEvents)

TagWrites ==
  \/ \E r \in Free("createTag"), n \in Typed, c \in Cats, p \in Tags \cup {None} :
       AskCreateTag(r, n, c, p)
  \/ \E r \in Free("updateTag"), t \in Tags, n \in Typed, c \in Cats, p \in Tags \cup {None} :
       AskUpdateTag(r, t, n, c, p)
  \/ \E t \in Tags, deleteEvents \in BOOLEAN : DeleteTag(t, deleteEvents)
  \/ \E r \in Free("createGroup"), n \in Typed, c \in Cats, members \in Picks(Tags) :
       AskCreateTagGroup(r, n, c, members)
  \/ \E r \in Free("updateGroup"), g \in DOMAIN groups, n \in Typed, members \in Picks(Tags) :
       AskUpdateTagGroup(r, g, n, members)
  \/ \E g \in DOMAIN groups : DeleteTagGroup(g)

EventWrites ==
  \/ \E cid \in ClientIds : ReplayEvent(cid)
  \/ \E r \in Free("createEvent"), cid \in ClientIds \cup {None}, p \in Periods,
        S \in Picks(Linkable) : AskCreateEvent(r, cid, p, S)
  \/ \E r \in Workers : Duplicate(r, "createEvent", events)
  \/ \E r \in Workers : FindAgain(r, "createEvent", events, "events")
  \/ \E r \in Free("updateEvent"), e \in DOMAIN events, p \in Periods, S \in Picks(Linkable) :
       AskUpdateEvent(r, e, p, S)
  \/ \E e \in DOMAIN events : DeleteEvent(e)

Transaction(r) ==
  LET q == w[r] IN
  /\ \/ q.op = "createCategory" /\ InsertCategory(q)
     \/ q.op = "updateCategory" /\ UpdateCategory(q)
     \/ q.op = "createTag"      /\ CreateTag(q)
     \/ q.op = "updateTag"      /\ UpdateTag(q)
     \/ q.op = "createGroup"    /\ CreateTagGroup(q)
     \/ q.op = "updateGroup"    /\ UpdateTagGroup(q)
     \/ q.op = "createEvent"    /\ InsertEvent(q)
     \/ q.op = "updateEvent"    /\ UpdateEventWithTags(q)
     \/ q.op = "rewrite"        /\ Migrate(q)
  /\ Commit(r)

Next ==
  \/ CategoryWrites \/ TagWrites \/ EventWrites
  \/ \E r \in Free("migrate") : AskMigrate(r)
  \/ \E r \in Workers : CheckIds(r)
  \/ Purge
  \/ \E r \in Workers : Transaction(r)
  \/ \E r \in Workers : Abort(r)

Spec == Init /\ [][Next]_vars

----------------------------------------------------------------------------
(* What the tables hold, and the libraries a behaviour starts from.        *)

CategoryRows == [kind : {"date", "person", "other", "custom"}, cid : ClientIds \cup {None},
                 mode : Modes]
TagRows   == [name : AllNames, cat : Nat, parent : Nat, mode : Modes]
GroupRows == [name : AllNames, cat : Nat, members : SUBSET Nat, mode : Modes]
EventRows == [cid : ClientIds \cup {None}, first : Nat, last : Nat, ongoing : BOOLEAN,
              links : SUBSET Nat, mode : Modes]

\* The columns and the foreign keys.
TypedCats(C)         == \A c \in DOMAIN C : C[c] \in CategoryRows
TypedTags(C, T)      == \A t \in DOMAIN T : /\ T[t] \in TagRows
                                           /\ T[t].cat \in DOMAIN C
                                           /\ T[t].parent \in DOMAIN T \cup {None}
TypedGroups(C, T, G) == \A g \in DOMAIN G : /\ G[g] \in GroupRows
                                           /\ G[g].cat \in DOMAIN C
                                           /\ G[g].members \subseteq DOMAIN T
TypedEvents(T, E)    == \A e \in DOMAIN E : E[e] \in EventRows /\ E[e].links \subseteq DOMAIN T
TypedRows(C, T, G, E) ==
  TypedCats(C) /\ TypedTags(C, T) /\ TypedGroups(C, T, G) /\ TypedEvents(T, E)

Numbered(C, T, G, E, n) ==
  /\ n \in [cat : Nat \ {0}, tag : Nat \ {0}, group : Nat \ {0}, event : Nat \ {0}]
  /\ DOMAIN C \subseteq 1..n.cat - 1 /\ DOMAIN T \subseteq 1..n.tag - 1
  /\ DOMAIN G \subseteq 1..n.group - 1 /\ DOMAIN E \subseteq 1..n.event - 1

\* The key on the clientId.
OncePerClientId(table) ==
  \A x, y \in DOMAIN table : table[x].cid = table[y].cid /\ table[x].cid # None => x = y

\* The categories every library has.
Seeded(C) ==
  /\ \E c \in DOMAIN C : C[c].kind = "date" /\ \A d \in DOMAIN C : C[d].kind = "date" => d = c
  /\ \E c \in DOMAIN C : C[c].kind = "other"

FlatTags(T) ==
  \A t \in DOMAIN T : T[t].parent # None => /\ T[T[t].parent].parent = None
                                            /\ T[T[t].parent].cat = T[t].cat
MainMembers(T, G) ==
  \A g \in DOMAIN G : \A t \in G[g].members : T[t].parent = None /\ T[t].cat = G[g].cat

\* The date tags stand alone, and the events have those of their periods.
isDateTag(C, T, t) == C[T[t].cat].kind = "date"
DateTagsApart(C, T) ==
  \A t \in DOMAIN T :
    /\ isReservedTagName(T[t].name) => isDateTag(C, T, t)
    /\ T[t].parent # None => ~isDateTag(C, T, t) /\ ~isDateTag(C, T, T[t].parent)
EventsDated(C, T, E) ==
  \A e \in DOMAIN E :
    /\ E[e].last # None => E[e].first <= E[e].last
    /\ {T[t].name : t \in {u \in E[e].links : isDateTag(C, T, u)}} = DateTagNames(E[e])

\* A library as the user's earlier requests may have left it.
WellFormed(s) ==
  /\ TypedRows(s.cats, s.tags, s.groups, s.events)
  /\ Numbered(s.cats, s.tags, s.groups, s.events, s.next)
  /\ OncePerClientId(s.cats) /\ OncePerClientId(s.events)
  /\ Seeded(s.cats) /\ s.e2ee \in BOOLEAN
  /\ StoredAs(s.cats, s.tags, s.groups, s.events, ModeOf(s.e2ee))
  /\ FlatTags(s.tags) /\ MainMembers(s.tags, s.groups)
  /\ ~s.e2ee => DateTagsApart(s.cats, s.tags) /\ EventsDated(s.cats, s.tags, s.events)

ASSUME StartsAssumption == \A s \in Starts : WellFormed(s)

----------------------------------------------------------------------------
(* Properties. *)

\* Type correctness, with the references the foreign keys keep: every tag and
\* group lies in a category, and every synonym, member and link names a tag.
LibraryTypeOK ==
  /\ account \in [e2ee : BOOLEAN, generation : 0..MaxRequests]
  /\ TypedRows(cats, tags, groups, events)
  /\ sent \in 0..MaxRequests

\* A synonym's main tag is no synonym and shares its category, whatever
\* creations, moves, category deletions and removals meet, as long as no write
\* was validated against tags rearranged before it committed.
SynonymsFlat == ~crossed => FlatTags(tags)

\* Under the same condition a group holds only main tags of its own category,
\* although tags move, become synonyms and go with their category.
GroupsHoldMainTags == ~crossed => MainMembers(tags, groups)

\* What a step leaves in the filters when it takes only synonyms of tags that stay.
SynonymsGone ==
  LET gone == Tags \ DOMAIN tags' IN
  (~crossed /\ gone # {} /\ \A t \in gone : tags[t].parent \in DOMAIN tags') =>
    \A n \in AllNames \ {tags[t].name : t \in gone} :
      DOMAIN GetEvents(<<n>>) \subseteq DOMAIN GetEvents(<<n>>)'
\* Deleting a synonym takes no event out of the filter by another name: its
\* events are found through its main tag from then on.
FiltersSurvive == [][SynonymsGone]_vars

\* The answers to the creates of one clientId name one row, racing replays and
\* retried transactions included, unless that row was deleted in between.
RepliesAgree ==
  \A a, b \in answers :
    (a[1] = b[1] /\ a[2] = b[2] /\ a[3] < b[3]) =>
      a[3] \notin (IF a[1] = "cats" THEN Cats ELSE DOMAIN events)

\* While the account was never encrypted, filtering by a month, a year or Ongoing
\* lists exactly the events whose period has it: the date tags are attached, follow
\* an edit, are shared by concurrent writes, and no tag of the user's has their name.
Covers(p, n) ==
  \/ p.ongoing /\ n = Ongoing
  \/ \E day \in p.first..(IF p.last = None THEN p.first ELSE p.last) :
       n \in {MonthName(Month(day)), YearName(Month(day))}
EventsFoundByDate ==
  ~veiled => \A n \in AllNames \ Names :
               DOMAIN GetEvents(<<n>>) = {e \in DOMAIN events : Covers(events[e], n)}

\* Categories and events are stored the way the account's flag says, through
\* migrations racing other writes, unless a write kept the flag it arrived with past
\* a migration; tags and groups too, but for those made while a migration ran.
OneMode ==
  ~mixed => /\ StoredAs(cats, <<>>, <<>>, events, ModeOf(account.e2ee))
            /\ ~overlooked => Readable

\* What the migration's own comment promises: what was created since the client
\* fetched conflicts, so that the whole dataset changes its mode or nothing does.
AllMigrated == ~mixed => Readable

\* The events with only date tags, and whether a step does what usage announces.
DateOnly == {e \in DOMAIN events : \A t \in events[e].links : cats[tags[t].cat].kind = "date"}
Foretold(usage) ==
  IF DOMAIN events' # DOMAIN events
  THEN usage.events = Cardinality(DOMAIN events \ DOMAIN events')
  ELSE usage.exclusiveEvents = Cardinality(DateOnly' \ DateOnly)
\* A step that deletes one tag that is no synonym, or one category with its tags.
DeletionForetold ==
  ~crossed /\ account'.generation = account.generation =>
    /\ \A t \in Tags \ DOMAIN tags' :
         (cats' = cats /\ tags[t].parent = None /\ cats[tags[t].cat].kind # "date")
           => Foretold(GetTagUsage(t))
    /\ \A c \in Cats \ DOMAIN cats' :
         Tags \ DOMAIN tags' = {t \in Tags : tags[t].cat = c}
           => Foretold(GetCategoryUsage(c))
\* What the usage endpoints announce is what the deletion then does: so many events
\* deleted with the tag or category, or so many left with only their date tags.
UsageForetells == [][DeletionForetold]_vars

\* What the client's documentation promises: a migration whose payload names every
\* row, tag groups included, as it is stored at that moment is not refused.
FreshMigrationAccepted ==
  \A r \in Workers :
    (w[r].op = "migrate" /\ w[r].enable # account.e2ee /\ w[r].body = Payload)
      => IdSetsMatch(MigrationData(w[r].body))

============================================================================
