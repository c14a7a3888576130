-------------------------- MODULE LibraryTagsProofs --------------------------
(***************************************************************************)
(* Theorems about a library's tags, for every value of the constants.      *)
(*                                                                         *)
(* How tags hang together: synonyms are flat and groups hold main tags of  *)
(* their category, as long as no write was validated against tags another  *)
(* rearranged before it committed.                                         *)
(*                                                                         *)
(* The date tags of a library that was never encrypted: the backend alone  *)
(* creates and links them, so filtering by a month, a year or Ongoing      *)
(* lists exactly the events that have it.                                  *)
(*                                                                         *)
(* What a deletion does to the events: a synonym's pass to its main tag,   *)
(* and the counts announced before a deletion are what it then does.       *)
(***************************************************************************)
EXTENDS LibraryProofs

-----------------------------------------------------------------------------
(* The inductive invariant.  What a request was validated against still    *)
(* holds when nothing rearranged the tags since; tags deleted since are    *)
(* refused by the foreign keys.                                            *)

IsMain(T, t, cat) == t \in DOMAIN T => T[t].parent = None /\ T[t].cat = cat

StillValid(q, T, G) ==
  /\ q.op \in {"createTag", "updateTag"} => IsMain(T, q.parent, q.cat)
  /\ q.op = "updateTag" /\ q.parent # None => \A s \in DOMAIN T : T[s].parent # q.id
  /\ q.op = "createGroup" => \A t \in q.members : IsMain(T, t, q.cat)
  /\ q.op = "updateGroup" /\ q.id \in DOMAIN G =>
       \A t \in q.members : IsMain(T, t, G[q.id].cat)

Fresh == \A r \in Workers \ stale : StillValid(w[r], tags, groups)

FInv == Fresh /\ SynonymsFlat /\ GroupsHoldMainTags

-----------------------------------------------------------------------------
(* The requests. *)

\* A tag that is in no other tag's tree when the request was asked.
LEMMA ValidatedFresh ==
  ASSUME Stored, NEW q, Validated(q)
  PROVE  StillValid(q, tags, groups)
<1>1. \A t \in Tags : t # None BY IdTypes DEF Tags, None
<1>2. q.op \in {"createTag", "updateTag"} => IsMain(tags, q.parent, q.cat)
  BY <1>1 DEF Validated, validateTag, validateParent, IsMain, Tags
<1>3. q.op = "updateTag" /\ q.parent # None => \A s \in DOMAIN tags : tags[s].parent # q.id
  BY DEF Validated, HasSynonyms, Tags
<1>4. q.op = "createGroup" => \A t \in q.members : IsMain(tags, t, q.cat)
  BY DEF Validated, validateTagGroup, CheckMainTagsInCategory, IsMain
<1>5. q.op = "updateGroup" => \A t \in q.members : IsMain(tags, t, groups[q.id].cat)
  BY DEF Validated, validateTagGroup, CheckMainTagsInCategory, IsMain
<1> QED BY <1>2, <1>3, <1>4, <1>5 DEF StillValid

\* What a step leaves of the tags and the groups when it rearranges nothing.
GroupsStay(G, H, n) == \A g \in DOMAIN H : g < n => g \in DOMAIN G /\ H[g].cat = G[g].cat
NewAbove(T, U, n) == \A t \in DOMAIN U \ DOMAIN T : t >= n

\* A step that rearranges no tag leaves every waiting request valid.
LEMMA StaysValid ==
  ASSUME Stored, NEW q, Asked(q, next), StillValid(q, tags, groups), ~Rearranged,
         NewAbove(tags, tags', next.tag), GroupsStay(groups, groups', next.group)
  PROVE  StillValid(q, tags', groups')
<1>1. ASSUME NEW t \in DOMAIN tags', t \in DOMAIN tags
      PROVE  tags'[t].parent = tags[t].parent /\ tags'[t].cat = tags[t].cat
  BY <1>1 DEF Rearranged, Tags
<1>2. ASSUME NEW t \in DOMAIN tags', t \notin DOMAIN tags
      PROVE  tags'[t].parent = None /\ t >= next.tag
  BY <1>2 DEF Rearranged, NewAbove, Tags
<1>3. /\ next.tag \in Nat /\ next.group \in Nat BY IdTypes
<1>4. ASSUME NEW t \in Nat, t < next.tag, NEW cat, IsMain(tags, t, cat)
      PROVE  IsMain(tags', t, cat)
  <2>1. CASE t \notin DOMAIN tags' BY <2>1 DEF IsMain
  <2>2. CASE t \in DOMAIN tags'
    <3>1. t \in DOMAIN tags BY <1>2, <1>3, <1>4, <2>2
    <3> QED BY <1>1, <1>4, <2>2, <3>1 DEF IsMain
  <2> QED BY <2>1, <2>2
<1>5. q.op \in {"createTag", "updateTag"} => IsMain(tags', q.parent, q.cat)
  <2> SUFFICES ASSUME q.op \in {"createTag", "updateTag"} PROVE IsMain(tags', q.parent, q.cat)
    OBVIOUS
  <2>1. AskedTag(q, next) BY AskedParts
  <2>2. q.parent \in Nat /\ q.parent < next.tag BY <1>3, <2>1 DEF AskedTag
  <2>3. IsMain(tags, q.parent, q.cat) BY DEF StillValid
  <2> QED BY <1>4, <2>2, <2>3
<1>6. q.op = "updateTag" /\ q.parent # None => \A s \in DOMAIN tags' : tags'[s].parent # q.id
  <2> SUFFICES ASSUME q.op = "updateTag", q.parent # None, NEW s \in DOMAIN tags'
               PROVE  tags'[s].parent # q.id
    OBVIOUS
  <2>1. AskedTag(q, next) BY AskedParts
  <2>2. q.id # None BY <1>3, <2>1 DEF AskedTag, None
  <2>3. \A x \in DOMAIN tags : tags[x].parent # q.id BY DEF StillValid
  <2> QED BY <1>1, <1>2, <2>2, <2>3
<1>7. ASSUME q.op \in {"createGroup", "updateGroup"}, NEW t \in q.members
      PROVE  t \in Nat /\ t < next.tag
  <2>1. AskedGroup(q, next) BY <1>7, AskedParts
  <2> QED BY <1>3, <1>7, <2>1 DEF AskedGroup
<1>8. q.op = "createGroup" => \A t \in q.members : IsMain(tags', t, q.cat)
  BY <1>4, <1>7 DEF StillValid
<1>9. q.op = "updateGroup" /\ q.id \in DOMAIN groups' =>
        \A t \in q.members : IsMain(tags', t, groups'[q.id].cat)
  <2> SUFFICES ASSUME q.op = "updateGroup", q.id \in DOMAIN groups', NEW t \in q.members
               PROVE  IsMain(tags', t, groups'[q.id].cat)
    OBVIOUS
  <2>1. AskedGroup(q, next) BY AskedParts
  <2>2. q.id < next.group BY <1>3, <2>1 DEF AskedGroup
  <2>3. q.id \in DOMAIN groups /\ groups'[q.id].cat = groups[q.id].cat
    BY <2>2 DEF GroupsStay
  <2>4. IsMain(tags, t, groups[q.id].cat) BY <2>3 DEF StillValid
  <2> QED BY <1>4, <1>7, <2>3, <2>4
<1> QED BY <1>5, <1>6, <1>8, <1>9 DEF StillValid

\* A request that reads no other tag is always valid.
LEMMA ReadsNothing ==
  ASSUME NEW q, ~ReadsTags(q), NEW T, None \notin DOMAIN T, NEW G
  PROVE  StillValid(q, T, G)
BY DEF ReadsTags, StillValid, IsMain

LEMMA IdleValid == ASSUME NEW T, NEW G PROVE StillValid(Idle, T, G)
BY DEF StillValid, Idle

-----------------------------------------------------------------------------
(* What the steps leave valid. *)

LEMMA ReadersStayValid ==
  ASSUME Stored, Waiting, Stored', Fresh, NEW s \in Workers \ stale, s \notin Outdated,
         NewAbove(tags, tags', next.tag), GroupsStay(groups, groups', next.group)
  PROVE  StillValid(w[s], tags', groups')
<1>1. Asked(w[s], next) /\ StillValid(w[s], tags, groups) BY DEF Waiting, Fresh
<1>2. None \notin DOMAIN tags' BY DEF Stored, Numbered, None
<1>3. CASE ~ReadsTags(w[s]) BY <1>2, <1>3, ReadsNothing
<1>4. CASE ReadsTags(w[s])
  <2>1. ~Rearranged BY <1>4 DEF Outdated
  <2> QED BY <1>1, <2>1, StaysValid
<1> QED BY <1>3, <1>4

\* The groups of a category whose tags moved hold none of them, or something moved.
LEMMA MovedStaysValid ==
  ASSUME Stored, Waiting, Fresh, NEW s \in Workers \ stale, s \notin Outdated,
         Stored', NEW c \in Cats, ~isLocked(c), MoveTags(c), next' = next
  PROVE  StillValid(w[s], tags', groups')
<1> DEFINE q == w[s]
<1>1. PICK o \in Cats :
        /\ o # c
        /\ DOMAIN tags' = Tags /\ DOMAIN groups' = DOMAIN groups
        /\ \A t \in Tags :
             /\ tags'[t].parent = tags[t].parent
             /\ tags'[t].cat = IF tags[t].cat = c THEN o ELSE tags[t].cat
        /\ \A g \in DOMAIN groups :
             groups'[g].cat = IF groups[g].cat = c THEN o ELSE groups[g].cat
  BY MoveTagsMoves
<1>2. Asked(q, next) /\ StillValid(q, tags, groups) BY DEF Waiting, Fresh
<1>3. None \notin DOMAIN tags' BY DEF Stored, Numbered, None
<1>4. CASE ~ReadsTags(q) BY <1>3, <1>4, ReadsNothing
<1>5. CASE ReadsTags(q)
  <2>1. ~Rearranged BY <1>5 DEF Outdated
  <2>2. \A t \in Tags : tags[t].cat # c /\ tags'[t].cat = tags[t].cat
    BY <1>1, <2>1 DEF Rearranged, Tags
  <2>3. ASSUME NEW t, NEW cat, IsMain(tags, t, cat) PROVE IsMain(tags', t, cat)
    BY <1>1, <2>2, <2>3 DEF IsMain, Tags
  <2>4. q.op \in {"createTag", "updateTag"} => IsMain(tags', q.parent, q.cat)
    BY <1>2, <2>3 DEF StillValid
  <2>5. q.op = "updateTag" /\ q.parent # None => \A x \in DOMAIN tags' : tags'[x].parent # q.id
    BY <1>1, <1>2 DEF StillValid, Tags
  <2>6. q.op = "createGroup" => \A t \in q.members : IsMain(tags', t, q.cat)
    BY <1>2, <2>3 DEF StillValid
  <2>7. ASSUME q.op = "updateGroup", q.id \in DOMAIN groups', NEW t \in q.members
        PROVE  IsMain(tags', t, groups'[q.id].cat)
    <3>1. IsMain(tags, t, groups[q.id].cat) BY <1>1, <1>2, <2>7 DEF StillValid
    <3>2. CASE groups[q.id].cat = c
      <4>1. t \notin Tags BY <2>2, <3>1, <3>2 DEF IsMain, Tags
      <4> QED BY <1>1, <4>1 DEF IsMain
    <3>3. CASE groups[q.id].cat # c
      <4>1. groups'[q.id].cat = groups[q.id].cat BY <1>1, <2>7, <3>3
      <4> QED BY <2>3, <3>1, <4>1
    <3> QED BY <3>2, <3>3
  <2> QED BY <2>4, <2>5, <2>6, <2>7 DEF StillValid
<1> QED BY <1>4, <1>5

\* Rows deleted, or added above what was handed out.
LEMMA FewerTags ==
  ASSUME NEW T, NEW U, NEW gone, NEW n, Without(T, U, gone)
  PROVE  NewAbove(T, U, n)
BY DEF Without, NewAbove

LEMMA FewerGroups ==
  ASSUME NEW G, NEW H, NEW gone, NEW n, Ungrouped(G, H, gone)
  PROVE  GroupsStay(G, H, n)
BY DEF Ungrouped, GroupsStay

LEMMA ServesValid ==
  ASSUME Stored, Waiting, Stored', Fresh, Serves, NEW s \in Workers \ stale, s \notin Outdated
  PROVE  StillValid(w[s], tags', groups')
<1>1. CASE \E c \in Cats, moveTags, deleteEvents \in BOOLEAN :
             DeleteCategory(c, moveTags, deleteEvents)
  <2>1. PICK c \in Cats, moveTags \in BOOLEAN, deleteEvents \in BOOLEAN :
               DeleteCategory(c, moveTags, deleteEvents)
    BY <1>1
  <2>2. ~isLocked(c) /\ next' = next BY <2>1 DEF DeleteCategory
  <2>3. CASE MoveTags(c) BY <2>2, <2>3, MovedStaysValid
  <2>4. CASE DropTags(c, deleteEvents)
    <3>1. /\ Without(tags, tags', CascadeTags(Inside(c)))
          /\ Ungrouped(groups, groups', CascadeTags(Inside(c)))
      BY <2>4, DropTagsDrops
    <3> QED BY <3>1, FewerTags, FewerGroups, ReadersStayValid
  <2> QED BY <2>1, <2>3, <2>4 DEF DeleteCategory
<1>2. CASE \E t \in Tags, deleteEvents \in BOOLEAN : DeleteTag(t, deleteEvents)
  <2>1. PICK t \in Tags : Without(tags, tags', CascadeTags({t}))
                          /\ Ungrouped(groups, groups', CascadeTags({t}))
    BY <1>2, TagDeleted
  <2> QED BY <2>1, FewerTags, FewerGroups, ReadersStayValid
<1>3. CASE \E g \in DOMAIN groups : DeleteTagGroup(g)
  <2>1. PICK g \in DOMAIN groups : DeleteTagGroup(g) BY <1>3
  <2>2. Without(groups, groups', {g}) /\ tags' = tags
    BY <2>1, GroupDeleted DEF DeleteTagGroup
  <2>3. NewAbove(tags, tags', next.tag) /\ GroupsStay(groups, groups', next.group)
    BY <2>2 DEF NewAbove, GroupsStay, Without
  <2> QED BY <2>3, ReadersStayValid
<1>4. CASE \E e \in DOMAIN events : DeleteEvent(e)
  <2>1. tags' = tags /\ groups' = groups BY <1>4 DEF DeleteEvent
  <2>2. NewAbove(tags, tags', next.tag) /\ GroupsStay(groups, groups', next.group)
    BY <2>1 DEF NewAbove, GroupsStay
  <2> QED BY <2>2, ReadersStayValid
<1>5. CASE Purge
  <2>1. DOMAIN tags' = {} /\ DOMAIN groups' = {} BY <1>5, Purged
  <2>2. NewAbove(tags, tags', next.tag) /\ GroupsStay(groups, groups', next.group)
    BY <2>1 DEF NewAbove, GroupsStay
  <2> QED BY <2>2, ReadersStayValid
<1> QED BY <1>1, <1>2, <1>3, <1>4, <1>5 DEF Serves

LEMMA TransactionRows ==
  ASSUME Stored, Waiting, NEW r \in Workers, Transaction(r)
  PROVE  NewAbove(tags, tags', next.tag) /\ GroupsStay(groups, groups', next.group)
<1> DEFINE q == w[r]
<1>1. Asked(q, next) BY DEF Waiting
<1>2. Runs(r) BY Commits
<1>3. CASE q.op \in {"createCategory", "updateCategory"}
  <2>1. tags' = tags /\ groups' = groups
    BY <1>2, <1>3 DEF Runs, InsertCategory, UpdateCategory
  <2> QED BY <2>1 DEF NewAbove, GroupsStay
<1>4. CASE q.op = "createTag" /\ CreateTag(q)
  <2>1. DOMAIN tags' = Tags \cup {next.tag} BY <1>1, <1>4, AskedParts, TagCreated
  <2>2. groups' = groups BY <1>4 DEF CreateTag
  <2> QED BY <2>1, <2>2, IdTypes DEF NewAbove, GroupsStay, Tags
<1>5. CASE q.op = "updateTag" /\ UpdateTag(q)
  <2>1. /\ DOMAIN tags' = Tags /\ DOMAIN groups' = DOMAIN groups
        /\ \A g \in DOMAIN groups : groups'[g].cat = groups[g].cat
    BY <1>1, <1>5, AskedParts, TagUpdated
  <2> QED BY <2>1 DEF NewAbove, GroupsStay, Tags
<1>6. CASE q.op = "createGroup" /\ CreateTagGroup(q)
  <2>1. /\ DOMAIN groups' = DOMAIN groups \cup {next.group}
        /\ \A g \in DOMAIN groups : groups'[g] = groups[g]
    BY <1>1, <1>6, AskedParts, GroupCreated
  <2>2. tags' = tags BY <1>6 DEF CreateTagGroup
  <2> QED BY <2>1, <2>2, IdTypes DEF NewAbove, GroupsStay
<1>7. CASE q.op = "updateGroup" /\ UpdateTagGroup(q)
  <2>1. /\ DOMAIN groups' = DOMAIN groups
        /\ \A g \in DOMAIN groups : g # q.id => groups'[g] = groups[g]
        /\ groups'[q.id].cat = groups[q.id].cat
    BY <1>1, <1>7, AskedParts, GroupUpdated
  <2>2. tags' = tags BY <1>7 DEF UpdateTagGroup
  <2> QED BY <2>1, <2>2 DEF NewAbove, GroupsStay
<1>8. CASE \/ q.op = "createEvent" /\ InsertEvent(q)
           \/ q.op = "updateEvent" /\ UpdateEventWithTags(q)
  <2>1. NewDateTags(tags, tags', q.date, Inserted(q.date), next.tag)
    BY <1>1, <1>8, AskedParts, EventInserted, EventUpdated
  <2>2. groups' = groups BY <1>8 DEF InsertEvent, UpdateEventWithTags
  <2>3. next.tag \in Nat BY IdTypes
  <2>4. \A t \in DOMAIN tags' \ DOMAIN tags :
          t \in next.tag..next.tag + Cardinality(Inserted(q.date)) - 1
    BY <2>1 DEF NewDateTags
  <2> QED BY <2>2, <2>3, <2>4 DEF NewAbove, GroupsStay
<1>9. CASE q.op = "rewrite" /\ Migrate(q)
  <2>1. /\ DOMAIN tags' = Tags /\ DOMAIN groups' = DOMAIN groups
        /\ \A g \in DOMAIN groups : groups'[g] = groups[g]
    BY <1>1, <1>9, AskedParts, Migrated
  <2> QED BY <2>1 DEF NewAbove, GroupsStay, Tags
<1> QED BY <1>2, <1>3, <1>4, <1>5, <1>6, <1>7, <1>8, <1>9 DEF Runs

LEMMA FreshStep ==
  ASSUME LInv, Fresh, Next
  PROVE  Fresh'
<1>1. Stored /\ Waiting /\ Counted BY DEF LInv
<1>2. Stored' BY StoredStep DEF Kept
<1>3. CASE Arrives
  <2>0. PICK r \in Workers : \E q : Arrive(r, q) /\ Validated(q) BY <1>3 DEF Arrives
  <2>1. PICK q : Arrive(r, q) /\ Validated(q) BY <2>0
  <2>2. /\ w' = [w EXCEPT ![r] = q] /\ tags' = tags /\ groups' = groups /\ stale' = stale
    BY <2>1 DEF Arrive, rows, notes
  <2>3. StillValid(q, tags, groups) BY <1>1, <2>1, ValidatedFresh
  <2>4. ASSUME NEW s \in Workers \ stale' PROVE StillValid(w'[s], tags', groups')
    <3>1. CASE s = r BY <1>1, <2>2, <2>3, <3>1 DEF Waiting
    <3>2. CASE s # r BY <2>2, <2>4, <3>2 DEF Fresh
    <3> QED BY <3>1, <3>2
  <2> QED BY <2>4 DEF Fresh
<1>4. CASE Ends
  <2>1. tags' = tags /\ groups' = groups BY <1>4, EndsQuietly DEF rows
  <2>2. ASSUME NEW s \in Workers \ stale' PROVE StillValid(w'[s], tags', groups')
    <3>1. CASE w'[s] = w[s] /\ s \notin stale BY <2>1, <2>2, <3>1 DEF Fresh
    <3>2. CASE w'[s].op \in {"none", "again", "rewrite"} BY <3>2 DEF StillValid
    <3>3. \/ w'[s] = w[s] /\ s \notin stale
          \/ w'[s].op \in {"none", "again", "rewrite"}
      <4>1. CASE \E cid \in ClientIds : ReplayCategory(cid) \/ ReplayEvent(cid)
        BY <2>2, <4>1 DEF ReplayCategory, ReplayEvent, Replay
      <4>2. CASE \E r \in Workers : \/ Duplicate(r, "createCategory", cats)
                                    \/ Duplicate(r, "createEvent", events)
        BY <1>1, <2>2, <4>2 DEF Duplicate, notes, Waiting
      <4>3. CASE \E r \in Workers : \/ FindAgain(r, "createCategory", cats, "cats")
                                    \/ FindAgain(r, "createEvent", events, "events")
        BY <1>1, <2>2, <4>3 DEF FindAgain, Waiting, Idle
      <4>4. CASE \E r \in Workers : Abort(r)
        BY <1>1, <2>2, <4>4 DEF Abort, Waiting, Idle
      <4>5. CASE \E r \in Workers : CheckIds(r)
        BY <1>1, <2>2, <4>5 DEF CheckIds, notes, Waiting
      <4> QED BY <1>4, <4>1, <4>2, <4>3, <4>4, <4>5 DEF Ends
    <3> QED BY <3>1, <3>2, <3>3
  <2> QED BY <2>2 DEF Fresh
<1>5. CASE Serves
  <2>1. w' = w /\ stale' = stale \cup Outdated
    BY <1>5 DEF Serves, DeleteCategory, DeleteTag, DeleteTagGroup, DeleteEvent, Purge, Serve
  <2>2. ASSUME NEW s \in Workers \ stale' PROVE StillValid(w'[s], tags', groups')
    BY <1>1, <1>2, <1>5, <2>1, <2>2, ServesValid
  <2> QED BY <2>2 DEF Fresh
<1>6. CASE \E r \in Workers : Transaction(r)
  <2>1. PICK r \in Workers : Transaction(r) BY <1>6
  <2>2. w' = [w EXCEPT ![r] = Idle] /\ stale' = (stale \cup Outdated) \ {r}
    BY <2>1, Commits DEF Commit
  <2>3. NewAbove(tags, tags', next.tag) /\ GroupsStay(groups, groups', next.group)
    BY <1>1, <2>1, TransactionRows
  <2>4. ASSUME NEW s \in Workers \ stale' PROVE StillValid(w'[s], tags', groups')
    <3>1. CASE s = r
      <4>1. w'[s] = Idle BY <1>1, <2>2, <3>1 DEF Waiting
      <4> QED BY <4>1, IdleValid
    <3>2. CASE s # r
      <4>1. w'[s] = w[s] /\ s \notin stale /\ s \notin Outdated BY <2>2, <2>4, <3>2
      <4> QED BY <1>1, <1>2, <2>3, <4>1, ReadersStayValid
    <3> QED BY <3>1, <3>2
  <2> QED BY <2>4 DEF Fresh
<1> QED BY <1>3, <1>4, <1>5, <1>6, Steps

-----------------------------------------------------------------------------
(* Synonyms and members. *)

Hangs == FlatTags(tags) /\ MainMembers(tags, groups)

LEMMA TagsWithout ==
  ASSUME Stored, Hangs, NEW gone, gone \subseteq Tags,
         \A t \in Tags : tags[t].parent \in gone => t \in gone,
         Without(tags, tags', gone), Ungrouped(groups, groups', gone)
  PROVE  Hangs'
<1>1. DOMAIN tags' = Tags \ gone /\ \A t \in DOMAIN tags' : tags'[t] = tags[t]
  BY DEF Without, Tags
<1>2. ASSUME NEW t \in DOMAIN tags', tags'[t].parent # None
      PROVE  tags'[tags'[t].parent].parent = None /\ tags'[tags'[t].parent].cat = tags'[t].cat
  <2>1. tags'[t] = tags[t] /\ t \in Tags /\ t \notin gone BY <1>1, <1>2
  <2>2. tags[t].parent \in Tags \ gone BY <1>2, <2>1, References
  <2>3. tags'[tags[t].parent] = tags[tags[t].parent] BY <1>1, <2>2
  <2> QED BY <1>2, <2>1, <2>3 DEF Hangs, FlatTags, Tags
<1>3. ASSUME NEW g \in DOMAIN groups', NEW t \in groups'[g].members
      PROVE  tags'[t].parent = None /\ tags'[t].cat = groups'[g].cat
  <2>1. g \in DOMAIN groups /\ t \in groups[g].members \ gone /\ groups'[g].cat = groups[g].cat
    BY <1>3 DEF Ungrouped
  <2>2. t \in Tags \ gone BY <2>1, References
  <2>3. tags'[t] = tags[t] BY <1>1, <2>2
  <2> QED BY <2>1, <2>3 DEF Hangs, MainMembers
<1> QED BY <1>2, <1>3 DEF Hangs, FlatTags, MainMembers

\* The tags change in nothing the two properties read, and the groups are fewer.
LEMMA TagsAlike ==
  ASSUME Stored, Hangs, Tags \subseteq DOMAIN tags',
         \A t \in Tags : tags'[t].parent = tags[t].parent /\ tags'[t].cat = tags[t].cat,
         \A t \in DOMAIN tags' \ Tags : tags'[t].parent = None,
         \A g \in DOMAIN groups' :
           /\ g \in DOMAIN groups /\ groups'[g].members = groups[g].members
           /\ groups'[g].cat = groups[g].cat
  PROVE  Hangs'
<1>1. ASSUME NEW t \in DOMAIN tags', tags'[t].parent # None
      PROVE  tags'[tags'[t].parent].parent = None /\ tags'[tags'[t].parent].cat = tags'[t].cat
  <2>1. t \in Tags BY <1>1
  <2>2. tags'[t].parent = tags[t].parent /\ tags[t].parent \in Tags BY <1>1, <2>1, References
  <2>3. tags[tags[t].parent].parent = None /\ tags[tags[t].parent].cat = tags[t].cat
    BY <1>1, <2>1, <2>2 DEF Hangs, FlatTags, Tags
  <2> QED BY <2>1, <2>2, <2>3
<1>2. ASSUME NEW g \in DOMAIN groups', NEW t \in groups'[g].members
      PROVE  tags'[t].parent = None /\ tags'[t].cat = groups'[g].cat
  <2>1. g \in DOMAIN groups /\ t \in groups[g].members /\ groups'[g].cat = groups[g].cat
    BY <1>2
  <2>2. t \in Tags BY <2>1, References
  <2>3. tags[t].parent = None /\ tags[t].cat = groups[g].cat BY <2>1 DEF Hangs, MainMembers
  <2> QED BY <2>1, <2>2, <2>3
<1> QED BY <1>1, <1>2 DEF Hangs, FlatTags, MainMembers

LEMMA MoveHangs ==
  ASSUME Stored, Hangs, NEW c \in Cats, ~isLocked(c), MoveTags(c)
  PROVE  Hangs'
<1>1. PICK o \in Cats :
        /\ DOMAIN tags' = Tags /\ DOMAIN groups' = DOMAIN groups
        /\ \A t \in Tags :
             /\ tags'[t].parent = tags[t].parent
             /\ tags'[t].cat = IF tags[t].cat = c THEN o ELSE tags[t].cat
        /\ \A g \in DOMAIN groups :
             /\ groups'[g].members = groups[g].members
             /\ groups'[g].cat = IF groups[g].cat = c THEN o ELSE groups[g].cat
  BY MoveTagsMoves
<1>2. ASSUME NEW t \in DOMAIN tags', tags'[t].parent # None
      PROVE  tags'[tags'[t].parent].parent = None /\ tags'[tags'[t].parent].cat = tags'[t].cat
  <2>1. t \in Tags /\ tags'[t].parent = tags[t].parent BY <1>1, <1>2
  <2>2. tags[t].parent \in Tags BY <1>2, <2>1, References
  <2>3. tags[tags[t].parent].parent = None /\ tags[tags[t].parent].cat = tags[t].cat
    BY <1>2, <2>1 DEF Hangs, FlatTags, Tags
  <2> QED BY <1>1, <2>1, <2>2, <2>3
<1>3. ASSUME NEW g \in DOMAIN groups', NEW t \in groups'[g].members
      PROVE  tags'[t].parent = None /\ tags'[t].cat = groups'[g].cat
  <2>1. g \in DOMAIN groups /\ t \in groups[g].members BY <1>1, <1>3
  <2>2. t \in Tags BY <2>1, References
  <2>3. tags[t].parent = None /\ tags[t].cat = groups[g].cat BY <2>1 DEF Hangs, MainMembers
  <2> QED BY <1>1, <2>1, <2>2, <2>3
<1> QED BY <1>2, <1>3 DEF Hangs, FlatTags, MainMembers

LEMMA ServesHang ==
  ASSUME Stored, Hangs, Serves
  PROVE  Hangs'
<1>1. CASE \E c \in Cats, moveTags, deleteEvents \in BOOLEAN :
             DeleteCategory(c, moveTags, deleteEvents)
  <2>1. PICK c \in Cats, moveTags \in BOOLEAN, deleteEvents \in BOOLEAN :
               DeleteCategory(c, moveTags, deleteEvents)
    BY <1>1
  <2>2. CASE MoveTags(c) BY <2>1, <2>2, MoveHangs DEF DeleteCategory
  <2>3. CASE DropTags(c, deleteEvents)
    <3>1. Inside(c) \in SUBSET Tags BY DEF Inside
    <3>2. /\ Without(tags, tags', CascadeTags(Inside(c)))
          /\ Ungrouped(groups, groups', CascadeTags(Inside(c)))
      BY <2>3, DropTagsDrops
    <3> QED BY <3>1, <3>2, Cascades, TagsWithout
  <2> QED BY <2>1, <2>2, <2>3 DEF DeleteCategory
<1>2. CASE \E t \in Tags, deleteEvents \in BOOLEAN : DeleteTag(t, deleteEvents)
  <2>1. PICK t \in Tags : Without(tags, tags', CascadeTags({t}))
                          /\ Ungrouped(groups, groups', CascadeTags({t}))
    BY <1>2, TagDeleted
  <2>2. {t} \in SUBSET Tags OBVIOUS
  <2> QED BY <2>1, <2>2, Cascades, TagsWithout
<1>3. CASE \E g \in DOMAIN groups : DeleteTagGroup(g)
  <2>1. PICK g \in DOMAIN groups : DeleteTagGroup(g) BY <1>3
  <2>2. Without(groups, groups', {g}) /\ tags' = tags
    BY <2>1, GroupDeleted DEF DeleteTagGroup
  <2>3. \A h \in DOMAIN groups' : h \in DOMAIN groups /\ groups'[h] = groups[h]
    BY <2>2 DEF Without
  <2> QED BY <2>2, <2>3, TagsAlike DEF Tags
<1>4. CASE \E e \in DOMAIN events : DeleteEvent(e)
  <2>1. tags' = tags /\ groups' = groups BY <1>4 DEF DeleteEvent
  <2> QED BY <2>1, TagsAlike DEF Tags
<1>5. CASE Purge
  <2>1. DOMAIN tags' = {} /\ DOMAIN groups' = {} BY <1>5, Purged
  <2> QED BY <2>1 DEF Hangs, FlatTags, MainMembers
<1> QED BY <1>1, <1>2, <1>3, <1>4, <1>5 DEF Serves

LEMMA TagCreatedHangs ==
  ASSUME Stored, Hangs, NEW q, q.op = "createTag", AskedTag(q, next), CreateTag(q),
         StillValid(q, tags, groups)
  PROVE  Hangs'
<1>1. /\ DOMAIN tags' = Tags \cup {next.tag} /\ tags'[next.tag] = TagRow(q)
      /\ \A t \in Tags : tags'[t] = tags[t]
  BY TagCreated
<1>2. TagRow(q).parent = q.parent /\ TagRow(q).cat = q.cat BY DEF TagRow
<1>3. q.parent # None => q.parent \in Tags /\ tags[q.parent].parent = None
                         /\ tags[q.parent].cat = q.cat
  BY DEF StillValid, IsMain, CreateTag, TagRefersToRows, Tags
<1>4. groups' = groups BY DEF CreateTag
<1>5. ASSUME NEW t \in DOMAIN tags', tags'[t].parent # None
      PROVE  tags'[tags'[t].parent].parent = None /\ tags'[tags'[t].parent].cat = tags'[t].cat
  <2>1. CASE t = next.tag BY <1>1, <1>2, <1>3, <1>5, <2>1
  <2>2. CASE t \in Tags
    <3>1. tags'[t] = tags[t] /\ tags[t].parent \in Tags BY <1>1, <1>5, <2>2, References
    <3>2. tags[tags[t].parent].parent = None /\ tags[tags[t].parent].cat = tags[t].cat
      BY <1>5, <2>2, <3>1 DEF Hangs, FlatTags, Tags
    <3> QED BY <1>1, <3>1, <3>2
  <2> QED BY <1>1, <2>1, <2>2
<1>6. ASSUME NEW g \in DOMAIN groups', NEW t \in groups'[g].members
      PROVE  tags'[t].parent = None /\ tags'[t].cat = groups'[g].cat
  <2>1. t \in Tags BY <1>4, <1>6, References
  <2> QED BY <1>1, <1>4, <1>6, <2>1 DEF Hangs, MainMembers
<1> QED BY <1>5, <1>6 DEF Hangs, FlatTags, MainMembers

LEMMA TagUpdatedHangs ==
  ASSUME Stored, Hangs, NEW q, q.op = "updateTag", AskedTag(q, next), UpdateTag(q),
         StillValid(q, tags, groups)
  PROVE  Hangs'
<1>1. /\ DOMAIN tags' = Tags /\ \A t \in Tags : TagAfter(q, t, tags'[t])
      /\ DOMAIN groups' = DOMAIN groups
      /\ \A g \in DOMAIN groups : /\ groups'[g].members = MembersAfter(q, groups[g])
                                  /\ groups'[g].cat = groups[g].cat
  BY TagUpdated
<1>2. TagRow(q).parent = q.parent /\ TagRow(q).cat = q.cat BY DEF TagRow
<1>3. q.id # None /\ q.parent # q.id BY IdTypes DEF AskedTag, None
<1>4. q.id \in Tags => tags'[q.id].parent = q.parent /\ tags'[q.id].cat = q.cat
  BY <1>1, <1>2 DEF TagAfter
<1>5. \A t \in Tags : t # q.id =>
        /\ tags'[t].parent = tags[t].parent
        /\ tags'[t].cat = IF q.parent = None /\ tags[t].parent = q.id THEN q.cat ELSE tags[t].cat
  BY <1>1 DEF TagAfter
<1>6. q.id \in Tags /\ q.parent # None =>
        /\ q.parent \in Tags /\ tags[q.parent].parent = None /\ tags[q.parent].cat = q.cat
        /\ \A s \in Tags : tags[s].parent # q.id
  BY DEF StillValid, IsMain, UpdateTag, TagRefersToRows, Tags
<1>7. ASSUME NEW t \in Tags, tags'[t].parent # None
      PROVE  tags'[tags'[t].parent].parent = None /\ tags'[tags'[t].parent].cat = tags'[t].cat
  <2>1. CASE t = q.id
    <3>1. q.parent # None /\ tags'[t].parent = q.parent /\ tags'[t].cat = q.cat
      BY <1>4, <1>7, <2>1
    <3>2. /\ q.parent \in Tags /\ tags[q.parent].parent = None /\ tags[q.parent].cat = q.cat
      BY <1>6, <1>7, <2>1, <3>1
    <3>3. tags'[q.parent].parent = None /\ tags'[q.parent].cat = q.cat
      BY <1>3, <1>5, <3>1, <3>2
    <3> QED BY <3>1, <3>3
  <2>2. CASE t # q.id
    <3> DEFINE m == tags[t].parent
    <3>1. tags'[t].parent = m /\ m # None /\ m \in Tags BY <1>5, <1>7, <2>2, References
    <3>2. tags[m].parent = None /\ tags[m].cat = tags[t].cat
      BY <1>7, <3>1 DEF Hangs, FlatTags, Tags
    <3>3. CASE m = q.id
      <4>1. q.parent = None BY <1>6, <1>7, <3>1, <3>3
      <4>2. tags'[t].cat = q.cat BY <1>5, <2>2, <3>3, <4>1
      <4>3. tags'[m].parent = None /\ tags'[m].cat = q.cat BY <1>4, <3>1, <3>3, <4>1
      <4> QED BY <3>1, <4>2, <4>3
    <3>4. CASE m # q.id
      <4>1. tags'[t].cat = tags[t].cat BY <1>5, <2>2, <3>4
      <4>2. tags'[m].parent = None /\ tags'[m].cat = tags[m].cat
        BY <1>3, <1>5, <3>1, <3>2, <3>4
      <4> QED BY <3>1, <3>2, <4>1, <4>2
    <3> QED BY <3>3, <3>4
  <2> QED BY <2>1, <2>2
<1>8. ASSUME NEW g \in DOMAIN groups, NEW t \in MembersAfter(q, groups[g])
      PROVE  tags'[t].parent = None /\ tags'[t].cat = groups[g].cat
  <2> DEFINE G == groups[g]
  <2>1. \A x \in G.members : x \in Tags /\ tags[x].parent = None /\ tags[x].cat = G.cat
    BY References DEF Hangs, MainMembers
  <2>2. \A x \in G.members : x # q.id => tags'[x].parent = None /\ tags'[x].cat = G.cat
    BY <1>3, <1>5, <2>1
  <2>3. CASE q.id \notin G.members BY <1>8, <2>2, <2>3 DEF MembersAfter
  <2>4. CASE q.id \in G.members /\ q.parent # None
    <3>1. q.id \in Tags BY <2>1, <2>4
    <3>2. q.parent \in Tags /\ tags'[q.parent].parent = None /\ tags'[q.parent].cat = q.cat
      BY <1>3, <1>5, <1>6, <2>4, <3>1
    <3>3. \/ t \in G.members /\ t # q.id
          \/ t = q.parent /\ G.cat = q.cat
      BY <1>8, <2>4 DEF MembersAfter
    <3> QED BY <2>2, <3>2, <3>3
  <2>5. CASE q.id \in G.members /\ q.parent = None
    <3>1. q.id \in Tags BY <2>1, <2>5
    <3>2. \/ t \in G.members /\ t # q.id
          \/ t = q.id /\ G.cat = q.cat
      BY <1>8, <2>5 DEF MembersAfter
    <3> QED BY <1>4, <2>2, <2>5, <3>1, <3>2
  <2> QED BY <2>3, <2>4, <2>5
<1> QED BY <1>1, <1>7, <1>8 DEF Hangs, FlatTags, MainMembers, Tags

\* The groups written hold main tags of their category.
LEMMA GroupWritten ==
  ASSUME Stored, Hangs, tags' = tags, NEW g, NEW cat, NEW members,
         \A h \in DOMAIN groups' : h # g => h \in DOMAIN groups /\ groups'[h] = groups[h],
         groups'[g].members = members, groups'[g].cat = cat, members \subseteq Tags,
         \A t \in members : IsMain(tags, t, cat)
  PROVE  Hangs'
<1>1. ASSUME NEW h \in DOMAIN groups', NEW t \in groups'[h].members
      PROVE  tags[t].parent = None /\ tags[t].cat = groups'[h].cat
  <2>1. CASE h = g BY <1>1, <2>1 DEF IsMain, Tags
  <2>2. CASE h # g BY <1>1, <2>2 DEF Hangs, MainMembers
  <2> QED BY <2>1, <2>2
<1> QED BY <1>1 DEF Hangs, FlatTags, MainMembers

LEMMA TransactionHangs ==
  ASSUME Stored, Waiting, Hangs, NEW r \in Workers, Transaction(r),
         StillValid(w[r], tags, groups)
  PROVE  Hangs'
<1> DEFINE q == w[r]
<1>1. Asked(q, next) BY DEF Waiting
<1>2. Runs(r) BY Commits
<1>3. CASE q.op \in {"createCategory", "updateCategory"}
  <2>1. tags' = tags /\ groups' = groups
    BY <1>2, <1>3 DEF Runs, InsertCategory, UpdateCategory
  <2> QED BY <2>1, TagsAlike DEF Tags
<1>4. CASE q.op = "createTag" /\ CreateTag(q) BY <1>1, <1>4, AskedParts, TagCreatedHangs
<1>5. CASE q.op = "updateTag" /\ UpdateTag(q) BY <1>1, <1>5, AskedParts, TagUpdatedHangs
<1>6. CASE q.op = "createGroup" /\ CreateTagGroup(q)
  <2>1. /\ DOMAIN groups' = DOMAIN groups \cup {next.group}
        /\ \A g \in DOMAIN groups : groups'[g] = groups[g]
        /\ groups'[next.group].cat = q.cat /\ groups'[next.group].members = q.members
    BY <1>1, <1>6, AskedParts, GroupCreated
  <2>2. tags' = tags /\ q.members \subseteq Tags BY <1>6 DEF CreateTagGroup
  <2>3. \A t \in q.members : IsMain(tags, t, q.cat) BY <1>6 DEF StillValid
  <2>4. \A h \in DOMAIN groups' : h # next.group => h \in DOMAIN groups /\ groups'[h] = groups[h]
    BY <2>1
  <2> QED BY <2>1, <2>2, <2>3, <2>4, GroupWritten
<1>7. CASE q.op = "updateGroup" /\ UpdateTagGroup(q)
  <2>1. /\ DOMAIN groups' = DOMAIN groups
        /\ \A g \in DOMAIN groups : g # q.id => groups'[g] = groups[g]
        /\ groups'[q.id].cat = groups[q.id].cat /\ groups'[q.id].members = q.members
    BY <1>1, <1>7, AskedParts, GroupUpdated
  <2>2. tags' = tags /\ q.members \subseteq Tags /\ q.id \in DOMAIN groups
    BY <1>7 DEF UpdateTagGroup
  <2>3. \A t \in q.members : IsMain(tags, t, groups[q.id].cat) BY <1>7, <2>2 DEF StillValid
  <2>4. \A h \in DOMAIN groups' : h # q.id => h \in DOMAIN groups /\ groups'[h] = groups[h]
    BY <2>1
  <2> QED BY <2>1, <2>2, <2>3, <2>4, GroupWritten
<1>8. CASE \/ q.op = "createEvent" /\ InsertEvent(q)
           \/ q.op = "updateEvent" /\ UpdateEventWithTags(q)
  <2>1. NewDateTags(tags, tags', q.date, Inserted(q.date), next.tag)
    BY <1>1, <1>8, AskedParts, EventInserted, EventUpdated
  <2>2. groups' = groups BY <1>8 DEF InsertEvent, UpdateEventWithTags
  <2>3. ASSUME NEW t \in DOMAIN tags' \ Tags PROVE tags'[t].parent = None
    BY <2>1 DEF NewDateTags, Tags
  <2>4. Tags \subseteq DOMAIN tags' /\ \A t \in Tags : tags'[t] = tags[t]
    BY <2>1 DEF NewDateTags, Tags
  <2> QED BY <2>2, <2>3, <2>4, TagsAlike
<1>9. CASE q.op = "rewrite" /\ Migrate(q)
  <2>1. /\ DOMAIN tags' = Tags /\ DOMAIN groups' = DOMAIN groups
        /\ \A g \in DOMAIN groups : groups'[g] = groups[g]
        /\ \A t \in Tags : tags'[t].cat = tags[t].cat /\ tags'[t].parent = tags[t].parent
    BY <1>1, <1>9, AskedParts, Migrated
  <2> QED BY <2>1, TagsAlike
<1> QED BY <1>2, <1>3, <1>4, <1>5, <1>6, <1>7, <1>8, <1>9 DEF Runs

-----------------------------------------------------------------------------

LEMMA FInvStep ==
  ASSUME LInv, FInv, [Next]_vars
  PROVE  FInv'
<1>1. CASE Next
  <2>1. Stored /\ Waiting BY DEF LInv
  <2>2. Fresh' BY <1>1, FreshStep DEF FInv
  <2>3. SUFFICES ASSUME ~crossed' PROVE Hangs'
    BY <2>2, <2>3 DEF FInv, Hangs, SynonymsFlat, GroupsHoldMainTags
  <2>4. CASE Arrives \/ Ends
    <3>1. UNCHANGED rows BY <2>4, ArrivesQuietly, EndsQuietly
    <3>2. crossed' = crossed
      BY <2>4 DEF Arrives, Arrive, notes, Ends, ReplayCategory, ReplayEvent, Replay, Duplicate,
                  FindAgain, CheckIds, Abort
    <3> QED BY <2>3, <3>1, <3>2 DEF FInv, Hangs, SynonymsFlat, GroupsHoldMainTags, rows
  <2>5. CASE Serves
    <3>1. crossed' = crossed
      BY <2>5 DEF Serves, DeleteCategory, DeleteTag, DeleteTagGroup, DeleteEvent, Purge, Serve
    <3>2. Hangs BY <2>3, <3>1 DEF FInv, Hangs, SynonymsFlat, GroupsHoldMainTags
    <3> QED BY <2>1, <2>5, <3>2, ServesHang
  <2>6. CASE \E r \in Workers : Transaction(r)
    <3>1. PICK r \in Workers : Transaction(r) BY <2>6
    <3>2. crossed' = (crossed \/ r \in stale) BY <3>1, Commits DEF Commit
    <3>3. ~crossed /\ r \notin stale BY <2>3, <3>2
    <3>4. Hangs BY <3>3 DEF FInv, Hangs, SynonymsFlat, GroupsHoldMainTags
    <3>5. StillValid(w[r], tags, groups) BY <3>3 DEF FInv, Fresh
    <3> QED BY <2>1, <3>1, <3>4, <3>5, TransactionHangs
  <2> QED BY <1>1, <2>4, <2>5, <2>6, Steps
<1>2. CASE UNCHANGED vars
  <2>1. tags' = tags /\ groups' = groups /\ w' = w /\ stale' = stale /\ crossed' = crossed
    BY <1>2 DEF vars, rows, notes
  <2> QED BY <2>1 DEF FInv, Fresh, SynonymsFlat, GroupsHoldMainTags
<1> QED BY <1>1, <1>2

LEMMA FInvInit == ASSUME Init PROVE FInv
<1>1. FlatTags(tags) /\ MainMembers(tags, groups) BY StartsStored
<1>2. \A r \in Workers : w[r] = Idle BY DEF Init
<1>3. Fresh BY <1>2, IdleValid DEF Fresh
<1> QED BY <1>1, <1>3 DEF FInv, SynonymsFlat, GroupsHoldMainTags

LEMMA TagsHang == Spec => []FInv
<1>1. Init => FInv BY FInvInit
<1>2. LInv /\ FInv /\ [Next]_vars => FInv' BY FInvStep
<1>3. Spec => []LInv BY RowsTyped
<1> QED BY <1>1, <1>2, <1>3, PTL DEF Spec

\* However creations, moves, category deletions and removals meet, a synonym's main
\* tag is no synonym and shares its category, as long as no write was validated
\* against tags rearranged before it committed.
THEOREM SynonymsStayFlat == Spec => []SynonymsFlat
<1>1. FInv => SynonymsFlat BY DEF FInv
<1> QED BY <1>1, TagsHang, PTL

\* Under the same condition every group holds only main tags of its own category,
\* although tags move, become synonyms and go with their category.
THEOREM GroupsKeepMainTags == Spec => []GroupsHoldMainTags
<1>1. FInv => GroupsHoldMainTags BY DEF FInv
<1> QED BY <1>1, TagsHang, PTL


-----------------------------------------------------------------------------
(* Months.                                                                 *)

LEMMA Division ==
  ASSUME NEW a \in Int
  PROVE  LET m == a \div DaysPerMonth
         IN  m \in Int /\ DaysPerMonth * m <= a /\ a < DaysPerMonth * m + DaysPerMonth
BY LibraryAssumption

\* Months follow each other as days do ...
LEMMA MonthsInOrder ==
  ASSUME NEW a \in Nat, NEW b \in Nat, a <= b
  PROVE  Month(a) <= Month(b)
<1> DEFINE D == DaysPerMonth
           m == (a - 1) \div D
           n == (b - 1) \div D
<1>1. D \in Nat /\ D > 0 BY LibraryAssumption
<1>2. m \in Int /\ D * m <= a - 1 BY Division
<1>3. n \in Int /\ b - 1 < D * n + D BY Division
<1> HIDE DEF D, m, n
<1>4. D * m < D * n + D BY <1>1, <1>2, <1>3
<1>5. D * n + D = D * (n + 1) BY <1>1, <1>3
<1>6. ASSUME m > n PROVE FALSE
  <2>1. m >= n + 1 BY <1>2, <1>3, <1>6
  <2>2. D * m >= D * (n + 1) BY <1>1, <1>2, <1>3, <2>1
  <2> QED BY <1>1, <1>2, <1>3, <1>4, <1>5, <2>2
<1>7. m <= n BY <1>2, <1>3, <1>6
<1> QED BY <1>7 DEF Month, m, n, D

\* ... and every month between two days has a day between them.
LEMMA MonthHasDay ==
  ASSUME NEW a \in Nat, NEW b \in Nat, a <= b, NEW m \in Month(a)..Month(b)
  PROVE  \E day \in a..b : Month(day) = m
<1> DEFINE D == DaysPerMonth
           k == (a - 1) \div D
           n == (b - 1) \div D
<1>1. D \in Nat /\ D > 0 BY LibraryAssumption
<1>2. k \in Int /\ a - 1 < D * k + D BY Division
<1>3. n \in Int /\ D * n <= b - 1 BY Division
<1>4. m \in Int /\ k <= m /\ m <= n BY <1>2, <1>3 DEF Month
<1>5. CASE m = k BY <1>5 DEF Month
<1>6. CASE m # k
  <2> HIDE DEF D, k, n
  <2>1. m >= k + 1 BY <1>2, <1>4, <1>6
  <2>2. D * m >= D * (k + 1) /\ D * (k + 1) = D * k + D BY <1>1, <1>2, <1>4, <2>1
  <2>3. D * m <= D * n BY <1>1, <1>3, <1>4
  <2>4. D * m \in Int /\ D * k \in Int /\ D * n \in Int BY <1>1, <1>2, <1>3, <1>4
  <2>5. D * m + 1 \in a..b
    <3>1. D * m >= D * k + D BY <2>2
    <3>2. a - 1 < D * k + D /\ D * n <= b - 1 BY <1>2, <1>3
    <3>3. \A x, y, z \in Int : x >= y + D /\ a - 1 < y + D /\ x <= z /\ z <= b - 1 => x + 1 \in a..b
      BY <1>1
    <3> QED BY <2>3, <2>4, <3>1, <3>2, <3>3
  <2>6. (D * m) \div D = m
    <3> DEFINE r == (D * m) \div D
    <3>1. r \in Int /\ D * r <= D * m /\ D * m < D * r + D BY <2>4, Division DEF D
    <3> HIDE DEF r
    <3>2. ASSUME r > m PROVE FALSE
      <4>1. r >= m + 1 BY <1>4, <3>1, <3>2
      <4>2. D * r >= D * (m + 1) /\ D * (m + 1) = D * m + D BY <1>1, <1>4, <3>1, <4>1
      <4> QED BY <1>1, <2>4, <3>1, <4>2
    <3>3. ASSUME m > r PROVE FALSE
      <4>1. m >= r + 1 BY <1>4, <3>1, <3>3
      <4>2. D * m >= D * (r + 1) /\ D * (r + 1) = D * r + D BY <1>1, <1>4, <3>1, <4>1
      <4>3. D * r \in Int BY <1>1, <3>1
      <4> QED BY <1>1, <2>4, <3>1, <4>2, <4>3
    <3>4. r = m BY <1>4, <3>1, <3>2, <3>3
    <3> QED BY <3>4 DEF r
  <2>7. Month(D * m + 1) = m BY <2>4, <2>6 DEF Month, D
  <2> QED BY <2>5, <2>7
<1> QED BY <1>5, <1>6

\* An event's date tags are the months and years its days lie in, and Ongoing.
LEMMA DateTagNamesCover ==
  ASSUME NEW p, p.first \in Nat, End(p) \in Nat, p.first <= End(p), p.ongoing \in BOOLEAN, NEW n
  PROVE  n \in DateTagNames(p) <=> Covers(p, n)
<1>1. \A day \in p.first..End(p) : Month(day) \in MonthsOf(p)
  <2> SUFFICES ASSUME NEW day \in p.first..End(p) PROVE Month(day) \in MonthsOf(p)
    OBVIOUS
  <2>1. day \in Nat /\ p.first <= day /\ day <= End(p) OBVIOUS
  <2>2. Month(p.first) <= Month(day) /\ Month(day) <= Month(End(p)) BY <2>1, MonthsInOrder
  <2>3. Month(day) \in Int BY <2>1, MonthType
  <2> QED BY <2>2, <2>3 DEF MonthsOf
<1>2. \A m \in MonthsOf(p) : \E day \in p.first..End(p) : Month(day) = m
  BY MonthHasDay DEF MonthsOf
<1>3. Covers(p, n) <=> \/ p.ongoing /\ n = Ongoing
                       \/ \E day \in p.first..End(p) :
                            n \in {MonthName(Month(day)), YearName(Month(day))}
  BY DEF Covers, End
<1>4. n \in DateTagNames(p) <=> \/ p.ongoing /\ n = Ongoing
                                \/ \E m \in MonthsOf(p) : n \in {MonthName(m), YearName(m)}
  BY DateTagNamesOf
<1> QED BY <1>1, <1>2, <1>3, <1>4

-----------------------------------------------------------------------------
(* The inductive invariant of an account that was never encrypted.  The    *)
(* date tags are the backend's: no request that waits touches one, and an  *)
(* event's has found those of its period, or knows the names still to      *)
(* create.                                                                 *)

NotDate(C, T, t) == t \in DOMAIN T => ~isDateTag(C, T, t)

ApartTag(q, C, T) ==
  /\ ~isReservedTagName(q.name) /\ NotDate(C, T, q.parent)
  /\ q.cat \in DOMAIN C => C[q.cat].kind # "date"
  /\ q.op = "updateTag" => NotDate(C, T, q.id)

ApartEvent(q, C, T) ==
  /\ q.period.last # None => q.period.first <= q.period.last
  /\ \A t \in q.tagsId : NotDate(C, T, t)
  /\ q.date.cat \in DOMAIN C /\ C[q.date.cat].kind = "date"
  /\ \A t \in q.date.found : t \in DOMAIN T /\ isDateTag(C, T, t)
  /\ {T[t].name : t \in q.date.found} = DateTagNames(q.period) \ q.date.missing
  /\ q.date.missing \subseteq DateTagNames(q.period)

Apart(q, C, T) ==
  /\ q.op \in Operations => ~q.e2ee
  /\ q.op \in {"createTag", "updateTag"} => ApartTag(q, C, T)
  /\ q.op \in {"createEvent", "updateEvent"} => ApartEvent(q, C, T)

Dates == DateTagsApart(cats, tags) /\ EventsDated(cats, tags, events)

DInv == ~veiled => /\ ~account.e2ee /\ Dates /\ Readable
                   /\ \A r \in Workers : Apart(w[r], cats, tags)

-----------------------------------------------------------------------------
(* What no step does to the date tags. *)

KindsKept ==
  /\ \A c \in Cats : cats[c].kind = "date" => c \in DOMAIN cats'
  /\ \A c \in DOMAIN cats' : IF c \in Cats THEN cats'[c].kind = cats[c].kind
                             ELSE cats'[c].kind # "date"

TagsKept ==
  \A t \in Tags :
    /\ isDateTag(cats, tags, t) => t \in DOMAIN tags' /\ tags'[t].cat = tags[t].cat
                                   /\ tags'[t].name = tags[t].name
    /\ t \in DOMAIN tags' /\ ~isDateTag(cats, tags, t) => ~isDateTag(cats, tags, t)'

NewTags == \A t \in DOMAIN tags' \ Tags : t >= next.tag

DatesKept == KindsKept /\ TagsKept /\ NewTags

LEMMA DatesStay ==
  ASSUME Stored, KindsKept, TagsKept, NEW t \in Tags, isDateTag(cats, tags, t)
  PROVE  t \in DOMAIN tags' /\ isDateTag(cats, tags, t)' /\ tags'[t].name = tags[t].name
BY References DEF KindsKept, TagsKept, isDateTag

LEMMA ApartStays ==
  ASSUME Stored, DatesKept, NEW q, Asked(q, next), Apart(q, cats, tags)
  PROVE  Apart(q, cats', tags')
<1>1. next.tag \in Nat BY IdTypes
<1>2. ASSUME NEW t \in Nat, t < next.tag, NotDate(cats, tags, t)
      PROVE  NotDate(cats', tags', t)
  <2>1. CASE t \notin DOMAIN tags' BY <2>1 DEF NotDate
  <2>2. CASE t \in DOMAIN tags'
    <3>1. t \in Tags BY <1>1, <1>2, <2>2 DEF DatesKept, NewTags
    <3> QED BY <1>2, <2>2, <3>1 DEF DatesKept, TagsKept, NotDate, Tags, isDateTag
  <2> QED BY <2>1, <2>2
<1>3. ASSUME q.op \in {"createTag", "updateTag"} PROVE ApartTag(q, cats', tags')
  <2>1. AskedTag(q, next) /\ ApartTag(q, cats, tags) BY <1>3, AskedParts DEF Apart
  <2>2. q.parent \in Nat /\ q.parent < next.tag BY <1>1, <2>1 DEF AskedTag
  <2>3. q.op = "updateTag" => q.id \in Nat /\ q.id < next.tag BY <1>1, <2>1 DEF AskedTag
  <2>4. q.cat \in DOMAIN cats' => cats'[q.cat].kind # "date"
    BY <2>1 DEF ApartTag, DatesKept, KindsKept, Cats
  <2> QED BY <1>2, <2>1, <2>2, <2>3, <2>4 DEF ApartTag
<1>4. ASSUME q.op \in {"createEvent", "updateEvent"} PROVE ApartEvent(q, cats', tags')
  <2>1. AskedEvent(q, next) /\ ApartEvent(q, cats, tags) BY <1>4, AskedParts DEF Apart
  <2>2. \A t \in q.tagsId : t \in Nat /\ t < next.tag BY <1>1, <2>1 DEF AskedEvent
  <2>3. \A t \in q.tagsId : NotDate(cats', tags', t) BY <1>2, <2>1, <2>2 DEF ApartEvent
  <2>4. q.date.cat \in DOMAIN cats' /\ cats'[q.date.cat].kind = "date"
    BY <2>1 DEF ApartEvent, DatesKept, KindsKept, Cats
  <2>5. \A t \in q.date.found : /\ t \in DOMAIN tags' /\ isDateTag(cats', tags', t)
                                /\ tags'[t].name = tags[t].name
    BY <2>1, DatesStay DEF ApartEvent, DatesKept, Tags, isDateTag
  <2>6. {tags'[t].name : t \in q.date.found} = {tags[t].name : t \in q.date.found} BY <2>5
  <2> QED BY <2>1, <2>3, <2>4, <2>5, <2>6 DEF ApartEvent
<1> QED BY <1>3, <1>4 DEF Apart

\* A tag written as it may be written.
StandsApart(t) ==
  /\ isReservedTagName(tags'[t].name) => isDateTag(cats', tags', t)
  /\ tags'[t].parent # None => /\ ~isDateTag(cats', tags', t)
                               /\ ~isDateTag(cats', tags', tags'[t].parent)

LEMMA TagsStayApart ==
  ASSUME Stored, Stored', DateTagsApart(cats, tags), KindsKept, TagsKept,
         \A t \in DOMAIN tags' :
           \/ t \in Tags /\ tags'[t].name = tags[t].name /\ tags'[t].parent = tags[t].parent
           \/ StandsApart(t)
  PROVE  DateTagsApart(cats, tags)'
<1>1. ASSUME NEW t \in DOMAIN tags', t \in Tags, tags'[t].name = tags[t].name,
             tags'[t].parent = tags[t].parent
      PROVE  StandsApart(t)
  <2>1. isReservedTagName(tags'[t].name) => isDateTag(cats, tags, t)'
    BY <1>1, DatesStay DEF DateTagsApart, Tags
  <2>2. ASSUME tags'[t].parent # None
        PROVE  ~isDateTag(cats, tags, t)' /\ ~isDateTag(cats', tags', tags'[t].parent)
    <3> DEFINE p == tags[t].parent
    <3>1. p \in Tags BY <1>1, <2>2, References
    <3>2. p \in DOMAIN tags'
      <4>1. TypedTags(cats, tags)' BY DEF Stored, TypedRows
      <4> QED BY <1>1, <2>2, <4>1 DEF TypedTags
    <3>3. ~isDateTag(cats, tags, t) /\ ~isDateTag(cats, tags, p)
      BY <1>1, <2>2 DEF DateTagsApart, Tags
    <3>4. ~isDateTag(cats, tags, t)' BY <1>1, <3>3 DEF TagsKept
    <3>5. ~isDateTag(cats', tags', p) BY <3>1, <3>2, <3>3 DEF TagsKept, isDateTag
    <3> QED BY <1>1, <3>4, <3>5
  <2> QED BY <2>1, <2>2 DEF StandsApart
<1>2. \A t \in DOMAIN tags' : StandsApart(t) BY <1>1
<1> QED BY <1>2 DEF DateTagsApart, StandsApart, isDateTag

\* An event keeps its period, and its links to date tags.
SameDates(e) ==
  /\ e \in DOMAIN events
  /\ events'[e].first = events[e].first /\ events'[e].last = events[e].last
  /\ events'[e].ongoing = events[e].ongoing
  /\ events'[e].links \subseteq Tags \cap DOMAIN tags'
  /\ \A t \in Tags : isDateTag(cats, tags, t) => (t \in events'[e].links <=> t \in events[e].links)

DatedEvent(C, T, E, e) ==
  /\ E[e].last # None => E[e].first <= E[e].last
  /\ {T[t].name : t \in {u \in E[e].links : isDateTag(C, T, u)}} = DateTagNames(E[e])

LEMMA EventsOf == ASSUME NEW C, NEW T, NEW E
                  PROVE  EventsDated(C, T, E) <=> \A e \in DOMAIN E : DatedEvent(C, T, E, e)
BY DEF EventsDated, DatedEvent

LEMMA EventStaysDated ==
  ASSUME Stored, KindsKept, TagsKept, NEW e, SameDates(e), DatedEvent(cats, tags, events, e)
  PROVE  DatedEvent(cats', tags', events', e)
<1> DEFINE old == {u \in events[e].links : isDateTag(cats, tags, u)}
           new == {u \in events'[e].links : isDateTag(cats', tags', u)}
<1>1. events[e].links \subseteq Tags BY References DEF SameDates
<1>2. ASSUME NEW t \in Tags, isDateTag(cats, tags, t)
      PROVE  t \in DOMAIN tags' /\ isDateTag(cats', tags', t) /\ tags'[t].name = tags[t].name
  BY <1>2, DatesStay DEF isDateTag
<1>3. \A t \in old : t \in new /\ tags'[t].name = tags[t].name
  BY <1>1, <1>2 DEF SameDates
<1>4. \A t \in new : t \in old
  <2> SUFFICES ASSUME NEW t \in new PROVE t \in old OBVIOUS
  <2>1. t \in Tags /\ t \in DOMAIN tags' /\ isDateTag(cats', tags', t) BY DEF SameDates
  <2>2. isDateTag(cats, tags, t) BY <2>1 DEF TagsKept, isDateTag
  <2> QED BY <2>1, <2>2 DEF SameDates
<1>5. {tags'[t].name : t \in new} = {tags[t].name : t \in old} BY <1>3, <1>4
<1>6. DateTagNames(events'[e]) = DateTagNames(events[e]) BY DEF SameDates, DateTagNames
<1> QED BY <1>5, <1>6 DEF DatedEvent, SameDates

\* A step that leaves every event's dates alone.
LEMMA EventsStayDated ==
  ASSUME Stored, KindsKept, TagsKept, EventsDated(cats, tags, events),
         \A e \in DOMAIN events' : SameDates(e)
  PROVE  EventsDated(cats, tags, events)'
<1>1. \A e \in DOMAIN events' : DatedEvent(cats, tags, events, e)
  BY EventsOf DEF SameDates
<1>2. \A e \in DOMAIN events' : DatedEvent(cats', tags', events', e)
  BY <1>1, EventStaysDated
<1> QED BY <1>2 DEF EventsDated, DatedEvent, isDateTag

LEMMA EventsUntouched ==
  ASSUME Stored, Tags \subseteq DOMAIN tags',
         NEW e \in DOMAIN events, e \in DOMAIN events', events'[e] = events[e]
  PROVE  SameDates(e)
BY References DEF SameDates

-----------------------------------------------------------------------------
(* The deletions. *)

\* What goes with deleted tags is in every set that is closed under synonyms.
LEMMA CascadesLeast ==
  ASSUME NEW gone, NEW S \in SUBSET Tags, gone \subseteq S,
         \A t \in Tags : tags[t].parent \in S => t \in S
  PROVE  CascadeTags(gone) \subseteq S
BY DEF CascadeTags

\* No date tag goes with other tags.
LEMMA DatesNotGone ==
  ASSUME Stored, DateTagsApart(cats, tags), NEW gone \in SUBSET Tags,
         \A t \in gone : ~isDateTag(cats, tags, t)
  PROVE  \A t \in CascadeTags(gone) : ~isDateTag(cats, tags, t)
<1> DEFINE S == {t \in Tags : ~isDateTag(cats, tags, t)}
<1>1. S \in SUBSET Tags /\ gone \subseteq S OBVIOUS
<1>2. ASSUME NEW t \in Tags, tags[t].parent \in S PROVE t \in S
  <2>1. tags[t].parent # None BY <1>2, References
  <2>2. ~isDateTag(cats, tags, t) BY <1>2, <2>1 DEF DateTagsApart, Tags
  <2> QED BY <1>2, <2>2
<1>3. CascadeTags(gone) \subseteq S BY <1>1, <1>2, CascadesLeast
<1> QED BY <1>3

LEMMA KindsSame == ASSUME cats' = cats PROVE KindsKept
BY DEF KindsKept, Cats

LEMMA TagsSame ==
  ASSUME Stored, Stored', KindsKept, tags' = tags
  PROVE  TagsKept /\ NewTags
<1>1. TypedTags(cats, tags)' BY DEF Stored, TypedRows
<1>2. \A t \in Tags : tags[t].cat \in DOMAIN cats' /\ tags[t].cat \in Cats
  BY <1>1, References DEF TypedTags, Tags
<1>3. NewTags BY DEF NewTags, Tags
<1>4. TagsKept BY <1>2 DEF TagsKept, KindsKept, isDateTag, Tags
<1> QED BY <1>3, <1>4

\* Tags that are no date tags go.
LEMMA TagsGone ==
  ASSUME Stored, Stored', KindsKept, DateTagsApart(cats, tags), NEW gone,
         \A t \in gone : ~isDateTag(cats, tags, t), Without(tags, tags', gone)
  PROVE  DatesKept /\ DateTagsApart(cats, tags)'
<1>1. DOMAIN tags' = Tags \ gone /\ \A t \in DOMAIN tags' : tags'[t] = tags[t]
  BY DEF Without, Tags
<1>2. TypedTags(cats, tags)' BY DEF Stored, TypedRows
<1>3. \A t \in DOMAIN tags' : tags[t].cat \in DOMAIN cats' BY <1>1, <1>2 DEF TypedTags
<1>4. TagsKept BY <1>1, <1>3, References DEF TagsKept, KindsKept, isDateTag
<1>5. NewTags BY <1>1 DEF NewTags
<1>6. DateTagsApart(cats, tags)' BY <1>1, <1>4, TagsStayApart
<1> QED BY <1>4, <1>5, <1>6 DEF DatesKept

DatesStep == DatesKept /\ Dates'

LEMMA CategoryDeletedDates ==
  ASSUME Stored, Dates, NEW c, NEW moveTags \in BOOLEAN, NEW deleteEvents,
         DeleteCategory(c, moveTags, deleteEvents)
  PROVE  DatesStep
<1>1. /\ c \in Cats /\ cats[c].kind \notin {"date", "other"}
      /\ cats' = Restrict(cats, Cats \ {c})
  BY DEF DeleteCategory, isLocked
<1>2. DOMAIN cats' = Cats \ {c} /\ \A d \in DOMAIN cats' : cats'[d] = cats[d]
  BY <1>1 DEF Restrict
<1>3. KindsKept BY <1>1, <1>2 DEF KindsKept
<1>4. Stored' BY CategoryDeleted DEF Kept
<1>5. CASE MoveTags(c)
  <2>1. PICK o \in Cats :
          /\ o # c /\ cats[o].kind = "other" /\ events' = events
          /\ DOMAIN tags' = Tags
          /\ \A t \in Tags :
               /\ tags'[t].name = tags[t].name /\ tags'[t].parent = tags[t].parent
               /\ tags'[t].cat = IF tags[t].cat = c THEN o ELSE tags[t].cat
    BY <1>1, <1>5, MoveTagsMoves DEF isLocked
  <2>2. TagsKept
    <3>1. ASSUME NEW t \in Tags, isDateTag(cats, tags, t) PROVE tags'[t].cat = tags[t].cat
      BY <1>1, <2>1, <3>1 DEF isDateTag
    <3>2. ASSUME NEW t \in Tags, ~isDateTag(cats, tags, t) PROVE ~isDateTag(cats, tags, t)'
      BY <1>2, <2>1, <3>2, References DEF isDateTag
    <3> QED BY <2>1, <3>1, <3>2 DEF TagsKept
  <2>3. NewTags BY <2>1 DEF NewTags
  <2>4. DateTagsApart(cats, tags)' BY <1>3, <1>4, <2>1, <2>2, TagsStayApart DEF Dates
  <2>5. \A e \in DOMAIN events' : SameDates(e) BY <2>1, EventsUntouched
  <2>6. EventsDated(cats, tags, events)' BY <1>3, <2>2, <2>5, EventsStayDated DEF Dates
  <2> QED BY <1>3, <2>2, <2>3, <2>4, <2>6 DEF DatesStep, DatesKept, Dates
<1>6. CASE DropTags(c, deleteEvents)
  <2> DEFINE gone == CascadeTags(Inside(c))
  <2>1. Without(tags, tags', gone) /\ Unlinked(events, events', gone)
    BY <1>1, <1>6, DropTagsDrops
  <2>2. \A t \in gone : ~isDateTag(cats, tags, t)
    <3>1. Inside(c) \in SUBSET Tags BY DEF Inside
    <3>2. \A t \in Inside(c) : ~isDateTag(cats, tags, t) BY <1>1 DEF Inside, isDateTag
    <3> QED BY <3>1, <3>2, DatesNotGone DEF Dates
  <2> HIDE DEF gone
  <2>3. DatesKept /\ DateTagsApart(cats, tags)' BY <1>3, <1>4, <2>1, <2>2, TagsGone DEF Dates
  <2>4. \A e \in DOMAIN events' : SameDates(e)
    BY <2>1, <2>2, References DEF Unlinked, SameDates, Without, Tags
  <2>5. EventsDated(cats, tags, events)' BY <2>3, <2>4, EventsStayDated DEF Dates, DatesKept
  <2> QED BY <2>3, <2>5 DEF DatesStep, Dates
<1> QED BY <1>5, <1>6 DEF DeleteCategory

LEMMA TagDeletedDates ==
  ASSUME Stored, Dates, ~account.e2ee, NEW t, NEW deleteEvents \in BOOLEAN,
         DeleteTag(t, deleteEvents)
  PROVE  DatesStep
<1> DEFINE gone == CascadeTags({t})
<1>1. /\ Stored' /\ t \in Tags /\ Without(tags, tags', gone) /\ Relinked(events, events', t, gone)
  BY TagDeleted DEF Kept
<1>2. cats' = cats /\ ~isDateTag(cats, tags, t)
  BY DEF DeleteTag, rejectDateCategoryTag, isDateTag
<1>3. \A s \in gone : ~isDateTag(cats, tags, s)
  <2>1. {t} \in SUBSET Tags BY <1>1
  <2> QED BY <1>2, <2>1, DatesNotGone DEF Dates
<1> HIDE DEF gone
<1>4. KindsKept BY <1>2, KindsSame
<1>5. DatesKept /\ DateTagsApart(cats, tags)' BY <1>1, <1>3, <1>4, TagsGone DEF Dates
<1>6. ASSUME NEW e \in DOMAIN events' PROVE SameDates(e)
  <2>1. /\ e \in DOMAIN events /\ events'[e].links = LinksAfter(t, events[e].links, gone)
        /\ events'[e].first = events[e].first /\ events'[e].last = events[e].last
        /\ events'[e].ongoing = events[e].ongoing
    BY <1>1, <1>6 DEF Relinked
  <2>2. /\ DOMAIN tags' = Tags \ gone /\ events[e].links \subseteq Tags
        /\ tags[t].parent # None => tags[t].parent \in Tags
    BY <1>1, <2>1, References DEF Without, Tags
  <2>3. events'[e].links \subseteq Tags \cap DOMAIN tags'
    <3>1. LinksAfter(t, events[e].links, gone) \subseteq Tags \ gone BY <2>2 DEF LinksAfter
    <3> QED BY <2>1, <2>2, <3>1
  <2>4. ASSUME NEW d \in Tags, isDateTag(cats, tags, d)
        PROVE  d \in events'[e].links <=> d \in events[e].links
    <3>1. d # t /\ d \notin gone BY <1>2, <1>3, <2>4
    <3>2. tags[t].parent # None => d # tags[t].parent
      BY <1>1, <2>4 DEF Dates, DateTagsApart, Tags
    <3> QED BY <2>1, <3>1, <3>2 DEF LinksAfter
  <2> QED BY <2>1, <2>3, <2>4 DEF SameDates
<1>7. EventsDated(cats, tags, events)' BY <1>5, <1>6, EventsStayDated DEF Dates, DatesKept
<1> QED BY <1>5, <1>7 DEF DatesStep, Dates

\* Neither a tag nor a link changes; a category may.
LEMMA OthersDates ==
  ASSUME Stored, Stored', Dates, KindsKept, tags' = tags,
         \A e \in DOMAIN events' : e \in DOMAIN events /\ events'[e] = events[e]
  PROVE  DatesStep
<1>1. TagsKept /\ NewTags BY TagsSame
<1>2. DateTagsApart(cats, tags)' BY <1>1, TagsStayApart DEF Dates, Tags
<1>3. \A e \in DOMAIN events' : SameDates(e) BY EventsUntouched DEF Tags
<1>4. EventsDated(cats, tags, events)' BY <1>1, <1>3, EventsStayDated DEF Dates
<1> QED BY <1>1, <1>2, <1>4 DEF DatesStep, DatesKept, Dates

LEMMA ServesDates ==
  ASSUME Stored, Dates, ~account.e2ee, Serves
  PROVE  DatesStep
<1>1. Stored' BY ServesKeeps DEF Kept
<1>2. CASE \E c \in Cats, moveTags, deleteEvents \in BOOLEAN :
             DeleteCategory(c, moveTags, deleteEvents)
  BY <1>2, CategoryDeletedDates
<1>3. CASE \E t \in Tags, deleteEvents \in BOOLEAN : DeleteTag(t, deleteEvents)
  BY <1>3, TagDeletedDates
<1>4. CASE \E g \in DOMAIN groups : DeleteTagGroup(g)
  <2>1. cats' = cats /\ tags' = tags /\ events' = events BY <1>4 DEF DeleteTagGroup
  <2> QED BY <1>1, <2>1, KindsSame, OthersDates
<1>5. CASE \E e \in DOMAIN events : DeleteEvent(e)
  <2>1. PICK e \in DOMAIN events : DeleteEvent(e) BY <1>5
  <2>2. Without(events, events', {e}) BY <2>1, EventDeleted
  <2>3. cats' = cats /\ tags' = tags BY <2>1 DEF DeleteEvent
  <2>4. \A x \in DOMAIN events' : x \in DOMAIN events /\ events'[x] = events[x]
    BY <2>2 DEF Without
  <2> QED BY <1>1, <2>3, <2>4, KindsSame, OthersDates
<1>6. CASE Purge BY <1>6 DEF Purge
<1> QED BY <1>2, <1>3, <1>4, <1>5, <1>6 DEF Serves

-----------------------------------------------------------------------------
(* The transactions. *)

LEMMA CategoryWrittenKinds ==
  ASSUME Stored, NEW q, InsertCategory(q) \/ UpdateCategory(q)
  PROVE  KindsKept
<1>1. CASE InsertCategory(q)
  <2> DEFINE row == [kind |-> "custom", cid |-> q.cid, mode |-> ModeOf(q.e2ee)]
  <2>1. row.kind = "custom" OBVIOUS
  <2>2. cats' = Extend(cats, next.cat, row) BY <1>1 DEF InsertCategory
  <2> HIDE DEF row
  <2>3. next.cat \notin Cats BY IdTypes DEF Cats
  <2>4. /\ DOMAIN cats' = Cats \cup {next.cat} /\ cats'[next.cat] = row
        /\ \A c \in Cats : cats'[c] = cats[c]
    BY <2>2, <2>3 DEF Extend, Cats
  <2> QED BY <2>1, <2>3, <2>4 DEF KindsKept
<1>2. CASE UpdateCategory(q)
  <2>1. \A c \in Cats : cats[c] \in CategoryRows BY StoredParts DEF TypedCats, Cats
  <2>2. cats' = IF q.id \in Cats THEN [cats EXCEPT ![q.id].mode = ModeOf(q.e2ee)] ELSE cats
    BY <1>2 DEF UpdateCategory
  <2>3. DOMAIN cats' = Cats BY <2>2 DEF Cats
  <2>4. ASSUME NEW c \in Cats PROVE cats'[c].kind = cats[c].kind
    BY <2>1, <2>2, <2>4 DEF CategoryRows, Cats
  <2> QED BY <2>3, <2>4 DEF KindsKept
<1> QED BY <1>1, <1>2

LEMMA TagCreatedDates ==
  ASSUME Stored, Dates, NEW q, q.op = "createTag", AskedTag(q, next),
         ApartTag(q, cats, tags), CreateTag(q)
  PROVE  DatesStep
<1> DEFINE n == next.tag
<1>1. /\ Stored' /\ DOMAIN tags' = Tags \cup {n} /\ tags'[n] = TagRow(q)
      /\ \A t \in Tags : tags'[t] = tags[t]
  BY TagCreated DEF Kept
<1>2. TagRow(q).name = q.name /\ TagRow(q).parent = q.parent /\ TagRow(q).cat = q.cat
  BY DEF TagRow
<1>3. cats' = cats /\ events' = events /\ q.cat \in Cats /\ (q.parent = None \/ q.parent \in Tags)
  BY DEF CreateTag, TagRefersToRows
<1>4. n \in Nat /\ n \notin Tags BY IdTypes DEF Tags
<1> HIDE DEF n
<1>5. KindsKept BY <1>3, KindsSame
<1>6. TagsKept BY <1>1, <1>3 DEF TagsKept, isDateTag
<1>7. NewTags BY <1>1, <1>4 DEF NewTags, n
<1>8. StandsApart(n)
  <2>1. tags'[n].name = q.name /\ tags'[n].parent = q.parent /\ tags'[n].cat = q.cat
    BY <1>1, <1>2
  <2>2. ~isReservedTagName(q.name) /\ cats[q.cat].kind # "date" BY <1>3 DEF ApartTag, Cats
  <2>3. ~isDateTag(cats', tags', n) BY <1>3, <2>1, <2>2 DEF isDateTag
  <2>4. q.parent # None => ~isDateTag(cats', tags', q.parent)
    BY <1>1, <1>3 DEF ApartTag, NotDate, isDateTag, Tags
  <2> QED BY <2>1, <2>2, <2>3, <2>4 DEF StandsApart, isDateTag
<1>9. DateTagsApart(cats, tags)' BY <1>1, <1>5, <1>6, <1>8, TagsStayApart DEF Dates
<1>10. \A e \in DOMAIN events' : SameDates(e) BY <1>1, <1>3, EventsUntouched
<1>11. EventsDated(cats, tags, events)' BY <1>5, <1>6, <1>10, EventsStayDated DEF Dates
<1> QED BY <1>5, <1>6, <1>7, <1>9, <1>11 DEF DatesStep, DatesKept, Dates

LEMMA TagUpdatedDates ==
  ASSUME Stored, Dates, NEW q, q.op = "updateTag", AskedTag(q, next),
         ApartTag(q, cats, tags), UpdateTag(q)
  PROVE  DatesStep
<1>1. Stored' /\ DOMAIN tags' = Tags /\ \A t \in Tags : TagAfter(q, t, tags'[t])
  BY TagUpdated DEF Kept
<1>2. TagRow(q).name = q.name /\ TagRow(q).parent = q.parent /\ TagRow(q).cat = q.cat
  BY DEF TagRow
<1>3. cats' = cats /\ events' = events BY DEF UpdateTag
<1>4. q.id \in Tags => q.cat \in Cats /\ (q.parent = None \/ q.parent \in Tags)
  BY DEF UpdateTag, TagRefersToRows
<1>5. q.id # None BY IdTypes DEF AskedTag, None
<1>6. KindsKept BY <1>3, KindsSame
<1>7. q.id \in Tags => /\ ~isDateTag(cats, tags, q.id) /\ cats[q.cat].kind # "date"
                       /\ ~isReservedTagName(q.name)
                       /\ q.parent # None => ~isDateTag(cats, tags, q.parent)
  BY <1>4 DEF ApartTag, NotDate, Tags, Cats
<1>8. q.id \in Tags => /\ tags'[q.id].name = q.name /\ tags'[q.id].parent = q.parent
                       /\ tags'[q.id].cat = q.cat
  BY <1>1, <1>2 DEF TagAfter
<1>9. ASSUME NEW t \in Tags, t # q.id
      PROVE  /\ tags'[t].name = tags[t].name /\ tags'[t].parent = tags[t].parent
             /\ tags[t].parent # q.id => tags'[t].cat = tags[t].cat
             /\ tags'[t].cat \in {tags[t].cat, q.cat}
             /\ tags'[t].cat # tags[t].cat => q.id \in Tags
  BY <1>1, <1>5, <1>9, References DEF TagAfter
<1>10. TagsKept
  <2>1. ASSUME NEW t \in Tags, isDateTag(cats, tags, t)
        PROVE  tags'[t].cat = tags[t].cat /\ tags'[t].name = tags[t].name
    <3>1. t # q.id BY <1>7, <2>1
    <3>2. tags[t].parent = None BY <2>1 DEF Dates, DateTagsApart, Tags
    <3> QED BY <1>5, <1>9, <3>1, <3>2
  <2>2. ASSUME NEW t \in Tags, ~isDateTag(cats, tags, t) PROVE ~isDateTag(cats, tags, t)'
    <3>1. CASE t = q.id BY <1>3, <1>7, <1>8, <3>1 DEF isDateTag
    <3>2. CASE t # q.id /\ tags'[t].cat = tags[t].cat BY <1>3, <2>2, <3>2 DEF isDateTag
    <3>3. CASE t # q.id /\ tags'[t].cat # tags[t].cat
      BY <1>3, <1>7, <1>9, <3>3 DEF isDateTag
    <3> QED BY <3>1, <3>2, <3>3
  <2> QED BY <1>1, <2>1, <2>2 DEF TagsKept
<1>11. NewTags BY <1>1 DEF NewTags
<1>12. q.id \in Tags => StandsApart(q.id)
  <2> SUFFICES ASSUME q.id \in Tags PROVE StandsApart(q.id)
    OBVIOUS
  <2>1. ~isDateTag(cats', tags', q.id) BY <1>3, <1>7, <1>8 DEF isDateTag
  <2>2. q.parent # None => ~isDateTag(cats', tags', q.parent)
    BY <1>1, <1>4, <1>7, <1>10 DEF TagsKept, isDateTag
  <2> QED BY <1>7, <1>8, <2>1, <2>2 DEF StandsApart, isDateTag
<1>13. DateTagsApart(cats, tags)'
  BY <1>1, <1>6, <1>9, <1>10, <1>12, TagsStayApart DEF Dates
<1>14. \A e \in DOMAIN events' : SameDates(e) BY <1>1, <1>3, EventsUntouched
<1>15. EventsDated(cats, tags, events)' BY <1>6, <1>10, <1>14, EventsStayDated DEF Dates
<1> QED BY <1>6, <1>10, <1>11, <1>13, <1>15 DEF DatesStep, DatesKept, Dates

\* The date tags an event's transaction adds are date tags.
LEMMA DateTagsAdded ==
  ASSUME Stored, Stored', Dates, NEW q, ApartEvent(q, cats, tags), cats' = cats,
         NewDateTags(tags, tags', q.date, Inserted(q.date), next.tag)
  PROVE  /\ DatesKept /\ DateTagsApart(cats, tags)'
         /\ Tags \subseteq DOMAIN tags' /\ \A t \in Tags : tags'[t] = tags[t]
<1>1. Tags \subseteq DOMAIN tags' /\ \A t \in Tags : tags'[t] = tags[t]
  BY DEF NewDateTags, Tags
<1>2. q.date.cat \in Cats /\ cats[q.date.cat].kind = "date" BY DEF ApartEvent, Cats
<1>3. ASSUME NEW t \in DOMAIN tags' \ Tags PROVE t >= next.tag /\ StandsApart(t)
  <2>1. t \in next.tag..next.tag + Cardinality(Inserted(q.date)) - 1
    BY <1>3 DEF NewDateTags, Tags
  <2>2. t >= next.tag BY <2>1, IdTypes
  <2>3. PICK name : tags'[t] = [name |-> name, cat |-> q.date.cat, parent |-> None, mode |-> "rest"]
    BY <1>3 DEF NewDateTags, Tags
  <2>4. tags'[t].cat = q.date.cat /\ tags'[t].parent = None BY <2>3
  <2> QED BY <1>2, <2>2, <2>4 DEF StandsApart, isDateTag
<1>4. KindsKept BY KindsSame
<1>5. TagsKept BY <1>1 DEF TagsKept, isDateTag
<1>6. NewTags BY <1>3 DEF NewTags
<1>7. DateTagsApart(cats, tags)' BY <1>1, <1>3, <1>4, <1>5, TagsStayApart DEF Dates
<1> QED BY <1>1, <1>4, <1>5, <1>6, <1>7 DEF DatesKept

\* An event written has the date tags of its period.
LEMMA EventWrittenDated ==
  ASSUME Stored, Stored', Dates, NEW q, AskedEvent(q, next), ApartEvent(q, cats, tags),
         cats' = cats, LinksHold(q),
         NewDateTags(tags, tags', q.date, Inserted(q.date), next.tag),
         NEW e, NEW cid, events'[e] = EventRow(q, cid)
  PROVE  DatedEvent(cats', tags', events', e)
<1> DEFINE row == EventRow(q, cid)
           links == q.tagsId \cup DateTagIds(q.date)
           dates == {u \in links : isDateTag(cats', tags', u)}
<1>1. /\ row.first = q.period.first /\ row.last = q.period.last
      /\ row.ongoing = q.period.ongoing /\ row.links = links
  BY DEF EventRow
<1>2. /\ DatesKept /\ \A t \in Tags : tags'[t] = tags[t] BY DateTagsAdded
<1>3. next.tag \in Nat BY IdTypes
<1>4. ASSUME NEW t \in q.tagsId PROVE ~isDateTag(cats', tags', t)
  <2>1. t \in DOMAIN tags' /\ t < next.tag /\ t \in Nat
    BY <1>3, <1>4 DEF LinksHold, AskedEvent
  <2>2. t \in Tags BY <1>2, <1>3, <2>1 DEF DatesKept, NewTags
  <2>3. ~isDateTag(cats, tags, t) BY <1>4, <2>2 DEF ApartEvent, NotDate, Tags
  <2> QED BY <1>2, <2>2, <2>3 DEF isDateTag
<1> DEFINE found == q.date.found
           made == {t \in DOMAIN tags' : \E n \in q.date.missing :
                      tags'[t].name = n /\ tags'[t].cat = q.date.cat /\ tags'[t].mode = "rest"}
<1>5. DateTagIds(q.date) = found \cup made BY DEF DateTagIds
<1>6. cats[q.date.cat].kind = "date" BY DEF ApartEvent
<1>7. \A t \in made : isDateTag(cats', tags', t) BY <1>6 DEF isDateTag
<1>8. \A t \in found : t \in Tags /\ isDateTag(cats', tags', t) /\ tags'[t].name = tags[t].name
  BY <1>2 DEF ApartEvent, isDateTag, Tags
<1>9. dates = found \cup made BY <1>4, <1>5, <1>7, <1>8
<1>10. {tags'[t].name : t \in found} = DateTagNames(q.period) \ q.date.missing
  <2>1. {tags'[t].name : t \in found} = {tags[t].name : t \in found} BY <1>8
  <2> QED BY <2>1 DEF ApartEvent
<1>11. {tags'[t].name : t \in made} = q.date.missing
  <2>1. \A n \in q.date.missing : \E t \in made : tags'[t].name = n BY DEF NewDateTags
  <2>2. \A t \in made : tags'[t].name \in q.date.missing OBVIOUS
  <2> QED BY <2>1, <2>2
<1>12. q.date.missing \subseteq DateTagNames(q.period) BY DEF ApartEvent
<1>13. {tags'[t].name : t \in dates} = DateTagNames(q.period)
  <2> HIDE DEF found, made, dates
  <2>1. {tags'[t].name : t \in dates} = {tags'[t].name : t \in found} \cup {tags'[t].name : t \in made}
    BY <1>9
  <2> QED BY <1>10, <1>11, <1>12, <2>1
<1>14. DateTagNames(row) = DateTagNames(q.period) BY <1>1 DEF DateTagNames
<1>15. row.last # None => row.first <= row.last BY <1>1 DEF ApartEvent
<1> QED BY <1>1, <1>13, <1>14, <1>15 DEF DatedEvent

LEMMA TransactionDates ==
  ASSUME Stored, Waiting, Dates, NEW r \in Workers, Transaction(r), w[r].op # "rewrite",
         Apart(w[r], cats, tags)
  PROVE  DatesStep
<1> DEFINE q == w[r]
<1>1. Asked(q, next) BY DEF Waiting
<1>2. Runs(r) BY Commits
<1>3. Stored' BY TransactionKeeps DEF Kept
<1>4. CASE q.op \in {"createCategory", "updateCategory"}
  <2>1. InsertCategory(q) \/ UpdateCategory(q) BY <1>2, <1>4 DEF Runs
  <2>2. tags' = tags /\ events' = events BY <2>1 DEF InsertCategory, UpdateCategory
  <2>3. KindsKept BY <2>1, CategoryWrittenKinds
  <2> QED BY <1>3, <2>2, <2>3, OthersDates
<1>5. CASE q.op = "createTag" /\ CreateTag(q)
  BY <1>1, <1>5, AskedParts, TagCreatedDates DEF Apart
<1>6. CASE q.op = "updateTag" /\ UpdateTag(q)
  BY <1>1, <1>6, AskedParts, TagUpdatedDates DEF Apart
<1>7. CASE \/ q.op = "createGroup" /\ CreateTagGroup(q)
           \/ q.op = "updateGroup" /\ UpdateTagGroup(q)
  <2>1. cats' = cats /\ tags' = tags /\ events' = events
    BY <1>7 DEF CreateTagGroup, UpdateTagGroup
  <2> QED BY <1>3, <2>1, KindsSame, OthersDates
<1>8. CASE \/ q.op = "createEvent" /\ InsertEvent(q)
           \/ q.op = "updateEvent" /\ UpdateEventWithTags(q)
  <2>1. AskedEvent(q, next) /\ ApartEvent(q, cats, tags) BY <1>1, <1>8, AskedParts DEF Apart
  <2>2. NewDateTags(tags, tags', q.date, Inserted(q.date), next.tag)
    BY <1>8, <2>1, EventInserted, EventUpdated
  <2>3. cats' = cats /\ LinksHold(q) BY <1>8 DEF InsertEvent, UpdateEventWithTags
  <2>4. /\ DatesKept /\ DateTagsApart(cats, tags)' /\ Tags \subseteq DOMAIN tags'
    BY <1>3, <2>1, <2>2, <2>3, DateTagsAdded
  <2>5. PICK e, cid : /\ events'[e] = EventRow(q, cid)
                      /\ \A x \in DOMAIN events' :
                           x # e => x \in DOMAIN events /\ events'[x] = events[x]
    <3>1. CASE InsertEvent(q) BY <2>1, <3>1, EventInserted
    <3>2. CASE UpdateEventWithTags(q) BY <2>1, <3>2, EventUpdated
    <3> QED BY <1>8, <3>1, <3>2
  <2>6. ASSUME NEW x \in DOMAIN events' PROVE DatedEvent(cats', tags', events', x)
    <3>1. CASE x = e BY <1>3, <2>1, <2>2, <2>3, <2>5, <3>1, EventWrittenDated
    <3>2. CASE x # e
      <4>1. x \in DOMAIN events /\ events'[x] = events[x] BY <2>5, <2>6, <3>2
      <4>2. SameDates(x) BY <2>4, <2>6, <4>1, EventsUntouched
      <4>3. DatedEvent(cats, tags, events, x) BY <4>1, EventsOf DEF Dates
      <4> QED BY <2>4, <4>2, <4>3, EventStaysDated DEF DatesKept
    <3> QED BY <3>1, <3>2
  <2>7. EventsDated(cats, tags, events)' BY <2>6 DEF EventsDated, DatedEvent, isDateTag
  <2> QED BY <2>4, <2>7 DEF DatesStep, Dates
<1> QED BY <1>2, <1>4, <1>5, <1>6, <1>7, <1>8 DEF Runs

-----------------------------------------------------------------------------
(* The requests. *)

\* The date tags found and those missing are those of the period.
LEMMA DatesLookedUp ==
  ASSUME Stored, ~account.e2ee, NEW p \in Periods, NEW q,
         q.period = normalized(p), q.date = buildDateTags(p)
  PROVE  /\ q.date.cat \in Cats /\ cats[q.date.cat].kind = "date"
         /\ \A t \in q.date.found : t \in Tags /\ isDateTag(cats, tags, t)
         /\ {tags[t].name : t \in q.date.found} = DateTagNames(q.period) \ q.date.missing
         /\ q.date.missing \subseteq DateTagNames(q.period)
<1> DEFINE d == FindIdByKind("date")
           at(n) == FindTagIdByTagAndIdCategory(n, d)
           names == DateTagNames(p)
<1>1. d \in Cats /\ cats[d].kind = "date" BY CategoryFound DEF Stored, Seeded, Cats
<1>2. /\ q.date.cat = d /\ q.date.found = UNION {at(n) : n \in names}
      /\ q.date.missing = {n \in names : at(n) = {}}
  BY DEF buildDateTags
<1>3. \A n : at(n) = {t \in Tags : tags[t].name = n /\ tags[t].cat = d /\ tags[t].mode = "rest"}
  BY DEF FindTagIdByTagAndIdCategory
<1>4. DateTagNames(q.period) = names
  <2>1. /\ End(q.period) = End(p) /\ q.period.first = p.first /\ q.period.ongoing = p.ongoing
    BY Normalized
  <2>2. MonthsOf(q.period) = MonthsOf(p) BY <2>1 DEF MonthsOf
  <2> QED BY <2>1, <2>2, DateTagNamesOf
<1> HIDE DEF d, at, names
<1>5. \A t \in q.date.found : t \in Tags /\ tags[t].cat = d /\ tags[t].name \in names
                              /\ t \in at(tags[t].name)
  BY <1>2, <1>3
<1>6. \A n \in names \ q.date.missing : \E t \in q.date.found : tags[t].name = n
  BY <1>2, <1>3
<1>7. {tags[t].name : t \in q.date.found} = names \ q.date.missing BY <1>2, <1>5, <1>6
<1> QED BY <1>1, <1>2, <1>4, <1>5, <1>7 DEF isDateTag

LEMMA ValidatedApart ==
  ASSUME Stored, ~account.e2ee, NEW q, Validated(q)
  PROVE  Apart(q, cats, tags)
<1>1. ASSUME q.op \in {"createTag", "updateTag"} PROVE ApartTag(q, cats, tags)
  <2>1. \E t : validateTag(t, q.name, q.cat, q.parent) BY <1>1 DEF Validated
  <2>2. /\ q.cat \in Cats /\ cats[q.cat].kind # "date" /\ ~isReservedTagName(q.name)
        /\ q.parent # None => q.parent \in Tags /\ tags[q.parent].cat = q.cat
    BY <2>1 DEF validateTag, validateParent
  <2>3. NotDate(cats, tags, q.parent) BY <2>2, References DEF NotDate, isDateTag, Tags
  <2>4. q.op = "updateTag" => NotDate(cats, tags, q.id)
    BY DEF Validated, rejectDateCategoryTag, NotDate, isDateTag
  <2> QED BY <2>2, <2>3, <2>4 DEF ApartTag
<1>2. ASSUME q.op \in {"createEvent", "updateEvent"} PROVE ApartEvent(q, cats, tags)
  <2>1. q.tagsId \subseteq Linkable BY <1>2 DEF Validated
  <2>2. \A t \in q.tagsId : NotDate(cats, tags, t) BY <2>1 DEF Linkable, NotDate, isDateTag
  <2>3. PICK p \in Periods : /\ validPeriod(p) /\ q.period = normalized(p)
                             /\ q.date = buildDateTags(p)
    BY <1>2 DEF Validated
  <2>4. /\ q.date.cat \in Cats /\ cats[q.date.cat].kind = "date"
        /\ \A t \in q.date.found : t \in Tags /\ isDateTag(cats, tags, t)
        /\ {tags[t].name : t \in q.date.found} = DateTagNames(q.period) \ q.date.missing
        /\ q.date.missing \subseteq DateTagNames(q.period)
    BY <2>3, DatesLookedUp
  <2>5. q.period.last # None => q.period.first <= q.period.last
    <3>1. p \in EventPeriods BY LibraryAssumption DEF EventPeriods
    <3>2. p.last # None => p.first <= p.last BY <2>3 DEF validPeriod
    <3> QED BY <2>3, <3>1, <3>2 DEF normalized, EventPeriods
  <2> QED BY <2>2, <2>4, <2>5 DEF ApartEvent, Tags, Cats
<1>3. q.op \in Operations => ~q.e2ee BY DEF Validated
<1> QED BY <1>1, <1>2, <1>3 DEF Apart

LEMMA RewriteApart ==
  ASSUME NEW p, NEW q, NEW C, NEW T, p.op = "migrate", Apart(p, C, T),
         q.op = "rewrite", q.e2ee = p.e2ee
  PROVE  Apart(q, C, T)
BY DEF Apart, Operations

LEMMA IdleApart ==
  ASSUME NEW q, q.op \in {"none", "again"}, NEW C, NEW T
  PROVE  Apart(q, C, T)
BY DEF Apart, Operations

-----------------------------------------------------------------------------

\* The encryption comes with a migration, or stays.
LEMMA Encrypts ==
  ASSUME NEW r \in Workers, Transaction(r), w[r].op = "rewrite", Asked(w[r], next),
         ~w[r].e2ee, ~account.e2ee, account \in [e2ee : BOOLEAN, generation : Nat]
  PROVE  veiled'
<1>1. Migrate(w[r]) /\ Commit(r) BY Commits DEF Runs
<1>2. w[r].enable = TRUE BY AskedParts DEF AskedMigration
<1>3. account'.e2ee BY <1>1, <1>2 DEF Migrate
<1> QED BY <1>1, <1>3 DEF Commit

LEMMA DInvStep ==
  ASSUME LInv, DInv, [Next]_vars
  PROVE  DInv'
<1>1. CASE UNCHANGED vars
  <2>1. UNCHANGED rows /\ w' = w /\ veiled' = veiled BY <1>1 DEF vars, notes
  <2> QED BY <2>1 DEF DInv, rows, Dates, DateTagsApart, EventsDated, isDateTag, Readable
<1>2. CASE Next
  <2>1. Stored /\ Waiting /\ Counted BY DEF LInv
  <2>2. account.e2ee \in BOOLEAN /\ account \in [e2ee : BOOLEAN, generation : Nat]
    BY <2>1 DEF Counted
  <2>3. SUFFICES ASSUME ~veiled'
                 PROVE  /\ ~account'.e2ee /\ Dates' /\ Readable'
                        /\ \A r \in Workers : Apart(w'[r], cats', tags')
    BY DEF DInv
  <2>4. CASE Arrives
    <3>1. UNCHANGED rows /\ veiled' = veiled BY <2>4, ArrivesQuietly DEF notes
    <3>0. PICK r \in Workers : \E q : Arrive(r, q) /\ Validated(q) BY <2>4 DEF Arrives
    <3>2. PICK q : Arrive(r, q) /\ Validated(q) BY <3>0
    <3>3. w' = [w EXCEPT ![r] = q] BY <3>2 DEF Arrive
    <3>4. ~account.e2ee /\ Dates /\ Readable /\ \A s \in Workers : Apart(w[s], cats, tags)
      BY <2>3, <3>1 DEF DInv
    <3>5. Apart(q, cats, tags) BY <2>1, <3>2, <3>4, ValidatedApart
    <3>6. \A s \in Workers : Apart(w'[s], cats, tags) BY <2>1, <3>3, <3>4, <3>5 DEF Waiting
    <3> QED BY <3>1, <3>4, <3>6
          DEF rows, Dates, DateTagsApart, EventsDated, isDateTag, Readable
  <2>5. CASE Ends
    <3>1. UNCHANGED rows BY <2>5, EndsQuietly
    <3>2. veiled' = veiled
      BY <2>5 DEF Ends, ReplayCategory, ReplayEvent, Replay, Duplicate, FindAgain, CheckIds, Abort,
          notes
    <3>3. ~account.e2ee /\ Dates /\ Readable /\ \A s \in Workers : Apart(w[s], cats, tags)
      BY <2>3, <3>2 DEF DInv
    <3>4. ASSUME NEW s \in Workers
          PROVE  \/ w'[s] = w[s] \/ w'[s].op \in {"none", "again"}
                 \/ w'[s].op = "rewrite" /\ w[s].op = "migrate" /\ w'[s].e2ee = w[s].e2ee
      <4>1. CASE \E cid \in ClientIds : ReplayCategory(cid) \/ ReplayEvent(cid)
        BY <4>1 DEF ReplayCategory, ReplayEvent, Replay
      <4>2. CASE \E r \in Workers : \/ Duplicate(r, "createCategory", cats)
                                    \/ Duplicate(r, "createEvent", events)
        BY <2>1, <4>2 DEF Duplicate, Waiting
      <4>3. CASE \E r \in Workers : \/ FindAgain(r, "createCategory", cats, "cats")
                                    \/ FindAgain(r, "createEvent", events, "events")
        BY <2>1, <4>3 DEF FindAgain, Waiting, Idle
      <4>4. CASE \E r \in Workers : Abort(r) BY <2>1, <4>4 DEF Abort, Waiting, Idle
      <4>5. CASE \E r \in Workers : CheckIds(r) BY <2>1, <4>5 DEF CheckIds, Waiting
      <4> QED BY <2>5, <4>1, <4>2, <4>3, <4>4, <4>5 DEF Ends
    <3>5. \A s \in Workers : Apart(w'[s], cats, tags) BY <3>3, <3>4, IdleApart, RewriteApart
    <3> QED BY <3>1, <3>3, <3>5
          DEF rows, Dates, DateTagsApart, EventsDated, isDateTag, Readable
  <2>6. CASE Serves
    <3>1. w' = w /\ veiled' = veiled
      BY <2>6 DEF Serves, DeleteCategory, DeleteTag, DeleteTagGroup, DeleteEvent, Purge, Serve
    <3>2. ~account.e2ee /\ Dates /\ Readable /\ \A s \in Workers : Apart(w[s], cats, tags)
      BY <2>3, <3>1 DEF DInv
    <3>3. account' = account
      BY <2>6, <3>2 DEF Serves, DeleteCategory, DeleteTag, DeleteTagGroup, DeleteEvent, Purge
    <3>4. DatesStep BY <2>1, <2>6, <3>2, ServesDates
    <3>5. Readable' BY <2>1, <2>6, <3>2, ServesMode, ReadableCarried
    <3>6. \A s \in Workers : Apart(w'[s], cats', tags')
      BY <2>1, <3>1, <3>2, <3>4, ApartStays DEF DatesStep, Waiting
    <3> QED BY <3>2, <3>3, <3>4, <3>5, <3>6 DEF DatesStep
  <2>7. CASE \E r \in Workers : Transaction(r)
    <3>1. PICK r \in Workers : Transaction(r) BY <2>7
    <3>2. Runs(r) /\ Commit(r) BY <3>1, Commits
    <3>3. w' = [w EXCEPT ![r] = Idle] /\ veiled' = (veiled \/ account'.e2ee) BY <3>2 DEF Commit
    <3>4. ~account.e2ee /\ Dates /\ Readable /\ \A s \in Workers : Apart(w[s], cats, tags)
      BY <2>3, <3>3 DEF DInv
    <3>5. ~account'.e2ee BY <2>3, <3>3
    <3>6. w[r].op \in Operations BY <3>2 DEF Runs, Operations
    <3>7. w[r].e2ee = FALSE /\ account.e2ee = FALSE
      <4>1. w[r].e2ee \in BOOLEAN BY <2>1, <3>6, AskedParts DEF Waiting
      <4> QED BY <2>2, <3>4, <3>6, <4>1 DEF Apart
    <3>8. w[r].op # "rewrite" BY <2>1, <2>2, <2>3, <3>1, <3>7, Encrypts DEF Waiting
    <3>9. DatesStep BY <2>1, <3>1, <3>4, <3>8, TransactionDates
    <3>10. Readable'
      <4>1. ~Overlooks(w[r]) BY <3>8 DEF Overlooks
      <4> QED BY <2>1, <3>1, <3>4, <3>7, <3>8, <4>1, TransactionMode, ReadableCarried
    <3>11. ASSUME NEW s \in Workers PROVE Apart(w'[s], cats', tags')
      <4>1. CASE s = r
        <5>1. w'[s] = Idle BY <2>1, <3>3, <4>1 DEF Waiting
        <5> QED BY <5>1, IdleApart DEF Idle
      <4>2. CASE s # r
        <5>1. w'[s] = w[s] BY <3>3, <4>2
        <5> QED BY <2>1, <3>4, <3>9, <5>1, ApartStays DEF DatesStep, Waiting
      <4> QED BY <4>1, <4>2
    <3> QED BY <3>5, <3>9, <3>10, <3>11 DEF DatesStep
  <2> QED BY <1>2, <2>4, <2>5, <2>6, <2>7, Steps
<1> QED BY <1>1, <1>2

LEMMA DInvInit == ASSUME Init PROVE DInv
<1>1. \A r \in Workers : w[r] = Idle BY DEF Init
<1>2. \A r \in Workers : Apart(w[r], cats, tags) BY <1>1, IdleApart DEF Idle
<1>3. /\ Readable /\ veiled = account.e2ee
      /\ ~account.e2ee => DateTagsApart(cats, tags) /\ EventsDated(cats, tags, events)
  BY StartsStored DEF Readable
<1> QED BY <1>2, <1>3 DEF DInv, Dates

-----------------------------------------------------------------------------
(* The filter by date. *)

LEMMA FilterOfOne ==
  ASSUME NEW n
  PROVE  DOMAIN GetEvents(<<n>>) = {e \in DOMAIN events : Matches(e, n, ModeOf(account.e2ee))}
<1>1. {<<n>>[i] : i \in DOMAIN <<n>>} = {n} OBVIOUS
<1> QED BY <1>1 DEF GetEvents, FindEventsWithTags

LEMMA NamesReserved ==
  ASSUME NEW n \in AllNames \ Names
  PROVE  isReservedTagName(n)
BY DEF AllNames, isReservedTagName

LEMMA FoundByDate ==
  ASSUME LInv, DInv
  PROVE  EventsFoundByDate
<1> SUFFICES ASSUME ~veiled, NEW n \in AllNames \ Names
             PROVE  DOMAIN GetEvents(<<n>>) = {e \in DOMAIN events : Covers(events[e], n)}
  BY DEF EventsFoundByDate
<1>1. Stored /\ ~account.e2ee /\ Dates /\ Readable BY DEF LInv, DInv
<1>2. ModeOf(account.e2ee) = "rest" BY <1>1 DEF ModeOf
<1>3. \A t \in Tags : tags[t].mode = "rest"
  BY <1>1, <1>2, StoredAsParts DEF Readable, AllIn, Tags
<1>4. isReservedTagName(n) BY NamesReserved
<1>5. ASSUME NEW named \in Tags, tags[named].name = n
      PROVE  isDateTag(cats, tags, named) /\ tags[named].parent = None
  BY <1>1, <1>4, <1>5 DEF Dates, DateTagsApart, Tags
<1>6. ASSUME NEW e \in DOMAIN events
      PROVE  Matches(e, n, "rest") <=> Covers(events[e], n)
  <2> DEFINE E == events[e]
             dates == {u \in E.links : isDateTag(cats, tags, u)}
  <2>1. E.links \subseteq Tags BY <1>1, References
  <2>2. DatedEvent(cats, tags, events, e) BY <1>1, EventsOf DEF Dates
  <2>3. Matches(e, n, "rest") <=> n \in {tags[t].name : t \in dates}
    <3>1. ASSUME Matches(e, n, "rest") PROVE n \in {tags[t].name : t \in dates}
      <4>1. PICK named \in Tags, t \in E.links :
              tags[named].name = n /\ Root(named) = Root(t)
        BY <3>1 DEF Matches
      <4>2. isDateTag(cats, tags, named) /\ Root(named) = named BY <1>5, <4>1 DEF Root
      <4>3. t \in Tags BY <2>1, <4>1
      <4>4. tags[t].parent = None
        BY <1>1, <4>1, <4>2, <4>3 DEF Root, Dates, DateTagsApart, Tags
      <4>5. t = named BY <4>1, <4>2, <4>4 DEF Root
      <4> QED BY <4>1, <4>2, <4>5
    <3>2. ASSUME NEW t \in dates, tags[t].name = n PROVE Matches(e, n, "rest")
      BY <1>3, <2>1, <3>2 DEF Matches
    <3> QED BY <3>1, <3>2
  <2>4. n \in {tags[t].name : t \in dates} <=> n \in DateTagNames(E) BY <2>2 DEF DatedEvent
  <2>5. E \in EventRows BY <1>1, StoredParts DEF TypedEvents
  <2>6. /\ E.first \in Nat /\ E.last \in Nat /\ E.ongoing \in BOOLEAN
        /\ E.last # None => E.first <= E.last
    BY <2>2, <2>5 DEF EventRows, DatedEvent
  <2>7. End(E) \in Nat /\ E.first <= End(E) BY <2>6 DEF End
  <2>8. n \in DateTagNames(E) <=> Covers(E, n)
    <3> HIDE DEF E
    <3> QED BY <2>6, <2>7, DateTagNamesCover
  <2> QED BY <2>3, <2>4, <2>8
<1> QED BY <1>2, <1>6, FilterOfOne

\* While the account was never encrypted, filtering by a month, a year or Ongoing
\* lists exactly the events whose period has it, whatever writes, edits and deletions
\* race: the date tags are found or created, shared, and never the user's.
THEOREM FilterByDate == Spec => []EventsFoundByDate
<1>1. Init => DInv BY DInvInit
<1>2. LInv /\ DInv /\ [Next]_vars => DInv' BY DInvStep
<1>3. LInv /\ DInv => EventsFoundByDate BY FoundByDate
<1>4. Spec => []LInv BY RowsTyped
<1> QED BY <1>1, <1>2, <1>3, <1>4, PTL DEF Spec

-----------------------------------------------------------------------------
(* What a deletion does to the events, and what it said it would do.       *)

\* Only the deletions and the purge take a tag or a category.
LEMMA OnlyServesDelete ==
  ASSUME LInv, [Next]_vars, (Tags \ DOMAIN tags') \cup (Cats \ DOMAIN cats') # {}
  PROVE  Serves
<1>1. ASSUME UNCHANGED rows PROVE FALSE BY <1>1 DEF rows, Tags, Cats
<1>2. UNCHANGED vars => UNCHANGED rows BY DEF vars
<1>3. ASSUME NEW r \in Workers, Transaction(r) PROVE FALSE
  <2> DEFINE q == w[r]
  <2>1. Runs(r) BY <1>3, Commits
  <2>2. CASE q.op = "createCategory" /\ InsertCategory(q)
    BY <2>2 DEF InsertCategory, Extend, Cats, Tags
  <2>3. CASE q.op = "updateCategory" /\ UpdateCategory(q) BY <2>3 DEF UpdateCategory, Cats, Tags
  <2>4. CASE q.op = "createTag" /\ CreateTag(q) BY <2>4 DEF CreateTag, Extend, Cats, Tags
  <2>5. CASE q.op = "updateTag" /\ UpdateTag(q) BY <2>5 DEF UpdateTag, WithSynonyms, Cats, Tags
  <2>6. CASE \/ q.op = "createGroup" /\ CreateTagGroup(q)
             \/ q.op = "updateGroup" /\ UpdateTagGroup(q)
    BY <2>6 DEF CreateTagGroup, UpdateTagGroup, Cats, Tags
  <2>7. CASE \/ q.op = "createEvent" /\ InsertEvent(q)
             \/ q.op = "updateEvent" /\ UpdateEventWithTags(q)
    <3>1. CreateAllTags(q.date) /\ cats' = cats BY <2>7 DEF InsertEvent, UpdateEventWithTags
    <3>2. Tags \subseteq DOMAIN tags' BY <3>1 DEF CreateAllTags
    <3> QED BY <3>1, <3>2 DEF Cats
  <2>8. CASE q.op = "rewrite" /\ Migrate(q)
    <3>1. Asked(q, next) BY DEF LInv, Waiting
    <3>2. DOMAIN tags' = Tags BY <2>8, <3>1, AskedParts, Migrated DEF LInv
    <3>3. DOMAIN cats' = Cats BY <2>8 DEF Migrate, Rewritten, Cats
    <3> QED BY <3>2, <3>3
  <2> QED BY <2>1, <2>2, <2>3, <2>4, <2>5, <2>6, <2>7, <2>8 DEF Runs
<1> QED BY <1>1, <1>2, <1>3, Steps, ArrivesQuietly, EndsQuietly

\* With flat synonyms a tag goes with its synonyms, and with nothing else.
LEMMA GoesWithSynonyms ==
  ASSUME Stored, FlatTags(tags), NEW t \in Tags
  PROVE  CascadeTags({t}) = {t} \cup {s \in Tags : tags[s].parent = t}
<1> DEFINE S == {t} \cup {s \in Tags : tags[s].parent = t}
<1>1. S \in SUBSET Tags /\ {t} \in SUBSET Tags /\ {t} \subseteq S OBVIOUS
<1>2. ASSUME NEW u \in Tags, tags[u].parent \in S PROVE u \in S
  <2>1. tags[u].parent \in Tags /\ tags[u].parent # None BY <1>1, <1>2, References
  <2>2. tags[tags[u].parent].parent = None BY <2>1 DEF FlatTags, Tags
  <2>3. tags[u].parent = t \/ tags[tags[u].parent].parent = t BY <1>2
  <2>4. t # None BY References
  <2> QED BY <2>2, <2>3, <2>4
<1>3. CascadeTags({t}) \subseteq S BY <1>1, <1>2, CascadesLeast
<1>4. S \subseteq CascadeTags({t}) BY <1>1, Cascades
<1> QED BY <1>3, <1>4

\* A deletion that takes only synonyms of tags that stay is of one synonym: with flat
\* synonyms a category's go with their main tags.
LEMMA OneSynonymGone ==
  ASSUME LInv, FlatTags(tags), Serves, Tags \ DOMAIN tags' # {},
         \A t \in Tags \ DOMAIN tags' : tags[t].parent \in DOMAIN tags'
  PROVE  \E t \in Tags, deleteEvents \in BOOLEAN :
           /\ DeleteTag(t, deleteEvents) /\ CascadeTags({t}) = {t}
           /\ tags[t].parent \in Tags \ {t}
<1>1. Stored BY DEF LInv
<1>2. ASSUME NEW c \in Cats, NEW moveTags \in BOOLEAN, NEW deleteEvents \in BOOLEAN,
             DeleteCategory(c, moveTags, deleteEvents)
      PROVE  FALSE
  <2> DEFINE gone == CascadeTags(Inside(c))
  <2>1. CASE moveTags
    <3>1. DOMAIN tags' = Tags BY <1>2, <2>1 DEF DeleteCategory, MoveTags, Tags
    <3> QED BY <3>1
  <2>2. CASE ~moveTags
    <3>1. Without(tags, tags', gone)
      BY <1>1, <1>2, <2>2, DropTagsDrops DEF DeleteCategory
    <3>2. Inside(c) \in SUBSET Tags BY DEF Inside
    <3>3. Inside(c) \subseteq gone /\ gone \subseteq Tags BY <3>2, Cascades
    <3> HIDE DEF gone
    <3>4. DOMAIN tags' = Tags \ gone BY <3>1 DEF Without, Tags
    <3>5. ASSUME NEW t \in Inside(c) PROVE FALSE
      <4>1. t \in Tags /\ tags[t].cat = c BY DEF Inside
      <4>2. tags[t].parent \in Tags \ gone BY <3>3, <3>4, <3>5, <4>1
      <4>3. tags[t].parent # None BY <1>1, <4>2, References
      <4>4. tags[tags[t].parent].cat = c BY <4>1, <4>3 DEF FlatTags, Tags
      <4> QED BY <3>3, <4>2, <4>4 DEF Inside
    <3>6. gone \subseteq {}
      <4>1. \A t \in Tags : tags[t].parent \in {} => t \in {} OBVIOUS
      <4> QED BY <3>5, <4>1, CascadesLeast DEF gone
    <3> QED BY <3>4, <3>6
  <2> QED BY <2>1, <2>2
<1>3. ASSUME NEW t \in Tags, NEW deleteEvents \in BOOLEAN, DeleteTag(t, deleteEvents)
      PROVE  CascadeTags({t}) = {t} /\ tags[t].parent \in Tags \ {t}
  <2>1. CascadeTags({t}) = {t} \cup {s \in Tags : tags[s].parent = t}
    BY <1>1, GoesWithSynonyms
  <2>2. DOMAIN tags' = Tags \ CascadeTags({t}) BY <1>1, <1>3, TagDeleted DEF Without, Tags
  <2>3. \A s \in CascadeTags({t}) : tags[s].parent \in Tags \ CascadeTags({t}) BY <2>1, <2>2
  <2> QED BY <2>1, <2>3
<1>4. ~Purge BY DEF Purge
<1>5. \A g \in DOMAIN groups : ~DeleteTagGroup(g) BY DEF DeleteTagGroup, Tags
<1>6. \A e \in DOMAIN events : ~DeleteEvent(e) BY DEF DeleteEvent, Tags
<1> QED BY <1>2, <1>3, <1>4, <1>5, <1>6 DEF Serves

LEMMA SynonymsGoneStep ==
  ASSUME LInv, FInv, [Next]_vars
  PROVE  SynonymsGone
<1> DEFINE gone == Tags \ DOMAIN tags'
<1> SUFFICES ASSUME ~crossed, gone # {}, \A t \in gone : tags[t].parent \in DOMAIN tags',
                    NEW n \in AllNames \ {tags[t].name : t \in gone}
             PROVE  DOMAIN GetEvents(<<n>>) \subseteq DOMAIN GetEvents(<<n>>)'
  BY DEF SynonymsGone
<1>1. Stored /\ FlatTags(tags) BY DEF LInv, FInv, SynonymsFlat
<1>2. PICK t \in Tags, deleteEvents \in BOOLEAN :
        /\ DeleteTag(t, deleteEvents) /\ CascadeTags({t}) = {t}
        /\ tags[t].parent \in Tags \ {t}
  BY <1>1, OnlyServesDelete, OneSynonymGone
<1> DEFINE main == tags[t].parent
<1>3. /\ Without(tags, tags', {t}) /\ Relinked(events, events', t, {t}) /\ gone = {t}
  BY <1>1, <1>2, TagDeleted DEF Without, Tags
<1>4. main # None /\ tags[main].parent = None
  BY <1>1, <1>2, References DEF FlatTags, Tags
<1>5. account' = account /\ DOMAIN events' = DOMAIN events
  BY <1>2, <1>4 DEF DeleteTag, Strip, Repoint
<1>6. tags[t].name # n BY <1>3
<1> HIDE DEF gone
<1> DEFINE mode == ModeOf(account.e2ee)
<1>7. ASSUME NEW e \in DOMAIN events, Matches(e, n, mode) PROVE Matches(e, n, mode)'
  <2>1. PICK named \in Tags, u \in events[e].links :
          tags[named].name = n /\ tags[named].mode = mode /\ Root(named) = Root(u)
    BY <1>7 DEF Matches
  <2>2. u \in Tags BY <1>1, <2>1, References
  <2>3. \A s \in Tags \ {t} : s \in DOMAIN tags' /\ tags'[s] = tags[s]
    BY <1>3 DEF Without, Tags
  <2>4. named \in Tags \ {t} BY <1>6, <2>1
  <2>5. events'[e].links = LinksAfter(t, events[e].links, {t}) BY <1>3, <1>5 DEF Relinked
  <2>6. PICK v : v \in events'[e].links /\ v \in Tags \ {t} /\ Root(v) = Root(u)
    <3>1. CASE u = t
      <4>1. main \in events'[e].links BY <1>2, <1>4, <2>1, <2>5, <3>1 DEF LinksAfter
      <4>2. Root(main) = Root(u) BY <1>4, <3>1 DEF Root
      <4> QED BY <1>2, <4>1, <4>2
    <3>2. CASE u # t BY <2>1, <2>2, <2>5, <3>2 DEF LinksAfter
    <3> QED BY <3>1, <3>2
  <2>7. Root(named)' = Root(named) /\ Root(v)' = Root(v) BY <2>3, <2>4, <2>6 DEF Root
  <2>8. tags'[named].name = n /\ tags'[named].mode = ModeOf(account.e2ee)'
    BY <1>5, <2>1, <2>3, <2>4
  <2>9. named \in Tags' BY <2>3, <2>4 DEF Tags
  <2> QED BY <1>5, <2>1, <2>3, <2>6, <2>7, <2>8, <2>9 DEF Matches
<1>8. DOMAIN GetEvents(<<n>>) = {e \in DOMAIN events : Matches(e, n, mode)} BY FilterOfOne
<1>9. (DOMAIN GetEvents(<<n>>) = {e \in DOMAIN events : Matches(e, n, ModeOf(account.e2ee))})'
  BY FilterOfOne, PTL
<1> QED BY <1>5, <1>7, <1>8, <1>9

\* Deleting a synonym takes no event out of the filter by another name: its events
\* are found through its main tag from then on, unless a write was validated against
\* tags another request rearranged.
THEOREM FiltersStay == Spec => FiltersSurvive
<1>1. LInv /\ FInv /\ [Next]_vars => [SynonymsGone]_vars BY SynonymsGoneStep
<1>2. Spec => [](LInv /\ FInv) BY RowsTyped, TagsHang, PTL
<1> QED BY <1>1, <1>2, PTL DEF Spec, FiltersSurvive

\* What the usage endpoints count of the tags S.
UsageOf(S) == [events |-> Cardinality(Linked(S)), exclusiveEvents |-> Cardinality(Exclusive(S))]

\* The tags S go, none of them a date tag, and with them their links and, when asked,
\* the events linked to them: as many events go as were announced, or as many are
\* left with only date tags.
LEMMA CountedBefore ==
  ASSUME Stored, NEW S, S \subseteq Tags, \A t \in S : ~isDateTag(cats, tags, t),
         DOMAIN tags' = Tags \ S,
         \A t \in Tags \ S : isDateTag(cats, tags, t)' <=> isDateTag(cats, tags, t),
         Unlinked(events, events', S),
         DOMAIN events' \in {DOMAIN events, DOMAIN events \ Linked(S)},
         NEW usage, usage.events = UsageOf(S).events,
         usage.exclusiveEvents = UsageOf(S).exclusiveEvents
  PROVE  Foretold(usage)
<1>1. CASE DOMAIN events' # DOMAIN events
  <2>1. DOMAIN events \ DOMAIN events' = Linked(S) BY <1>1 DEF Linked
  <2> QED BY <1>1, <2>1 DEF Foretold, UsageOf
<1>2. CASE DOMAIN events' = DOMAIN events
  <2>1. DateOnly = {e \in DOMAIN events : \A t \in events[e].links : isDateTag(cats, tags, t)}
    BY DEF DateOnly, isDateTag
  <2>2. DateOnly' = {e \in DOMAIN events' : \A t \in events'[e].links : isDateTag(cats, tags, t)'}
    BY DEF DateOnly, isDateTag
  <2>3. Exclusive(S) = {e \in Linked(S) : \A t \in events[e].links \ S : isDateTag(cats, tags, t)}
    BY DEF Exclusive, isDateTag
  <2>4. ASSUME NEW e \in DOMAIN events
        PROVE  (e \in DateOnly' /\ e \notin DateOnly) <=> e \in Exclusive(S)
    <3>1. events'[e].links = events[e].links \ S /\ events[e].links \subseteq Tags
      BY <1>2, References DEF Unlinked
    <3>2. e \in DateOnly' <=> \A t \in events[e].links \ S : isDateTag(cats, tags, t)
      BY <1>2, <2>2, <3>1
    <3> QED BY <2>1, <2>3, <3>1, <3>2 DEF Linked
  <2>5. DateOnly' \ DateOnly = Exclusive(S)
    <3>1. DateOnly' \subseteq DOMAIN events /\ Exclusive(S) \subseteq DOMAIN events
      BY <1>2, <2>2, <2>3 DEF Linked
    <3> QED BY <2>4, <3>1
  <2> QED BY <1>2, <2>5 DEF Foretold, UsageOf
<1> QED BY <1>1, <1>2

LEMMA TagForetold ==
  ASSUME LInv, FlatTags(tags), NEW u \in Tags, NEW deleteEvents \in BOOLEAN,
         DeleteTag(u, deleteEvents), NEW t \in Tags \ DOMAIN tags',
         tags[t].parent = None, ~isDateTag(cats, tags, t)
  PROVE  Foretold(GetTagUsage(t))
<1>1. Stored BY DEF LInv
<1>2. CascadeTags({u}) = {u} \cup {s \in Tags : tags[s].parent = u} BY <1>1, GoesWithSynonyms
<1> DEFINE gone == CascadeTags({u})
<1>3. /\ Without(tags, tags', gone) /\ Relinked(events, events', u, gone) /\ cats' = cats
  BY <1>1, TagDeleted DEF DeleteTag
<1>4. t = u
  <2>1. t \in gone BY <1>3 DEF Without, Tags
  <2> QED BY <1>1, <1>2, <2>1, References
<1>5. gone = SynonymGroup(t) BY <1>1, <1>2, <1>4, References DEF SynonymGroup, Root
<1> HIDE DEF gone
<1>6. gone \subseteq Tags /\ DOMAIN tags' = Tags \ gone
  BY <1>3, <1>5 DEF Without, SynonymGroup, Tags
<1>7. \A s \in gone : ~isDateTag(cats, tags, s)
  BY <1>1, <1>5, References DEF SynonymGroup, Root, isDateTag, FlatTags, Tags
<1>8. \A s \in Tags \ gone : isDateTag(cats, tags, s)' <=> isDateTag(cats, tags, s)
  BY <1>3, <1>6 DEF Without, isDateTag
<1>9. Unlinked(events, events', gone)
  BY <1>3, <1>4 DEF Relinked, LinksAfter, Unlinked
<1>10. DOMAIN events' \in {DOMAIN events, DOMAIN events \ Linked(gone)}
  <2> DEFINE E == IF deleteEvents THEN Keep(Linked(SynonymGroup(u))) ELSE events
  <2>1. DOMAIN events' = DOMAIN E BY <1>4 DEF DeleteTag, Strip
  <2>2. DOMAIN E = IF deleteEvents THEN DOMAIN events \ Linked(gone) ELSE DOMAIN events
    BY <1>1, <1>4, <1>5, KeptEvents
  <2> QED BY <2>1, <2>2
<1> QED BY <1>1, <1>5, <1>6, <1>7, <1>8, <1>9, <1>10, CountedBefore DEF GetTagUsage, UsageOf

LEMMA CategoryForetold ==
  ASSUME LInv, NEW c \in Cats, NEW moveTags \in BOOLEAN, NEW deleteEvents \in BOOLEAN,
         DeleteCategory(c, moveTags, deleteEvents), Tags \ DOMAIN tags' = Inside(c)
  PROVE  Foretold(GetCategoryUsage(c))
<1>1. Stored BY DEF LInv
<1>2. /\ ~isLocked(c) /\ cats' = Restrict(cats, Cats \ {c})
      /\ moveTags => MoveTags(c)
      /\ ~moveTags => DropTags(c, deleteEvents)
  BY DEF DeleteCategory
<1>3. \A x \in Cats \ {c} : cats'[x] = cats[x] BY <1>2 DEF Restrict
<1>4. /\ Inside(c) \subseteq Tags /\ \A t \in Inside(c) : ~isDateTag(cats, tags, t)
  BY <1>2 DEF Inside, isLocked, isDateTag
<1>5. /\ DOMAIN tags' = Tags \ Inside(c)
      /\ \A t \in Tags \ Inside(c) : tags'[t].cat = tags[t].cat
      /\ Unlinked(events, events', Inside(c))
      /\ DOMAIN events' \in {DOMAIN events, DOMAIN events \ Linked(Inside(c))}
  <2>1. CASE moveTags
    <3>1. PICK o \in Cats :
            /\ events' = events /\ DOMAIN tags' = Tags
            /\ \A t \in Tags : tags'[t].cat = IF tags[t].cat = c THEN o ELSE tags[t].cat
      BY <1>1, <1>2, <2>1, MoveTagsMoves
    <3>2. Inside(c) = {} BY <3>1
    <3>3. \A t \in Tags : tags[t].cat # c BY <3>2 DEF Inside
    <3>4. Unlinked(events, events', {}) BY <1>1, <3>1, StoredParts DEF Unlinked, TypedEvents
    <3> QED BY <3>1, <3>2, <3>3, <3>4
  <2>2. CASE ~moveTags
    <3> DEFINE gone == CascadeTags(Inside(c))
    <3>1. Without(tags, tags', gone) /\ Unlinked(events, events', gone)
      BY <1>1, <1>2, <2>2, DropTagsDrops
    <3>2. gone \subseteq Tags BY <1>4, Cascades
    <3> DEFINE E == IF deleteEvents THEN Keep(Linked(Inside(c))) ELSE events
    <3>3. DOMAIN events' = DOMAIN E BY <1>2, <2>2 DEF DropTags, Strip, Inside
    <3>4. DOMAIN E = IF deleteEvents THEN DOMAIN events \ Linked(Inside(c)) ELSE DOMAIN events
      BY <1>1, KeptEvents
    <3> HIDE DEF gone, E
    <3>5. gone = Inside(c) BY <3>1, <3>2 DEF Without, Tags
    <3> QED BY <3>1, <3>3, <3>4, <3>5 DEF Without, Tags
  <2> QED BY <2>1, <2>2
<1>6. \A t \in Tags \ Inside(c) : isDateTag(cats, tags, t)' <=> isDateTag(cats, tags, t)
  <2>1. \A t \in Tags \ Inside(c) : tags[t].cat \in Cats \ {c} BY <1>1, References DEF Inside
  <2> QED BY <1>3, <1>5, <2>1 DEF isDateTag
<1> QED BY <1>1, <1>4, <1>5, <1>6, CountedBefore DEF GetCategoryUsage, UsageOf, Inside

LEMMA DeletionForetoldStep ==
  ASSUME LInv, FInv, [Next]_vars
  PROVE  DeletionForetold
<1> SUFFICES ASSUME ~crossed, account'.generation = account.generation PROVE
      /\ \A t \in Tags \ DOMAIN tags' :
           (cats' = cats /\ tags[t].parent = None /\ cats[tags[t].cat].kind # "date")
             => Foretold(GetTagUsage(t))
      /\ \A c \in Cats \ DOMAIN cats' :
           Tags \ DOMAIN tags' = {t \in Tags : tags[t].cat = c} => Foretold(GetCategoryUsage(c))
  BY DEF DeletionForetold
<1>1. FlatTags(tags) BY DEF FInv, SynonymsFlat
<1>2. ~Purge BY DEF LInv, Counted, Purge
<1>3. \A g \in DOMAIN groups : DeleteTagGroup(g) => tags' = tags /\ cats' = cats
  BY DEF DeleteTagGroup
<1>4. \A e \in DOMAIN events : DeleteEvent(e) => tags' = tags /\ cats' = cats
  BY DEF DeleteEvent
<1>5. ASSUME NEW d \in Cats, NEW moveTags \in BOOLEAN, NEW deleteEvents \in BOOLEAN,
             DeleteCategory(d, moveTags, deleteEvents)
      PROVE  DOMAIN cats' = Cats \ {d}
  BY <1>5 DEF DeleteCategory, Restrict
<1>6. ASSUME NEW t \in Tags \ DOMAIN tags', cats' = cats, tags[t].parent = None,
             cats[tags[t].cat].kind # "date"
      PROVE  Foretold(GetTagUsage(t))
  <2>1. \E u \in Tags, deleteEvents \in BOOLEAN : DeleteTag(u, deleteEvents)
    BY <1>2, <1>3, <1>4, <1>5, <1>6, OnlyServesDelete DEF Serves, Tags, Cats
  <2> QED BY <1>1, <1>6, <2>1, TagForetold DEF isDateTag
<1>7. ASSUME NEW c \in Cats \ DOMAIN cats', Tags \ DOMAIN tags' = {t \in Tags : tags[t].cat = c}
      PROVE  Foretold(GetCategoryUsage(c))
  <2>1. PICK d \in Cats, moveTags \in BOOLEAN, deleteEvents \in BOOLEAN :
          DeleteCategory(d, moveTags, deleteEvents)
    <3>1. \A u \in Tags, deleteEvents \in BOOLEAN : DeleteTag(u, deleteEvents) => cats' = cats
      BY DEF DeleteTag
    <3> QED BY <1>2, <1>3, <1>4, <1>7, <3>1, OnlyServesDelete DEF Serves, Cats
  <2>2. d = c BY <1>5, <1>7, <2>1
  <2> QED BY <1>7, <2>1, <2>2, CategoryForetold DEF Inside
<1> QED BY <1>6, <1>7

\* What the usage endpoints announce is what the deletion of a tag or a category then
\* does, to the events it deletes or leaves with date tags only, under the same
\* condition.
THEOREM UsageTold == Spec => UsageForetells
<1>1. LInv /\ FInv /\ [Next]_vars => [DeletionForetold]_vars BY DeletionForetoldStep
<1>2. Spec => [](LInv /\ FInv) BY RowsTyped, TagsHang, PTL
<1> QED BY <1>1, <1>2, PTL DEF Spec, UsageForetells
=============================================================================
