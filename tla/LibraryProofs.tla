---------------------------- MODULE LibraryProofs ----------------------------
(***************************************************************************)
(* The user's rows on the server, for every value of the constants: the    *)
(* tables keep their types and foreign keys, the answers to the creates of *)
(* one clientId name one row, and every row is stored in the mode of the   *)
(* account.                                                                *)
(***************************************************************************)
EXTENDS Library, FiniteSetTheorems, TLAPS

-----------------------------------------------------------------------------
(* The inductive invariant.  A request that waits for its transaction      *)
(* brings ids it read when it arrived: they were handed out, so no row     *)
(* created since has one of them.                                          *)

EventPeriods == [first : Nat, last : Nat, ongoing : BOOLEAN]

\* The requests, n being the ids the tables hand out next.
Operations == {"createCategory", "updateCategory", "createTag", "updateTag", "createGroup",
               "updateGroup", "createEvent", "updateEvent", "migrate", "rewrite"}

AskedTag(q, n) ==
  /\ q.name \in AllNames /\ q.cat \in 1..n.cat - 1 /\ q.parent \in 0..n.tag - 1
  /\ q.op = "updateTag" => q.id \in 1..n.tag - 1 /\ q.parent # q.id

AskedGroup(q, n) ==
  /\ q.name \in AllNames /\ q.members \in SUBSET (1..n.tag - 1)
  /\ q.op = "createGroup" => q.cat \in 1..n.cat - 1
  /\ q.op = "updateGroup" => q.id \in 1..n.group - 1

AskedEvent(q, n) ==
  /\ q.cid \in ClientIds \cup {None} /\ q.period \in EventPeriods
  /\ q.date.missing \subseteq AllNames /\ IsFiniteSet(q.date.missing)
  /\ q.date.missing # {} => ~q.e2ee /\ q.date.cat \in Nat
  /\ q.date.found \subseteq 1..n.tag - 1 /\ q.tagsId \subseteq 1..n.tag - 1

AskedMigration(q) ==
  /\ q.enable = ~q.e2ee
  /\ \A t \in DOMAIN q.body.tags : q.body.tags[t] \in AllNames

Asked(q, n) ==
  /\ q.op \in Operations \cup {"none", "again"}
  /\ q.op \in Operations => q.e2ee \in BOOLEAN
  /\ q.op \in {"again", "createCategory"} => q.cid \in ClientIds \cup {None}
  /\ q.op \in {"createTag", "updateTag"} => AskedTag(q, n)
  /\ q.op \in {"createGroup", "updateGroup"} => AskedGroup(q, n)
  /\ q.op \in {"createEvent", "updateEvent"} => AskedEvent(q, n)
  /\ q.op \in {"migrate", "rewrite"} => AskedMigration(q)

Counted == /\ account \in [e2ee : BOOLEAN, generation : Nat]
           /\ account.generation <= sent /\ sent \in 0..MaxRequests

Stored ==
  /\ TypedRows(cats, tags, groups, events)
  /\ Numbered(cats, tags, groups, events, next)
  /\ OncePerClientId(cats) /\ OncePerClientId(events)
  /\ Seeded(cats)

Waiting == DOMAIN w = Workers /\ \A r \in Workers : Asked(w[r], next)

Marks == /\ stale \subseteq Workers /\ crossed \in BOOLEAN /\ mixed \in BOOLEAN
         /\ overlooked \in BOOLEAN /\ veiled \in BOOLEAN

LInv == Counted /\ Stored /\ Waiting /\ Marks

Ids == [cat : Nat \ {0}, tag : Nat \ {0}, group : Nat \ {0}, event : Nat \ {0}]
UpTo(n, m) == n.cat <= m.cat /\ n.tag <= m.tag /\ n.group <= m.group /\ n.event <= m.event

-----------------------------------------------------------------------------
(* The operators of the model.                                             *)

\* Every number names a month, and one of the twelve.
LEMMA MonthNamed ==
  ASSUME NEW m \in Int
  PROVE  /\ m % MonthsPerYear \in 0..MonthsPerYear - 1
         /\ m \div MonthsPerYear \in Int
BY LibraryAssumption

LEMMA MonthType == ASSUME NEW d \in Nat PROVE Month(d) \in Int
BY LibraryAssumption DEF Month

\* The last day of a period, and its months.
End(p) == IF p.last = None THEN p.first ELSE p.last
MonthsOf(p) == Month(p.first)..Month(End(p))

LEMMA PeriodType ==
  ASSUME NEW p \in EventPeriods
  PROVE  p.first \in Nat /\ p.last \in Nat /\ p.ongoing \in BOOLEAN /\ End(p) \in Nat
         /\ Month(p.first) \in Int /\ Month(End(p)) \in Int
<1>1. p.first \in Nat /\ p.last \in Nat /\ p.ongoing \in BOOLEAN BY DEF EventPeriods
<1>2. End(p) \in Nat BY <1>1 DEF End
<1> QED BY <1>1, <1>2, MonthType

LEMMA DateTagNamesOf ==
  ASSUME NEW p
  PROVE  DateTagNames(p) = {MonthName(m) : m \in MonthsOf(p)} \cup {YearName(m) : m \in MonthsOf(p)}
                             \cup (IF p.ongoing THEN {Ongoing} ELSE {})
BY DEF DateTagNames, MonthsOf, End

\* An event has finitely many date tags.
LEMMA DateTagNamesFinite ==
  ASSUME NEW p \in EventPeriods
  PROVE  IsFiniteSet(DateTagNames(p))
<1> DEFINE months == MonthsOf(p)
<1> DEFINE M == {MonthName(m) : m \in months}
<1> DEFINE Y == {YearName(m) : m \in months}
<1> DEFINE O == IF p.ongoing THEN {Ongoing} ELSE {}
<1>1. IsFiniteSet(months) BY PeriodType, FS_Interval DEF MonthsOf
<1>2. DateTagNames(p) = M \cup Y \cup O BY DateTagNamesOf
<1>3. IsFiniteSet(M)
  <2> DEFINE f == [m \in months |-> MonthName(m)]
  <2>1. f \in Surjection(months, M) BY DEF Surjection
  <2> QED BY <1>1, <2>1, FS_Surjection
<1>4. IsFiniteSet(Y)
  <2> DEFINE f == [m \in months |-> YearName(m)]
  <2>1. f \in Surjection(months, Y) BY DEF Surjection
  <2> QED BY <1>1, <2>1, FS_Surjection
<1>5. IsFiniteSet(O) BY FS_EmptySet, FS_Singleton
<1> HIDE DEF M, Y, O
<1>6. IsFiniteSet(M \cup Y) BY <1>3, <1>4, FS_Union
<1>7. IsFiniteSet((M \cup Y) \cup O) BY <1>5, <1>6, FS_Union
<1> QED BY <1>2, <1>7

\* The months and the mark of an open period are reserved.
LEMMA Blacklisted ==
  /\ \A m \in Int : MonthName(m) \in BlacklistTags /\ MonthName(m) \in AllNames
  /\ Ongoing \in BlacklistTags /\ Ongoing \in AllNames
<1>1. \A m \in Int : MonthName(m) \in BlacklistTags
  <2> SUFFICES ASSUME NEW m \in Int PROVE MonthName(m) \in BlacklistTags
    OBVIOUS
  <2>1. m % MonthsPerYear \in 0..MonthsPerYear - 1 BY MonthNamed
  <2>2. (m % MonthsPerYear) % MonthsPerYear = m % MonthsPerYear BY <2>1, LibraryAssumption
  <2>3. MonthName(m % MonthsPerYear) = MonthName(m) BY <2>2 DEF MonthName
  <2> QED BY <2>1, <2>3 DEF BlacklistTags
<1>2. Ongoing \in BlacklistTags BY DEF BlacklistTags
<1>3. \A n \in BlacklistTags : n \in AllNames BY DEF AllNames, isReservedTagName
<1> QED BY <1>1, <1>2, <1>3

\* The names of a period the clients send, or of one with the same months.
LEMMA DateTagNamesTyped ==
  ASSUME NEW p \in Periods, NEW q \in EventPeriods, q.first = p.first, End(q) = End(p)
  PROVE  DateTagNames(q) \subseteq AllNames
<1>1. MonthsOf(q) = MonthsOf(p) BY DEF MonthsOf
<1>2. MonthsOf(q) \subseteq Int BY PeriodType DEF MonthsOf
<1>3. \A m \in MonthsOf(q) : YearName(m) \in AllNames
  <2> SUFFICES ASSUME NEW m \in MonthsOf(q) PROVE YearName(m) \in AllNames
    OBVIOUS
  <2>1. m \div MonthsPerYear \in Years BY NamesAssumption, <1>1 DEF MonthsOf, End
  <2> QED BY <2>1 DEF AllNames, YearName
<1> QED BY <1>2, <1>3, Blacklisted, DateTagNamesOf

LEMMA Normalized ==
  ASSUME NEW p \in Periods
  PROVE  /\ normalized(p) \in EventPeriods
         /\ normalized(p).first = p.first /\ normalized(p).ongoing = p.ongoing
         /\ End(normalized(p)) = End(p)
<1>1. p \in [first : Nat \ {0}, last : Nat, ongoing : BOOLEAN] BY LibraryAssumption
<1> QED BY <1>1 DEF normalized, End, EventPeriods, None

\* A request's names fit, whatever the client typed.
LEMMA TypedNamed == ASSUME NEW n \in Typed PROVE n \in AllNames
BY NamesAssumption DEF AllNames

LEMMA ModeType == ASSUME NEW e PROVE ModeOf(e) \in Modes
BY DEF ModeOf, Modes

\* What goes with deleted tags: they, and the synonyms of what goes.
LEMMA Cascades ==
  ASSUME NEW gone \in SUBSET Tags
  PROVE  /\ gone \subseteq CascadeTags(gone) /\ CascadeTags(gone) \subseteq Tags
         /\ \A t \in Tags : tags[t].parent \in CascadeTags(gone) => t \in CascadeTags(gone)
<1> DEFINE cascades == {S \in SUBSET Tags : gone \subseteq S
                                              /\ \A t \in Tags : tags[t].parent \in S => t \in S}
<1>1. CascadeTags(gone) = {t \in Tags : \A S \in cascades : t \in S} BY DEF CascadeTags
<1>2. gone \subseteq CascadeTags(gone) BY <1>1
<1>3. \A t \in Tags : tags[t].parent \in CascadeTags(gone) => t \in CascadeTags(gone)
  BY <1>1
<1> QED BY <1>1, <1>2, <1>3

LEMMA Picked == ASSUME NEW S, NEW P \in Picks(S) PROVE P \subseteq S
BY DEF Picks, kSubset

-----------------------------------------------------------------------------
(* The date tags of an event.                                              *)

\* What CreateAllTags has to do, N being the names it inserts.
NewDateTags(T, U, d, N, n) ==
  /\ DOMAIN T \subseteq DOMAIN U /\ \A t \in DOMAIN T : U[t] = T[t]
  /\ \A t \in DOMAIN U \ DOMAIN T :
       /\ t \in n..n + Cardinality(N) - 1
       /\ \E name \in N : U[t] = [name |-> name, cat |-> d.cat, parent |-> None, mode |-> "rest"]
  /\ \A name \in d.missing : \E t \in DOMAIN U :
       U[t].name = name /\ U[t].cat = d.cat /\ U[t].mode = "rest"

\* There are as many new ids as new names.
LEMMA IdsForNames ==
  ASSUME NEW N, IsFiniteSet(N), NEW n \in Nat
  PROVE  /\ Cardinality(N) \in Nat
         /\ \E f \in [N -> n..n + Cardinality(N) - 1] : IsInjective(f)
<1>1. Cardinality(N) \in Nat BY FS_CardinalityType
<1> DEFINE K == Cardinality(N)
<1> DEFINE I == n..n + K - 1
<1> HIDE DEF K
<1>2. IsFiniteSet(I) /\ Cardinality(I) = K
  <2>1. n \in Int /\ n + K - 1 \in Int /\ K \in Nat BY <1>1 DEF K
  <2>2. IsFiniteSet(I) /\ Cardinality(I) = IF n > n + K - 1 THEN 0 ELSE n + K - 1 - n + 1
    BY <2>1, FS_Interval
  <2> HIDE DEF I
  <2> QED BY <2>1, <2>2
<1> HIDE DEF I
<1>3. ExistsBijection(N, I) BY <1>2, FS_SameCardinalityBij DEF K
<1>4. PICK f : f \in Bijection(N, I) BY <1>3 DEF ExistsBijection
<1>5. f \in [N -> I] /\ IsInjective(f) BY <1>4 DEF Bijection, Injection
<1> QED BY <1>1, <1>5 DEF I, K

LEMMA CreateAllTagsAdds ==
  ASSUME NEW d, IsFiniteSet(d.missing), next.tag \in Nat, Tags \subseteq 1..next.tag - 1,
         CreateAllTags(d)
  PROVE  /\ Cardinality(Inserted(d)) \in Nat
         /\ NewDateTags(tags, tags', d, Inserted(d), next.tag)
<1> DEFINE N == Inserted(d)
<1>1. IsFiniteSet(N) BY FS_Subset DEF Inserted
<1> DEFINE F == [N -> next.tag..next.tag + Cardinality(N) - 1]
<1> DEFINE new == CHOOSE f \in F : IsInjective(f)
<1>2. Cardinality(N) \in Nat /\ \E f \in F : IsInjective(f) BY <1>1, IdsForNames
<1>3. new \in F /\ IsInjective(new) BY <1>2
<1>4. tags' = [t \in Tags \cup Range(new) |->
                IF t \in Tags THEN tags[t]
                ELSE [name |-> CHOOSE n \in N : new[n] = t, cat |-> d.cat,
                      parent |-> None, mode |-> "rest"]]
  BY DEF CreateAllTags
<1> HIDE DEF new
<1>5. DOMAIN tags' = Tags \cup Range(new) /\ \A t \in Tags : tags'[t] = tags[t] BY <1>4
<1>6. \A t \in Range(new) : t \in next.tag..next.tag + Cardinality(N) - 1 /\ t \notin Tags
  BY <1>2, <1>3 DEF Range
<1>7. \A n \in N : /\ new[n] \in Range(new)
                   /\ tags'[new[n]] = [name |-> n, cat |-> d.cat, parent |-> None, mode |-> "rest"]
  <2> SUFFICES ASSUME NEW n \in N
               PROVE  /\ new[n] \in Range(new)
                      /\ tags'[new[n]] = [name |-> n, cat |-> d.cat, parent |-> None,
                                          mode |-> "rest"]
    OBVIOUS
  <2>1. new[n] \in Range(new) BY <1>3 DEF Range
  <2>2. (CHOOSE k \in N : new[k] = new[n]) = n BY <1>3 DEF IsInjective
  <2> QED BY <1>4, <1>6, <2>1, <2>2
<1>8. \A t \in Range(new) : \E n \in N : t = new[n] BY <1>3 DEF Range
<1>9. \A n \in d.missing : \E t \in DOMAIN tags' :
        tags'[t].name = n /\ tags'[t].cat = d.cat /\ tags'[t].mode = "rest"
  <2> SUFFICES ASSUME NEW n \in d.missing
               PROVE  \E t \in DOMAIN tags' :
                        tags'[t].name = n /\ tags'[t].cat = d.cat /\ tags'[t].mode = "rest"
    OBVIOUS
  <2>1. CASE n \in N
    <3> DEFINE row == [name |-> n, cat |-> d.cat, parent |-> None, mode |-> "rest"]
    <3>1. row.name = n /\ row.cat = d.cat /\ row.mode = "rest" OBVIOUS
    <3> HIDE DEF N
    <3>2. new[n] \in DOMAIN tags' /\ tags'[new[n]] = row BY <1>5, <1>7, <2>1
    <3> HIDE DEF row
    <3> QED BY <3>1, <3>2
  <2>2. CASE n \notin N
    <3>1. PICK t \in Tags : tags[t].name = n /\ tags[t].cat = d.cat /\ tags[t].mode = "rest"
      BY <2>2 DEF Inserted, FindTagIdByTagAndIdCategory
    <3> QED BY <1>5, <3>1
  <2> QED BY <2>1, <2>2
<1>10. \A t \in DOMAIN tags' \ Tags :
         /\ t \in next.tag..next.tag + Cardinality(N) - 1
         /\ \E n \in N : tags'[t] = [name |-> n, cat |-> d.cat, parent |-> None, mode |-> "rest"]
  BY <1>5, <1>6, <1>7, <1>8
<1> QED BY <1>2, <1>5, <1>9, <1>10 DEF NewDateTags, Tags

LEMMA DateTagsAreTags ==
  ASSUME NEW d, d.found \subseteq DOMAIN tags'
  PROVE  DateTagIds(d) \subseteq DOMAIN tags'
BY DEF DateTagIds

LEMMA CategoryFound ==
  ASSUME NEW kind, \E c \in Cats : cats[c].kind = kind
  PROVE  FindIdByKind(kind) \in Cats /\ cats[FindIdByKind(kind)].kind = kind
BY DEF FindIdByKind

LEMMA DateTagsBuilt ==
  ASSUME Stored, NEW p \in Periods
  PROVE  /\ buildDateTags(p).missing \subseteq AllNames /\ IsFiniteSet(buildDateTags(p).missing)
         /\ buildDateTags(p).missing # {} => ~account.e2ee /\ buildDateTags(p).cat \in Nat
         /\ buildDateTags(p).found \subseteq Tags
<1> DEFINE d == buildDateTags(p)
<1>0. p \in EventPeriods BY LibraryAssumption DEF EventPeriods
<1>1. CASE account.e2ee
  <2>1. d.missing = {} /\ d.found = {} BY <1>1 DEF buildDateTags
  <2> QED BY <2>1, FS_EmptySet
<1>2. CASE ~account.e2ee
  <2> DEFINE date == FindIdByKind("date")
  <2>1. /\ d.cat = date /\ d.missing \subseteq DateTagNames(p)
        /\ d.found = UNION {FindTagIdByTagAndIdCategory(n, date) : n \in DateTagNames(p)}
    BY <1>2 DEF buildDateTags
  <2>2. date \in Cats BY CategoryFound DEF Stored, Seeded, Cats
  <2>3. date \in Nat BY <2>2 DEF Stored, Numbered, Cats
  <2> HIDE DEF date
  <2>4. d.found \subseteq Tags BY <2>1 DEF FindTagIdByTagAndIdCategory
  <2>5. DateTagNames(p) \subseteq AllNames BY <1>0, DateTagNamesTyped
  <2>6. IsFiniteSet(d.missing) BY <1>0, <2>1, DateTagNamesFinite, FS_Subset
  <2> QED BY <1>2, <2>1, <2>3, <2>4, <2>5, <2>6
<1> QED BY <1>1, <1>2
-----------------------------------------------------------------------------
(* Each operation keeps the tables as they have to be.                     *)

Kept == Stored' /\ UpTo(next, next')

LEMMA StoredParts ==
  Stored <=> /\ TypedCats(cats) /\ TypedTags(cats, tags) /\ TypedGroups(cats, tags, groups)
             /\ TypedEvents(tags, events) /\ Numbered(cats, tags, groups, events, next)
             /\ OncePerClientId(cats) /\ OncePerClientId(events) /\ Seeded(cats)
BY DEF Stored, TypedRows

LEMMA IdTypes ==
  ASSUME Stored
  PROVE  /\ next \in Ids
         /\ next.cat \in Nat \ {0} /\ next.tag \in Nat \ {0}
         /\ next.group \in Nat \ {0} /\ next.event \in Nat \ {0}
         /\ \A c \in DOMAIN cats : c \in Nat /\ c >= 1 /\ c < next.cat
         /\ \A t \in DOMAIN tags : t \in Nat /\ t >= 1 /\ t < next.tag
         /\ \A g \in DOMAIN groups : g \in Nat /\ g >= 1 /\ g < next.group
         /\ \A e \in DOMAIN events : e \in Nat /\ e >= 1 /\ e < next.event
BY DEF Stored, Numbered, Ids

\* What refers to a tag or a category.
LEMMA References ==
  ASSUME Stored
  PROVE  /\ \A t \in Tags : tags[t].parent \in Tags \cup {None} /\ tags[t].cat \in Cats
         /\ \A g \in DOMAIN groups : groups[g].members \subseteq Tags
         /\ \A e \in DOMAIN events : events[e].links \subseteq Tags
         /\ None \notin Tags
BY StoredParts DEF TypedTags, TypedGroups, TypedEvents, Numbered, Tags, Cats, None

LEMMA CategoryInserted ==
  ASSUME Stored, NEW q, q.cid \in ClientIds \cup {None}, InsertCategory(q)
  PROVE  Kept
<1> DEFINE row == [kind |-> "custom", cid |-> q.cid, mode |-> ModeOf(q.e2ee)]
<1>1. row \in CategoryRows /\ row.cid = q.cid /\ row.kind = "custom" BY ModeType DEF CategoryRows
<1>2. /\ cats' = Extend(cats, next.cat, row) /\ next' = [next EXCEPT !.cat = @ + 1]
      /\ tags' = tags /\ groups' = groups /\ events' = events
      /\ \A c \in Cats : q.cid # None => cats[c].cid # q.cid
  BY DEF InsertCategory, FindIdByClientId, Cats
<1> HIDE DEF row
<1>3. /\ DOMAIN cats' = Cats \cup {next.cat} /\ cats'[next.cat] = row
      /\ \A c \in Cats : cats'[c] = cats[c]
  BY <1>2, IdTypes DEF Extend, Cats
<1>4. next \in Ids /\ next' \in Ids /\ UpTo(next, next') /\ next'.cat = next.cat + 1
      /\ next'.tag = next.tag /\ next'.group = next.group /\ next'.event = next.event
  BY <1>2 DEF Stored, Numbered, Ids, UpTo
<1>5. TypedCats(cats)' BY <1>1, <1>3, StoredParts DEF TypedCats, Cats
<1>6. TypedTags(cats, tags)' /\ TypedGroups(cats, tags, groups)' /\ TypedEvents(tags, events)'
  BY <1>2, <1>3, StoredParts DEF TypedTags, TypedGroups, TypedEvents, Cats
<1>7. Numbered(cats, tags, groups, events, next)'
  <2>1. DOMAIN cats' \subseteq 1..next'.cat - 1 BY <1>3, <1>4, IdTypes DEF Cats
  <2> QED BY <1>2, <1>4, <2>1, StoredParts DEF Numbered, Ids
<1>8. OncePerClientId(cats)' BY <1>1, <1>2, <1>3, StoredParts DEF OncePerClientId, Cats
<1>9. OncePerClientId(events)' BY <1>2, StoredParts
<1>10. Seeded(cats)' BY <1>1, <1>3, StoredParts DEF Seeded, Cats
<1> QED BY <1>4, <1>5, <1>6, <1>7, <1>8, <1>9, <1>10 DEF Kept, Stored, TypedRows

LEMMA CategoryUpdated ==
  ASSUME Stored, NEW q, UpdateCategory(q)
  PROVE  Kept
<1> DEFINE mode == ModeOf(q.e2ee)
<1>1. mode \in Modes BY ModeType
<1>2. /\ cats' = IF q.id \in Cats THEN [cats EXCEPT ![q.id].mode = mode] ELSE cats
      /\ tags' = tags /\ groups' = groups /\ events' = events /\ next' = next
  BY DEF UpdateCategory
<1> HIDE DEF mode
<1>3. \A c \in Cats : cats[c] \in CategoryRows BY StoredParts DEF TypedCats, Cats
<1>4. DOMAIN cats' = Cats BY <1>2 DEF Cats
<1>5. \A c \in Cats : /\ cats'[c] \in CategoryRows
                      /\ cats'[c].cid = cats[c].cid /\ cats'[c].kind = cats[c].kind
  BY <1>1, <1>2, <1>3 DEF Cats, CategoryRows
<1>6. TypedCats(cats)' BY <1>4, <1>5 DEF TypedCats
<1>7. TypedTags(cats, tags)' /\ TypedGroups(cats, tags, groups)' /\ TypedEvents(tags, events)'
  BY <1>2, <1>4, StoredParts DEF TypedTags, TypedGroups, TypedEvents, Cats
<1>8. Numbered(cats, tags, groups, events, next)' /\ UpTo(next, next')
  BY <1>2, <1>4, IdTypes, StoredParts DEF Numbered, UpTo, Cats
<1>9. OncePerClientId(cats)' BY <1>4, <1>5, StoredParts DEF OncePerClientId, Cats
<1>10. OncePerClientId(events)' BY <1>2, StoredParts
<1>11. Seeded(cats)' BY <1>4, <1>5, StoredParts DEF Seeded, Cats
<1> QED BY <1>6, <1>7, <1>8, <1>9, <1>10, <1>11 DEF Kept, Stored, TypedRows

\* Tables that lose rows, and references to lost rows.
LEMMA Stripped ==
  ASSUME NEW table, NEW field, NEW gone
  PROVE  /\ DOMAIN Strip(table, field, gone) = DOMAIN table
         /\ \A x \in DOMAIN table :
              Strip(table, field, gone)[x] = [table[x] EXCEPT ![field] = @ \ gone]
BY DEF Strip

LEMMA GroupStripped ==
  ASSUME NEW G \in GroupRows, NEW gone
  PROVE  /\ [G EXCEPT !.members = @ \ gone] \in GroupRows
         /\ [G EXCEPT !.members = @ \ gone].members = G.members \ gone
         /\ [G EXCEPT !.members = @ \ gone].cat = G.cat
         /\ [G EXCEPT !.members = @ \ gone].mode = G.mode
BY DEF GroupRows

LEMMA EventStripped ==
  ASSUME NEW E \in EventRows, NEW gone
  PROVE  LET F == [E EXCEPT !.links = @ \ gone] IN
         /\ F \in EventRows /\ F.links = E.links \ gone /\ F.cid = E.cid /\ F.mode = E.mode
         /\ F.first = E.first /\ F.last = E.last /\ F.ongoing = E.ongoing
BY DEF EventRows

LEMMA MembersStripped ==
  ASSUME NEW G, NEW gone, \A g \in DOMAIN G : G[g] \in GroupRows
  PROVE  LET H == Strip(G, "members", gone) IN
         /\ DOMAIN H = DOMAIN G
         /\ \A g \in DOMAIN G : /\ H[g] \in GroupRows /\ H[g].members = G[g].members \ gone
                                /\ H[g].cat = G[g].cat /\ H[g].mode = G[g].mode
BY GroupStripped DEF Strip

LEMMA LinksStripped ==
  ASSUME NEW E, NEW gone, \A e \in DOMAIN E : E[e] \in EventRows
  PROVE  LET F == Strip(E, "links", gone) IN
         /\ DOMAIN F = DOMAIN E
         /\ \A e \in DOMAIN E :
              /\ F[e] \in EventRows /\ F[e].links = E[e].links \ gone /\ F[e].cid = E[e].cid
              /\ F[e].mode = E[e].mode /\ F[e].first = E[e].first /\ F[e].last = E[e].last
              /\ F[e].ongoing = E[e].ongoing
<1> DEFINE F == Strip(E, "links", gone)
<1>1. DOMAIN F = DOMAIN E /\ \A e \in DOMAIN E : F[e] = [E[e] EXCEPT !.links = @ \ gone]
  BY DEF Strip
<1> HIDE DEF F
<1>2. ASSUME NEW e \in DOMAIN E
      PROVE  /\ F[e] \in EventRows /\ F[e].links = E[e].links \ gone /\ F[e].cid = E[e].cid
             /\ F[e].mode = E[e].mode /\ F[e].first = E[e].first /\ F[e].last = E[e].last
             /\ F[e].ongoing = E[e].ongoing
  <2>1. E[e] \in EventRows OBVIOUS
  <2> DEFINE row == E[e]
  <2> HIDE DEF row
  <2>2. row \in EventRows BY <2>1 DEF row
  <2>3. LET R == [row EXCEPT !.links = @ \ gone] IN
        /\ R \in EventRows /\ R.links = row.links \ gone /\ R.cid = row.cid
        /\ R.mode = row.mode /\ R.first = row.first /\ R.last = row.last
        /\ R.ongoing = row.ongoing
    BY <2>2, EventStripped
  <2> QED BY <1>1, <2>3 DEF row
<1> QED BY <1>1, <1>2 DEF F
\* A category deleted with moveTags: what is in it goes to "other".
LEMMA MoveTagsMoves ==
  ASSUME Stored, NEW c \in Cats, ~isLocked(c), MoveTags(c)
  PROVE  \E o \in Cats :
           /\ o # c /\ cats[o].kind = "other" /\ events' = events
           /\ DOMAIN tags' = Tags /\ DOMAIN groups' = DOMAIN groups
           /\ \A t \in Tags :
                /\ tags'[t] \in TagRows
                /\ tags'[t].name = tags[t].name /\ tags'[t].parent = tags[t].parent
                /\ tags'[t].mode = tags[t].mode
                /\ tags'[t].cat = IF tags[t].cat = c THEN o ELSE tags[t].cat
           /\ \A g \in DOMAIN groups :
                /\ groups'[g] \in GroupRows
                /\ groups'[g].name = groups[g].name /\ groups'[g].members = groups[g].members
                /\ groups'[g].mode = groups[g].mode
                /\ groups'[g].cat = IF groups[g].cat = c THEN o ELSE groups[g].cat
<1> DEFINE o == FindIdByKind("other")
<1>1. o \in Cats /\ cats[o].kind = "other" BY CategoryFound DEF Stored, Seeded, Cats
<1>2. o # c BY <1>1 DEF isLocked
<1>3. o \in Nat BY <1>1, IdTypes DEF Cats
<1>4. /\ tags' = [t \in DOMAIN tags |->
                    IF tags[t].cat = c THEN [tags[t] EXCEPT !.cat = o] ELSE tags[t]]
      /\ groups' = [g \in DOMAIN groups |->
                    IF groups[g].cat = c THEN [groups[g] EXCEPT !.cat = o] ELSE groups[g]]
      /\ events' = events
  BY DEF MoveTags
<1> HIDE DEF o
<1>5. /\ \A t \in DOMAIN tags : tags[t] \in TagRows
      /\ \A g \in DOMAIN groups : groups[g] \in GroupRows
  BY StoredParts DEF TypedTags, TypedGroups
<1>6. \A t \in Tags :
         /\ tags'[t] \in TagRows
         /\ tags'[t].name = tags[t].name /\ tags'[t].parent = tags[t].parent
         /\ tags'[t].mode = tags[t].mode
         /\ tags'[t].cat = IF tags[t].cat = c THEN o ELSE tags[t].cat
  BY <1>3, <1>4, <1>5 DEF TagRows, Tags
<1>7. \A g \in DOMAIN groups :
         /\ groups'[g] \in GroupRows
         /\ groups'[g].name = groups[g].name /\ groups'[g].members = groups[g].members
         /\ groups'[g].mode = groups[g].mode
         /\ groups'[g].cat = IF groups[g].cat = c THEN o ELSE groups[g].cat
  BY <1>3, <1>4, <1>5 DEF GroupRows
<1>8. DOMAIN tags' = Tags /\ DOMAIN groups' = DOMAIN groups BY <1>4 DEF Tags
<1> QED BY <1>1, <1>2, <1>4, <1>6, <1>7, <1>8

\* ... or without: the tags go, and what refers to them.
Inside(c) == {t \in Tags : tags[t].cat = c}

\* The events F are events of E, less the links to the tags gone.
Unlinked(E, F, gone) ==
  /\ DOMAIN F \subseteq DOMAIN E
  /\ \A e \in DOMAIN F :
       /\ F[e] \in EventRows /\ F[e].links = E[e].links \ gone /\ F[e].cid = E[e].cid
       /\ F[e].mode = E[e].mode /\ F[e].first = E[e].first /\ F[e].last = E[e].last
       /\ F[e].ongoing = E[e].ongoing

\* The groups H are groups of G, less the members gone.
Ungrouped(G, H, gone) ==
  /\ DOMAIN H \subseteq DOMAIN G
  /\ \A g \in DOMAIN H : /\ H[g] \in GroupRows /\ H[g].members = G[g].members \ gone
                         /\ H[g].cat = G[g].cat /\ H[g].mode = G[g].mode

\* The rows T are those of S but the ones gone.
Without(S, T, gone) == DOMAIN T = DOMAIN S \ gone /\ \A t \in DOMAIN T : T[t] = S[t]

LEMMA KeptEvents ==
  ASSUME Stored, NEW S
  PROVE  /\ DOMAIN Keep(S) = DOMAIN events \ S
         /\ \A e \in DOMAIN Keep(S) : Keep(S)[e] = events[e] /\ Keep(S)[e] \in EventRows
BY StoredParts DEF Keep, Restrict, TypedEvents

LEMMA DropTagsDrops ==
  ASSUME Stored, NEW c \in Cats, NEW deleteEvents, DropTags(c, deleteEvents)
  PROVE  LET gone == CascadeTags(Inside(c)) IN
         /\ Without(tags, tags', gone) /\ Ungrouped(groups, groups', gone)
         /\ Unlinked(events, events', gone)
         /\ \A g \in DOMAIN groups' : groups[g].cat # c
<1> DEFINE gone == CascadeTags(Inside(c))
<1> DEFINE G == Restrict(groups, {g \in DOMAIN groups : groups[g].cat # c})
<1> DEFINE E == IF deleteEvents THEN Keep(Linked(Inside(c))) ELSE events
<1>1. /\ tags' = Restrict(tags, Tags \ gone) /\ groups' = Strip(G, "members", gone)
      /\ events' = Strip(E, "links", gone)
  BY DEF DropTags, Inside
<1>2. /\ DOMAIN G \subseteq DOMAIN groups
      /\ \A g \in DOMAIN G : G[g] = groups[g] /\ G[g] \in GroupRows /\ groups[g].cat # c
  BY StoredParts DEF Restrict, TypedGroups
<1>3. /\ DOMAIN E \subseteq DOMAIN events
      /\ \A e \in DOMAIN E : E[e] = events[e] /\ E[e] \in EventRows
  <2>1. CASE deleteEvents BY <2>1, KeptEvents
  <2>2. CASE ~deleteEvents BY <2>2, StoredParts DEF TypedEvents
  <2> QED BY <2>1, <2>2
<1> HIDE DEF gone, G, E
<1>4. Without(tags, tags', gone) BY <1>1 DEF Without, Restrict, Tags
<1>5. /\ DOMAIN groups' = DOMAIN G
      /\ \A g \in DOMAIN G : /\ groups'[g] \in GroupRows
                             /\ groups'[g].members = G[g].members \ gone
                             /\ groups'[g].cat = G[g].cat /\ groups'[g].mode = G[g].mode
  BY <1>1, <1>2, MembersStripped
<1>6. /\ DOMAIN events' = DOMAIN E
      /\ \A e \in DOMAIN E :
           /\ events'[e] \in EventRows /\ events'[e].links = E[e].links \ gone
           /\ events'[e].cid = E[e].cid /\ events'[e].mode = E[e].mode
           /\ events'[e].first = E[e].first /\ events'[e].last = E[e].last
           /\ events'[e].ongoing = E[e].ongoing
  BY <1>1, <1>3, LinksStripped
<1>7. Ungrouped(groups, groups', gone) /\ \A g \in DOMAIN groups' : groups[g].cat # c
  BY <1>2, <1>5 DEF Ungrouped
<1>8. Unlinked(events, events', gone) BY <1>3, <1>6 DEF Unlinked
<1> QED BY <1>4, <1>7, <1>8 DEF gone

\* Deleted tags leave the tables with their foreign keys.
LEMMA RowsWithout ==
  ASSUME Stored, NEW gone, gone \subseteq Tags,
         \A t \in Tags : tags[t].parent \in gone => t \in gone,
         Without(tags, tags', gone), Ungrouped(groups, groups', gone),
         DOMAIN cats' \subseteq Cats,
         \A t \in DOMAIN tags' : tags[t].cat \in DOMAIN cats',
         \A g \in DOMAIN groups' : groups[g].cat \in DOMAIN cats'
  PROVE  TypedTags(cats, tags)' /\ TypedGroups(cats, tags, groups)'
<1>1. TypedTags(cats, tags)'
  BY StoredParts DEF TypedTags, Without, Tags
<1>2. TypedGroups(cats, tags, groups)'
  BY StoredParts DEF TypedGroups, Without, Ungrouped, Tags
<1> QED BY <1>1, <1>2

LEMMA CategoryDeleted ==
  ASSUME Stored, NEW c, NEW moveTags \in BOOLEAN, NEW deleteEvents,
         DeleteCategory(c, moveTags, deleteEvents)
  PROVE  Kept
<1>1. /\ c \in Cats /\ ~isLocked(c) /\ cats' = Restrict(cats, Cats \ {c}) /\ next' = next
      /\ moveTags => MoveTags(c)
      /\ ~moveTags => DropTags(c, deleteEvents)
  BY DEF DeleteCategory
<1>2. DOMAIN cats' = Cats \ {c} /\ \A x \in Cats \ {c} : cats'[x] = cats[x]
  BY <1>1 DEF Restrict
<1>3. TypedCats(cats)' BY <1>2, StoredParts DEF TypedCats, Cats
<1>4. OncePerClientId(cats)' BY <1>2, StoredParts DEF OncePerClientId, Cats
<1>5. Seeded(cats)' BY <1>1, <1>2, StoredParts DEF Seeded, Cats, isLocked
<1>6. /\ TypedTags(cats, tags)' /\ TypedGroups(cats, tags, groups)' /\ TypedEvents(tags, events)'
      /\ OncePerClientId(events)'
      /\ DOMAIN tags' \subseteq Tags /\ DOMAIN groups' \subseteq DOMAIN groups
      /\ DOMAIN events' \subseteq DOMAIN events
  <2>1. CASE moveTags
    <3>1. PICK o \in Cats :
           /\ o # c /\ cats[o].kind = "other" /\ events' = events
           /\ DOMAIN tags' = Tags /\ DOMAIN groups' = DOMAIN groups
           /\ \A t \in Tags :
                /\ tags'[t] \in TagRows
                /\ tags'[t].name = tags[t].name /\ tags'[t].parent = tags[t].parent
                /\ tags'[t].mode = tags[t].mode
                /\ tags'[t].cat = IF tags[t].cat = c THEN o ELSE tags[t].cat
           /\ \A g \in DOMAIN groups :
                /\ groups'[g] \in GroupRows
                /\ groups'[g].name = groups[g].name /\ groups'[g].members = groups[g].members
                /\ groups'[g].mode = groups[g].mode
                /\ groups'[g].cat = IF groups[g].cat = c THEN o ELSE groups[g].cat
      BY <1>1, <2>1, MoveTagsMoves
    <3>2. TypedTags(cats, tags)' BY <1>2, <3>1, StoredParts DEF TypedTags, Tags, Cats
    <3>3. TypedGroups(cats, tags, groups)' BY <1>2, <3>1, StoredParts DEF TypedGroups, Tags, Cats
    <3>4. TypedEvents(tags, events)' /\ OncePerClientId(events)'
      BY <3>1, StoredParts DEF TypedEvents, Tags
    <3> QED BY <3>1, <3>2, <3>3, <3>4
  <2>2. CASE ~moveTags
    <3> DEFINE gone == CascadeTags(Inside(c))
    <3>1. /\ Without(tags, tags', gone) /\ Ungrouped(groups, groups', gone)
          /\ Unlinked(events, events', gone)
          /\ \A g \in DOMAIN groups' : groups[g].cat # c
      BY <1>1, <2>2, DropTagsDrops
    <3>2. Inside(c) \in SUBSET Tags BY DEF Inside
    <3>3. /\ Inside(c) \subseteq gone /\ gone \subseteq Tags
          /\ \A t \in Tags : tags[t].parent \in gone => t \in gone
      BY <3>2, Cascades
    <3> HIDE DEF gone
    <3>4. \A t \in DOMAIN tags' : tags[t].cat \in DOMAIN cats'
      BY <1>2, <3>1, <3>3, StoredParts DEF Without, Inside, TypedTags, Tags, Cats
    <3>5. \A g \in DOMAIN groups' : groups[g].cat \in DOMAIN cats'
      BY <1>2, <3>1, StoredParts DEF Ungrouped, TypedGroups, Cats
    <3>6. TypedTags(cats, tags)' /\ TypedGroups(cats, tags, groups)'
      BY <1>2, <3>1, <3>3, <3>4, <3>5, RowsWithout
    <3>7. TypedEvents(tags, events)'
      BY <3>1, StoredParts DEF TypedEvents, Unlinked, Without
    <3>8. OncePerClientId(events)' BY <3>1, StoredParts DEF OncePerClientId, Unlinked
    <3> QED BY <3>1, <3>6, <3>7, <3>8 DEF Without, Ungrouped, Unlinked, Tags
  <2> QED BY <2>1, <2>2
<1>7. Numbered(cats, tags, groups, events, next)' /\ UpTo(next, next')
  BY <1>1, <1>2, <1>6, IdTypes, StoredParts DEF Numbered, UpTo, Cats, Tags
<1> QED BY <1>3, <1>4, <1>5, <1>6, <1>7 DEF Kept, Stored, TypedRows

-----------------------------------------------------------------------------
(* Tags and groups. *)

LEMMA TagRowTyped ==
  ASSUME Stored, NEW q, AskedTag(q, next)
  PROVE  /\ TagRow(q) \in TagRows /\ TagRow(q).name = q.name /\ TagRow(q).cat = q.cat
         /\ TagRow(q).parent = q.parent /\ TagRow(q).mode = ModeOf(q.e2ee)
<1>1. q.name \in AllNames /\ q.cat \in Nat /\ q.parent \in Nat BY IdTypes DEF AskedTag
<1> QED BY <1>1, ModeType DEF TagRow, TagRows

LEMMA TagCreated ==
  ASSUME Stored, NEW q, AskedTag(q, next), CreateTag(q)
  PROVE  /\ Kept
         /\ DOMAIN tags' = Tags \cup {next.tag} /\ tags'[next.tag] = TagRow(q)
         /\ \A t \in Tags : tags'[t] = tags[t]
<1> DEFINE row == TagRow(q)
<1>1. row \in TagRows /\ row.cat = q.cat /\ row.parent = q.parent BY TagRowTyped
<1>2. /\ q.cat \in Cats /\ (q.parent = None \/ q.parent \in Tags)
      /\ tags' = Extend(tags, next.tag, row) /\ next' = [next EXCEPT !.tag = @ + 1]
      /\ cats' = cats /\ groups' = groups /\ events' = events
  BY DEF CreateTag, TagRefersToRows
<1> HIDE DEF row
<1>3. /\ DOMAIN tags' = Tags \cup {next.tag} /\ tags'[next.tag] = row
      /\ \A t \in Tags : tags'[t] = tags[t]
  BY <1>2, IdTypes DEF Extend, Tags
<1>4. next' \in Ids /\ UpTo(next, next') /\ next'.tag = next.tag + 1
      /\ next'.cat = next.cat /\ next'.group = next.group /\ next'.event = next.event
  BY <1>2, IdTypes DEF Ids, UpTo
<1>5. TypedTags(cats, tags)' BY <1>1, <1>2, <1>3, StoredParts DEF TypedTags, Cats, Tags
<1>6. TypedGroups(cats, tags, groups)' /\ TypedEvents(tags, events)'
  BY <1>2, <1>3, StoredParts DEF TypedGroups, TypedEvents, Tags
<1>7. Numbered(cats, tags, groups, events, next)'
  <2>1. DOMAIN tags' \subseteq 1..next'.tag - 1 BY <1>3, <1>4, IdTypes DEF Tags
  <2> QED BY <1>2, <1>4, <2>1, StoredParts DEF Numbered, Ids
<1>8. TypedCats(cats)' /\ OncePerClientId(cats)' /\ OncePerClientId(events)' /\ Seeded(cats)'
  BY <1>2, StoredParts
<1> QED BY <1>3, <1>4, <1>5, <1>6, <1>7, <1>8 DEF Kept, Stored, TypedRows, row

\* A member that becomes a synonym hands its place to its main tag.
MembersAfter(q, G) ==
  IF q.id \notin G.members THEN G.members
  ELSE IF q.parent # None
  THEN (G.members \ {q.id}) \cup (IF G.cat = q.cat THEN {q.parent} ELSE {})
  ELSE IF G.cat # q.cat THEN G.members \ {q.id} ELSE G.members

LEMMA MembershipsAfter ==
  ASSUME Stored, NEW q, AskedTag(q, next)
  PROVE  /\ DOMAIN Memberships(q) = DOMAIN groups
         /\ \A g \in DOMAIN groups :
              LET H == Memberships(q)[g] IN
              /\ H \in GroupRows /\ H.members = MembersAfter(q, groups[g])
              /\ H.cat = groups[g].cat /\ H.mode = groups[g].mode
<1>1. q.parent \in Nat BY IdTypes DEF AskedTag
<1>2. DOMAIN Memberships(q) = DOMAIN groups BY DEF Memberships
<1>3. ASSUME NEW g \in DOMAIN groups
      PROVE  LET H == Memberships(q)[g] IN
             /\ H \in GroupRows /\ H.members = MembersAfter(q, groups[g])
             /\ H.cat = groups[g].cat /\ H.mode = groups[g].mode
  <2> DEFINE G == groups[g]
  <2>1. G \in GroupRows BY <1>3, StoredParts DEF TypedGroups
  <2>2. Memberships(q)[g] =
          IF q.id \notin G.members THEN G
          ELSE IF q.parent # None
          THEN [G EXCEPT !.members = (@ \ {q.id}) \cup (IF G.cat = q.cat THEN {q.parent} ELSE {})]
          ELSE IF G.cat # q.cat THEN [G EXCEPT !.members = @ \ {q.id}] ELSE G
    BY <1>3 DEF Memberships
  <2> HIDE DEF G
  <2>3. CASE q.id \notin G.members BY <2>1, <2>2, <2>3 DEF MembersAfter, G
  <2>4. CASE q.id \in G.members /\ q.parent # None
    <3> DEFINE M == (G.members \ {q.id}) \cup (IF G.cat = q.cat THEN {q.parent} ELSE {})
    <3>1. M \subseteq Nat BY <1>1, <2>1 DEF GroupRows
    <3>2. Memberships(q)[g] = [G EXCEPT !.members = M] BY <2>2, <2>4
    <3>3. MembersAfter(q, G) = M BY <2>4 DEF MembersAfter
    <3> HIDE DEF M
    <3> QED BY <2>1, <3>1, <3>2, <3>3 DEF GroupRows, G
  <2>5. CASE q.id \in G.members /\ q.parent = None
    <3>1. CASE G.cat = q.cat BY <2>1, <2>2, <2>5, <3>1 DEF MembersAfter, G
    <3>2. CASE G.cat # q.cat
      <4> DEFINE M == G.members \ {q.id}
      <4>1. M \subseteq Nat BY <2>1 DEF GroupRows
      <4>2. Memberships(q)[g] = [G EXCEPT !.members = M] BY <2>2, <2>5, <3>2
      <4>3. MembersAfter(q, G) = M BY <2>5, <3>2 DEF MembersAfter
      <4> HIDE DEF M
      <4> QED BY <2>1, <4>1, <4>2, <4>3 DEF GroupRows, G
    <3> QED BY <3>1, <3>2
  <2> QED BY <2>3, <2>4, <2>5
<1> QED BY <1>2, <1>3

\* A tag as it is after its update, or that of the tag it is a synonym of.
TagAfter(q, t, row) ==
  /\ row \in TagRows
  /\ t = q.id => row = TagRow(q)
  /\ t # q.id => /\ row.name = tags[t].name /\ row.parent = tags[t].parent
                 /\ row.mode = tags[t].mode
                 /\ row.cat = IF q.parent = None /\ tags[t].parent = q.id THEN q.cat ELSE tags[t].cat

LEMMA SynonymsFollow ==
  ASSUME Stored, NEW q, AskedTag(q, next)
  PROVE  /\ DOMAIN WithSynonyms(q) = Tags
         /\ \A t \in Tags : TagAfter(q, t, WithSynonyms(q)[t])
<1>1. DOMAIN WithSynonyms(q) = Tags BY DEF WithSynonyms
<1>2. ASSUME NEW t \in Tags PROVE TagAfter(q, t, WithSynonyms(q)[t])
  <2>1. tags[t] \in TagRows BY <1>2, StoredParts DEF TypedTags, Tags
  <2>2. q.cat \in Nat BY IdTypes DEF AskedTag
  <2>3. WithSynonyms(q)[t] = IF t = q.id THEN TagRow(q)
                             ELSE IF q.parent = None /\ tags[t].parent = q.id
                             THEN [tags[t] EXCEPT !.cat = q.cat] ELSE tags[t]
    BY <1>2 DEF WithSynonyms
  <2>4. CASE t = q.id BY <2>3, <2>4, TagRowTyped DEF TagAfter
  <2>5. CASE t # q.id BY <2>1, <2>2, <2>3, <2>5 DEF TagAfter, TagRows
  <2> QED BY <2>4, <2>5
<1> QED BY <1>1, <1>2

LEMMA TagUpdated ==
  ASSUME Stored, NEW q, AskedTag(q, next), q.op = "updateTag", UpdateTag(q)
  PROVE  /\ Kept
         /\ DOMAIN tags' = Tags /\ \A t \in Tags : TagAfter(q, t, tags'[t])
         /\ DOMAIN groups' = DOMAIN groups
         /\ \A g \in DOMAIN groups :
              /\ groups'[g].members = MembersAfter(q, groups[g])
              /\ groups'[g].cat = groups[g].cat /\ groups'[g].mode = groups[g].mode
<1>1. /\ q.id \in Tags => q.cat \in Cats /\ (q.parent = None \/ q.parent \in Tags)
      /\ tags' = WithSynonyms(q) /\ groups' = Memberships(q)
      /\ cats' = cats /\ events' = events /\ next' = next
  BY DEF UpdateTag, TagRefersToRows
<1>2. DOMAIN tags' = Tags /\ \A t \in Tags : TagAfter(q, t, tags'[t])
  BY <1>1, SynonymsFollow
<1>3. /\ DOMAIN groups' = DOMAIN groups
      /\ \A g \in DOMAIN groups :
           /\ groups'[g] \in GroupRows /\ groups'[g].members = MembersAfter(q, groups[g])
           /\ groups'[g].cat = groups[g].cat /\ groups'[g].mode = groups[g].mode
  BY <1>1, MembershipsAfter
<1>4. q.id \in Nat /\ q.id # None BY IdTypes DEF AskedTag, None
<1>5. TypedTags(cats, tags)'
  <2>1. ASSUME NEW t \in Tags
        PROVE  tags'[t] \in TagRows /\ tags'[t].cat \in DOMAIN cats'
               /\ tags'[t].parent \in DOMAIN tags' \cup {None}
    <3>1. TagAfter(q, t, tags'[t]) BY <1>2
    <3>2. tags[t].cat \in Cats /\ tags[t].parent \in Tags \cup {None}
      BY StoredParts DEF TypedTags, Tags, Cats
    <3>3. CASE t = q.id BY <1>1, <1>2, <3>1, <3>3, TagRowTyped DEF TagAfter, Cats
    <3>4. CASE t # q.id
      BY <1>1, <1>2, <1>4, <3>1, <3>2, <3>4 DEF TagAfter, Cats
    <3> QED BY <3>3, <3>4
  <2> QED BY <1>2, <2>1 DEF TypedTags
<1>6. TypedGroups(cats, tags, groups)'
  <2>1. ASSUME NEW g \in DOMAIN groups PROVE MembersAfter(q, groups[g]) \subseteq Tags
    <3>1. groups[g].members \subseteq Tags BY StoredParts DEF TypedGroups, Tags
    <3> QED BY <1>1, <3>1 DEF MembersAfter
  <2> QED BY <1>1, <1>2, <1>3, <2>1, StoredParts DEF TypedGroups
<1>7. TypedEvents(tags, events)' BY <1>1, <1>2, StoredParts DEF TypedEvents, Tags
<1>8. Numbered(cats, tags, groups, events, next)' /\ UpTo(next, next')
  BY <1>1, <1>2, <1>3, IdTypes, StoredParts DEF Numbered, UpTo, Tags
<1>9. TypedCats(cats)' /\ OncePerClientId(cats)' /\ OncePerClientId(events)' /\ Seeded(cats)'
  BY <1>1, StoredParts
<1> QED BY <1>2, <1>3, <1>5, <1>6, <1>7, <1>8, <1>9 DEF Kept, Stored, TypedRows

\* An event's links once a tag is deleted.
LinksAfter(t, links, gone) ==
  (IF t \in links /\ tags[t].parent # None THEN (links \ {t}) \cup {tags[t].parent} ELSE links)
    \ gone

Relinked(E, F, t, gone) ==
  /\ DOMAIN F \subseteq DOMAIN E
  /\ \A e \in DOMAIN F :
       /\ F[e] \in EventRows /\ F[e].links = LinksAfter(t, E[e].links, gone) /\ F[e].cid = E[e].cid
       /\ F[e].mode = E[e].mode /\ F[e].first = E[e].first /\ F[e].last = E[e].last
       /\ F[e].ongoing = E[e].ongoing

LEMMA Repointed ==
  ASSUME Stored, NEW t \in Tags, tags[t].parent # None, NEW e \in DOMAIN events
  PROVE  /\ DOMAIN Repoint(t) = DOMAIN events
         /\ Repoint(t)[e] \in EventRows
         /\ Repoint(t)[e].links = IF t \in events[e].links
                                  THEN (events[e].links \ {t}) \cup {tags[t].parent}
                                  ELSE events[e].links
         /\ Repoint(t)[e].cid = events[e].cid /\ Repoint(t)[e].mode = events[e].mode
         /\ Repoint(t)[e].first = events[e].first /\ Repoint(t)[e].last = events[e].last
         /\ Repoint(t)[e].ongoing = events[e].ongoing
<1> DEFINE row == events[e]
<1> DEFINE L == (row.links \ {t}) \cup {tags[t].parent}
<1>1. row \in EventRows BY StoredParts DEF TypedEvents
<1>2. tags[t].parent \in Nat BY StoredParts DEF TypedTags, TagRows, Tags
<1>3. DOMAIN Repoint(t) = DOMAIN events
      /\ Repoint(t)[e] = IF t \in row.links THEN [row EXCEPT !.links = L] ELSE row
  BY DEF Repoint
<1> HIDE DEF row
<1>4. L \subseteq Nat BY <1>1, <1>2 DEF EventRows
<1>5. L = (row.links \ {t}) \cup {tags[t].parent} OBVIOUS
<1> HIDE DEF L
<1>6. CASE t \in row.links
  <2>1. Repoint(t)[e] = [row EXCEPT !.links = L] BY <1>3, <1>6
  <2>2. Repoint(t)[e] \in EventRows /\ Repoint(t)[e].links = L BY <1>1, <1>4, <2>1 DEF EventRows
  <2>3. /\ Repoint(t)[e].cid = row.cid /\ Repoint(t)[e].mode = row.mode
        /\ Repoint(t)[e].first = row.first /\ Repoint(t)[e].last = row.last
        /\ Repoint(t)[e].ongoing = row.ongoing
    BY <1>1, <2>1 DEF EventRows
  <2> QED BY <1>3, <1>5, <1>6, <2>2, <2>3 DEF row
<1>7. CASE t \notin row.links BY <1>1, <1>3, <1>7 DEF row
<1> QED BY <1>6, <1>7

LEMMA TagDeleted ==
  ASSUME Stored, NEW t, NEW deleteEvents \in BOOLEAN, DeleteTag(t, deleteEvents)
  PROVE  /\ Kept /\ t \in Tags
         /\ LET gone == CascadeTags({t}) IN
            /\ Without(tags, tags', gone) /\ Ungrouped(groups, groups', gone)
            /\ Relinked(events, events', t, gone)
<1> DEFINE gone == CascadeTags({t})
<1> DEFINE E == IF tags[t].parent # None THEN Repoint(t)
                ELSE IF deleteEvents THEN Keep(Linked(SynonymGroup(t))) ELSE events
<1>1. /\ t \in Tags /\ tags' = Restrict(tags, Tags \ gone)
      /\ groups' = Strip(groups, "members", gone) /\ events' = Strip(E, "links", gone)
      /\ cats' = cats /\ next' = next
  BY DEF DeleteTag
<1>2. /\ gone \subseteq Tags /\ \A s \in Tags : tags[s].parent \in gone => s \in gone
  BY <1>1, Cascades
<1> DEFINE L(e) == IF t \in events[e].links /\ tags[t].parent # None
                   THEN (events[e].links \ {t}) \cup {tags[t].parent} ELSE events[e].links
<1>3. /\ DOMAIN E \subseteq DOMAIN events
      /\ \A e \in DOMAIN E :
           /\ E[e] \in EventRows /\ E[e].links = L(e) /\ E[e].cid = events[e].cid
           /\ E[e].mode = events[e].mode /\ E[e].first = events[e].first
           /\ E[e].last = events[e].last /\ E[e].ongoing = events[e].ongoing
  <2>1. CASE tags[t].parent # None
    <3>1. E = Repoint(t) BY <2>1
    <3>2. DOMAIN E = DOMAIN events BY <3>1 DEF Repoint
    <3> HIDE DEF E
    <3> QED BY <1>1, <2>1, <3>1, <3>2, Repointed
  <2>2. CASE tags[t].parent = None
    <3>1. E = IF deleteEvents THEN Keep(Linked(SynonymGroup(t))) ELSE events BY <2>2
    <3> HIDE DEF E
    <3>2. /\ DOMAIN E \subseteq DOMAIN events
          /\ \A e \in DOMAIN E : E[e] = events[e] /\ E[e] \in EventRows
      <4>1. CASE deleteEvents
        <5>1. E = Keep(Linked(SynonymGroup(t))) BY <3>1, <4>1
        <5> QED BY <5>1, KeptEvents
      <4>2. CASE ~deleteEvents BY <3>1, <4>2, StoredParts DEF TypedEvents
      <4> QED BY <4>1, <4>2
    <3> QED BY <2>2, <3>2
  <2> QED BY <2>1, <2>2
<1> HIDE DEF gone, E
<1>4. Without(tags, tags', gone) BY <1>1 DEF Without, Restrict, Tags
<1>5. Ungrouped(groups, groups', gone) BY <1>1, MembersStripped, StoredParts DEF TypedGroups, Ungrouped
<1>6. /\ DOMAIN events' = DOMAIN E
      /\ \A e \in DOMAIN E :
           /\ events'[e] \in EventRows /\ events'[e].links = E[e].links \ gone
           /\ events'[e].cid = E[e].cid /\ events'[e].mode = E[e].mode
           /\ events'[e].first = E[e].first /\ events'[e].last = E[e].last
           /\ events'[e].ongoing = E[e].ongoing
  <2>1. \A e \in DOMAIN E : E[e] \in EventRows BY <1>3
  <2>2. events' = Strip(E, "links", gone) BY <1>1
  <2> QED BY <2>1, <2>2, LinksStripped
<1>7. Relinked(events, events', t, gone)
  <2>1. ASSUME NEW e \in DOMAIN events'
        PROVE  /\ e \in DOMAIN events
               /\ events'[e] \in EventRows /\ events'[e].links = L(e) \ gone
               /\ events'[e].cid = events[e].cid /\ events'[e].mode = events[e].mode
               /\ events'[e].first = events[e].first /\ events'[e].last = events[e].last
               /\ events'[e].ongoing = events[e].ongoing
    <3>1. e \in DOMAIN E BY <1>6, <2>1
    <3>2. /\ events'[e] \in EventRows /\ events'[e].links = E[e].links \ gone
          /\ events'[e].cid = E[e].cid /\ events'[e].mode = E[e].mode
          /\ events'[e].first = E[e].first /\ events'[e].last = E[e].last
          /\ events'[e].ongoing = E[e].ongoing
      BY <1>6, <3>1
    <3>3. /\ e \in DOMAIN events /\ E[e].links = L(e) /\ E[e].cid = events[e].cid
          /\ E[e].mode = events[e].mode /\ E[e].first = events[e].first
          /\ E[e].last = events[e].last /\ E[e].ongoing = events[e].ongoing
      BY <1>3, <3>1
    <3> HIDE DEF L
    <3> QED BY <3>2, <3>3
  <2>2. ASSUME NEW e \in DOMAIN events'
        PROVE  events'[e].links = LinksAfter(t, events[e].links, gone)
    BY <2>1 DEF LinksAfter
  <2> HIDE DEF L
  <2> QED BY <2>1, <2>2 DEF Relinked
<1>8. TypedTags(cats, tags)' /\ TypedGroups(cats, tags, groups)'
  <2>1. \A s \in DOMAIN tags' : tags[s].cat \in DOMAIN cats'
    BY <1>1, <1>4, StoredParts DEF Without, TypedTags
  <2>2. \A g \in DOMAIN groups' : groups[g].cat \in DOMAIN cats'
    BY <1>1, <1>5, StoredParts DEF Ungrouped, TypedGroups
  <2>3. DOMAIN cats' \subseteq Cats BY <1>1 DEF Cats
  <2> QED BY <1>2, <1>4, <1>5, <2>1, <2>2, <2>3, RowsWithout
<1>9. TypedEvents(tags, events)'
  <2>1. ASSUME NEW e \in DOMAIN events' PROVE events'[e].links \subseteq DOMAIN tags'
    <3>1. events[e].links \subseteq Tags /\ events'[e].links = LinksAfter(t, events[e].links, gone)
      BY <1>7, StoredParts DEF TypedEvents, Relinked, Tags
    <3>2. tags[t].parent \in Tags \cup {None} BY <1>1, StoredParts DEF TypedTags, Tags
    <3> QED BY <1>4, <3>1, <3>2 DEF LinksAfter, Without, Tags
  <2> QED BY <1>7, <2>1 DEF TypedEvents, Relinked
<1>10. OncePerClientId(events)' BY <1>7, StoredParts DEF OncePerClientId, Relinked
<1>11. Numbered(cats, tags, groups, events, next)' /\ UpTo(next, next')
  BY <1>1, <1>4, <1>5, <1>7, IdTypes, StoredParts
  DEF Numbered, UpTo, Without, Ungrouped, Relinked, Tags
<1>12. TypedCats(cats)' /\ OncePerClientId(cats)' /\ Seeded(cats)' BY <1>1, StoredParts
<1> QED BY <1>1, <1>4, <1>5, <1>7, <1>8, <1>9, <1>10, <1>11, <1>12
        DEF Kept, Stored, TypedRows, gone

LEMMA GroupCreated ==
  ASSUME Stored, NEW q, q.op = "createGroup", AskedGroup(q, next), CreateTagGroup(q)
  PROVE  /\ Kept
         /\ DOMAIN groups' = DOMAIN groups \cup {next.group}
         /\ \A g \in DOMAIN groups : groups'[g] = groups[g]
         /\ groups'[next.group].cat = q.cat /\ groups'[next.group].members = q.members
         /\ groups'[next.group].mode = ModeOf(q.e2ee)
<1> DEFINE row == [name |-> q.name, cat |-> q.cat, members |-> q.members, mode |-> ModeOf(q.e2ee)]
<1>1. /\ q.cat \in Cats /\ q.members \subseteq Tags
      /\ groups' = Extend(groups, next.group, row) /\ next' = [next EXCEPT !.group = @ + 1]
      /\ cats' = cats /\ tags' = tags /\ events' = events
  BY DEF CreateTagGroup
<1>2. /\ row \in GroupRows /\ row.cat = q.cat /\ row.members = q.members
      /\ row.mode = ModeOf(q.e2ee)
  <2>1. q.name \in AllNames /\ q.cat \in Nat /\ q.members \subseteq Nat
    BY IdTypes DEF AskedGroup
  <2> QED BY <2>1, ModeType DEF GroupRows
<1> HIDE DEF row
<1>3. /\ DOMAIN groups' = DOMAIN groups \cup {next.group} /\ groups'[next.group] = row
      /\ \A g \in DOMAIN groups : groups'[g] = groups[g]
  BY <1>1, IdTypes DEF Extend
<1>4. next' \in Ids /\ UpTo(next, next') /\ next'.group = next.group + 1
      /\ next'.cat = next.cat /\ next'.tag = next.tag /\ next'.event = next.event
  BY <1>1, IdTypes DEF Ids, UpTo
<1>5. TypedGroups(cats, tags, groups)'
  BY <1>1, <1>2, <1>3, StoredParts DEF TypedGroups, Cats, Tags
<1>6. Numbered(cats, tags, groups, events, next)'
  <2>1. DOMAIN groups' \subseteq 1..next'.group - 1 BY <1>3, <1>4, IdTypes
  <2> QED BY <1>1, <1>4, <2>1, StoredParts DEF Numbered, Ids
<1>7. /\ TypedCats(cats)' /\ TypedTags(cats, tags)' /\ TypedEvents(tags, events)'
      /\ OncePerClientId(cats)' /\ OncePerClientId(events)' /\ Seeded(cats)'
  BY <1>1, StoredParts
<1> QED BY <1>2, <1>3, <1>4, <1>5, <1>6, <1>7 DEF Kept, Stored, TypedRows

LEMMA GroupUpdated ==
  ASSUME Stored, NEW q, q.op = "updateGroup", AskedGroup(q, next), UpdateTagGroup(q)
  PROVE  /\ Kept /\ DOMAIN groups' = DOMAIN groups
         /\ \A g \in DOMAIN groups : g # q.id => groups'[g] = groups[g]
         /\ groups'[q.id].cat = groups[q.id].cat /\ groups'[q.id].members = q.members
         /\ groups'[q.id].mode = ModeOf(q.e2ee)
<1> DEFINE mode == ModeOf(q.e2ee)
<1>1. /\ q.id \in DOMAIN groups /\ q.members \subseteq Tags
      /\ groups' = [groups EXCEPT ![q.id].name = q.name, ![q.id].members = q.members,
                                  ![q.id].mode = mode]
      /\ cats' = cats /\ tags' = tags /\ events' = events /\ next' = next
  BY DEF UpdateTagGroup
<1>2. q.name \in AllNames /\ q.members \subseteq Nat /\ mode \in Modes
  BY ModeType, IdTypes DEF AskedGroup
<1> HIDE DEF mode
<1>3. groups[q.id] \in GroupRows /\ groups[q.id].cat \in Cats
  BY <1>1, StoredParts DEF TypedGroups, Cats
<1>4. /\ DOMAIN groups' = DOMAIN groups
      /\ \A g \in DOMAIN groups : g # q.id => groups'[g] = groups[g]
  BY <1>1
<1>5. groups'[q.id] = [groups[q.id] EXCEPT !.name = q.name, !.members = q.members, !.mode = mode]
  BY <1>1
<1>6. /\ groups'[q.id] \in GroupRows /\ groups'[q.id].cat = groups[q.id].cat
      /\ groups'[q.id].members = q.members /\ groups'[q.id].mode = mode
  BY <1>2, <1>3, <1>5 DEF GroupRows
<1>7. TypedGroups(cats, tags, groups)'
  <2>1. ASSUME NEW g \in DOMAIN groups
        PROVE  /\ groups'[g] \in GroupRows
               /\ groups'[g].cat \in DOMAIN cats /\ groups'[g].members \subseteq DOMAIN tags
    <3>1. CASE g = q.id BY <1>1, <1>3, <1>6, <3>1 DEF Cats, Tags
    <3>2. CASE g # q.id BY <1>4, <3>2, StoredParts DEF TypedGroups
    <3> QED BY <3>1, <3>2
  <2> QED BY <1>1, <1>4, <2>1 DEF TypedGroups
<1>8. Numbered(cats, tags, groups, events, next)' /\ UpTo(next, next')
  BY <1>1, <1>4, IdTypes, StoredParts DEF Numbered, UpTo
<1>9. /\ TypedCats(cats)' /\ TypedTags(cats, tags)' /\ TypedEvents(tags, events)'
      /\ OncePerClientId(cats)' /\ OncePerClientId(events)' /\ Seeded(cats)'
  BY <1>1, StoredParts
<1> QED BY <1>4, <1>6, <1>7, <1>8, <1>9 DEF Kept, Stored, TypedRows, mode

LEMMA GroupDeleted ==
  ASSUME Stored, NEW g, DeleteTagGroup(g)
  PROVE  Kept /\ Without(groups, groups', {g})
<1>1. /\ groups' = Restrict(groups, DOMAIN groups \ {g})
      /\ cats' = cats /\ tags' = tags /\ events' = events /\ next' = next
  BY DEF DeleteTagGroup
<1>2. Without(groups, groups', {g}) BY <1>1 DEF Without, Restrict
<1>3. TypedGroups(cats, tags, groups)' BY <1>1, <1>2, StoredParts DEF TypedGroups, Without
<1>4. Numbered(cats, tags, groups, events, next)' /\ UpTo(next, next')
  BY <1>1, <1>2, IdTypes, StoredParts DEF Numbered, UpTo, Without
<1>5. /\ TypedCats(cats)' /\ TypedTags(cats, tags)' /\ TypedEvents(tags, events)'
      /\ OncePerClientId(cats)' /\ OncePerClientId(events)' /\ Seeded(cats)'
  BY <1>1, StoredParts
<1> QED BY <1>2, <1>3, <1>4, <1>5 DEF Kept, Stored, TypedRows

-----------------------------------------------------------------------------
(* Events, the encryption and its removal. *)

\* The row an event's write leaves.
LEMMA EventRowTyped ==
  ASSUME Stored, NEW q, AskedEvent(q, next), q.date.found \subseteq DOMAIN tags',
         q.tagsId \subseteq DOMAIN tags', DOMAIN tags' \subseteq Nat,
         NEW cid \in ClientIds \cup {None}
  PROVE  LET row == EventRow(q, cid) IN
         /\ row \in EventRows /\ row.cid = cid /\ row.mode = ModeOf(q.e2ee)
         /\ row.first = q.period.first /\ row.last = q.period.last
         /\ row.ongoing = q.period.ongoing
         /\ row.links = q.tagsId \cup DateTagIds(q.date) /\ row.links \subseteq DOMAIN tags'
<1> DEFINE L == q.tagsId \cup DateTagIds(q.date)
<1> DEFINE first == q.period.first
<1> DEFINE last == q.period.last
<1> DEFINE ongoing == q.period.ongoing
<1>1. L \subseteq DOMAIN tags' BY DateTagsAreTags
<1>2. L \subseteq Nat BY <1>1
<1>3. first \in Nat /\ last \in Nat /\ ongoing \in BOOLEAN BY PeriodType DEF AskedEvent
<1>4. EventRow(q, cid) = [cid |-> cid, first |-> first, last |-> last, ongoing |-> ongoing,
                          links |-> L, mode |-> ModeOf(q.e2ee)]
  BY DEF EventRow
<1>5. L = q.tagsId \cup DateTagIds(q.date) /\ first = q.period.first /\ last = q.period.last
      /\ ongoing = q.period.ongoing
  OBVIOUS
<1> HIDE DEF L, first, last, ongoing
<1> DEFINE row == EventRow(q, cid)
<1>6. row \in EventRows BY <1>2, <1>3, <1>4, ModeType DEF EventRows
<1>7. /\ row.cid = cid /\ row.mode = ModeOf(q.e2ee) /\ row.first = first /\ row.last = last
      /\ row.ongoing = ongoing /\ row.links = L
  BY <1>4
<1> HIDE DEF row
<1> QED BY <1>1, <1>5, <1>6, <1>7 DEF row

\* The tables once the date tags of an event are there.
LEMMA DateTagsTyped ==
  ASSUME Stored, NEW d, IsFiniteSet(d.missing), d.missing \subseteq AllNames,
         d.missing # {} => d.cat \in Nat, CreateAllTags(d),
         next'.tag = next.tag + Cardinality(Inserted(d)), cats' = cats
  PROVE  /\ TypedTags(cats, tags)' /\ DOMAIN tags' \subseteq 1..next'.tag - 1
         /\ Cardinality(Inserted(d)) \in Nat
         /\ NewDateTags(tags, tags', d, Inserted(d), next.tag)
<1> DEFINE N == Inserted(d)
<1>1. Cardinality(N) \in Nat /\ NewDateTags(tags, tags', d, N, next.tag)
  BY IdTypes, CreateAllTagsAdds DEF Tags, Stored, Numbered
<1>2. N \subseteq AllNames /\ (N # {} => d.cat \in Cats /\ d.cat \in Nat)
  BY DEF Inserted, CreateAllTags
<1> HIDE DEF N
<1>3. DOMAIN tags' \subseteq 1..next'.tag - 1
  <2>1. ASSUME NEW t \in DOMAIN tags' PROVE t \in 1..next'.tag - 1
    <3>1. CASE t \in DOMAIN tags BY <1>1, <3>1, IdTypes DEF N
    <3>2. CASE t \notin DOMAIN tags
      <4>1. t \in next.tag..next.tag + Cardinality(N) - 1 BY <1>1, <3>2 DEF NewDateTags
      <4> QED BY <1>1, <4>1, IdTypes DEF N
    <3> QED BY <3>1, <3>2
  <2> QED BY <2>1
<1>4. TypedTags(cats, tags)'
  <2>1. ASSUME NEW t \in DOMAIN tags'
        PROVE  tags'[t] \in TagRows /\ tags'[t].cat \in DOMAIN cats'
               /\ tags'[t].parent \in DOMAIN tags' \cup {None}
    <3>1. CASE t \in DOMAIN tags
      BY <1>1, <3>1, StoredParts DEF NewDateTags, TypedTags
    <3>2. CASE t \notin DOMAIN tags
      <4>1. PICK name \in N :
              tags'[t] = [name |-> name, cat |-> d.cat, parent |-> None, mode |-> "rest"]
        BY <1>1, <3>2 DEF NewDateTags
      <4> QED BY <1>2, <4>1 DEF TagRows, Modes, None, Cats
    <3> QED BY <3>1, <3>2
  <2> QED BY <2>1 DEF TypedTags
<1> QED BY <1>1, <1>3, <1>4 DEF N

LEMMA EventInserted ==
  ASSUME Stored, NEW q, AskedEvent(q, next), InsertEvent(q)
  PROVE  /\ Kept
         /\ NewDateTags(tags, tags', q.date, Inserted(q.date), next.tag)
         /\ DOMAIN events' = DOMAIN events \cup {next.event}
         /\ \A e \in DOMAIN events : events'[e] = events[e]
         /\ events'[next.event] = EventRow(q, q.cid)
<1> DEFINE row == EventRow(q, q.cid)
<1> DEFINE K == Cardinality(Inserted(q.date))
<1>1. /\ \A e \in DOMAIN events : q.cid # None => events[e].cid # q.cid
      /\ CreateAllTags(q.date) /\ q.tagsId \cup q.date.found \subseteq DOMAIN tags'
      /\ events' = Extend(events, next.event, row)
      /\ next' = [next EXCEPT !.event = @ + 1, !.tag = @ + K]
      /\ cats' = cats /\ groups' = groups
  BY DEF InsertEvent, FindIdByClientId, LinksHold
<1> HIDE DEF K, row
<1>2. /\ IsFiniteSet(q.date.missing) /\ q.date.missing \subseteq AllNames
      /\ q.date.missing # {} => q.date.cat \in Nat
      /\ q.cid \in ClientIds \cup {None}
  BY DEF AskedEvent
<1>3. next'.tag = next.tag + K /\ next'.event = next.event + 1
      /\ next'.cat = next.cat /\ next'.group = next.group
  BY <1>1, IdTypes DEF Ids
<1>4. /\ TypedTags(cats, tags)' /\ DOMAIN tags' \subseteq 1..next'.tag - 1 /\ K \in Nat
      /\ NewDateTags(tags, tags', q.date, Inserted(q.date), next.tag)
  BY <1>1, <1>2, <1>3, DateTagsTyped DEF K
<1>5. next' \in Ids /\ UpTo(next, next')
  <2>1. next.tag + K \in Nat \ {0} /\ next.tag <= next.tag + K BY <1>4, IdTypes
  <2>2. next' = [next EXCEPT !.event = next.event + 1, !.tag = next.tag + K] BY <1>1
  <2>3. next \in Ids /\ next.event + 1 \in Nat \ {0} BY IdTypes
  <2>4. next' \in Ids BY <2>1, <2>2, <2>3 DEF Ids
  <2>5. UpTo(next, next') BY <1>3, <2>1, IdTypes DEF UpTo
  <2> QED BY <2>4, <2>5
<1>6. DOMAIN tags' \subseteq Nat BY <1>4
<1>7. row \in EventRows /\ row.cid = q.cid /\ row.links \subseteq DOMAIN tags'
  BY <1>1, <1>2, <1>6, EventRowTyped DEF row
<1>8. /\ DOMAIN events' = DOMAIN events \cup {next.event} /\ events'[next.event] = row
      /\ \A e \in DOMAIN events : events'[e] = events[e]
  BY <1>1, IdTypes DEF Extend
<1>9. DOMAIN tags \subseteq DOMAIN tags' BY <1>4 DEF NewDateTags
<1>10. TypedEvents(tags, events)' BY <1>7, <1>8, <1>9, StoredParts DEF TypedEvents
<1>11. TypedGroups(cats, tags, groups)' BY <1>1, <1>9, StoredParts DEF TypedGroups
<1>12. OncePerClientId(events)' BY <1>1, <1>7, <1>8, StoredParts DEF OncePerClientId
<1>13. Numbered(cats, tags, groups, events, next)'
  <2>1. DOMAIN events' \subseteq 1..next'.event - 1 BY <1>3, <1>8, IdTypes
  <2> QED BY <1>1, <1>3, <1>4, <1>5, <2>1, StoredParts DEF Numbered, Ids
<1>14. TypedCats(cats)' /\ OncePerClientId(cats)' /\ Seeded(cats)' BY <1>1, StoredParts
<1> QED BY <1>4, <1>5, <1>8, <1>10, <1>11, <1>12, <1>13, <1>14 DEF Kept, Stored, TypedRows, row

LEMMA EventUpdated ==
  ASSUME Stored, NEW q, AskedEvent(q, next), UpdateEventWithTags(q)
  PROVE  /\ Kept
         /\ NewDateTags(tags, tags', q.date, Inserted(q.date), next.tag)
         /\ q.id \in DOMAIN events /\ DOMAIN events' = DOMAIN events
         /\ \A e \in DOMAIN events : e # q.id => events'[e] = events[e]
         /\ events'[q.id] = EventRow(q, events[q.id].cid)
<1> DEFINE row == EventRow(q, events[q.id].cid)
<1> DEFINE K == Cardinality(Inserted(q.date))
<1>1. /\ q.id \in DOMAIN events
      /\ CreateAllTags(q.date) /\ q.tagsId \cup q.date.found \subseteq DOMAIN tags'
      /\ events' = [events EXCEPT ![q.id] = row] /\ next' = [next EXCEPT !.tag = @ + K]
      /\ cats' = cats /\ groups' = groups
  BY DEF UpdateEventWithTags, LinksHold
<1> HIDE DEF K, row
<1>2. /\ IsFiniteSet(q.date.missing) /\ q.date.missing \subseteq AllNames
      /\ q.date.missing # {} => q.date.cat \in Nat
      /\ events[q.id].cid \in ClientIds \cup {None}
  BY <1>1, StoredParts DEF AskedEvent, TypedEvents, EventRows
<1>3. next'.tag = next.tag + K /\ next'.event = next.event
      /\ next'.cat = next.cat /\ next'.group = next.group
  BY <1>1, IdTypes DEF Ids
<1>4. /\ TypedTags(cats, tags)' /\ DOMAIN tags' \subseteq 1..next'.tag - 1 /\ K \in Nat
      /\ NewDateTags(tags, tags', q.date, Inserted(q.date), next.tag)
  BY <1>1, <1>2, <1>3, DateTagsTyped DEF K
<1>5. next' \in Ids /\ UpTo(next, next')
  <2>1. next.tag + K \in Nat \ {0} /\ next.tag <= next.tag + K BY <1>4, IdTypes
  <2>2. next' = [next EXCEPT !.tag = next.tag + K] BY <1>1
  <2> QED BY <1>3, <2>1, <2>2, IdTypes DEF Ids, UpTo
<1>6. DOMAIN tags' \subseteq Nat BY <1>4
<1>7. row \in EventRows /\ row.cid = events[q.id].cid /\ row.links \subseteq DOMAIN tags'
  BY <1>1, <1>2, <1>6, EventRowTyped DEF row
<1>8. /\ DOMAIN events' = DOMAIN events /\ events'[q.id] = row
      /\ \A e \in DOMAIN events : e # q.id => events'[e] = events[e]
  BY <1>1
<1>9. DOMAIN tags \subseteq DOMAIN tags' BY <1>4 DEF NewDateTags
<1>10. TypedEvents(tags, events)' BY <1>7, <1>8, <1>9, StoredParts DEF TypedEvents
<1>11. TypedGroups(cats, tags, groups)' BY <1>1, <1>9, StoredParts DEF TypedGroups
<1>12. OncePerClientId(events)'
  <2>1. \A e \in DOMAIN events : events'[e].cid = events[e].cid BY <1>7, <1>8
  <2> QED BY <1>8, <2>1, StoredParts DEF OncePerClientId
<1>13. Numbered(cats, tags, groups, events, next)'
  BY <1>1, <1>3, <1>4, <1>5, <1>8, StoredParts DEF Numbered, Ids
<1>14. TypedCats(cats)' /\ OncePerClientId(cats)' /\ Seeded(cats)' BY <1>1, StoredParts
<1> QED BY <1>1, <1>4, <1>5, <1>8, <1>10, <1>11, <1>12, <1>13, <1>14
        DEF Kept, Stored, TypedRows, row

LEMMA EventDeleted ==
  ASSUME Stored, NEW e, DeleteEvent(e)
  PROVE  Kept /\ Without(events, events', {e})
<1>1. /\ events' = Keep({e}) /\ cats' = cats /\ tags' = tags /\ groups' = groups /\ next' = next
  BY DEF DeleteEvent
<1>2. Without(events, events', {e}) BY <1>1 DEF Without, Keep, Restrict
<1>3. TypedEvents(tags, events)' BY <1>1, <1>2, StoredParts DEF TypedEvents, Without
<1>4. OncePerClientId(events)' BY <1>2, StoredParts DEF OncePerClientId, Without
<1>5. Numbered(cats, tags, groups, events, next)' /\ UpTo(next, next')
  <2>1. DOMAIN events' \subseteq DOMAIN events BY <1>2 DEF Without
  <2>2. Numbered(cats, tags, groups, events, next)' BY <1>1, <2>1, StoredParts DEF Numbered
  <2>3. UpTo(next, next') BY <1>1, IdTypes DEF UpTo
  <2> QED BY <2>2, <2>3
<1>6. /\ TypedCats(cats)' /\ TypedTags(cats, tags)' /\ TypedGroups(cats, tags, groups)'
      /\ OncePerClientId(cats)' /\ Seeded(cats)'
  BY <1>1, StoredParts
<1> QED BY <1>2, <1>3, <1>4, <1>5, <1>6 DEF Kept, Stored, TypedRows

\* A migration rewrites every row, and there are no groups then.
LEMMA Migrated ==
  ASSUME Stored, NEW q, AskedMigration(q), Migrate(q)
  PROVE  /\ Kept
         /\ account' = [account EXCEPT !.e2ee = q.enable]
         /\ DOMAIN cats' = Cats /\ DOMAIN tags' = Tags /\ DOMAIN events' = DOMAIN events
         /\ DOMAIN groups' = DOMAIN groups /\ \A g \in DOMAIN groups : groups'[g] = groups[g]
         /\ \A c \in Cats : /\ c \in q.body.cats => cats'[c].mode = ModeOf(q.enable)
                            /\ cats'[c].kind = cats[c].kind /\ cats'[c].cid = cats[c].cid
         /\ \A t \in Tags : /\ t \in DOMAIN q.body.tags => tags'[t].mode = ModeOf(q.enable)
                            /\ tags'[t].cat = tags[t].cat /\ tags'[t].parent = tags[t].parent
         /\ \A e \in DOMAIN events :
              /\ e \in q.body.events => events'[e].mode = ModeOf(q.enable)
              /\ events'[e].cid = events[e].cid
<1> DEFINE mode == ModeOf(q.enable)
<1> DEFINE names == q.body.tags
<1>1. account' = [account EXCEPT !.e2ee = q.enable] /\ next' = next BY DEF Migrate
<1>2. /\ tags' = [t \in DOMAIN tags |->
                   IF t \in DOMAIN names THEN [tags[t] EXCEPT !.name = names[t], !.mode = mode]
                   ELSE tags[t]]
      /\ cats' = [c \in DOMAIN cats |->
                   IF c \in q.body.cats THEN [cats[c] EXCEPT !.mode = mode] ELSE cats[c]]
      /\ events' = [e \in DOMAIN events |->
                   IF e \in q.body.events THEN [events[e] EXCEPT !.mode = mode] ELSE events[e]]
      /\ groups' = Renamed(groups, <<>>, q.enable)
  BY DEF Migrate, Renamed, Rewritten, MigrationData
<1>3. mode \in Modes /\ \A t \in DOMAIN names : names[t] \in AllNames
  BY ModeType DEF AskedMigration
<1>4. /\ \A c \in DOMAIN cats : cats[c] \in CategoryRows
      /\ \A t \in DOMAIN tags : tags[t] \in TagRows
      /\ \A e \in DOMAIN events : events[e] \in EventRows
      /\ \A g \in DOMAIN groups : groups[g] \in GroupRows
  BY StoredParts DEF TypedCats, TypedTags, TypedEvents, TypedGroups
<1>5. DOMAIN groups' = DOMAIN groups /\ \A g \in DOMAIN groups : groups'[g] = groups[g]
  <2>1. DOMAIN <<>> = {} OBVIOUS
  <2>2. DOMAIN groups' = DOMAIN groups
        /\ \A g \in DOMAIN groups : g \notin DOMAIN <<>> => groups'[g] = groups[g]
    BY <1>2 DEF Renamed
  <2> QED BY <2>1, <2>2
<1> HIDE DEF mode, names
<1>0. DOMAIN cats' = Cats /\ DOMAIN tags' = Tags /\ DOMAIN events' = DOMAIN events
  BY <1>2 DEF Cats, Tags
<1>6. \A c \in Cats : /\ cats'[c] \in CategoryRows /\ (c \in q.body.cats => cats'[c].mode = mode)
                      /\ cats'[c].kind = cats[c].kind /\ cats'[c].cid = cats[c].cid
  <2> SUFFICES ASSUME NEW c \in Cats
               PROVE  /\ cats'[c] \in CategoryRows /\ (c \in q.body.cats => cats'[c].mode = mode)
                      /\ cats'[c].kind = cats[c].kind /\ cats'[c].cid = cats[c].cid
    OBVIOUS
  <2>1. cats'[c] = IF c \in q.body.cats THEN [cats[c] EXCEPT !.mode = mode] ELSE cats[c]
    BY <1>2 DEF Cats
  <2> QED BY <1>3, <1>4, <2>1 DEF CategoryRows, Cats
<1>7. \A t \in Tags : /\ tags'[t] \in TagRows /\ (t \in DOMAIN names => tags'[t].mode = mode)
                      /\ tags'[t].cat = tags[t].cat /\ tags'[t].parent = tags[t].parent
  <2> SUFFICES ASSUME NEW t \in Tags
               PROVE  /\ tags'[t] \in TagRows /\ (t \in DOMAIN names => tags'[t].mode = mode)
                      /\ tags'[t].cat = tags[t].cat /\ tags'[t].parent = tags[t].parent
    OBVIOUS
  <2>1. tags'[t] = IF t \in DOMAIN names THEN [tags[t] EXCEPT !.name = names[t], !.mode = mode]
                   ELSE tags[t]
    BY <1>2 DEF Tags
  <2>2. tags[t] \in TagRows BY <1>4 DEF Tags
  <2> QED BY <1>3, <2>1, <2>2 DEF TagRows
<1>8. \A e \in DOMAIN events : /\ events'[e] \in EventRows
                               /\ (e \in q.body.events => events'[e].mode = mode)
                               /\ events'[e].links = events[e].links
                               /\ events'[e].cid = events[e].cid
  <2> SUFFICES ASSUME NEW e \in DOMAIN events
               PROVE  /\ events'[e] \in EventRows
                      /\ (e \in q.body.events => events'[e].mode = mode)
                      /\ events'[e].links = events[e].links /\ events'[e].cid = events[e].cid
    OBVIOUS
  <2>1. events'[e] = IF e \in q.body.events THEN [events[e] EXCEPT !.mode = mode] ELSE events[e]
    BY <1>2
  <2> QED BY <1>3, <1>4, <2>1 DEF EventRows
<1>9. TypedCats(cats)' BY <1>0, <1>6 DEF TypedCats
<1>10. TypedTags(cats, tags)' BY <1>0, <1>7, StoredParts DEF TypedTags, Tags, Cats
<1>11. TypedGroups(cats, tags, groups)' BY <1>0, <1>5, StoredParts DEF TypedGroups, Tags, Cats
<1>12. TypedEvents(tags, events)' BY <1>0, <1>8, StoredParts DEF TypedEvents, Tags
<1>13. OncePerClientId(cats)' /\ OncePerClientId(events)'
  BY <1>0, <1>6, <1>8, StoredParts DEF OncePerClientId, Cats
<1>14. Seeded(cats)' BY <1>0, <1>6, StoredParts DEF Seeded, Cats
<1>15. Numbered(cats, tags, groups, events, next)' /\ UpTo(next, next')
  BY <1>0, <1>1, <1>5, IdTypes, StoredParts DEF Numbered, UpTo, Cats, Tags
<1> QED BY <1>0, <1>1, <1>5, <1>6, <1>7, <1>8, <1>9, <1>10, <1>11, <1>12, <1>13, <1>14, <1>15
        DEF Kept, Stored, TypedRows, mode, names

LEMMA Purged ==
  ASSUME Stored, Purge
  PROVE  /\ Kept
         /\ DOMAIN tags' = {} /\ DOMAIN groups' = {} /\ DOMAIN events' = {}
         /\ DOMAIN cats' = next.cat..next.cat + 2
         /\ \A c \in DOMAIN cats' : cats'[c].cid = None /\ cats'[c].mode = "rest"
<1>1. /\ cats' = seedDefaultCategories(next.cat) /\ next' = [next EXCEPT !.cat = @ + 3]
      /\ tags' = <<>> /\ groups' = <<>> /\ events' = <<>>
  BY DEF Purge
<1>2. DOMAIN tags' = {} /\ DOMAIN groups' = {} /\ DOMAIN events' = {} BY <1>1
<1> DEFINE kind(c) == CASE c = next.cat -> "date" [] c = next.cat + 1 -> "person" [] OTHER -> "other"
<1>3. /\ DOMAIN cats' = next.cat..next.cat + 2
      /\ \A c \in DOMAIN cats' : cats'[c] = [kind |-> kind(c), cid |-> None, mode |-> "rest"]
  BY <1>1 DEF seedDefaultCategories
<1>4. /\ kind(next.cat) = "date" /\ kind(next.cat + 2) = "other"
      /\ \A c \in DOMAIN cats' : kind(c) \in {"date", "person", "other"}
                                 /\ (kind(c) = "date" => c = next.cat)
  BY IdTypes
<1> HIDE DEF kind
<1>5. \A c \in DOMAIN cats' : /\ cats'[c] \in CategoryRows /\ cats'[c].kind = kind(c)
                              /\ cats'[c].cid = None /\ cats'[c].mode = "rest"
  <2>1. ASSUME NEW c, NEW k \in {"date", "person", "other"},
               cats'[c] = [kind |-> k, cid |-> None, mode |-> "rest"]
        PROVE  /\ cats'[c] \in CategoryRows /\ cats'[c].kind = k
               /\ cats'[c].cid = None /\ cats'[c].mode = "rest"
    BY <2>1 DEF CategoryRows, Modes
  <2> QED BY <1>3, <1>4, <2>1
<1>6. next.cat \in DOMAIN cats' /\ next.cat + 2 \in DOMAIN cats' BY <1>3, IdTypes
<1>7. Seeded(cats)' BY <1>4, <1>5, <1>6 DEF Seeded
<1>8. next' \in Ids /\ UpTo(next, next') /\ next'.cat = next.cat + 3
  BY <1>1, IdTypes DEF Ids, UpTo
<1>9. Numbered(cats, tags, groups, events, next)'
  <2>1. DOMAIN cats' \subseteq 1..next'.cat - 1 BY <1>3, <1>8, IdTypes
  <2> QED BY <1>2, <1>8, <2>1 DEF Numbered, Ids
<1>10. OncePerClientId(cats)' /\ OncePerClientId(events)' BY <1>2, <1>5 DEF OncePerClientId
<1>11. TypedRows(cats, tags, groups, events)'
  BY <1>2, <1>5 DEF TypedRows, TypedCats, TypedTags, TypedGroups, TypedEvents
<1> QED BY <1>2, <1>3, <1>5, <1>7, <1>8, <1>9, <1>10, <1>11 DEF Kept, Stored

-----------------------------------------------------------------------------
(* The steps.  A request arrives, ends without a transaction, is served at *)
(* once, or its transaction commits.                                       *)

\* What is known of a request when it has been validated.
Validated(q) ==
  /\ q.op \in Operations \ {"rewrite"} /\ q.e2ee = account.e2ee
  /\ q.op = "createCategory" => q.cid \in ClientIds \cup {None}
  /\ q.op \in {"createTag", "updateTag"} => q.name \in Typed /\ q.parent \in Tags \cup {None}
  /\ q.op = "createTag" => validateTag(None, q.name, q.cat, q.parent)
  /\ q.op = "updateTag" => /\ q.id \in Tags /\ ~rejectDateCategoryTag(q.id)
                           /\ q.parent # None => ~HasSynonyms(q.id)
                           /\ validateTag(q.id, q.name, q.cat, q.parent)
  /\ q.op \in {"createGroup", "updateGroup"} => q.name \in Typed
  /\ q.op = "createGroup" => validateTagGroup(q.cat, q.name, q.members)
  /\ q.op = "updateGroup" => /\ q.id \in DOMAIN groups
                             /\ validateTagGroup(groups[q.id].cat, q.name, q.members)
  /\ q.op \in {"createEvent", "updateEvent"} =>
       /\ q.cid \in ClientIds \cup {None} /\ q.tagsId \subseteq Linkable
       /\ \E p \in Periods : /\ validPeriod(p) /\ q.period = normalized(p)
                             /\ q.date = buildDateTags(p)
  /\ q.op = "migrate" => q.enable = ~q.e2ee /\ q.body = Payload

Arrives == sent < MaxRequests /\ \E r \in Workers : \E q : Arrive(r, q) /\ Validated(q)

Ends ==
  \/ \E cid \in ClientIds : ReplayCategory(cid) \/ ReplayEvent(cid)
  \/ \E r \in Workers : \/ Duplicate(r, "createCategory", cats)
                        \/ Duplicate(r, "createEvent", events)
                        \/ FindAgain(r, "createCategory", cats, "cats")
                        \/ FindAgain(r, "createEvent", events, "events")
                        \/ CheckIds(r) \/ Abort(r)

Serves ==
  \/ \E c \in Cats, moveTags, deleteEvents \in BOOLEAN : DeleteCategory(c, moveTags, deleteEvents)
  \/ \E t \in Tags, deleteEvents \in BOOLEAN : DeleteTag(t, deleteEvents)
  \/ \E g \in DOMAIN groups : DeleteTagGroup(g)
  \/ \E e \in DOMAIN events : DeleteEvent(e)
  \/ Purge

LEMMA CategoryArrives ==
  ASSUME NEW r \in Workers, sent < MaxRequests
  PROVE  /\ \A cid \in ClientIds \cup {None} : AskCreateCategory(r, cid) => Arrives
         /\ \A c : AskUpdateCategory(r, c) => Arrives
<1>1. ASSUME NEW cid \in ClientIds \cup {None}, AskCreateCategory(r, cid) PROVE Arrives
  <2> DEFINE q == [op |-> "createCategory", e2ee |-> account.e2ee, cid |-> cid]
  <2>1. Arrive(r, q) BY <1>1 DEF AskCreateCategory
  <2>2. Validated(q) BY DEF Validated, Operations
  <2> QED BY <2>1, <2>2 DEF Arrives
<1>2. ASSUME NEW c, AskUpdateCategory(r, c) PROVE Arrives
  <2> DEFINE q == [op |-> "updateCategory", e2ee |-> account.e2ee, id |-> c]
  <2>1. Arrive(r, q) BY <1>2 DEF AskUpdateCategory
  <2>2. Validated(q) BY DEF Validated, Operations
  <2> QED BY <2>1, <2>2 DEF Arrives
<1> QED BY <1>1, <1>2

LEMMA TagArrives ==
  ASSUME NEW r \in Workers, sent < MaxRequests, NEW n \in Typed, NEW c,
         NEW p \in Tags \cup {None}
  PROVE  /\ AskCreateTag(r, n, c, p) => Arrives
         /\ \A t : AskUpdateTag(r, t, n, c, p) => Arrives
<1>1. ASSUME AskCreateTag(r, n, c, p) PROVE Arrives
  <2> DEFINE q == [op |-> "createTag", e2ee |-> account.e2ee, name |-> n, cat |-> c, parent |-> p]
  <2>1. Arrive(r, q) /\ validateTag(None, n, c, p) BY <1>1 DEF AskCreateTag
  <2>2. q.op = "createTag" /\ q.e2ee = account.e2ee /\ q.name = n /\ q.cat = c /\ q.parent = p
    OBVIOUS
  <2> HIDE DEF q
  <2>3. Validated(q) BY <2>1, <2>2 DEF Validated, Operations
  <2> QED BY <2>1, <2>3 DEF Arrives
<1>2. ASSUME NEW t, AskUpdateTag(r, t, n, c, p) PROVE Arrives
  <2> DEFINE q == [op |-> "updateTag", e2ee |-> account.e2ee, id |-> t,
                   name |-> n, cat |-> c, parent |-> p]
  <2>1. /\ Arrive(r, q) /\ validateTag(t, n, c, p) /\ t \in Tags
        /\ ~rejectDateCategoryTag(t) /\ (p # None => ~HasSynonyms(t))
    BY <1>2 DEF AskUpdateTag
  <2>2. /\ q.op = "updateTag" /\ q.e2ee = account.e2ee /\ q.id = t /\ q.name = n /\ q.cat = c
        /\ q.parent = p
    OBVIOUS
  <2> HIDE DEF q
  <2>3. Validated(q) BY <2>1, <2>2 DEF Validated, Operations
  <2> QED BY <2>1, <2>3 DEF Arrives
<1> QED BY <1>1, <1>2

LEMMA GroupArrives ==
  ASSUME NEW r \in Workers, sent < MaxRequests, NEW n \in Typed, NEW members
  PROVE  /\ \A c : AskCreateTagGroup(r, n, c, members) => Arrives
         /\ \A g : AskUpdateTagGroup(r, g, n, members) => Arrives
<1>1. ASSUME NEW c, AskCreateTagGroup(r, n, c, members) PROVE Arrives
  <2> DEFINE q == [op |-> "createGroup", e2ee |-> account.e2ee, name |-> n, cat |-> c,
                   members |-> members]
  <2>1. Arrive(r, q) /\ validateTagGroup(c, n, members) BY <1>1 DEF AskCreateTagGroup
  <2>2. /\ q.op = "createGroup" /\ q.e2ee = account.e2ee /\ q.name = n /\ q.cat = c
        /\ q.members = members
    OBVIOUS
  <2> HIDE DEF q
  <2>3. Validated(q) BY <2>1, <2>2 DEF Validated, Operations
  <2> QED BY <2>1, <2>3 DEF Arrives
<1>2. ASSUME NEW g, AskUpdateTagGroup(r, g, n, members) PROVE Arrives
  <2> DEFINE q == [op |-> "updateGroup", e2ee |-> account.e2ee, id |-> g, name |-> n,
                   members |-> members]
  <2>1. /\ Arrive(r, q) /\ g \in DOMAIN groups
        /\ validateTagGroup(groups[g].cat, n, members)
    BY <1>2 DEF AskUpdateTagGroup
  <2>2. q.op = "updateGroup" /\ q.e2ee = account.e2ee /\ q.id = g /\ q.name = n
        /\ q.members = members
    OBVIOUS
  <2> HIDE DEF q
  <2>3. Validated(q) BY <2>1, <2>2 DEF Validated, Operations
  <2> QED BY <2>1, <2>3 DEF Arrives
<1> QED BY <1>1, <1>2

LEMMA EventArrives ==
  ASSUME NEW r \in Workers, sent < MaxRequests, NEW p \in Periods, NEW S \in Picks(Linkable)
  PROVE  /\ \A cid \in ClientIds \cup {None} : AskCreateEvent(r, cid, p, S) => Arrives
         /\ \A e : AskUpdateEvent(r, e, p, S) => Arrives
<1>0. S \subseteq Linkable BY Picked
<1>1. ASSUME NEW op \in {"createEvent", "updateEvent"}, NEW id, NEW cid \in ClientIds \cup {None},
             validPeriod(p), Arrive(r, EventRequest(op, id, cid, p, S))
      PROVE  Arrives
  <2> DEFINE q == EventRequest(op, id, cid, p, S)
  <2>1. /\ q.op = op /\ q.e2ee = account.e2ee /\ q.cid = cid /\ q.period = normalized(p)
        /\ q.tagsId = S /\ q.date = buildDateTags(p)
    BY DEF EventRequest
  <2> HIDE DEF q
  <2>2. Validated(q) BY <1>0, <1>1, <2>1 DEF Validated, Operations
  <2> QED BY <1>1, <2>2 DEF Arrives, q
<1>2. ASSUME NEW cid \in ClientIds \cup {None}, AskCreateEvent(r, cid, p, S) PROVE Arrives
  BY <1>1, <1>2 DEF AskCreateEvent
<1>3. ASSUME NEW e, AskUpdateEvent(r, e, p, S) PROVE Arrives
  BY <1>1, <1>3 DEF AskUpdateEvent
<1> QED BY <1>2, <1>3

LEMMA MigrationArrives ==
  ASSUME NEW r \in Workers, sent < MaxRequests, AskMigrate(r)
  PROVE  Arrives
<1> DEFINE q == [op |-> "migrate", e2ee |-> account.e2ee, enable |-> ~account.e2ee,
                 body |-> Payload]
<1>1. Arrive(r, q) BY DEF AskMigrate
<1>2. q.op = "migrate" /\ q.e2ee = account.e2ee /\ q.enable = ~account.e2ee /\ q.body = Payload
  OBVIOUS
<1> HIDE DEF q
<1>3. Validated(q) BY <1>2 DEF Validated, Operations
<1> QED BY <1>1, <1>3 DEF Arrives

LEMMA Steps ==
  ASSUME LInv, Next
  PROVE  Arrives \/ Ends \/ Serves \/ \E r \in Workers : Transaction(r)
<1>1. ASSUME NEW op, NEW r \in Free(op) PROVE r \in Workers /\ sent < MaxRequests
  BY <1>1 DEF Free, Allowed
<1>2. CASE CategoryWrites
  BY <1>1, <1>2, CategoryArrives DEF CategoryWrites, Ends, Serves
<1>3. CASE TagWrites
  <2>1. CASE \E r \in Free("createTag"), n \in Typed, c \in Cats, p \in Tags \cup {None} :
               AskCreateTag(r, n, c, p)
    BY <1>1, <2>1, TagArrives
  <2>2. CASE \E r \in Free("updateTag"), t \in Tags, n \in Typed, c \in Cats,
                p \in Tags \cup {None} : AskUpdateTag(r, t, n, c, p)
    BY <1>1, <2>2, TagArrives
  <2>3. CASE \E r \in Free("createGroup"), n \in Typed, c \in Cats, members \in Picks(Tags) :
               AskCreateTagGroup(r, n, c, members)
    BY <1>1, <2>3, GroupArrives
  <2>4. CASE \E r \in Free("updateGroup"), g \in DOMAIN groups, n \in Typed,
                members \in Picks(Tags) : AskUpdateTagGroup(r, g, n, members)
    BY <1>1, <2>4, GroupArrives
  <2> QED BY <1>3, <2>1, <2>2, <2>3, <2>4 DEF TagWrites, Serves
<1>4. CASE EventWrites
  <2>1. CASE \E r \in Free("createEvent"), cid \in ClientIds \cup {None}, p \in Periods,
                S \in Picks(Linkable) : AskCreateEvent(r, cid, p, S)
    BY <1>1, <2>1, EventArrives
  <2>2. CASE \E r \in Free("updateEvent"), e \in DOMAIN events, p \in Periods,
                S \in Picks(Linkable) : AskUpdateEvent(r, e, p, S)
    BY <1>1, <2>2, EventArrives
  <2> QED BY <1>4, <2>1, <2>2 DEF EventWrites, Ends, Serves
<1>5. CASE \E r \in Free("migrate") : AskMigrate(r) BY <1>1, <1>5, MigrationArrives
<1> QED BY <1>2, <1>3, <1>4, <1>5 DEF Next, Ends, Serves

\* Each step keeps the tables as they have to be.
LEMMA RowsUnchanged == ASSUME Stored, UNCHANGED rows PROVE Kept /\ UNCHANGED next
<1>1. /\ cats' = cats /\ tags' = tags /\ groups' = groups /\ events' = events /\ next' = next
  BY DEF rows
<1>2. Stored' BY <1>1 DEF Stored
<1>3. UpTo(next, next') BY <1>1, IdTypes DEF UpTo
<1> QED BY <1>1, <1>2, <1>3 DEF Kept

LEMMA ArrivesQuietly == ASSUME Arrives PROVE UNCHANGED rows /\ UNCHANGED notes /\ sent' = sent + 1
                                             /\ sent < MaxRequests
BY DEF Arrives, Arrive

LEMMA EndsQuietly == ASSUME Ends PROVE UNCHANGED rows
BY DEF Ends, ReplayCategory, ReplayEvent, Replay, Duplicate, FindAgain, CheckIds, Abort

LEMMA ServesKeeps == ASSUME Stored, Serves PROVE Kept
<1>1. CASE \E c \in Cats, moveTags, deleteEvents \in BOOLEAN :
             DeleteCategory(c, moveTags, deleteEvents)
  BY <1>1, CategoryDeleted
<1>2. CASE \E t \in Tags, deleteEvents \in BOOLEAN : DeleteTag(t, deleteEvents)
  BY <1>2, TagDeleted
<1>3. CASE \E g \in DOMAIN groups : DeleteTagGroup(g) BY <1>3, GroupDeleted
<1>4. CASE \E e \in DOMAIN events : DeleteEvent(e) BY <1>4, EventDeleted
<1>5. CASE Purge BY <1>5, Purged
<1> QED BY <1>1, <1>2, <1>3, <1>4, <1>5 DEF Serves

\* The transactions, by the request they carry out.
Runs(r) ==
  \/ w[r].op = "createCategory" /\ InsertCategory(w[r])
  \/ w[r].op = "updateCategory" /\ UpdateCategory(w[r])
  \/ w[r].op = "createTag"      /\ CreateTag(w[r])
  \/ w[r].op = "updateTag"      /\ UpdateTag(w[r])
  \/ w[r].op = "createGroup"    /\ CreateTagGroup(w[r])
  \/ w[r].op = "updateGroup"    /\ UpdateTagGroup(w[r])
  \/ w[r].op = "createEvent"    /\ InsertEvent(w[r])
  \/ w[r].op = "updateEvent"    /\ UpdateEventWithTags(w[r])
  \/ w[r].op = "rewrite"        /\ Migrate(w[r])

LEMMA Commits ==
  ASSUME NEW r \in Workers, Transaction(r)
  PROVE  /\ Runs(r) /\ Commit(r)
         /\ w[r].op # "rewrite" => account' = account
<1>1. Runs(r) /\ Commit(r) BY DEF Transaction, Runs
<1>2. w[r].op # "rewrite" => account' = account
  BY <1>1 DEF Runs, InsertCategory, UpdateCategory, CreateTag, UpdateTag, CreateTagGroup,
              UpdateTagGroup, InsertEvent, UpdateEventWithTags
<1> QED BY <1>1, <1>2

LEMMA AskedParts ==
  ASSUME NEW q, NEW n, Asked(q, n)
  PROVE  /\ q.op = "createCategory" => q.cid \in ClientIds \cup {None}
         /\ q.op \in {"createTag", "updateTag"} => AskedTag(q, n)
         /\ q.op \in {"createGroup", "updateGroup"} => AskedGroup(q, n)
         /\ q.op \in {"createEvent", "updateEvent"} => AskedEvent(q, n)
         /\ q.op \in {"migrate", "rewrite"} => AskedMigration(q)
         /\ q.op \in Operations => q.e2ee \in BOOLEAN
BY DEF Asked

LEMMA TransactionKeeps ==
  ASSUME Stored, Waiting, NEW r \in Workers, Transaction(r)
  PROVE  Kept
<1> DEFINE q == w[r]
<1>1. Asked(q, next) BY DEF Waiting
<1>2. Runs(r) BY Commits
<1> DEFINE op == q.op
<1>3. CASE q.op = "createCategory" /\ InsertCategory(q)
  BY <1>1, <1>3, AskedParts, CategoryInserted
<1>4. CASE q.op = "updateCategory" /\ UpdateCategory(q) BY <1>4, CategoryUpdated
<1>5. CASE q.op = "createTag" /\ CreateTag(q) BY <1>1, <1>5, AskedParts, TagCreated
<1>6. CASE q.op = "updateTag" /\ UpdateTag(q) BY <1>1, <1>6, AskedParts, TagUpdated
<1>7. CASE q.op = "createGroup" /\ CreateTagGroup(q) BY <1>1, <1>7, AskedParts, GroupCreated
<1>8. CASE q.op = "updateGroup" /\ UpdateTagGroup(q) BY <1>1, <1>8, AskedParts, GroupUpdated
<1>9. CASE q.op = "createEvent" /\ InsertEvent(q) BY <1>1, <1>9, AskedParts, EventInserted
<1>10. CASE q.op = "updateEvent" /\ UpdateEventWithTags(q)
  BY <1>1, <1>10, AskedParts, EventUpdated
<1>11. CASE q.op = "rewrite" /\ Migrate(q) BY <1>1, <1>11, AskedParts, Migrated
<1> QED BY <1>2, <1>3, <1>4, <1>5, <1>6, <1>7, <1>8, <1>9, <1>10, <1>11 DEF Runs

LEMMA StoredStep ==
  ASSUME LInv, Next
  PROVE  Kept
<1>1. Stored /\ Waiting BY DEF LInv
<1>2. CASE Arrives BY <1>1, <1>2, ArrivesQuietly, RowsUnchanged
<1>3. CASE Ends BY <1>1, <1>3, EndsQuietly, RowsUnchanged
<1>4. CASE Serves BY <1>1, <1>4, ServesKeeps
<1>5. CASE \E r \in Workers : Transaction(r) BY <1>1, <1>5, TransactionKeeps
<1> QED BY <1>2, <1>3, <1>4, <1>5, Steps

\* A request stays well formed while it waits.
LEMMA AskedStays ==
  ASSUME NEW n \in Ids, NEW m \in Ids, UpTo(n, m), NEW q, Asked(q, n)
  PROVE  Asked(q, m)
<1>1. /\ n.cat \in Nat /\ n.tag \in Nat /\ n.group \in Nat /\ n.event \in Nat
      /\ m.cat \in Nat /\ m.tag \in Nat /\ m.group \in Nat /\ m.event \in Nat
      /\ n.cat <= m.cat /\ n.tag <= m.tag /\ n.group <= m.group
  BY DEF Ids, UpTo
<1>2. /\ 1..n.cat - 1 \subseteq 1..m.cat - 1 /\ 1..n.tag - 1 \subseteq 1..m.tag - 1
      /\ 0..n.tag - 1 \subseteq 0..m.tag - 1 /\ 1..n.group - 1 \subseteq 1..m.group - 1
  BY <1>1
<1>3. AskedTag(q, n) => AskedTag(q, m) BY <1>2 DEF AskedTag
<1>4. AskedGroup(q, n) => AskedGroup(q, m) BY <1>2 DEF AskedGroup
<1>5. AskedEvent(q, n) => AskedEvent(q, m) BY <1>2 DEF AskedEvent
<1> QED BY <1>3, <1>4, <1>5 DEF Asked

LEMMA ValidatedAsked ==
  ASSUME Counted, Stored, NEW q, Validated(q)
  PROVE  Asked(q, next)
<1>1. account.e2ee \in BOOLEAN BY DEF Counted
<1>2. /\ Cats \subseteq 1..next.cat - 1 /\ Tags \subseteq 1..next.tag - 1
      /\ DOMAIN groups \subseteq 1..next.group - 1 /\ Tags \cup {None} \subseteq 0..next.tag - 1
      /\ None \notin Tags
  BY IdTypes DEF Cats, Tags, None
<1>3. q.op \in {"createTag", "updateTag"} => AskedTag(q, next)
  BY <1>2, TypedNamed DEF Validated, validateTag, validateParent, AskedTag
<1>4. q.op \in {"createGroup", "updateGroup"} => AskedGroup(q, next)
  <2>1. q.op \in {"createGroup", "updateGroup"} => q.members \subseteq Tags
    BY DEF Validated, validateTagGroup, CheckMainTagsInCategory
  <2>2. q.op = "createGroup" => q.cat \in Cats BY DEF Validated, validateTagGroup
  <2>3. q.op = "updateGroup" => q.id \in DOMAIN groups BY DEF Validated
  <2>4. q.op \in {"createGroup", "updateGroup"} => q.name \in Typed BY DEF Validated
  <2> QED BY <1>2, <2>1, <2>2, <2>3, <2>4, TypedNamed DEF AskedGroup
<1>5. ASSUME q.op \in {"createEvent", "updateEvent"} PROVE AskedEvent(q, next)
  <2>1. PICK p \in Periods : q.period = normalized(p) /\ q.date = buildDateTags(p)
    BY <1>5 DEF Validated
  <2>2. q.period \in EventPeriods BY <2>1, Normalized
  <2>3. /\ q.date.missing \subseteq AllNames /\ IsFiniteSet(q.date.missing)
        /\ q.date.missing # {} => ~account.e2ee /\ q.date.cat \in Nat
        /\ q.date.found \subseteq Tags
    BY <2>1, DateTagsBuilt
  <2>4. q.cid \in ClientIds \cup {None} /\ q.tagsId \subseteq Tags /\ q.e2ee = account.e2ee
    BY <1>5 DEF Validated, Linkable
  <2> QED BY <1>2, <2>2, <2>3, <2>4 DEF AskedEvent
<1>6. q.op = "migrate" => AskedMigration(q)
  <2>1. \A t \in DOMAIN Payload.tags : Payload.tags[t] \in AllNames
    <3>1. Payload.tags = [t \in UNION {GetCategories[c].tags : c \in Cats} |-> tags[t].name]
      BY DEF Payload
    <3>2. \A c \in Cats : GetCategories[c].tags \subseteq Tags BY DEF GetCategories
    <3>3. \A t \in Tags : tags[t].name \in AllNames
      BY StoredParts DEF TypedTags, TagRows, Tags
    <3> QED BY <3>1, <3>2, <3>3
  <2> QED BY <2>1 DEF Validated, AskedMigration
<1>7. q.op \in Operations /\ q.op # "rewrite" /\ q.e2ee \in BOOLEAN BY <1>1 DEF Validated
<1>8. q.op = "createCategory" => q.cid \in ClientIds \cup {None} BY DEF Validated
<1> QED BY <1>3, <1>4, <1>5, <1>6, <1>7, <1>8 DEF Asked, Operations

LEMMA AskedIdle == ASSUME NEW n PROVE Asked(Idle, n)
BY DEF Asked, Idle, Operations

LEMMA WaitingStep ==
  ASSUME LInv, Next
  PROVE  Waiting'
<1>1. Stored /\ Waiting /\ Counted BY DEF LInv
<1>2. Kept BY StoredStep
<1>3. next \in Ids /\ next' \in Ids /\ UpTo(next, next')
  BY <1>1, <1>2 DEF Kept, Stored, Numbered, Ids
<1>4. \A r \in Workers : Asked(w[r], next') BY <1>1, <1>3, AskedStays DEF Waiting
<1>5. DOMAIN w = Workers BY <1>1 DEF Waiting
<1>6. CASE Arrives
  <2>0. PICK r \in Workers : \E q : Arrive(r, q) /\ Validated(q) BY <1>6 DEF Arrives
  <2>1. PICK q : Arrive(r, q) /\ Validated(q) BY <2>0
  <2>2. w' = [w EXCEPT ![r] = q] BY <2>1 DEF Arrive
  <2>3. Asked(q, next') BY <1>1, <1>3, <2>1, ValidatedAsked, AskedStays
  <2> QED BY <1>4, <1>5, <2>2, <2>3 DEF Waiting
<1>7. ASSUME UNCHANGED w PROVE Waiting' BY <1>4, <1>5, <1>7 DEF Waiting
<1>8. ASSUME NEW r \in Workers, w' = [w EXCEPT ![r] = Idle] PROVE Waiting'
  BY <1>4, <1>5, <1>8, AskedIdle DEF Waiting
<1>9. ASSUME NEW r \in Workers, NEW op \in {"createCategory", "createEvent"}, NEW table,
             Duplicate(r, op, table)
      PROVE  Waiting'
  <2> DEFINE q == [op |-> "again", table |-> op, cid |-> w[r].cid]
  <2>1. w[r].op = op /\ w' = [w EXCEPT ![r] = q] BY <1>9 DEF Duplicate
  <2>2. w[r].cid \in ClientIds \cup {None}
    BY <1>4, <2>1, AskedParts DEF AskedEvent
  <2>3. Asked(q, next') BY <2>2 DEF Asked, Operations
  <2> QED BY <1>4, <1>5, <2>1, <2>3 DEF Waiting
<1>10. CASE Ends
  <2>1. CASE \E cid \in ClientIds : ReplayCategory(cid) \/ ReplayEvent(cid)
    BY <1>7, <2>1 DEF ReplayCategory, ReplayEvent, Replay
  <2>2. CASE \E r \in Workers : \/ FindAgain(r, "createCategory", cats, "cats")
                                \/ FindAgain(r, "createEvent", events, "events")
                                \/ Abort(r)
    BY <1>8, <2>2 DEF FindAgain, Abort
  <2>3. CASE \E r \in Workers : \/ Duplicate(r, "createCategory", cats)
                                \/ Duplicate(r, "createEvent", events)
    BY <1>9, <2>3
  <2>4. CASE \E r \in Workers : CheckIds(r)
    <3>1. PICK r \in Workers : CheckIds(r) BY <2>4
    <3> DEFINE q == [op |-> "rewrite", e2ee |-> w[r].e2ee, enable |-> w[r].enable,
                     body |-> w[r].body]
    <3>2. w[r].op = "migrate" /\ w' = [w EXCEPT ![r] = q] BY <3>1 DEF CheckIds
    <3>3. w[r].e2ee \in BOOLEAN /\ AskedMigration(w[r])
      BY <1>4, <3>2 DEF Asked, Operations
    <3>4. Asked(q, next') BY <3>3 DEF Asked, AskedMigration, Operations
    <3> HIDE DEF q
    <3> QED BY <1>4, <1>5, <3>2, <3>4 DEF Waiting
  <2> QED BY <1>10, <2>1, <2>2, <2>3, <2>4 DEF Ends
<1>11. CASE Serves
  BY <1>7, <1>11 DEF Serves, DeleteCategory, DeleteTag, DeleteTagGroup, DeleteEvent, Purge, Serve
<1>12. CASE \E r \in Workers : Transaction(r) BY <1>8, <1>12 DEF Transaction, Commit
<1> QED BY <1>6, <1>10, <1>11, <1>12, Steps

LEMMA CountedStep ==
  ASSUME LInv, Next
  PROVE  Counted'
<1>1. /\ account \in [e2ee : BOOLEAN, generation : Nat] /\ account.generation <= sent
      /\ sent \in 0..MaxRequests /\ MaxRequests \in Nat /\ Waiting /\ Stored
  BY LibraryAssumption DEF LInv, Counted
<1>2. ASSUME account' = account, sent' = sent PROVE Counted' BY <1>1, <1>2 DEF Counted
<1>3. ASSUME account' = account, sent' = sent + 1, sent < MaxRequests PROVE Counted'
  BY <1>1, <1>3 DEF Counted
<1>4. CASE Arrives BY <1>3, <1>4, ArrivesQuietly DEF rows
<1>5. CASE Ends
  <2>1. CASE \E cid \in ClientIds : ReplayCategory(cid) \/ ReplayEvent(cid)
    BY <1>3, <2>1 DEF ReplayCategory, ReplayEvent, Replay, Allowed, rows
  <2>2. CASE \E r \in Workers : \/ Duplicate(r, "createCategory", cats)
                                \/ Duplicate(r, "createEvent", events)
                                \/ FindAgain(r, "createCategory", cats, "cats")
                                \/ FindAgain(r, "createEvent", events, "events")
                                \/ CheckIds(r) \/ Abort(r)
    BY <1>2, <2>2 DEF Duplicate, FindAgain, CheckIds, Abort, rows
  <2> QED BY <1>5, <2>1, <2>2 DEF Ends
<1>6. CASE Serves
  <2>1. CASE Purge
    <3>1. /\ account' = [e2ee |-> FALSE, generation |-> account.generation + 1]
          /\ sent' = sent + 1 /\ sent < MaxRequests
      BY <2>1 DEF Purge, Serve, Allowed
    <3> QED BY <1>1, <3>1 DEF Counted
  <2>2. CASE ~Purge
    BY <1>3, <1>6, <2>2
    DEF Serves, DeleteCategory, DeleteTag, DeleteTagGroup, DeleteEvent, Serve, Allowed
  <2> QED BY <2>1, <2>2
<1>7. CASE \E r \in Workers : Transaction(r)
  <2>1. PICK r \in Workers : Transaction(r) BY <1>7
  <2>2. sent' = sent BY <2>1 DEF Transaction, Commit
  <2>3. CASE w[r].op # "rewrite" BY <1>2, <2>1, <2>2, <2>3, Commits
  <2>4. CASE w[r].op = "rewrite"
    <3>1. Asked(w[r], next) BY <1>1 DEF Waiting
    <3>2. w[r].enable \in BOOLEAN BY <2>4, <3>1 DEF Asked, AskedMigration, Operations
    <3>3. account' = [account EXCEPT !.e2ee = w[r].enable]
      BY <2>1, <2>4 DEF Transaction, Migrate
    <3> QED BY <1>1, <2>2, <3>2, <3>3 DEF Counted
  <2> QED BY <2>3, <2>4
<1> QED BY <1>4, <1>5, <1>6, <1>7, Steps

LEMMA MarksStep ==
  ASSUME LInv, Next
  PROVE  Marks'
<1>1. Marks /\ account.e2ee \in BOOLEAN BY DEF LInv, Counted
<1>2. account'.e2ee \in BOOLEAN BY CountedStep DEF Counted
<1>3. CASE Arrives BY <1>1, <1>3, ArrivesQuietly DEF Marks, notes
<1>4. CASE Ends
  BY <1>1, <1>4 DEF Ends, ReplayCategory, ReplayEvent, Replay, Duplicate, FindAgain, CheckIds,
                    Abort, Marks, notes
<1>5. CASE Serves
  <2>1. Serve BY <1>5 DEF Serves, DeleteCategory, DeleteTag, DeleteTagGroup, DeleteEvent, Purge
  <2> QED BY <1>1, <2>1 DEF Serve, Outdated, Marks
<1>6. CASE \E r \in Workers : Transaction(r)
  BY <1>1, <1>2, <1>6 DEF Transaction, Commit, Outdated, Overlooks, Marks
<1> QED BY <1>3, <1>4, <1>5, <1>6, Steps

LEMMA StartsStored ==
  ASSUME Init
  PROVE  /\ LInv
         /\ StoredAs(cats, tags, groups, events, ModeOf(account.e2ee))
         /\ FlatTags(tags) /\ MainMembers(tags, groups)
         /\ ~account.e2ee => DateTagsApart(cats, tags) /\ EventsDated(cats, tags, events)
         /\ veiled = account.e2ee
<1>1. PICK s \in Starts :
        /\ cats = s.cats /\ tags = s.tags /\ groups = s.groups /\ events = s.events
        /\ next = s.next /\ account = [e2ee |-> s.e2ee, generation |-> 0] /\ veiled = s.e2ee
  BY DEF Init
<1>2. WellFormed(s) BY StartsAssumption
<1>3. /\ Stored /\ s.e2ee \in BOOLEAN
      /\ StoredAs(cats, tags, groups, events, ModeOf(s.e2ee))
      /\ FlatTags(tags) /\ MainMembers(tags, groups)
      /\ ~s.e2ee => DateTagsApart(cats, tags) /\ EventsDated(cats, tags, events)
  BY <1>1, <1>2 DEF WellFormed, Stored
<1>4. account.e2ee = s.e2ee /\ account \in [e2ee : BOOLEAN, generation : Nat]
      /\ account.generation = 0
  BY <1>1, <1>3
<1>5. Counted BY <1>4, LibraryAssumption DEF Init, Counted
<1>6. Waiting BY AskedIdle DEF Init, Waiting
<1>7. Marks BY <1>1, <1>3 DEF Init, Marks
<1> QED BY <1>1, <1>3, <1>4, <1>5, <1>6, <1>7 DEF LInv

LEMMA LInvStep == LInv /\ [Next]_vars => LInv'
<1>1. ASSUME LInv, Next PROVE LInv'
  BY <1>1, StoredStep, WaitingStep, CountedStep, MarksStep DEF LInv, Kept
<1>2. ASSUME LInv, UNCHANGED vars PROVE LInv'
  BY <1>2 DEF LInv, Counted, Stored, Waiting, Marks, vars, rows, notes
<1> QED BY <1>1, <1>2

\* The tables keep their types, their keys and their foreign keys, and every
\* id a waiting request brings was handed out: in every step of every request.
THEOREM RowsTyped == Spec => []LInv
<1>1. Init => LInv BY StartsStored
<1> QED BY <1>1, LInvStep, PTL DEF Spec

\* Every tag and group lies in a category, and every synonym, member and link
\* names a tag, whatever the requests and however they meet.
THEOREM LibraryTypeCorrect == Spec => []LibraryTypeOK
<1>1. LInv => LibraryTypeOK
  BY LibraryAssumption DEF LInv, Counted, Stored, LibraryTypeOK
<1> QED BY <1>1, RowsTyped, PTL

-----------------------------------------------------------------------------
(* The answers to creations.  Ids only grow, so the newest row a clientId  *)
(* was given is the only one of its rows that can still be there.          *)

AnswerHolds(a, table, n) ==
  /\ a[2] \in ClientIds /\ a[3] \in Nat /\ a[3] < n
  /\ \A x \in DOMAIN table : /\ table[x].cid = a[2] => a[3] <= x
                             /\ x = a[3] => table[x].cid = a[2]

Answered ==
  \A a \in answers : \/ a[1] = "cats" /\ AnswerHolds(a, cats, next.cat)
                     \/ a[1] = "events" /\ AnswerHolds(a, events, next.event)

\* A row keeps its clientId, and a new row has a new id.
CidsKept(S, T, n) ==
  \A x \in DOMAIN T : (x \in DOMAIN S /\ T[x].cid = S[x].cid) \/ x >= n

LEMMA AnswerStays ==
  ASSUME NEW a, NEW S, NEW T, NEW n \in Nat, NEW m \in Nat, n <= m,
         \A x \in DOMAIN T : x \in Nat, CidsKept(S, T, n), AnswerHolds(a, S, n)
  PROVE  AnswerHolds(a, T, m)
<1>1. a[2] \in ClientIds /\ a[3] \in Nat /\ a[3] < m BY DEF AnswerHolds
<1>2. ASSUME NEW x \in DOMAIN T
      PROVE  (T[x].cid = a[2] => a[3] <= x) /\ (x = a[3] => T[x].cid = a[2])
  <2>1. CASE x \in DOMAIN S /\ T[x].cid = S[x].cid BY <2>1 DEF AnswerHolds
  <2>2. CASE x >= n BY <2>2, <1>1 DEF AnswerHolds
  <2> QED BY <2>1, <2>2 DEF CidsKept
<1> QED BY <1>1, <1>2 DEF AnswerHolds

LEMMA CidsSame ==
  ASSUME NEW S, NEW n PROVE CidsKept(S, S, n)
BY DEF CidsKept

LEMMA CidsStep ==
  ASSUME LInv, Next
  PROVE  CidsKept(cats, cats', next.cat) /\ CidsKept(events, events', next.event)
<1>1. Stored /\ Waiting BY DEF LInv
<1>2. ASSUME UNCHANGED <<cats, events>>
      PROVE  CidsKept(cats, cats', next.cat) /\ CidsKept(events, events', next.event)
  BY <1>2, CidsSame
<1>3. CASE Arrives BY <1>2, <1>3, ArrivesQuietly DEF rows
<1>4. CASE Ends BY <1>2, <1>4, EndsQuietly DEF rows
<1>5. CASE Serves
  <2>1. CASE \E c \in Cats, moveTags, deleteEvents \in BOOLEAN :
               DeleteCategory(c, moveTags, deleteEvents)
    <3>1. PICK c \in Cats, moveTags \in BOOLEAN, deleteEvents \in BOOLEAN :
            DeleteCategory(c, moveTags, deleteEvents)
      BY <2>1
    <3>2. /\ cats' = Restrict(cats, Cats \ {c}) /\ ~isLocked(c)
          /\ moveTags => MoveTags(c)
          /\ ~moveTags => DropTags(c, deleteEvents)
      BY <3>1 DEF DeleteCategory
    <3>3. CidsKept(cats, cats', next.cat) BY <3>2 DEF CidsKept, Restrict, Cats
    <3>4. CASE moveTags
      <4>1. events' = events BY <3>2, <3>4 DEF MoveTags
      <4> QED BY <3>3, <4>1, CidsSame
    <3>5. CASE ~moveTags
      <4>1. Unlinked(events, events', CascadeTags(Inside(c)))
        BY <1>1, <3>2, <3>5, DropTagsDrops
      <4> QED BY <3>3, <4>1 DEF Unlinked, CidsKept
    <3> QED BY <3>4, <3>5
  <2>2. CASE \E t \in Tags, deleteEvents \in BOOLEAN : DeleteTag(t, deleteEvents)
    <3>1. PICK t \in Tags, deleteEvents \in BOOLEAN : DeleteTag(t, deleteEvents) BY <2>2
    <3>2. cats' = cats BY <3>1 DEF DeleteTag
    <3>3. Relinked(events, events', t, CascadeTags({t})) BY <1>1, <3>1, TagDeleted
    <3>4. CidsKept(events, events', next.event) BY <3>3 DEF Relinked, CidsKept
    <3> QED BY <3>2, <3>4, CidsSame
  <2>3. CASE \E g \in DOMAIN groups : DeleteTagGroup(g)
    BY <1>2, <2>3 DEF DeleteTagGroup
  <2>4. CASE \E e \in DOMAIN events : DeleteEvent(e)
    <3>1. PICK e \in DOMAIN events : DeleteEvent(e) BY <2>4
    <3>2. cats' = cats BY <3>1 DEF DeleteEvent
    <3>3. CidsKept(events, events', next.event)
      BY <1>1, <3>1, EventDeleted DEF Without, CidsKept
    <3> QED BY <3>2, <3>3, CidsSame
  <2>5. CASE Purge BY <1>1, <2>5, Purged, IdTypes DEF CidsKept
  <2> QED BY <1>5, <2>1, <2>2, <2>3, <2>4, <2>5 DEF Serves
<1>6. CASE \E r \in Workers : Transaction(r)
  <2>1. PICK r \in Workers : Transaction(r) BY <1>6
  <2> DEFINE q == w[r]
  <2>2. Runs(r) BY <2>1, Commits
  <2>3. Asked(q, next) BY <1>1 DEF Waiting
  <2>4. CASE q.op = "createCategory" /\ InsertCategory(q)
    <3>1. events' = events BY <2>4 DEF InsertCategory
    <3>2. DOMAIN cats' = Cats \cup {next.cat} /\ \A c \in Cats : cats'[c] = cats[c]
      BY <2>4, <1>1, IdTypes DEF InsertCategory, Extend, Cats
    <3>3. CidsKept(cats, cats', next.cat) BY <1>1, <3>2, IdTypes DEF CidsKept, Cats
    <3> QED BY <3>1, <3>3, CidsSame
  <2>5. CASE q.op = "updateCategory" /\ UpdateCategory(q)
    <3>1. /\ cats' = IF q.id \in Cats THEN [cats EXCEPT ![q.id].mode = ModeOf(q.e2ee)] ELSE cats
          /\ events' = events
      BY <2>5 DEF UpdateCategory
    <3>2. \A c \in DOMAIN cats : cats[c] \in CategoryRows BY <1>1, StoredParts DEF TypedCats
    <3>3. CidsKept(cats, cats', next.cat) BY <3>1, <3>2 DEF CidsKept, CategoryRows, Cats
    <3> QED BY <3>1, <3>3, CidsSame
  <2>6. CASE CreateTag(q) \/ UpdateTag(q) \/ CreateTagGroup(q) \/ UpdateTagGroup(q)
    BY <1>2, <2>6 DEF CreateTag, UpdateTag, CreateTagGroup, UpdateTagGroup
  <2>7. CASE q.op = "createEvent" /\ InsertEvent(q)
    <3>1. cats' = cats BY <2>7 DEF InsertEvent
    <3>2. AskedEvent(q, next) BY <2>3, <2>7, AskedParts
    <3>3. /\ DOMAIN events' = DOMAIN events \cup {next.event}
          /\ \A e \in DOMAIN events : events'[e] = events[e]
      BY <1>1, <2>7, <3>2, EventInserted
    <3>4. CidsKept(events, events', next.event) BY <1>1, <3>3, IdTypes DEF CidsKept
    <3> QED BY <3>1, <3>4, CidsSame
  <2>8. CASE q.op = "updateEvent" /\ UpdateEventWithTags(q)
    <3>1. cats' = cats BY <2>8 DEF UpdateEventWithTags
    <3>2. AskedEvent(q, next) BY <2>3, <2>8, AskedParts
    <3>3. /\ DOMAIN events' = DOMAIN events /\ q.id \in DOMAIN events
          /\ \A e \in DOMAIN events : e # q.id => events'[e] = events[e]
          /\ events'[q.id] = EventRow(q, events[q.id].cid)
      BY <1>1, <2>8, <3>2, EventUpdated
    <3>4. events'[q.id].cid = events[q.id].cid BY <3>3 DEF EventRow
    <3>5. CidsKept(events, events', next.event) BY <3>3, <3>4 DEF CidsKept
    <3> QED BY <3>1, <3>5, CidsSame
  <2>9. CASE q.op = "rewrite" /\ Migrate(q)
    <3>1. AskedMigration(q) BY <2>3, <2>9, AskedParts
    <3>2. /\ DOMAIN cats' = Cats /\ DOMAIN events' = DOMAIN events
          /\ \A c \in Cats : cats'[c].cid = cats[c].cid
          /\ \A e \in DOMAIN events : events'[e].cid = events[e].cid
      BY <1>1, <2>9, <3>1, Migrated
    <3> QED BY <3>2 DEF CidsKept, Cats
  <2> QED BY <2>2, <2>4, <2>5, <2>6, <2>7, <2>8, <2>9 DEF Runs
<1> QED BY <1>3, <1>4, <1>5, <1>6, Steps

\* The answer a creation gets when its row is already there, or has just been made.
LEMMA FoundAnswer ==
  ASSUME NEW table, OncePerClientId(table), NEW cid \in ClientIds \cup {None},
         NEW x \in FindIdByClientId(table, cid), NEW n \in Nat,
         \A y \in DOMAIN table : y \in Nat /\ y < n, NEW name
  PROVE  AnswerHolds(<<name, cid, x>>, table, n)
<1> DEFINE a == <<name, cid, x>>
<1>1. cid # None /\ x \in DOMAIN table /\ table[x].cid = cid BY DEF FindIdByClientId
<1>2. a[2] = cid /\ a[3] = x OBVIOUS
<1>3. \A y \in DOMAIN table : table[y].cid = cid => y = x BY <1>1 DEF OncePerClientId
<1> HIDE DEF a
<1> QED BY <1>1, <1>2, <1>3 DEF AnswerHolds, a

LEMMA MadeAnswer ==
  ASSUME NEW S, NEW T, NEW n \in Nat, NEW m \in Nat, n < m, NEW cid \in ClientIds,
         \A x \in DOMAIN S : S[x].cid # cid,
         DOMAIN T = DOMAIN S \cup {n}, \A x \in DOMAIN S : T[x] = S[x], T[n].cid = cid, NEW name
  PROVE  AnswerHolds(<<name, cid, n>>, T, m)
<1> DEFINE a == <<name, cid, n>>
<1>1. a[2] = cid /\ a[3] = n OBVIOUS
<1> HIDE DEF a
<1>2. ASSUME NEW x \in DOMAIN T
      PROVE  (T[x].cid = a[2] => a[3] <= x) /\ (x = a[3] => T[x].cid = a[2])
  BY <1>1
<1> QED BY <1>1, <1>2 DEF AnswerHolds, a

LEMMA AnsweredStep ==
  ASSUME LInv, Answered, Next
  PROVE  Answered'
<1> DEFINE Holds(a) == \/ a[1] = "cats" /\ AnswerHolds(a, cats', next'.cat)
                       \/ a[1] = "events" /\ AnswerHolds(a, events', next'.event)
<1>1. Stored /\ Waiting BY DEF LInv
<1>2. Stored' /\ UpTo(next, next') BY StoredStep DEF Kept
<1>3. /\ next.cat \in Nat /\ next.event \in Nat /\ next'.cat \in Nat /\ next'.event \in Nat
      /\ next.cat <= next'.cat /\ next.event <= next'.event
      /\ \A x \in DOMAIN cats' : x \in Nat
      /\ \A x \in DOMAIN events' : x \in Nat
  BY <1>1, <1>2 DEF Stored, Numbered, UpTo
<1>4. \A a \in answers : Holds(a)
  <2> SUFFICES ASSUME NEW a \in answers PROVE Holds(a)
    OBVIOUS
  <2>1. CASE a[1] = "cats" /\ AnswerHolds(a, cats, next.cat)
    BY <1>3, <2>1, CidsStep, AnswerStays
  <2>2. CASE a[1] = "events" /\ AnswerHolds(a, events, next.event)
    BY <1>3, <2>2, CidsStep, AnswerStays
  <2> QED BY <2>1, <2>2 DEF Answered
<1>5. ASSUME NEW a, Holds(a), answers' \subseteq answers \cup {a} PROVE Answered'
  BY <1>4, <1>5 DEF Answered
<1>6. ASSUME answers' = answers PROVE Answered' BY <1>4, <1>6 DEF Answered
<1> HIDE DEF Holds
<1>7. ASSUME NEW cid \in ClientIds \cup {None}, UNCHANGED rows,
             \/ \E x \in FindIdByClientId(cats, cid) : answers' = answers \cup {<<"cats", cid, x>>}
             \/ \E x \in FindIdByClientId(events, cid) :
                  answers' = answers \cup {<<"events", cid, x>>}
      PROVE  Answered'
  <2>1. cats' = cats /\ events' = events /\ next' = next BY <1>7 DEF rows
  <2>2. CASE \E x \in FindIdByClientId(cats, cid) : answers' = answers \cup {<<"cats", cid, x>>}
    <3>1. PICK x \in FindIdByClientId(cats, cid) : answers' = answers \cup {<<"cats", cid, x>>}
      BY <2>2
    <3>2. OncePerClientId(cats) /\ \A y \in DOMAIN cats : y \in Nat /\ y < next.cat
      BY <1>1, IdTypes, StoredParts
    <3>3. AnswerHolds(<<"cats", cid, x>>, cats, next.cat) BY <1>3, <3>2, FoundAnswer
    <3>4. Holds(<<"cats", cid, x>>) BY <2>1, <3>3 DEF Holds
    <3> QED BY <1>5, <3>1, <3>4
  <2>3. CASE \E x \in FindIdByClientId(events, cid) :
               answers' = answers \cup {<<"events", cid, x>>}
    <3>1. PICK x \in FindIdByClientId(events, cid) :
            answers' = answers \cup {<<"events", cid, x>>}
      BY <2>3
    <3>2. OncePerClientId(events) /\ \A y \in DOMAIN events : y \in Nat /\ y < next.event
      BY <1>1, IdTypes, StoredParts
    <3>3. AnswerHolds(<<"events", cid, x>>, events, next.event) BY <1>3, <3>2, FoundAnswer
    <3>4. Holds(<<"events", cid, x>>) BY <2>1, <3>3 DEF Holds
    <3> QED BY <1>5, <3>1, <3>4
  <2> QED BY <1>7, <2>2, <2>3
<1>8. CASE Arrives BY <1>6, <1>8, ArrivesQuietly DEF notes
<1>9. CASE Ends
  <2>1. CASE \E cid \in ClientIds : ReplayCategory(cid) \/ ReplayEvent(cid)
    BY <1>7, <2>1 DEF ReplayCategory, ReplayEvent, Replay
  <2>2. CASE \E r \in Workers : \/ FindAgain(r, "createCategory", cats, "cats")
                                \/ FindAgain(r, "createEvent", events, "events")
    <3>1. PICK r \in Workers : \/ FindAgain(r, "createCategory", cats, "cats")
                               \/ FindAgain(r, "createEvent", events, "events")
      BY <2>2
    <3>2. w[r].op = "again" BY <3>1 DEF FindAgain
    <3>3. w[r].cid \in ClientIds \cup {None} BY <1>1, <3>2 DEF Waiting, Asked
    <3> QED BY <1>7, <3>1, <3>3 DEF FindAgain
  <2>3. CASE \E r \in Workers : \/ Duplicate(r, "createCategory", cats)
                                \/ Duplicate(r, "createEvent", events)
                                \/ CheckIds(r) \/ Abort(r)
    BY <1>6, <2>3 DEF Duplicate, CheckIds, Abort, notes
  <2> QED BY <1>9, <2>1, <2>2, <2>3 DEF Ends
<1>10. CASE Serves
  BY <1>6, <1>10 DEF Serves, DeleteCategory, DeleteTag, DeleteTagGroup, DeleteEvent, Purge, Serve
<1>11. CASE \E r \in Workers : Transaction(r)
  <2>1. PICK r \in Workers : Transaction(r) BY <1>11
  <2> DEFINE q == w[r]
  <2>2. Runs(r) BY <2>1, Commits
  <2>3. Asked(q, next) BY <1>1 DEF Waiting
  <2>4. CASE q.op = "createCategory" /\ InsertCategory(q)
    <3>1. q.cid \in ClientIds \cup {None} BY <2>3, <2>4, AskedParts
    <3>2. answers' = IF q.cid = None THEN answers ELSE answers \cup {<<"cats", q.cid, next.cat>>}
      BY <2>4 DEF InsertCategory, Answer
    <3>3. CASE q.cid = None BY <1>6, <3>2, <3>3
    <3>4. CASE q.cid # None
      <4>1. \A x \in DOMAIN cats : cats[x].cid # q.cid
        BY <2>4, <3>4 DEF InsertCategory, FindIdByClientId
      <4>2. next' = [next EXCEPT !.cat = @ + 1] BY <2>4 DEF InsertCategory
      <4>3. next'.cat = next.cat + 1 BY <1>1, <4>2, IdTypes DEF Ids
      <4> DEFINE row == [kind |-> "custom", cid |-> q.cid, mode |-> ModeOf(q.e2ee)]
      <4>4. row.cid = q.cid /\ cats' = Extend(cats, next.cat, row) BY <2>4 DEF InsertCategory
      <4> HIDE DEF row
      <4>5. /\ DOMAIN cats' = DOMAIN cats \cup {next.cat} /\ cats'[next.cat].cid = q.cid
            /\ \A x \in DOMAIN cats : cats'[x] = cats[x]
        BY <1>1, <4>4, IdTypes DEF Extend
      <4>6. next.cat < next'.cat BY <1>3, <4>3
      <4>7. q.cid \in ClientIds BY <3>1, <3>4
      <4>8. AnswerHolds(<<"cats", q.cid, next.cat>>, cats', next'.cat)
        BY <1>3, <4>1, <4>5, <4>6, <4>7, MadeAnswer
      <4>9. Holds(<<"cats", q.cid, next.cat>>) BY <4>8 DEF Holds
      <4> QED BY <1>5, <3>2, <3>4, <4>9
    <3> QED BY <3>3, <3>4
  <2>5. CASE q.op = "createEvent" /\ InsertEvent(q)
    <3>1. AskedEvent(q, next) BY <2>3, <2>5, AskedParts
    <3>2. answers' = IF q.cid = None THEN answers
                     ELSE answers \cup {<<"events", q.cid, next.event>>}
      BY <2>5 DEF InsertEvent, Answer
    <3>3. CASE q.cid = None BY <1>6, <3>2, <3>3
    <3>4. CASE q.cid # None
      <4>1. \A x \in DOMAIN events : events[x].cid # q.cid
        BY <2>5, <3>4 DEF InsertEvent, FindIdByClientId
      <4>2. next'.event = next.event + 1
        <5>1. next' = [next EXCEPT !.event = @ + 1, !.tag = @ + Cardinality(Inserted(q.date))]
          BY <2>5 DEF InsertEvent
        <5> QED BY <1>1, <5>1, IdTypes DEF Ids
      <4>3. /\ DOMAIN events' = DOMAIN events \cup {next.event}
            /\ events'[next.event] = EventRow(q, q.cid)
            /\ \A x \in DOMAIN events : events'[x] = events[x]
        BY <1>1, <2>5, <3>1, EventInserted
      <4>4. events'[next.event].cid = q.cid BY <4>3 DEF EventRow
      <4>5. next.event < next'.event BY <1>3, <4>2
      <4>6. q.cid \in ClientIds BY <3>1, <3>4 DEF AskedEvent
      <4>7. AnswerHolds(<<"events", q.cid, next.event>>, events', next'.event)
        BY <1>3, <4>1, <4>3, <4>4, <4>5, <4>6, MadeAnswer
      <4>8. Holds(<<"events", q.cid, next.event>>) BY <4>7 DEF Holds
      <4> QED BY <1>5, <3>2, <3>4, <4>8
    <3> QED BY <3>3, <3>4
  <2>6. CASE q.op \notin {"createCategory", "createEvent"}
    <3>1. answers' = answers
      BY <2>2, <2>6 DEF Runs, UpdateCategory, CreateTag, UpdateTag, CreateTagGroup, UpdateTagGroup,
                        UpdateEventWithTags, Migrate
    <3> QED BY <1>6, <3>1
  <2> QED BY <2>2, <2>4, <2>5, <2>6 DEF Runs
<1> QED BY <1>8, <1>9, <1>10, <1>11, Steps

\* However often and however concurrently a creation is sent with its clientId,
\* the answers name one row, as long as that row is there.
THEOREM OneRowAnswered == Spec => []RepliesAgree
<1>1. Init => Answered BY DEF Init, Answered
<1>2. LInv /\ Answered /\ [Next]_vars => Answered'
  <2>1. ASSUME LInv, Answered, UNCHANGED vars PROVE Answered'
    BY <2>1 DEF Answered, vars, rows, notes
  <2> QED BY <2>1, AnsweredStep
<1>3. LInv /\ Answered => RepliesAgree
  <2> SUFFICES ASSUME LInv, Answered, NEW a \in answers, NEW b \in answers,
                      a[1] = b[1], a[2] = b[2], a[3] < b[3]
               PROVE  a[3] \notin (IF a[1] = "cats" THEN Cats ELSE DOMAIN events)
    BY DEF RepliesAgree
  <2>1. CASE a[1] = "cats"
    <3>1. AnswerHolds(a, cats, next.cat) /\ AnswerHolds(b, cats, next.cat)
      BY <2>1 DEF Answered
    <3> QED BY <2>1, <3>1 DEF AnswerHolds, Cats
  <2>2. CASE a[1] # "cats"
    <3>1. AnswerHolds(a, events, next.event) /\ AnswerHolds(b, events, next.event)
      BY <2>2 DEF Answered
    <3> QED BY <2>2, <3>1 DEF AnswerHolds
  <2> QED BY <2>1, <2>2
<1>4. LInv /\ Answered /\ [Next]_vars => LInv' BY LInvStep
<1> QED BY <1>1, <1>2, <1>3, RowsTyped, PTL DEF Spec

-----------------------------------------------------------------------------
(* How the rows are stored.                                                *)

AllIn(table, mode) == \A x \in DOMAIN table : table[x].mode = mode

LEMMA StoredAsParts ==
  ASSUME NEW C, NEW T, NEW G, NEW E, NEW mode
  PROVE  StoredAs(C, T, G, E, mode) <=>
           AllIn(C, mode) /\ AllIn(T, mode) /\ AllIn(G, mode) /\ AllIn(E, mode)
BY DEF StoredAs, AllIn

LEMMA DateTagsMode ==
  ASSUME NEW q, AskedEvent(q, next), NEW T, NEW U, NEW n,
         NewDateTags(T, U, q.date, Inserted(q.date), n), AllIn(T, ModeOf(q.e2ee))
  PROVE  AllIn(U, ModeOf(q.e2ee))
<1>1. ASSUME NEW t \in DOMAIN U PROVE U[t].mode = ModeOf(q.e2ee)
  <2>1. CASE t \in DOMAIN T BY <2>1 DEF NewDateTags, AllIn
  <2>2. CASE t \notin DOMAIN T
    <3>1. PICK name \in Inserted(q.date) :
            U[t] = [name |-> name, cat |-> q.date.cat, parent |-> None, mode |-> "rest"]
      BY <2>2 DEF NewDateTags
    <3>2. ~q.e2ee BY <3>1 DEF Inserted, AskedEvent
    <3> QED BY <3>1, <3>2 DEF ModeOf
  <2> QED BY <2>1, <2>2
<1> QED BY <1>1 DEF AllIn

\* A step takes a table that is stored in the account's mode to one that is stored in
\* the mode the account has then.
Carried(S, T) == AllIn(S, ModeOf(account.e2ee)) => AllIn(T, ModeOf(account'.e2ee))

LEMMA ServesMode ==
  ASSUME Stored, Serves
  PROVE  /\ Carried(cats, cats') /\ Carried(tags, tags')
         /\ Carried(groups, groups') /\ Carried(events, events')
<1> DEFINE Kind(S, T) == \A mode : AllIn(S, mode) => AllIn(T, mode)
<1>1. \A S : Kind(S, S) OBVIOUS
<1>2. ASSUME account' = account, Kind(cats, cats'), Kind(tags, tags'), Kind(groups, groups'),
             Kind(events, events')
      PROVE  /\ Carried(cats, cats') /\ Carried(tags, tags')
             /\ Carried(groups, groups') /\ Carried(events, events')
  BY <1>2 DEF Carried
<1>3. CASE \E c \in Cats, moveTags, deleteEvents \in BOOLEAN :
             DeleteCategory(c, moveTags, deleteEvents)
  <2>1. PICK c \in Cats, moveTags \in BOOLEAN, deleteEvents \in BOOLEAN :
          DeleteCategory(c, moveTags, deleteEvents)
    BY <1>3
  <2>2. /\ cats' = Restrict(cats, Cats \ {c}) /\ ~isLocked(c) /\ account' = account
        /\ moveTags => MoveTags(c)
        /\ ~moveTags => DropTags(c, deleteEvents)
    BY <2>1 DEF DeleteCategory
  <2>3. Kind(cats, cats') BY <1>1, <2>2 DEF AllIn, Restrict, Cats
  <2>4. CASE moveTags
    <3>1. /\ events' = events /\ DOMAIN tags' = Tags /\ DOMAIN groups' = DOMAIN groups
          /\ \A t \in Tags : tags'[t].mode = tags[t].mode
          /\ \A g \in DOMAIN groups : groups'[g].mode = groups[g].mode
      BY <2>2, <2>4, MoveTagsMoves
    <3>2. Kind(tags, tags') /\ Kind(groups, groups') /\ Kind(events, events')
      BY <1>1, <3>1 DEF AllIn, Tags
    <3> QED BY <1>2, <2>2, <2>3, <3>2
  <2>5. CASE ~moveTags
    <3> DEFINE gone == CascadeTags(Inside(c))
    <3>1. /\ Without(tags, tags', gone) /\ Ungrouped(groups, groups', gone)
          /\ Unlinked(events, events', gone)
      BY <2>2, <2>5, DropTagsDrops
    <3> HIDE DEF gone
    <3>2. Kind(tags, tags') /\ Kind(groups, groups') /\ Kind(events, events')
      BY <1>1, <3>1 DEF AllIn, Without, Ungrouped, Unlinked
    <3> QED BY <1>2, <2>2, <2>3, <3>2
  <2> QED BY <2>4, <2>5
<1>4. CASE \E t \in Tags, deleteEvents \in BOOLEAN : DeleteTag(t, deleteEvents)
  <2>1. PICK t \in Tags, deleteEvents \in BOOLEAN : DeleteTag(t, deleteEvents) BY <1>4
  <2> DEFINE gone == CascadeTags({t})
  <2>2. /\ Without(tags, tags', gone) /\ Ungrouped(groups, groups', gone)
        /\ Relinked(events, events', t, gone)
    BY <2>1, TagDeleted
  <2>3. cats' = cats /\ account' = account BY <2>1 DEF DeleteTag
  <2> HIDE DEF gone
  <2>4. Kind(tags, tags') /\ Kind(groups, groups') /\ Kind(events, events')
    BY <1>1, <2>2 DEF AllIn, Without, Ungrouped, Relinked
  <2> QED BY <1>1, <1>2, <2>3, <2>4
<1>5. CASE \E g \in DOMAIN groups : DeleteTagGroup(g)
  <2>1. PICK g \in DOMAIN groups : DeleteTagGroup(g) BY <1>5
  <2>2. Without(groups, groups', {g}) BY <2>1, GroupDeleted
  <2>3. cats' = cats /\ tags' = tags /\ events' = events /\ account' = account
    BY <2>1 DEF DeleteTagGroup
  <2>4. Kind(groups, groups') BY <1>1, <2>2 DEF AllIn, Without
  <2> QED BY <1>1, <1>2, <2>3, <2>4
<1>6. CASE \E e \in DOMAIN events : DeleteEvent(e)
  <2>1. PICK e \in DOMAIN events : DeleteEvent(e) BY <1>6
  <2>2. Without(events, events', {e}) BY <2>1, EventDeleted
  <2>3. cats' = cats /\ tags' = tags /\ groups' = groups /\ account' = account
    BY <2>1 DEF DeleteEvent
  <2>4. Kind(events, events') BY <1>1, <2>2 DEF AllIn, Without
  <2> QED BY <1>1, <1>2, <2>3, <2>4
<1>7. CASE Purge
  <2>1. /\ DOMAIN tags' = {} /\ DOMAIN groups' = {} /\ DOMAIN events' = {}
        /\ \A c \in DOMAIN cats' : cats'[c].mode = "rest"
    BY <1>7, Purged
  <2>2. ModeOf(account'.e2ee) = "rest" BY <1>7 DEF Purge, ModeOf
  <2> QED BY <2>1, <2>2 DEF AllIn, Carried
<1> QED BY <1>3, <1>4, <1>5, <1>6, <1>7 DEF Serves

\* A migration past its comparison: it is alone, the flag is as it found it, and every
\* category and event is one it named.
Named(q) ==
  account.e2ee # q.enable /\ Cats \subseteq q.body.cats /\ DOMAIN events \subseteq q.body.events
Compared ==
  \A r \in Workers : w[r].op = "rewrite" =>
    Named(w[r]) /\ \A s \in Workers : w[s].op = "rewrite" => s = r

LEMMA TransactionMode ==
  ASSUME Counted, Stored, Waiting, NEW r \in Workers, Transaction(r),
         w[r].e2ee = account.e2ee, w[r].op = "rewrite" => Named(w[r])
  PROVE  /\ Carried(cats, cats') /\ Carried(events, events')
         /\ ~Overlooks(w[r]) => Carried(tags, tags') /\ Carried(groups, groups')
<1> DEFINE q == w[r]
<1> DEFINE mode == ModeOf(account.e2ee)
<1> DEFINE Kind(S, T) == AllIn(S, mode) => AllIn(T, mode)
<1>1. \A S : Kind(S, S) OBVIOUS
<1>2. ASSUME account' = account, Kind(cats, cats'), Kind(tags, tags'), Kind(groups, groups'),
             Kind(events, events')
      PROVE  /\ Carried(cats, cats') /\ Carried(tags, tags')
             /\ Carried(groups, groups') /\ Carried(events, events')
  BY <1>2 DEF Carried
<1>3. mode = ModeOf(q.e2ee) OBVIOUS
<1> HIDE DEF mode
<1>4. Runs(r) /\ (q.op # "rewrite" => account' = account) BY Commits
<1>5. Asked(q, next) BY DEF Waiting
<1>6. CASE q.op = "createCategory" /\ InsertCategory(q)
  <2> DEFINE row == [kind |-> "custom", cid |-> q.cid, mode |-> ModeOf(q.e2ee)]
  <2>1. /\ cats' = Extend(cats, next.cat, row) /\ row.mode = mode
        /\ tags' = tags /\ groups' = groups /\ events' = events
    BY <1>3, <1>6 DEF InsertCategory
  <2> HIDE DEF row
  <2>2. Kind(cats, cats') BY <1>1, <2>1 DEF AllIn, Extend
  <2> QED BY <1>1, <1>2, <1>4, <1>6, <2>1, <2>2
<1>7. CASE q.op = "updateCategory" /\ UpdateCategory(q)
  <2>1. /\ cats' = IF q.id \in Cats THEN [cats EXCEPT ![q.id].mode = mode] ELSE cats
        /\ tags' = tags /\ groups' = groups /\ events' = events
    BY <1>3, <1>7 DEF UpdateCategory
  <2>2. \A c \in DOMAIN cats : cats[c] \in CategoryRows BY StoredParts DEF TypedCats
  <2>3. Kind(cats, cats') BY <1>1, <2>1, <2>2 DEF AllIn, CategoryRows, Cats
  <2> QED BY <1>1, <1>2, <1>4, <1>7, <2>1, <2>3
<1>8. CASE q.op = "createTag" /\ CreateTag(q)
  <2>1. AskedTag(q, next) BY <1>5, <1>8, AskedParts
  <2>2. /\ DOMAIN tags' = Tags \cup {next.tag} /\ tags'[next.tag] = TagRow(q)
        /\ \A t \in Tags : tags'[t] = tags[t]
    BY <1>8, <2>1, TagCreated
  <2>3. TagRow(q).mode = mode BY <1>3, <2>1, TagRowTyped
  <2>4. cats' = cats /\ groups' = groups /\ events' = events BY <1>8 DEF CreateTag
  <2>5. Kind(tags, tags') BY <1>1, <2>2, <2>3 DEF AllIn, Tags
  <2> QED BY <1>1, <1>2, <1>4, <1>8, <2>4, <2>5
<1>9. CASE q.op = "updateTag" /\ UpdateTag(q)
  <2>1. AskedTag(q, next) BY <1>5, <1>9, AskedParts
  <2>2. /\ DOMAIN tags' = Tags /\ \A t \in Tags : TagAfter(q, t, tags'[t])
        /\ DOMAIN groups' = DOMAIN groups
        /\ \A g \in DOMAIN groups : groups'[g].mode = groups[g].mode
    BY <1>9, <2>1, TagUpdated
  <2>3. TagRow(q).mode = mode BY <1>3, <2>1, TagRowTyped
  <2>4. cats' = cats /\ events' = events BY <1>9 DEF UpdateTag
  <2>5. Kind(tags, tags') /\ Kind(groups, groups')
    BY <1>1, <2>2, <2>3 DEF AllIn, Tags, TagAfter
  <2> QED BY <1>1, <1>2, <1>4, <1>9, <2>4, <2>5
<1>10. CASE q.op = "createGroup" /\ CreateTagGroup(q)
  <2>1. AskedGroup(q, next) BY <1>5, <1>10, AskedParts
  <2>2. /\ DOMAIN groups' = DOMAIN groups \cup {next.group}
        /\ \A g \in DOMAIN groups : groups'[g] = groups[g]
        /\ groups'[next.group].mode = mode
    BY <1>3, <1>10, <2>1, GroupCreated
  <2>3. cats' = cats /\ tags' = tags /\ events' = events BY <1>10 DEF CreateTagGroup
  <2>4. Kind(groups, groups') BY <1>1, <2>2 DEF AllIn
  <2> QED BY <1>1, <1>2, <1>4, <1>10, <2>3, <2>4
<1>11. CASE q.op = "updateGroup" /\ UpdateTagGroup(q)
  <2>1. AskedGroup(q, next) BY <1>5, <1>11, AskedParts
  <2>2. /\ DOMAIN groups' = DOMAIN groups
        /\ \A g \in DOMAIN groups : g # q.id => groups'[g] = groups[g]
        /\ groups'[q.id].mode = mode
    BY <1>3, <1>11, <2>1, GroupUpdated
  <2>3. cats' = cats /\ tags' = tags /\ events' = events BY <1>11 DEF UpdateTagGroup
  <2>4. Kind(groups, groups') BY <1>1, <2>2 DEF AllIn
  <2> QED BY <1>1, <1>2, <1>4, <1>11, <2>3, <2>4
<1>12. CASE q.op = "createEvent" /\ InsertEvent(q)
  <2>1. AskedEvent(q, next) BY <1>5, <1>12, AskedParts
  <2>2. /\ NewDateTags(tags, tags', q.date, Inserted(q.date), next.tag)
        /\ DOMAIN events' = DOMAIN events \cup {next.event}
        /\ \A e \in DOMAIN events : events'[e] = events[e]
        /\ events'[next.event] = EventRow(q, q.cid)
    BY <1>12, <2>1, EventInserted
  <2>3. events'[next.event].mode = mode BY <1>3, <2>2 DEF EventRow
  <2>4. cats' = cats /\ groups' = groups BY <1>12 DEF InsertEvent
  <2>5. Kind(tags, tags') BY <1>1, <1>3, <2>1, <2>2, DateTagsMode
  <2>6. Kind(events, events') BY <1>1, <2>2, <2>3 DEF AllIn
  <2> QED BY <1>1, <1>2, <1>4, <1>12, <2>4, <2>5, <2>6
<1>13. CASE q.op = "updateEvent" /\ UpdateEventWithTags(q)
  <2>1. AskedEvent(q, next) BY <1>5, <1>13, AskedParts
  <2>2. /\ NewDateTags(tags, tags', q.date, Inserted(q.date), next.tag)
        /\ DOMAIN events' = DOMAIN events
        /\ \A e \in DOMAIN events : e # q.id => events'[e] = events[e]
        /\ events'[q.id] = EventRow(q, events[q.id].cid)
    BY <1>13, <2>1, EventUpdated
  <2>3. events'[q.id].mode = mode BY <1>3, <2>2 DEF EventRow
  <2>4. cats' = cats /\ groups' = groups BY <1>13 DEF UpdateEventWithTags
  <2>5. Kind(tags, tags') BY <1>1, <1>3, <2>1, <2>2, DateTagsMode
  <2>6. Kind(events, events') BY <1>1, <2>2, <2>3 DEF AllIn
  <2> QED BY <1>1, <1>2, <1>4, <1>13, <2>4, <2>5, <2>6
<1>14. CASE q.op = "rewrite" /\ Migrate(q)
  <2>1. AskedMigration(q) BY <1>5, <1>14, AskedParts
  <2> DEFINE after == ModeOf(q.enable)
  <2>2. /\ DOMAIN cats' = Cats /\ DOMAIN tags' = Tags /\ DOMAIN events' = DOMAIN events
        /\ DOMAIN groups' = DOMAIN groups /\ account' = [account EXCEPT !.e2ee = q.enable]
        /\ \A c \in Cats : c \in q.body.cats => cats'[c].mode = after
        /\ \A t \in Tags : t \in DOMAIN q.body.tags => tags'[t].mode = after
        /\ \A e \in DOMAIN events : e \in q.body.events => events'[e].mode = after
    BY <1>14, <2>1, Migrated
  <2>3. after = ModeOf(account'.e2ee) BY <2>2 DEF Counted
  <2> HIDE DEF after
  <2>4. Cats \subseteq q.body.cats /\ DOMAIN events \subseteq q.body.events BY <1>14 DEF Named
  <2>5. AllIn(cats', after) /\ AllIn(events', after) BY <2>2, <2>4 DEF AllIn
  <2>6. ASSUME ~Overlooks(q) PROVE AllIn(tags', after) /\ AllIn(groups', after)
    <3> DEFINE data == MigrationData(q.body)
    <3>0. data.tags = q.body.tags /\ DOMAIN data.groups = {} BY DEF MigrationData
    <3> HIDE DEF data
    <3>1. Tags \subseteq DOMAIN data.tags /\ DOMAIN groups \subseteq DOMAIN data.groups
      BY <1>14, <2>6 DEF Overlooks, data
    <3>2. Tags \subseteq DOMAIN q.body.tags /\ DOMAIN groups = {} BY <3>0, <3>1
    <3> QED BY <2>2, <3>2 DEF AllIn
  <2> QED BY <2>3, <2>5, <2>6 DEF Carried
<1> QED BY <1>4, <1>6, <1>7, <1>8, <1>9, <1>10, <1>11, <1>12, <1>13, <1>14 DEF Runs

\* A deletion adds no category and no event, and leaves the flag.
LEMMA ServesShrinks ==
  ASSUME Stored, Serves, ~Purge
  PROVE  DOMAIN cats' \subseteq Cats /\ DOMAIN events' \subseteq DOMAIN events /\ account' = account
<1>1. ASSUME NEW c \in Cats, NEW moveTags \in BOOLEAN, NEW deleteEvents \in BOOLEAN,
             DeleteCategory(c, moveTags, deleteEvents)
      PROVE  /\ DOMAIN cats' \subseteq Cats /\ DOMAIN events' \subseteq DOMAIN events
             /\ account' = account
  <2>1. /\ cats' = Restrict(cats, Cats \ {c}) /\ account' = account
        /\ moveTags => MoveTags(c)
        /\ ~moveTags => DropTags(c, deleteEvents)
    BY <1>1 DEF DeleteCategory
  <2>2. moveTags => events' = events BY <2>1 DEF MoveTags
  <2>3. ~moveTags => DOMAIN events' \subseteq DOMAIN events
    BY <2>1, DropTagsDrops DEF Unlinked
  <2>4. DOMAIN cats' \subseteq Cats BY <2>1 DEF Restrict
  <2> QED BY <2>1, <2>2, <2>3, <2>4
<1>2. ASSUME NEW t \in Tags, NEW deleteEvents \in BOOLEAN, DeleteTag(t, deleteEvents)
      PROVE  cats' = cats /\ DOMAIN events' \subseteq DOMAIN events /\ account' = account
  <2>1. Relinked(events, events', t, CascadeTags({t})) BY <1>2, TagDeleted
  <2> QED BY <1>2, <2>1 DEF Relinked, DeleteTag
<1>3. \A g \in DOMAIN groups : DeleteTagGroup(g) =>
        cats' = cats /\ events' = events /\ account' = account
  BY DEF DeleteTagGroup
<1>4. ASSUME NEW e \in DOMAIN events, DeleteEvent(e)
      PROVE  cats' = cats /\ DOMAIN events' \subseteq DOMAIN events /\ account' = account
  BY <1>4, EventDeleted DEF DeleteEvent, Without
<1> QED BY <1>1, <1>2, <1>3, <1>4 DEF Serves, Cats

LEMMA TransactionNames ==
  ASSUME Stored, Waiting, NEW r \in Workers, Transaction(r),
         w[r].op \notin {"createCategory", "createEvent", "rewrite"}
  PROVE  DOMAIN cats' = Cats /\ DOMAIN events' = DOMAIN events /\ account' = account
<1> DEFINE q == w[r]
<1>1. Asked(q, next) /\ Runs(r) /\ account' = account BY Commits DEF Waiting
<1>2. CASE q.op = "updateCategory" /\ UpdateCategory(q) BY <1>1, <1>2 DEF UpdateCategory, Cats
<1>3. CASE CreateTag(q) \/ UpdateTag(q) \/ CreateTagGroup(q) \/ UpdateTagGroup(q)
  BY <1>1, <1>3 DEF CreateTag, UpdateTag, CreateTagGroup, UpdateTagGroup, Cats
<1>4. CASE q.op = "updateEvent" /\ UpdateEventWithTags(q)
  <2>1. AskedEvent(q, next) BY <1>1, <1>4, AskedParts
  <2>2. DOMAIN events' = DOMAIN events BY <1>4, <2>1, EventUpdated
  <2>3. cats' = cats BY <1>4 DEF UpdateEventWithTags
  <2> QED BY <1>1, <2>2, <2>3 DEF Cats
<1> QED BY <1>1, <1>2, <1>3, <1>4 DEF Runs

\* While a migration holds the user's row, no category and no event is created and
\* neither another migration nor a purge begins.
LEMMA ComparedStep ==
  ASSUME LInv, Compared, Next
  PROVE  Compared'
<1>1. Stored /\ Waiting /\ DOMAIN w = Workers BY DEF LInv, Waiting
<1>2. ASSUME account' = account, DOMAIN cats' \subseteq Cats,
             DOMAIN events' \subseteq DOMAIN events,
             \A s \in Workers : w'[s].op = "rewrite" => w'[s] = w[s]
      PROVE  Compared'
  BY <1>2 DEF Compared, Named, Cats
<1>3. ASSUME \A s \in Workers : w'[s].op # "rewrite" PROVE Compared' BY <1>3 DEF Compared
<1>4. CASE Arrives
  <2>0. PICK r \in Workers : \E q : Arrive(r, q) /\ Validated(q) BY <1>4 DEF Arrives
  <2>1. PICK q : Arrive(r, q) /\ Validated(q) BY <2>0
  <2>2. w' = [w EXCEPT ![r] = q] /\ q.op # "rewrite" BY <2>1 DEF Arrive, Validated
  <2>3. \A s \in Workers : w'[s].op = "rewrite" => w'[s] = w[s] BY <1>1, <2>2
  <2>4. UNCHANGED rows BY <1>4, ArrivesQuietly
  <2> QED BY <1>2, <2>3, <2>4 DEF rows, Cats
<1>5. CASE Ends
  <2>0. account' = account /\ cats' = cats /\ events' = events BY <1>5, EndsQuietly DEF rows
  <2>1. CASE \E r \in Workers : CheckIds(r)
    <3>1. PICK r \in Workers : CheckIds(r) BY <2>1
    <3> DEFINE q == [op |-> "rewrite", e2ee |-> w[r].e2ee, enable |-> w[r].enable,
                     body |-> w[r].body]
    <3>2. w' = [w EXCEPT ![r] = q] /\ ~UserLocked /\ account.e2ee # w[r].enable
          /\ IdSetsMatch(MigrationData(w[r].body))
      BY <3>1 DEF CheckIds
    <3>3. q.enable = w[r].enable /\ q.body = w[r].body OBVIOUS
    <3>4. Cats = w[r].body.cats /\ DOMAIN events = w[r].body.events
      BY <3>2 DEF IdSetsMatch, MigrationData
    <3> HIDE DEF q
    <3>5. w'[r] = q /\ \A s \in Workers : w'[s].op = "rewrite" => s = r
      BY <1>1, <3>2 DEF UserLocked
    <3>6. account'.e2ee # q.enable /\ DOMAIN cats' \subseteq q.body.cats
          /\ DOMAIN events' \subseteq q.body.events
      BY <2>0, <3>2, <3>3, <3>4 DEF Cats
    <3> QED BY <3>5, <3>6 DEF Compared, Named, Cats
  <2>2. CASE ~\E r \in Workers : CheckIds(r)
    <3>1. \A s \in Workers : w'[s].op = "rewrite" => w'[s] = w[s]
      BY <1>1, <1>5, <2>2
      DEF Ends, ReplayCategory, ReplayEvent, Replay, Duplicate, FindAgain, Abort, Idle
    <3> QED BY <1>2, <2>0, <3>1 DEF Cats
  <2> QED BY <2>1, <2>2
<1>6. CASE Serves
  <2>1. w' = w
    BY <1>6 DEF Serves, DeleteCategory, DeleteTag, DeleteTagGroup, DeleteEvent, Purge, Serve
  <2>2. CASE Purge BY <1>3, <2>1, <2>2 DEF Purge, UserLocked
  <2>3. CASE ~Purge BY <1>1, <1>2, <1>6, <2>1, <2>3, ServesShrinks
  <2> QED BY <2>2, <2>3
<1>7. CASE \E r \in Workers : Transaction(r)
  <2>1. PICK r \in Workers : Transaction(r) BY <1>7
  <2>2. Runs(r) /\ w' = [w EXCEPT ![r] = Idle] BY <2>1, Commits DEF Commit
  <2>3. w'[r].op # "rewrite" /\ \A s \in Workers : w'[s].op = "rewrite" => w'[s] = w[s]
    BY <1>1, <2>2 DEF Idle
  <2>4. CASE w[r].op \in {"createCategory", "createEvent"}
    <3>1. ~UserLocked BY <2>2, <2>4 DEF Runs, InsertCategory, InsertEvent
    <3> QED BY <1>3, <2>3, <3>1 DEF UserLocked
  <2>5. CASE w[r].op = "rewrite"
    <3>1. \A s \in Workers : w[s].op = "rewrite" => s = r BY <2>5 DEF Compared
    <3> QED BY <1>3, <2>3, <3>1
  <2>6. CASE w[r].op \notin {"createCategory", "createEvent", "rewrite"}
    BY <1>1, <1>2, <2>1, <2>3, <2>6, TransactionNames
  <2> QED BY <2>4, <2>5, <2>6
<1> QED BY <1>4, <1>5, <1>6, <1>7, Steps

LEMMA ReadableCarried ==
  ASSUME Readable, Carried(cats, cats'), Carried(tags, tags'),
         Carried(groups, groups'), Carried(events, events')
  PROVE  Readable'
<1> DEFINE now == ModeOf(account.e2ee)
<1> DEFINE then == ModeOf(account'.e2ee)
<1>1. AllIn(cats, now) /\ AllIn(tags, now) /\ AllIn(groups, now) /\ AllIn(events, now)
  BY StoredAsParts DEF Readable
<1>2. AllIn(cats', then) /\ AllIn(tags', then) /\ AllIn(groups', then) /\ AllIn(events', then)
  BY <1>1 DEF Carried
<1>3. StoredAs(cats', tags', groups', events', then) BY <1>2, StoredAsParts
<1> QED BY <1>3 DEF Readable

LEMMA ModeCarried ==
  ASSUME OneMode, ~mixed, Carried(cats, cats'), Carried(events, events'),
         ~overlooked' => ~overlooked /\ Carried(tags, tags') /\ Carried(groups, groups')
  PROVE  OneMode'
<1> DEFINE now == ModeOf(account.e2ee)
<1> DEFINE then == ModeOf(account'.e2ee)
<1>1. AllIn(cats, now) /\ AllIn(events, now) BY DEF OneMode, StoredAs, AllIn
<1>2. AllIn(cats', then) /\ AllIn(events', then) BY <1>1 DEF Carried
<1>3. StoredAs(cats', <<>>, <<>>, events', then) BY <1>2 DEF StoredAs, AllIn
<1>4. ~overlooked' => Readable' BY ReadableCarried DEF OneMode
<1> QED BY <1>3, <1>4 DEF OneMode

\* Migrations racing other writes leave the categories and events in the mode of the
\* account, and with them every tag and group that was there when the last migration
\* compared, unless a write keeps the flag it arrived with past a migration.
THEOREM StoredInOneMode == Spec => []OneMode
<1> DEFINE Modal == Compared /\ OneMode
<1>1. Init => Modal
  <2> SUFFICES ASSUME Init PROVE Modal
    OBVIOUS
  <2>1. Readable BY StartsStored DEF Readable
  <2>2. OneMode BY <2>1 DEF OneMode, Readable, StoredAs
  <2>3. Compared BY DEF Init, Idle, Compared
  <2> QED BY <2>2, <2>3
<1>2. ASSUME LInv, Modal, Next PROVE Modal'
  <2>0. Compared' BY <1>2, ComparedStep
  <2>1. Counted /\ Stored /\ Waiting BY <1>2 DEF LInv
  <2>2. SUFFICES ASSUME ~mixed' PROVE OneMode' BY <2>0 DEF OneMode
  <2>3. CASE Arrives \/ Ends
    <3>1. UNCHANGED rows BY <2>3, ArrivesQuietly, EndsQuietly
    <3>2. mixed' = mixed /\ overlooked' = overlooked
      BY <2>3, ArrivesQuietly
      DEF notes, Ends, ReplayCategory, ReplayEvent, Replay, Duplicate, FindAgain, CheckIds, Abort
    <3> QED BY <1>2, <2>2, <3>1, <3>2 DEF OneMode, Readable, rows
  <2>4. CASE Serves
    <3>1. mixed' = mixed /\ overlooked' = overlooked
      BY <2>4 DEF Serves, DeleteCategory, DeleteTag, DeleteTagGroup, DeleteEvent, Purge, Serve
    <3>2. /\ Carried(cats, cats') /\ Carried(tags, tags')
          /\ Carried(groups, groups') /\ Carried(events, events')
      BY <2>1, <2>4, ServesMode
    <3> QED BY <1>2, <2>2, <3>1, <3>2, ModeCarried
  <2>5. CASE \E r \in Workers : Transaction(r)
    <3>1. PICK r \in Workers : Transaction(r) BY <2>5
    <3>2. /\ mixed' = (mixed \/ w[r].e2ee # account.e2ee)
          /\ overlooked' = (overlooked \/ Overlooks(w[r]))
      BY <3>1 DEF Transaction, Commit
    <3>3. ~mixed /\ w[r].e2ee = account.e2ee BY <2>2, <3>2
    <3>4. w[r].op = "rewrite" => Named(w[r]) BY <1>2 DEF Compared
    <3>5. /\ Carried(cats, cats') /\ Carried(events, events')
          /\ ~Overlooks(w[r]) => Carried(tags, tags') /\ Carried(groups, groups')
      BY <2>1, <3>1, <3>3, <3>4, TransactionMode
    <3> QED BY <1>2, <2>2, <3>2, <3>3, <3>5, ModeCarried
  <2> QED BY <1>2, <2>3, <2>4, <2>5, Steps
<1>3. LInv /\ Modal /\ [Next]_vars => Modal'
  <2>1. ASSUME Modal, UNCHANGED vars PROVE Modal'
    BY <2>1 DEF OneMode, Readable, Compared, Named, Cats, vars, rows, notes
  <2> QED BY <1>2, <2>1
<1>4. Modal => OneMode OBVIOUS
<1> HIDE DEF Modal
<1> QED BY <1>1, <1>3, <1>4, RowsTyped, PTL DEF Spec
=============================================================================
