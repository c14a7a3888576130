---------------------------- MODULE OutboxProofs ----------------------------
(***************************************************************************)
(* Theorems about the outbox, for every value of the constants: types and  *)
(* order, the op being sent, what a temporary id names, what goes when its *)
(* creation goes, whether changes follow it to the server's id, and the    *)
(* base they are made on.                                                  *)
(***************************************************************************)
EXTENDS Outbox, TLAPS, WellFoundedInduction

OpsType(f) == DOMAIN f \subseteq Nat /\ \A t \in DOMAIN f : f[t] \in Op

-----------------------------------------------------------------------------
(* Operators: what they return, and what they leave alone.                 *)

LEMMA BlockedReasonType ==
  ASSUME NEW f, NEW op, NEW P, NEW why,
         \A c \in P : why[c] \in ParkReasons \cup {NotHeld}
  PROVE  BlockedReason(f, op, P, why) \in ParkReasons \cup {NotHeld}
BY DEF BlockedReason, MissingReason, ParkReasons

\* Entering the queue only decides whether the op is parked.
LEMMA AdmittedType ==
  ASSUME NEW f, OpsType(f), NEW op \in Op
  PROVE  /\ Admitted(f, op) \in Op
         /\ Admitted(f, op).kind = op.kind
         /\ Admitted(f, op).target = op.target
         /\ Dependencies(Admitted(f, op)) = Dependencies(op)
<1> DEFINE P == {c \in Creations(f) : ~IsWaiting(f[c])}
           why == [c \in DOMAIN f |-> f[c].parked]
           r == BlockedReason(f, op, P, why)
<1>1. \A c \in P : why[c] \in ParkReasons \cup {NotHeld}
  BY DEF OpsType, Op, Creations
<1>2. r \in ParkReasons \cup {NotHeld}
  BY <1>1, BlockedReasonType
<1>3. Admitted(f, op) = [op EXCEPT !.parked = r]
  BY DEF Admitted
<1> HIDE DEF r
<1>4. Admitted(f, op) \in Op
  BY <1>2, <1>3 DEF Op
<1>5. /\ Admitted(f, op).kind = op.kind
      /\ Admitted(f, op).target = op.target
      /\ Admitted(f, op).tags = op.tags
      /\ Admitted(f, op).category = op.category
  BY <1>3 DEF Op
<1> QED BY <1>4, <1>5 DEF Dependencies, TagDependencies, IsCreation

\* Parking changes nothing but the reasons.
LEMMA ParkType ==
  ASSUME NEW f, OpsType(f), NEW t, NEW reason \in ParkReasons, NEW g, Park(f, t, reason, g)
  PROVE  /\ DOMAIN g = DOMAIN f
         /\ OpsType(g)
         /\ \A i \in DOMAIN f : /\ g[i].kind = f[i].kind
                                /\ g[i].target = f[i].target
                                /\ Dependencies(g[i]) = Dependencies(f[i])
<1>1. PICK S \in SUBSET DOMAIN f :
        g = [i \in DOMAIN f |->
              IF i \in S THEN [f[i] EXCEPT !.parked = CascadeReason(f, t, reason, S, i)]
              ELSE f[i]]
  BY DEF Park
<1>2. ASSUME NEW i \in S PROVE CascadeReason(f, t, reason, S, i) \in ParkReasons \cup {NotHeld}
  <2> DEFINE creation == S \cap Creations(f)
             before == {c \in creation : c < i}
             why == [c \in creation |->
                      IF c = t THEN reason
                      ELSE MissingReason(f[c], TargetsOf(f, {b \in creation : b < c}))]
  <2>1. \A c \in before : why[c] \in ParkReasons \cup {NotHeld}
    BY DEF MissingReason, ParkReasons
  <2>2. BlockedReason(f, f[i], before, why) \in ParkReasons \cup {NotHeld}
    BY <2>1, BlockedReasonType
  <2> QED BY <2>2 DEF CascadeReason
<1>3. ASSUME NEW i \in DOMAIN f
      PROVE  /\ g[i] \in Op
             /\ g[i].kind = f[i].kind /\ g[i].target = f[i].target
             /\ g[i].tags = f[i].tags /\ g[i].category = f[i].category
  <2>1. f[i] \in Op BY DEF OpsType
  <2>2. CASE i \in S
    <3> DEFINE r == CascadeReason(f, t, reason, S, i)
    <3>1. r \in ParkReasons \cup {NotHeld} BY <1>2, <2>2
    <3>2. g[i] = [f[i] EXCEPT !.parked = r] BY <1>1, <2>2
    <3> HIDE DEF r
    <3> QED BY <2>1, <3>1, <3>2 DEF Op
  <2>3. CASE i \notin S
    BY <2>1, <2>3, <1>1
  <2> QED BY <2>2, <2>3
<1>4. DOMAIN g = DOMAIN f BY <1>1
<1> QED BY <1>3, <1>4 DEF OpsType, Dependencies, TagDependencies, IsCreation
-----------------------------------------------------------------------------
(* The inductive invariant.  DependencyOrder alone is not inductive: a new *)
(* creation could be given an id that waiting ops already use.  Ids are    *)
(* handed out downwards, so it is enough that every temporary id in use,   *)
(* in the queue or on a screen, is above the next one.                     *)

InOrder(f) ==
  \A t \in DOMAIN f, c \in Creations(f) : f[c].target \in Dependencies(f[t]) => c <= t

HandedOut(f, next) ==
  \A t \in DOMAIN f :
    /\ \A d \in Dependencies(f[t]) : next < d
    /\ IsCreation(f[t]) => next < f[t].target

Queue(f, next, last) ==
  OpsType(f) /\ DOMAIN f \subseteq 1..last /\ InOrder(f) /\ HandedOut(f, next)

ShownHandedOut == \A p \in shown : nextTempId < p[2]

IInv == TypeOK /\ Queue(ops, nextTempId, writes) /\ ShownHandedOut

-----------------------------------------------------------------------------
(* What the actions do to the queue, one lemma per operator.               *)

LEMMA DependenciesNegative ==
  ASSUME NEW op \in Op
  PROVE  \A d \in Dependencies(op) : d \in Int /\ d < 0
BY DEF Dependencies, TagDependencies, Op

LEMMA QueueWithout ==
  ASSUME NEW f, NEW next \in Int, NEW last \in Nat, Queue(f, next, last), NEW S
  PROVE  Queue(Without(f, S), next, last)
BY DEF Queue, OpsType, InOrder, HandedOut, Creations, Without

\* Ops that only lose dependencies, or are aimed at server ids.
LEMMA QueueRelaxed ==
  ASSUME NEW f, NEW next \in Int, NEW last \in Nat, Queue(f, next, last), next < 0,
         NEW g, DOMAIN g = DOMAIN f, OpsType(g),
         \A i \in DOMAIN f : /\ g[i].kind = f[i].kind
                             /\ g[i].target = f[i].target \/ g[i].target >= 0
                             /\ Dependencies(g[i]) \subseteq Dependencies(f[i])
  PROVE  Queue(g, next, last)
<1>1. Creations(g) = Creations(f)
  BY DEF Creations, IsCreation
<1>2. InOrder(g)
  <2> SUFFICES ASSUME NEW t \in DOMAIN g, NEW c \in Creations(g),
                      g[c].target \in Dependencies(g[t])
               PROVE  c <= t
    BY DEF InOrder
  <2>1. c \in DOMAIN f /\ g[t] \in Op
    BY DEF Creations, OpsType
  <2>2. g[c].target < 0 /\ g[c].target \in Int
    BY <2>1, DependenciesNegative
  <2>3. g[c].target = f[c].target
    BY <2>1, <2>2
  <2> QED BY <1>1, <2>3 DEF Queue, InOrder
<1>3. HandedOut(g, next)
  <2> SUFFICES ASSUME NEW t \in DOMAIN g
               PROVE  /\ \A d \in Dependencies(g[t]) : next < d
                      /\ IsCreation(g[t]) => next < g[t].target
    BY DEF HandedOut
  <2>1. g[t].target \in Int
    BY DEF OpsType, Op
  <2> QED BY <2>1 DEF Queue, HandedOut, IsCreation
<1> QED BY <1>2, <1>3 DEF Queue

\* An op at the end: a creation under the next temporary id, or a change.
LEMMA QueueExtended ==
  ASSUME NEW f, NEW next \in Int, NEW last \in Nat, Queue(f, next, last), next < 0,
         NEW op \in Op, \A d \in Dependencies(op) : next < d,
         NEW after \in Int, after = (IF IsCreation(op) THEN next - 1 ELSE next),
         IsCreation(op) => op.target = next
  PROVE  Queue(Extended(f, last + 1, Admitted(f, op)), after, last + 1)
<1> DEFINE new == Admitted(f, op)
           g == Extended(f, last + 1, new)
<1>1. /\ new \in Op /\ new.kind = op.kind /\ new.target = op.target
      /\ Dependencies(new) = Dependencies(op)
  BY AdmittedType DEF Queue
<1> HIDE DEF new
<1>2. last + 1 \notin DOMAIN f /\ DOMAIN f \subseteq Nat
  BY DEF Queue, OpsType
<1>3. /\ DOMAIN g = DOMAIN f \cup {last + 1}
      /\ g[last + 1] = new
      /\ \A i \in DOMAIN f : g[i] = f[i]
  BY <1>2 DEF Extended
<1> HIDE DEF g
<1>4. OpsType(g) /\ DOMAIN g \subseteq 1..(last + 1)
  BY <1>1, <1>3 DEF Queue, OpsType
<1>5. InOrder(g)
  <2> SUFFICES ASSUME NEW t \in DOMAIN g, NEW c \in Creations(g),
                      g[c].target \in Dependencies(g[t])
               PROVE  c <= t
    BY DEF InOrder
  <2>1. c \in DOMAIN g /\ IsCreation(g[c]) BY DEF Creations
  <2>2. CASE t = last + 1
    BY <1>4, <2>1, <2>2
  <2>3. CASE t \in DOMAIN f /\ c \in DOMAIN f
    BY <1>3, <2>1, <2>3 DEF Queue, InOrder, Creations
  <2>4. CASE t \in DOMAIN f /\ c = last + 1
    <3>1. g[c].target = next
      BY <1>1, <1>3, <2>1, <2>4 DEF IsCreation
    <3>2. next < next
      BY <1>3, <2>4, <3>1 DEF Queue, HandedOut
    <3> QED BY <3>2
  <2> QED BY <1>3, <2>1, <2>2, <2>3, <2>4
<1>6. HandedOut(g, after)
  <2> SUFFICES ASSUME NEW t \in DOMAIN g
               PROVE  /\ \A d \in Dependencies(g[t]) : after < d
                      /\ IsCreation(g[t]) => after < g[t].target
    BY DEF HandedOut
  <2>0. after <= next /\ g[t] \in Op /\ (\A d \in Dependencies(g[t]) : d \in Int)
        /\ g[t].target \in Int
    BY <1>4, DependenciesNegative DEF OpsType, Op
  <2>1. CASE t = last + 1
    BY <1>1, <1>3, <2>0, <2>1 DEF IsCreation
  <2>2. CASE t \in DOMAIN f
    BY <1>3, <2>0, <2>2 DEF Queue, HandedOut
  <2> QED BY <1>3, <2>1, <2>2
<1> QED BY <1>4, <1>5, <1>6 DEF Queue, g, new

\* A change folded into op t, which may not come to need a later creation.
LEMMA QueueFolded ==
  ASSUME NEW f, NEW next \in Int, NEW last \in Nat, Queue(f, next, last), next < 0,
         NEW t \in DOMAIN f, NEW op \in Op,
         op.kind = f[t].kind, op.target = f[t].target,
         \A d \in Dependencies(op) : next < d,
         Dependencies(op) \cap CreatedAfter(f, t) = {}
  PROVE  Queue([f EXCEPT ![t] = op], next, last + 1)
<1> DEFINE g == [f EXCEPT ![t] = op]
<1>1. DOMAIN g = DOMAIN f /\ g[t] = op /\ \A i \in DOMAIN f : i # t => g[i] = f[i]
  OBVIOUS
<1> HIDE DEF g
<1>2. OpsType(g) /\ DOMAIN g \subseteq 1..(last + 1)
  BY <1>1 DEF Queue, OpsType
<1>3. Creations(g) = Creations(f) /\ \A i \in DOMAIN f : g[i].target = f[i].target
  BY <1>1 DEF Creations, IsCreation
<1>4. InOrder(g)
  <2> SUFFICES ASSUME NEW u \in DOMAIN g, NEW c \in Creations(g),
                      g[c].target \in Dependencies(g[u])
               PROVE  c <= u
    BY DEF InOrder
  <2>1. c \in Creations(f) /\ c \in DOMAIN f /\ c \in Nat /\ u \in Nat
    BY <1>1, <1>3 DEF Creations, Queue, OpsType
  <2>2. CASE u = t
    BY <1>1, <1>3, <2>1, <2>2 DEF CreatedAfter, TargetsOf
  <2>3. CASE u # t
    BY <1>1, <1>3, <2>1, <2>3 DEF Queue, InOrder
  <2> QED BY <2>2, <2>3
<1>5. HandedOut(g, next)
  BY <1>1 DEF Queue, HandedOut, IsCreation
<1> QED BY <1>2, <1>4, <1>5 DEF Queue, g
-----------------------------------------------------------------------------
(* What the screens can put in an op.                                      *)

LEMMA IdsResolve ==
  ASSUME IInv
  PROVE  /\ nextTempId \in Int /\ nextTempId < 0
         /\ \A id \in Int : nextTempId < id =>
              /\ Resolve(id) \in Int /\ nextTempId < Resolve(id)
              /\ ResolveEvent(id) \in Int /\ nextTempId < ResolveEvent(id)
         /\ \A e \in AllEntities : \A id \in ScreenIds(e) : id \in Int /\ nextTempId < id
<1>1. nextTempId \in Int /\ nextTempId < 0
  BY DEF IInv, TypeOK, FirstTempId
<1>2. /\ \A i \in DOMAIN remap : remap[i] \in Nat \ {0}
      /\ \A i \in DOMAIN eventRemap : eventRemap[i] \in Nat \ {0}
  BY DEF IInv, TypeOK
<1>3. ASSUME NEW id \in Int, nextTempId < id
      PROVE  Resolve(id) \in Int /\ nextTempId < Resolve(id)
  BY <1>1, <1>2, <1>3 DEF Resolve
<1>4. ASSUME NEW id \in Int, nextTempId < id
      PROVE  ResolveEvent(id) \in Int /\ nextTempId < ResolveEvent(id)
  BY <1>1, <1>2, <1>3, <1>4 DEF ResolveEvent
<1>5. ASSUME NEW e \in AllEntities, NEW id \in ScreenIds(e)
      PROVE  id \in Int /\ nextTempId < id
  BY DEF ScreenIds, IInv, TypeOK, ShownHandedOut
<1> QED BY <1>1, <1>3, <1>4, <1>5

LEMMA BodiesType ==
  ASSUME IInv, NEW e \in AllEntities, NEW body \in Bodies(e)
  PROVE  /\ body.tags \in SUBSET Int /\ body.category \in Int
         /\ \A id \in body.tags : nextTempId < id
         /\ nextTempId < body.category
<1>1. nextTempId \in Int /\ nextTempId < 0
  BY IdsResolve
<1>2. ASSUME NEW x \in AllEntities, NEW id \in Either(ScreenIds(x))
      PROVE  id \in Int /\ nextTempId < id
  BY IdsResolve DEF Either
<1>3. ASSUME NEW x \in AllEntities, NEW id \in ScreenIds(x)
      PROVE  id \in Int /\ nextTempId < id
  BY IdsResolve
<1>4. {"tag", "category"} \subseteq AllEntities
  BY DEF AllEntities
<1>5. body.category \in Int /\ nextTempId < body.category
  BY <1>1, <1>2, <1>4 DEF Bodies, NoId
<1>6. \A id \in body.tags : id \in Int /\ nextTempId < id
  <2>1. CASE e = "event"    BY <1>3, <1>4, <2>1 DEF Bodies
  <2>2. CASE e = "tag"      BY <1>2, <1>4, <2>2 DEF Bodies
  <2>3. CASE e = "group"    BY <1>3, <1>4, <2>3 DEF Bodies
  <2>4. CASE e = "category" BY <2>4 DEF Bodies
  <2> QED BY <2>1, <2>2, <2>3, <2>4 DEF AllEntities
<1> QED BY <1>5, <1>6

LEMMA NewOpType ==
  ASSUME IInv, NEW e \in AllEntities, NEW kind \in Kinds, NEW target \in Int,
         NEW body, body.tags \in SUBSET Int, body.category \in Int,
         \A id \in body.tags : nextTempId < id, nextTempId < body.category,
         nextTempId < target \/ kind = "create",
         NEW base \in Bases \cup {NoBase}
  PROVE  /\ NewOp(e, kind, target, body, base) \in Op
         /\ NewOp(e, kind, target, body, base).kind = kind
         /\ NewOp(e, kind, target, body, base).target = target
         /\ \A d \in Dependencies(NewOp(e, kind, target, body, base)) : nextTempId < d
<1> DEFINE op == NewOp(e, kind, target, body, base)
<1>1. writes + 1 \in Nat
  BY DEF IInv, TypeOK
<1>2. op \in Op
  BY <1>1 DEF NewOp, Op, Kinds
<1>3. /\ op.kind = kind /\ op.target = target
      /\ op.tags = body.tags /\ op.category = body.category
  BY DEF NewOp
<1> QED BY <1>2, <1>3 DEF Dependencies, TagDependencies, IsCreation

LEMMA FoldedType ==
  ASSUME NEW op \in Op, writes \in Nat,
         NEW body, body.tags \in SUBSET Int, body.category \in Int
  PROVE  /\ Folded(op, body) \in Op
         /\ Folded(op, body).kind = op.kind /\ Folded(op, body).target = op.target
         /\ Folded(op, body).tags = body.tags
         /\ Folded(op, body).category \in {op.category, body.category}
<1> DEFINE category == IF op.entity = "group" THEN op.category ELSE body.category
           tags == body.tags
           write == writes + 1
           new == [op EXCEPT !.tags = tags, !.category = category, !.write = write]
<1>1. /\ tags \in SUBSET Int /\ write \in Nat
      /\ category \in Int /\ category \in {op.category, body.category}
  BY DEF Op
<1>2. Folded(op, body) = new
  BY DEF Folded
<1>3. /\ new \in Op /\ new.kind = op.kind /\ new.target = op.target
      /\ new.tags = tags /\ new.category = category
  <2> HIDE DEF tags, category, write
  <2> QED BY <1>1 DEF Op
<1> HIDE DEF new
<1> QED BY <1>1, <1>2, <1>3

LEMMA SmallestTicket ==
  ASSUME NEW S \in SUBSET Nat, S # {}
  PROVE  \E t \in S : \A u \in S : t <= u
<1> DEFINE R == OpToRel(<, Nat)
<1>1. R = {p \in Nat \X Nat : p[1] < p[2]}
  BY DEF OpToRel
<1>2. PICK t \in S : \A u \in S : ~ (<<u, t>> \in R)
  BY NatLessThanWellFounded, WFMin
<1>3. ASSUME NEW u \in S PROVE t <= u
  <2>1. <<u, t>> \in Nat \X Nat /\ <<u, t>> \notin R
    BY <1>2
  <2>2. ~ (u < t)
    BY <1>1, <2>1
  <2> QED BY <2>2
<1> QED BY <1>3

LEMMA BasesType ==
  ASSUME IInv, NEW e, NEW target, NEW base \in GivenBases(target)
  PROVE  EarliestBase(e, target, base) \in Bases \cup {NoBase}
<1>1. base \in Bases \cup {NoBase}
  BY DEF GivenBases
<1>2. \A t \in DOMAIN ops : ops[t].base \in Bases \cup {NoBase} /\ t \in Nat
  BY DEF IInv, TypeOK, Op
<1> DEFINE based == {t \in DOMAIN ops : About(ops[t], e, target) /\ ops[t].base # NoBase}
<1>3. CASE based = {}
  BY <1>1, <1>3 DEF EarliestBase
<1>4. CASE based # {}
  <2>1. \E t \in based : \A u \in based : t <= u
    <3>1. based \subseteq Nat /\ based # {}
      BY <1>2, <1>4
    <3> HIDE DEF based
    <3> QED BY <3>1, SmallestTicket
  <2> QED BY <1>2, <1>4, <2>1 DEF EarliestBase
<1> QED BY <1>3, <1>4

-----------------------------------------------------------------------------
(* The actions, one lemma each.                                            *)

\* The parts of the type invariant outside the queue and the screens.
RestType ==
  /\ writes \in Nat
  /\ nextTempId \in Int /\ nextTempId <= FirstTempId
  /\ DOMAIN remap \subseteq Int /\ \A i \in DOMAIN remap : remap[i] \in Nat \ {0}
  /\ DOMAIN eventRemap \subseteq Nat /\ \A i \in DOMAIN eventRemap : eventRemap[i] \in Nat \ {0}
  /\ sending \in Nat
  /\ held \subseteq Held
  /\ resets \in Nat

ShownType == shown \subseteq AllEntities \X Int /\ ShownHandedOut

LEMMA IInvParts ==
  IInv <=> RestType /\ ShownType /\ Queue(ops, nextTempId, writes)
BY DEF IInv, TypeOK, RestType, ShownType, Queue, OpsType

LEMMA InitIInv == ASSUME Init PROVE IInv
<1>1. RestType
  BY DEF Init, RestType, FirstTempId, Nobody
<1>2. ShownType
  <2>1. \A e \in AllEntities : Known[e] \subseteq Nat \ {0}
    BY OutboxAssumption
  <2>2. \A p \in shown : p \in AllEntities \X Int /\ p[2] > 0
    BY <2>1 DEF Init
  <2> QED BY <2>2 DEF Init, ShownType, ShownHandedOut, FirstTempId
<1>3. Queue(ops, nextTempId, writes)
  BY DEF Init, Queue, OpsType, InOrder, HandedOut, Creations
<1> QED BY <1>1, <1>2, <1>3, IInvParts

LEMMA CreateIInv ==
  ASSUME IInv, NEW e \in AllEntities, NEW body \in Bodies(e), Create(e, body)
  PROVE  IInv'
<1>1. RestType /\ ShownType /\ Queue(ops, nextTempId, writes)
  BY IInvParts
<1>2. nextTempId \in Int /\ nextTempId < 0 /\ nextTempId <= FirstTempId /\ writes \in Nat
  BY <1>1 DEF RestType, FirstTempId
<1>3. nextTempId' = nextTempId - 1 /\ writes' = writes + 1
  BY DEF Create, TempIdAfter, CountWrite
<1>4. RestType'
  BY <1>1, <1>2, <1>3 DEF Create, RestType, FirstTempId
<1>5. ShownType'
  BY <1>1, <1>2, <1>3 DEF Create, ShownType, ShownHandedOut
<1>6. Queue(ops', nextTempId', writes')
  <2> DEFINE op == NewOp(e, "create", nextTempId, body, NoBase)
  <2>1. ops' = Extended(ops, writes + 1, Admitted(ops, op))
    BY DEF Create
  <2>2. /\ op \in Op /\ op.kind = "create" /\ op.target = nextTempId
        /\ \A d \in Dependencies(op) : nextTempId < d
    BY <1>2, BodiesType, NewOpType DEF Kinds
  <2> HIDE DEF op
  <2>3. IsCreation(op)
    BY <2>2 DEF IsCreation
  <2> QED BY <1>1, <1>2, <1>3, <2>1, <2>2, <2>3, QueueExtended
<1> QED BY <1>4, <1>5, <1>6, IInvParts DEF IInv, TypeOK, RestType, ShownType, Queue, OpsType

LEMMA UpdateIInv ==
  ASSUME IInv, NEW p \in shown, NEW body \in Bodies(p[1]),
         NEW base \in GivenBases(Target(p[1], p[2])), Update(p[1], p[2], body, base)
  PROVE  IInv'
<1> DEFINE e == p[1]
           target == Target(p[1], p[2])
<1>1. RestType /\ ShownType /\ Queue(ops, nextTempId, writes)
  BY IInvParts
<1>2. /\ nextTempId \in Int /\ nextTempId < 0 /\ writes \in Nat
      /\ writes' = writes + 1 /\ nextTempId' = nextTempId
  BY <1>1, IdsResolve DEF Update, RestType, CountWrite
<1>3. e \in AllEntities /\ target \in Int /\ nextTempId < target
  BY <1>1, IdsResolve DEF ShownType, ShownHandedOut, Target
<1>4. RestType' /\ ShownType'
  BY <1>1, <1>2 DEF Update, RestType, ShownType, ShownHandedOut
<1>5. \/ \E t \in Foldable(e, target, body) : ops' = [ops EXCEPT ![t] = Folded(@, body)]
      \/ ops' = Extended(ops, writes + 1,
                  Admitted(ops, NewOp(e, "update", target,
                    IF e = "group" THEN [body EXCEPT !.category = NoId] ELSE body,
                    EarliestBase(e, target, base))))
  BY DEF Update
<1>6. /\ body.tags \in SUBSET Int /\ body.category \in Int
      /\ \A id \in body.tags : nextTempId < id
      /\ nextTempId < body.category
  BY <1>3, BodiesType
<1> HIDE DEF e, target
<1>7. ASSUME NEW t \in Foldable(e, target, body), ops' = [ops EXCEPT ![t] = Folded(@, body)]
      PROVE  Queue(ops', nextTempId, writes + 1)
  <2> DEFINE op == Folded(ops[t], body)
  <2>1. /\ t \in DOMAIN ops /\ ops[t] \in Op
        /\ Dependencies(op) \cap CreatedAfter(ops, t) = {}
    BY <1>1 DEF Foldable, Queue, OpsType
  <2>2. /\ op \in Op /\ op.kind = ops[t].kind /\ op.target = ops[t].target
        /\ op.tags = body.tags /\ op.category \in {ops[t].category, body.category}
    BY <1>2, <1>6, <2>1, FoldedType
  <2> HIDE DEF op
  <2>3. \A d \in Dependencies(ops[t]) : nextTempId < d
    BY <1>1, <2>1 DEF Queue, HandedOut
  <2>4. \A d \in Dependencies(op) : nextTempId < d
    BY <1>2, <1>6, <2>2, <2>3 DEF Dependencies, TagDependencies, IsCreation
  <2>5. Queue([ops EXCEPT ![t] = op], nextTempId, writes + 1)
    BY <1>1, <1>2, <2>1, <2>2, <2>4, QueueFolded
  <2> QED BY <1>7, <2>5 DEF op
<1>8. ASSUME ops' = Extended(ops, writes + 1,
                      Admitted(ops, NewOp(e, "update", target,
                        IF e = "group" THEN [body EXCEPT !.category = NoId] ELSE body,
                        EarliestBase(e, target, base))))
      PROVE  Queue(ops', nextTempId, writes + 1)
  <2> DEFINE sent == IF e = "group" THEN [body EXCEPT !.category = NoId] ELSE body
             op == NewOp(e, "update", target, sent, EarliestBase(e, target, base))
  <2>1. /\ sent.tags = body.tags
        /\ sent.category \in {NoId, body.category}
    BY DEF Bodies, e
  <2> HIDE DEF sent
  <2>2. EarliestBase(e, target, base) \in Bases \cup {NoBase}
    BY BasesType DEF e, target
  <2>3. /\ sent.tags \in SUBSET Int /\ sent.category \in Int
        /\ \A id \in sent.tags : nextTempId < id
        /\ nextTempId < sent.category
    BY <1>2, <1>6, <2>1 DEF NoId
  <2>4. /\ op \in Op /\ op.kind = "update"
        /\ \A d \in Dependencies(op) : nextTempId < d
    BY <1>2, <1>3, <2>2, <2>3, NewOpType DEF Kinds
  <2> HIDE DEF op
  <2>5. ~ IsCreation(op)
    BY <2>4 DEF IsCreation
  <2>6. ops' = Extended(ops, writes + 1, Admitted(ops, op))
    BY <1>8 DEF op, sent
  <2> QED BY <1>1, <1>2, <2>4, <2>5, <2>6, QueueExtended
<1>9. Queue(ops', nextTempId', writes')
  BY <1>2, <1>5, <1>7, <1>8
<1> QED BY <1>4, <1>9, IInvParts DEF IInv, TypeOK, RestType, ShownType, Queue, OpsType
LEMMA DeleteIInv ==
  ASSUME IInv, NEW p \in shown, NEW body \in Noted(p[1], p[2]),
         NEW base \in GivenBases(Target(p[1], p[2])), Delete(p[1], p[2], body, base)
  PROVE  IInv'
<1> DEFINE e == p[1]
           target == Target(p[1], p[2])
           gone == Replaced(e, target)
           left == Without(ops, gone)
<1>1. RestType /\ ShownType /\ Queue(ops, nextTempId, writes)
  BY IInvParts
<1>2. /\ nextTempId \in Int /\ nextTempId < 0 /\ writes \in Nat
      /\ writes' = writes + 1 /\ nextTempId' = nextTempId
  BY <1>1, IdsResolve DEF Delete, RestType, CountWrite
<1>3. e \in AllEntities /\ target \in Int /\ nextTempId < target
  BY <1>1, IdsResolve DEF ShownType, ShownHandedOut, Target
<1>4. shown' \subseteq shown
  BY DEF Delete
<1>5. RestType' /\ ShownType'
  BY <1>1, <1>2, <1>4 DEF Delete, RestType, ShownType, ShownHandedOut
<1>6. /\ ops' = DeleteOp(e, target, gone, body, base)
      /\ body.tags \in SUBSET ScreenIds("tag") /\ body.category = NoId
  BY DEF Delete, Noted
<1> HIDE DEF e, target
<1>7. Queue(left, nextTempId, writes)
  BY <1>1, <1>2, QueueWithout
<1>8. ASSUME \E t \in gone : IsCreation(ops[t])
      PROVE  Queue(ops', nextTempId, writes + 1)
  <2>1. ops' = left
    BY <1>6, <1>8 DEF DeleteOp
  <2>2. Queue(left, nextTempId, writes + 1)
    BY <1>2, <1>7 DEF Queue
  <2> QED BY <1>2, <2>1, <2>2
<1>9. ASSUME ~ \E t \in gone : IsCreation(ops[t])
      PROVE  Queue(ops', nextTempId, writes + 1)
  <2> DEFINE op == NewOp(e, "delete", target, body, EarliestBase(e, target, base))
  <2>1. \A id \in body.tags : id \in Int /\ nextTempId < id
    BY IdsResolve, <1>6 DEF AllEntities
  <2>2. /\ body.tags \in SUBSET Int /\ body.category \in Int
        /\ \A id \in body.tags : nextTempId < id
        /\ nextTempId < body.category
    BY <1>2, <1>6, <2>1 DEF NoId
  <2>3. EarliestBase(e, target, base) \in Bases \cup {NoBase}
    BY BasesType DEF e, target
  <2>4. op \in Op /\ op.kind = "delete" /\ \A d \in Dependencies(op) : nextTempId < d
    BY <1>3, <2>2, <2>3, NewOpType DEF Kinds
  <2> HIDE DEF op, left
  <2>5. ~ IsCreation(op)
    BY <2>4 DEF IsCreation
  <2>6. ops' = Extended(left, writes + 1, Admitted(left, op))
    BY <1>6, <1>9 DEF DeleteOp, op, left
  <2> QED BY <1>2, <1>7, <2>4, <2>5, <2>6, QueueExtended
<1>10. Queue(ops', nextTempId', writes')
  BY <1>8, <1>9, <1>2
<1> QED BY <1>5, <1>10, IInvParts DEF IInv, TypeOK, RestType, ShownType, Queue, OpsType

LEMMA TakeIInv == ASSUME IInv, Take PROVE IInv'
<1>1. PICK t \in DOMAIN ops : sending' = t /\ held' = {[ticket |-> t, op |-> ops[t]]}
  BY DEF Take
<1>2. t \in Nat /\ ops[t] \in Op
  BY DEF IInv, TypeOK
<1>3. RestType'
  BY <1>1, <1>2 DEF Take, IInv, TypeOK, RestType, Held
<1>4. UNCHANGED <<ops, nextTempId, writes, shown>>
  BY DEF Take
<1> QED BY <1>3, <1>4 DEF IInv, TypeOK, RestType, ShownHandedOut

\* Any step of the engine that parks ops, or none.
LEMMA ParkedQueue ==
  ASSUME IInv, NEW t, NEW reason \in ParkReasons, NEW g, Park(ops, t, reason, g)
  PROVE  Queue(g, nextTempId, writes)
<1>1. nextTempId \in Int /\ nextTempId < 0 /\ writes \in Nat
  BY IdsResolve DEF IInv, TypeOK
<1> QED BY <1>1, ParkType, QueueRelaxed DEF IInv, Queue

LEMMA HoldBackIInv == ASSUME IInv, HoldBack PROVE IInv'
<1>1. Queue(ops', nextTempId, writes)
  BY ParkedQueue DEF HoldBack, ParkReasons, IInv
<1>2. RestType' /\ ShownType'
  BY DEF HoldBack, IInv, TypeOK, RestType, ShownType, ShownHandedOut, Nobody
<1>3. UNCHANGED <<writes, nextTempId>>
  BY DEF HoldBack
<1> QED BY <1>1, <1>2, <1>3, IInvParts DEF IInv, TypeOK, RestType, ShownType, Queue, OpsType

LEMMA ParkStaleIInv == ASSUME IInv, ParkStale PROVE IInv'
<1>1. Queue(ops', nextTempId, writes)
  BY ParkedQueue DEF ParkStale, ParkReasons
<1>2. RestType' /\ ShownType'
  BY DEF ParkStale, IInv, TypeOK, RestType, ShownType, ShownHandedOut, Nobody
<1>3. UNCHANGED <<writes, nextTempId>>
  BY DEF ParkStale
<1> QED BY <1>1, <1>2, <1>3, IInvParts DEF IInv, TypeOK, RestType, ShownType, Queue, OpsType

LEMMA AnswersPositive ==
  ASSUME IInv, NEW h \in held, NEW id \in AnswerIds(h)
  PROVE  h.op \in Op /\ id \in Nat
<1>1. h.op \in Op /\ h.ticket \in Nat
  BY DEF IInv, TypeOK, Held
<1>2. h.op.entity \in AllEntities /\ Known[h.op.entity] \subseteq Nat
  BY <1>1, OutboxAssumption DEF Op
<1>3. NewIds(h.ticket) \subseteq Nat
  BY <1>1, OutboxAssumption DEF NewIds, FirstFree
<1> QED BY <1>1, <1>2, <1>3 DEF AnswerIds, NoId

LEMMA RememberType ==
  ASSUME IInv, NEW h \in held, NEW id \in AnswerIds(h), Remember(h, id)
  PROVE  /\ DOMAIN remap' \subseteq Int /\ \A i \in DOMAIN remap' : remap'[i] \in Nat \ {0}
         /\ DOMAIN eventRemap' \subseteq Nat
         /\ \A i \in DOMAIN eventRemap' : eventRemap'[i] \in Nat \ {0}
<1>1. h.op \in Op /\ id \in Nat /\ h.op.target \in Int
  BY AnswersPositive DEF Op
<1>2. CASE ~ Rewrites(h, id)
  BY <1>2 DEF Remember, IInv, TypeOK
<1>3. CASE Rewrites(h, id)
  <2>1. id \in Nat \ {0}
    BY <1>1, <1>3 DEF Rewrites, NoId
  <2>2. CASE h.op.target < 0
    BY <1>1, <1>3, <2>1, <2>2 DEF Remember, Extended, IInv, TypeOK
  <2>3. CASE ~ (h.op.target < 0)
    BY <1>1, <1>3, <2>1, <2>3 DEF Remember, IInv, TypeOK
  <2> QED BY <2>2, <2>3
<1> QED BY <1>2, <1>3
\* Pointing an op at a server id: it loses the temporary id it needed.
LEMMA RewrittenType ==
  ASSUME NEW op \in Op, NEW from \in Int, NEW to \in Nat \ {0}, NEW e
  PROVE  /\ Rewritten(op, from, to, e) \in Op
         /\ Rewritten(op, from, to, e).kind = op.kind
         /\ \/ Rewritten(op, from, to, e).target = op.target
            \/ Rewritten(op, from, to, e).target >= 0
         /\ Dependencies(Rewritten(op, from, to, e)) \subseteq Dependencies(op)
<1> DEFINE target == IF op.target = from /\ (from < 0 \/ op.entity = e) THEN to ELSE op.target
           tags == IF from < 0 THEN RewrittenSet(op.tags, from, to) ELSE op.tags
           category == IF from < 0 /\ op.category = from THEN to ELSE op.category
           new == [op EXCEPT !.target = target, !.tags = tags, !.category = category]
<1>1. /\ target \in Int /\ (target = op.target \/ target >= 0)
      /\ category \in Int /\ (category = op.category \/ category >= 0)
  BY DEF Op
<1>2. tags \in SUBSET Int /\ \A id \in tags : id \in op.tags \/ id >= 0
  BY DEF Op, RewrittenSet
<1>3. Rewritten(op, from, to, e) = new
  BY DEF Rewritten
<1>4. /\ new \in Op /\ new.kind = op.kind
      /\ new.target = target /\ new.tags = tags /\ new.category = category
  <2> HIDE DEF target, tags, category
  <2> QED BY <1>1, <1>2 DEF Op
<1> HIDE DEF new, target, tags, category
<1>5. TagDependencies(new) \subseteq TagDependencies(op)
  <2>1. new.tags = tags /\ \A id \in tags : id < 0 => id \in op.tags /\ id \in Int
    BY <1>2, <1>4 DEF Op
  <2> QED BY <2>1 DEF TagDependencies
<1>6. Dependencies(new) \subseteq Dependencies(op)
  BY <1>1, <1>4, <1>5 DEF Dependencies, IsCreation
<1> QED BY <1>1, <1>3, <1>4, <1>6

LEMMA CompleteIInv ==
  ASSUME IInv, NEW h \in held, NEW id \in AnswerIds(h), NEW givenUp, Complete(h, id, givenUp)
  PROVE  IInv'
<1>1. /\ nextTempId \in Int /\ nextTempId < 0 /\ writes \in Nat
      /\ Queue(ops, nextTempId, writes)
      /\ UNCHANGED <<writes, nextTempId, resets>> /\ sending' = Nobody /\ held' = {}
  BY IdsResolve DEF Complete, IInv, TypeOK
<1>2. Remember(h, id)
  BY DEF Complete
<1>3. h.op \in Op /\ id \in Nat
  BY AnswersPositive
<1>4. RestType'
  BY <1>1, <1>2, RememberType DEF RestType, IInv, TypeOK, Nobody
<1>5. ShownType'
  <2>1. shown' = ShownAfter(h, id)
                   \cup (IF givenUp THEN {<<h.op.entity, h.op.target>>} ELSE {})
    BY DEF Complete
  <2>2. givenUp => h.op.target > 0
    BY DEF Complete
  <2> QED BY <1>1, <1>3, <2>1, <2>2
          DEF ShownType, ShownHandedOut, ShownAfter, IInv, TypeOK, Op, NoId
<1>6. Queue(ops', nextTempId', writes')
  <2> DEFINE left == Without(ops, {h.ticket})
             g == [t \in DOMAIN left |-> Rewritten(left[t], h.op.target, id, h.op.entity)]
  <2>1. Queue(left, nextTempId, writes)
    BY <1>1, QueueWithout
  <2> HIDE DEF left
  <2>2. ASSUME Rewrites(h, id)
        PROVE  Queue(g, nextTempId, writes)
    <3>1. id \in Nat \ {0} /\ h.op.target \in Int
      BY <1>3, <2>2 DEF Rewrites, NoId, Op
    <3>2. \A t \in DOMAIN left : left[t] \in Op
      BY <2>1 DEF Queue, OpsType
    <3>3. \A t \in DOMAIN left :
            /\ g[t] \in Op /\ g[t].kind = left[t].kind
            /\ g[t].target = left[t].target \/ g[t].target >= 0
            /\ Dependencies(g[t]) \subseteq Dependencies(left[t])
      BY <3>1, <3>2, RewrittenType
    <3>4. DOMAIN g = DOMAIN left
      OBVIOUS
    <3> HIDE DEF g
    <3>5. OpsType(g)
      BY <2>1, <3>3, <3>4 DEF Queue, OpsType
    <3> QED BY <1>1, <2>1, <3>3, <3>4, <3>5, QueueRelaxed
  <2>3. ops' = IF Rewrites(h, id) THEN g ELSE left
    BY DEF left, Complete
  <2> HIDE DEF g
  <2> QED BY <1>1, <2>1, <2>2, <2>3
<1> QED BY <1>4, <1>5, <1>6, IInvParts DEF IInv, TypeOK, RestType, ShownType, Queue, OpsType

LEMMA CompleteUnsavedIInv == ASSUME IInv, CompleteUnsaved PROVE IInv'
<1>1. PICK h \in held : \E id \in AnswerIds(h) : Remember(h, id)
  BY DEF CompleteUnsaved
<1>2. PICK id \in AnswerIds(h) : Remember(h, id)
  BY <1>1
<1>3. RestType'
  BY <1>2, RememberType DEF CompleteUnsaved, RestType, IInv, TypeOK, Nobody
<1>4. UNCHANGED <<ops, nextTempId, writes, shown>>
  BY DEF CompleteUnsaved
<1> QED BY <1>3, <1>4 DEF IInv, TypeOK, RestType, ShownHandedOut

LEMMA AbortIInv == ASSUME IInv, Abort PROVE IInv'
BY DEF Abort, IInv, TypeOK, ShownHandedOut, Nobody

LEMMA RetryParkedIInv == ASSUME IInv, RetryParked PROVE IInv'
<1>1. /\ nextTempId \in Int /\ nextTempId < 0 /\ writes \in Nat
      /\ Queue(ops, nextTempId, writes)
      /\ UNCHANGED <<writes, nextTempId, shown>>
  BY IdsResolve DEF RetryParked, IInv, TypeOK
<1>2. ASSUME NEW t \in DOMAIN ops
      PROVE  /\ ops'[t] \in Op /\ ops'[t].kind = ops[t].kind /\ ops'[t].target = ops[t].target
             /\ ops'[t].tags = ops[t].tags /\ ops'[t].category = ops[t].category
  BY <1>1 DEF RetryParked, Queue, OpsType, Op
<1>3. DOMAIN ops' = DOMAIN ops
  BY DEF RetryParked
<1>4. OpsType(ops')
  BY <1>1, <1>2, <1>3 DEF Queue, OpsType
<1>5. Queue(ops', nextTempId, writes)
  BY <1>1, <1>2, <1>3, <1>4, QueueRelaxed DEF Dependencies, TagDependencies, IsCreation
<1>6. RestType'
  BY DEF RetryParked, CountReset, RestType, IInv, TypeOK
<1> QED BY <1>1, <1>5, <1>6 DEF IInv, TypeOK, RestType, ShownHandedOut, Queue, OpsType

LEMMA DiscardIInv ==
  ASSUME IInv, NEW t \in DOMAIN ops, Discard(t)
  PROVE  IInv'
<1>1. /\ nextTempId \in Int /\ nextTempId < 0 /\ writes \in Nat
      /\ Queue(ops, nextTempId, writes)
      /\ UNCHANGED <<writes, nextTempId>>
  BY IdsResolve DEF Discard, IInv, TypeOK
<1>2. PICK S \in SUBSET DOMAIN ops :
        /\ ops' = Without(ops, S)
        /\ shown' = shown \cup {<<ops[i].entity, ops[i].target>> :
                                  i \in {j \in S : ops[j].kind = "delete"}}
  BY DEF Discard
<1>3. Queue(ops', nextTempId, writes)
  BY <1>1, <1>2, QueueWithout
<1>4. ASSUME NEW i \in S, ops[i].kind = "delete"
      PROVE  ops[i].entity \in AllEntities /\ ops[i].target \in Int /\ nextTempId < ops[i].target
  <2>1. ops[i] \in Op
    BY <1>1 DEF Queue, OpsType
  <2>2. ops[i].target < 0 => ops[i].target \in Dependencies(ops[i])
    BY <1>4 DEF Dependencies, IsCreation
  <2> QED BY <1>1, <2>1, <2>2 DEF Queue, HandedOut, Op
<1>5. ShownType'
  BY <1>1, <1>2, <1>4 DEF ShownType, ShownHandedOut, IInv, TypeOK
<1>6. RestType'
  BY DEF Discard, RestType, IInv, TypeOK
<1> QED BY <1>1, <1>3, <1>5, <1>6, IInvParts DEF IInv, TypeOK, RestType, ShownType, Queue, OpsType

\* What the screens show again from a queue is handed out.
LEMMA RereadShown ==
  ASSUME IInv, NEW copy \in SavedCopies,
         NEW f, NEW next \in Int, NEW last \in Nat, next < 0, Queue(f, next, last)
  PROVE  /\ Reread(copy, f) \subseteq AllEntities \X Int
         /\ \A p \in Reread(copy, f) : next < p[2]
<1>1. ASSUME NEW c \in Creations(f)
      PROVE  f[c].entity \in AllEntities /\ f[c].target \in Int /\ next < f[c].target
  BY DEF Queue, OpsType, HandedOut, Creations, Op
<1>2. \A p \in copy : p \in AllEntities \X Int /\ next < p[2]
  BY DEF SavedCopies, IInv, TypeOK
<1> QED BY <1>1, <1>2 DEF Reread

LEMMA RestartIInv ==
  ASSUME IInv, NEW copy \in SavedCopies, Restart(copy)
  PROVE  IInv'
<1>1. /\ nextTempId \in Int /\ nextTempId < 0 /\ writes \in Nat
      /\ Queue(ops, nextTempId, writes)
      /\ UNCHANGED <<ops, writes, nextTempId>>
  BY IdsResolve DEF Restart, IInv, TypeOK
<1>2. RestType'
  BY DEF Restart, CountReset, RestType, IInv, TypeOK, Nobody
<1>3. ShownType'
  BY <1>1, RereadShown DEF Restart, ShownType, ShownHandedOut
<1> QED BY <1>1, <1>2, <1>3 DEF IInv, TypeOK, RestType, ShownType

LEMMA EndSessionIInv ==
  ASSUME IInv, NEW copy \in SavedCopies, NEW keep \in BOOLEAN, EndSession(keep, copy)
  PROVE  IInv'
<1>1. /\ nextTempId \in Int /\ nextTempId < 0 /\ writes \in Nat
      /\ Queue(ops, nextTempId, writes)
      /\ writes' = writes
  BY IdsResolve DEF EndSession, IInv, TypeOK
<1>2. /\ nextTempId' \in Int /\ nextTempId' < 0
      /\ Queue(ops', nextTempId', writes)
  <2>1. CASE keep
    BY <1>1, <2>1 DEF EndSession, TempIdKept
  <2>2. CASE ~ keep
    <3>1. nextTempId' = FirstTempId /\ ops' = [t \in {} |-> 0]
      BY <2>2 DEF EndSession, TempIdKept
    <3> QED BY <3>1 DEF Queue, OpsType, InOrder, HandedOut, Creations, FirstTempId
  <2> QED BY <2>1, <2>2
<1>3. RestType'
  BY DEF EndSession, CountReset, RestType, IInv, TypeOK, Nobody, TempIdKept
<1>4. ShownType'
  BY <1>1, <1>2, RereadShown DEF EndSession, ShownType, ShownHandedOut
<1> QED BY <1>1, <1>2, <1>3, <1>4, IInvParts
        DEF IInv, TypeOK, RestType, ShownType, Queue, OpsType

-----------------------------------------------------------------------------
(* The theorems.                                                           *)

LEMMA StepIInv == ASSUME IInv, [Next]_vars PROVE IInv'
<1>1. CASE UserStep
  BY <1>1, CreateIInv, UpdateIInv, DeleteIInv, DiscardIInv, RetryParkedIInv, OutboxAssumption
     DEF UserStep
<1>2. CASE EngineStep
  BY <1>2, TakeIInv, HoldBackIInv, ParkStaleIInv, CompleteIInv, CompleteUnsavedIInv, AbortIInv
     DEF EngineStep, Completes
<1>3. CASE LifeStep
  BY <1>3, RestartIInv, EndSessionIInv DEF LifeStep
<1>4. CASE UNCHANGED vars
  BY <1>4 DEF vars, IInv, TypeOK, ShownHandedOut, Queue, OpsType, InOrder, HandedOut,
              Creations, Dependencies, TagDependencies, IsCreation
<1> QED BY <1>1, <1>2, <1>3, <1>4 DEF Next

LEMMA IInvHolds == Spec => []IInv
<1>1. Init => IInv
  BY InitIInv
<1>2. IInv /\ [Next]_vars => IInv'
  BY StepIInv
<1> QED BY <1>1, <1>2, PTL DEF Spec

\* Every variable of the outbox keeps its type, whatever is written, sent,
\* parked, discarded or restarted.
THEOREM TypeCorrect == Spec => []TypeOK
<1>1. IInv => TypeOK
  BY DEF IInv
<1> QED BY <1>1, IInvHolds, PTL

\* Nothing that is waiting needs a creation queued after it, so sending in
\* order always creates a thing before what uses it (outbox.dart:388-433,
\* 661): for any kinds, any number of writes, storage failures and sessions
\* that end while a request is under way.
THEOREM CreationsGoFirst == Spec => []DependencyOrder
<1>1. IInv => DependencyOrder
  BY DEF IInv, Queue, InOrder, DependencyOrder
<1> QED BY <1>1, IInvHolds, PTL
-----------------------------------------------------------------------------
(* What is being sent stays what is queued.  The engine's copy is of the   *)
(* op marked as being sent, and every edit of the queue skips that one.    *)

SentInv ==
  \A h \in held :
    /\ h.ticket = sending /\ h.ticket <= writes
    /\ IsWaiting(h.op)
    /\ h.ticket \in DOMAIN ops => ops[h.ticket] = h.op

LEMMA SentUserStep ==
  ASSUME IInv, SentInv, UserStep
  PROVE  SentInv'
<1>1. writes \in Nat /\ \A h \in held : h.ticket \in Nat
  BY DEF IInv, TypeOK, Held
<1>2. \A h \in held : h.ticket # writes + 1
  BY <1>1 DEF SentInv
<1>3. ASSUME NEW e, NEW body, Create(e, body) PROVE SentInv'
  BY <1>1, <1>2, <1>3 DEF Create, CountWrite, SentInv, Extended
<1>4. ASSUME NEW e, NEW i, NEW body, NEW base, Update(e, i, body, base) PROVE SentInv'
  BY <1>1, <1>2, <1>4 DEF Update, CountWrite, SentInv, Extended, Foldable
<1>5. ASSUME NEW e, NEW i, NEW body, NEW base, Delete(e, i, body, base) PROVE SentInv'
  BY <1>1, <1>2, <1>5 DEF Delete, CountWrite, SentInv, Extended, DeleteOp, Without
<1>6. ASSUME NEW t, Discard(t) PROVE SentInv'
  BY <1>6 DEF Discard, SentInv, Without
<1>7. ASSUME RetryParked PROVE SentInv'
  <2>1. UNCHANGED <<held, sending, writes>> /\ DOMAIN ops' = DOMAIN ops
    BY <1>7 DEF RetryParked
  <2>2. ASSUME NEW t \in DOMAIN ops, IsWaiting(ops[t]) PROVE ops'[t] = ops[t]
    <3>1. ops[t] \in Op BY DEF IInv, TypeOK
    <3>2. ops'[t] = [ops[t] EXCEPT !.parked = NotHeld] BY <1>7 DEF RetryParked
    <3> QED BY <2>2, <3>1, <3>2 DEF Op, IsWaiting
  <2> QED BY <2>1, <2>2 DEF SentInv
<1> QED BY <1>3, <1>4, <1>5, <1>6, <1>7 DEF UserStep

LEMMA SentOtherStep ==
  ASSUME ~ LateReplies, IInv, SentInv, EngineStep \/ LifeStep \/ UNCHANGED vars
  PROVE  SentInv'
<1>1. CASE Take
  <2>1. PICK t \in DOMAIN ops : /\ IsWaiting(ops[t]) /\ sending' = t
                                /\ held' = {[ticket |-> t, op |-> ops[t]]}
    BY <1>1 DEF Take
  <2>2. t <= writes
    BY DEF IInv, Queue
  <2>3. UNCHANGED <<ops, writes>>
    BY <1>1 DEF Take
  <2> QED BY <2>1, <2>2, <2>3 DEF SentInv
<1>2. CASE HoldBack \/ Completes \/ CompleteUnsaved \/ Abort \/ \E copy : Restart(copy)
  BY <1>2 DEF HoldBack, Completes, Complete, CompleteUnsaved, Abort, Restart, SentInv
<1>3. CASE ParkStale
  BY <1>3 DEF ParkStale, SentInv
<1>4. CASE \E keep, copy : EndSession(keep, copy)
  BY <1>4 DEF EndSession, SentInv
<1>5. CASE UNCHANGED vars
  BY <1>5 DEF vars, SentInv
<1> QED BY <1>1, <1>2, <1>3, <1>4, <1>5 DEF EngineStep, LifeStep

\* While no session ends with a request under way, the op the engine sends
\* is the op the queue holds under that id until the answer is taken in
\* (outbox.dart:195-198): a completion never removes a change the server was
\* not sent.
THEOREM SentAsQueued == ~ LateReplies => (Spec => []SentIsQueued)
<1> SUFFICES ASSUME ~ LateReplies PROVE Spec => []SentIsQueued
  OBVIOUS
<1>1. Init => SentInv
  BY DEF Init, SentInv
<1>2. IInv /\ SentInv /\ [Next]_vars => SentInv'
  BY SentUserStep, SentOtherStep DEF Next
<1>3. SentInv => SentIsQueued
  BY DEF SentInv, SentIsQueued
<1> QED BY <1>1, <1>2, <1>3, IInvHolds, PTL DEF Spec

-----------------------------------------------------------------------------
(* The ids.  A creation owns its temporary id: no other creation has       *)
(* it (NamedOnce), what is parked with it does not go without it           *)
(* (EditsWait), and whatever uses the id, in the queue or on a screen,     *)
(* uses it for a thing of the creation's kind (KindsAgree, ShownKinds).    *)
(* The op the engine works on shares its id with no creation but itself    *)
(* (HeldAlone), so that its completion points no other creation at the     *)
(* server's id.                                                            *)

NamedOnce(f) ==
  /\ \A c \in Creations(f) : f[c].target < 0
  /\ \A c, d \in Creations(f) : f[c].target = f[d].target => c = d

EditsWait(f) ==
  \A t \in DOMAIN f, c \in Creations(f) :
    f[t].target = f[c].target /\ IsWaiting(f[t]) => IsWaiting(f[c])

\* What is called id, in an op or on a screen, is of the creation's kind.
KindOf(f, id, e) == \A c \in Creations(f) : f[c].target = id => f[c].entity = e

KindsAgree(f) ==
  \A t \in DOMAIN f :
    /\ \A id \in f[t].tags : KindOf(f, id, "tag")
    /\ KindOf(f, f[t].category, "category")
    /\ KindOf(f, f[t].target, f[t].entity)

Named(f) == NamedOnce(f) /\ EditsWait(f) /\ KindsAgree(f)

ShownKinds == \A p \in shown : KindOf(ops, p[2], p[1])

HeldAlone ==
  \A h \in held :
    /\ nextTempId < h.op.target
    /\ IsCreation(h.op) => h.op.target < 0
    /\ \A c \in Creations(ops) : ops[c].target = h.op.target => c = h.ticket

MarkHeld == held = {} => sending = Nobody

\* A temporary id the server has replaced was handed out.
RemapOld == \A id \in DOMAIN remap : id < 0 /\ nextTempId < id

NInv ==
  /\ Named(ops) /\ ShownKinds
  /\ SentInv /\ HeldAlone /\ MarkHeld /\ RemapOld

-----------------------------------------------------------------------------
(* What the operators keep of an op.                                       *)

\* f and g at i: the same kind of change of the same thing.
SameThing(f, g, i) ==
  /\ g[i].entity = f[i].entity /\ g[i].kind = f[i].kind
  /\ g[i].target = f[i].target /\ g[i].base = f[i].base

SameRefs(f, g, i) == g[i].tags = f[i].tags /\ g[i].category = f[i].category

\* An op added is the op given but for its parking; one about a thing whose
\* creation is parked is parked too.
LEMMA AdmittedKeeps ==
  ASSUME NEW f, OpsType(f), NEW op \in Op
  PROVE  /\ Admitted(f, op).entity = op.entity /\ Admitted(f, op).kind = op.kind
         /\ Admitted(f, op).target = op.target /\ Admitted(f, op).base = op.base
         /\ Admitted(f, op).tags = op.tags /\ Admitted(f, op).category = op.category
         /\ Admitted(f, op).write = op.write
         /\ (IsWaiting(Admitted(f, op)) /\ ~IsCreation(op)) =>
              \A c \in Creations(f) : f[c].target = op.target => IsWaiting(f[c])
<1> DEFINE P == {c \in Creations(f) : ~IsWaiting(f[c])}
           why == [c \in DOMAIN f |-> f[c].parked]
           r == BlockedReason(f, op, P, why)
<1>1. Admitted(f, op) = [op EXCEPT !.parked = r]
  BY DEF Admitted
<1>2. ASSUME ~IsCreation(op), NEW c \in P, f[c].target = op.target
      PROVE  r # NotHeld
  <2> DEFINE d == CHOOSE x \in P : f[x].target = op.target
  <2>1. d \in P
    BY <1>2
  <2>2. r = why[d]
    BY <1>2 DEF BlockedReason
  <2>3. why[d] # NotHeld
    BY <2>1 DEF Creations, IsWaiting
  <2> QED BY <2>2, <2>3
<1>3. \A c \in Creations(f) : c \notin P => IsWaiting(f[c])
  OBVIOUS
<1> HIDE DEF r, P
<1>4. /\ Admitted(f, op).entity = op.entity /\ Admitted(f, op).kind = op.kind
      /\ Admitted(f, op).target = op.target /\ Admitted(f, op).base = op.base
      /\ Admitted(f, op).tags = op.tags /\ Admitted(f, op).category = op.category
      /\ Admitted(f, op).write = op.write /\ Admitted(f, op).parked = r
  BY <1>1 DEF Op
<1> QED BY <1>2, <1>3, <1>4 DEF IsWaiting

\* Parking only parks; an op parked does not stay parked alone: what is
\* about the same thing as a creation that gets parked is parked with it.
LEMMA ParkKeeps ==
  ASSUME NEW f, OpsType(f), InOrder(f), NamedOnce(f), EditsWait(f),
         NEW t, NEW reason \in ParkReasons, NEW g, Park(f, t, reason, g)
  PROVE  /\ DOMAIN g = DOMAIN f
         /\ \A i \in DOMAIN f : SameThing(f, g, i) /\ SameRefs(f, g, i)
         /\ EditsWait(g)
<1>1. PICK S \in SUBSET DOMAIN f :
        /\ GoesWith(f, t, {i \in DOMAIN f : IsWaiting(f[i])}, S)
        /\ g = [i \in DOMAIN f |->
              IF i \in S THEN [f[i] EXCEPT !.parked = CascadeReason(f, t, reason, S, i)]
              ELSE f[i]]
  BY DEF Park
<1>2. ASSUME NEW i \in DOMAIN f
      PROVE  /\ SameThing(f, g, i) /\ SameRefs(f, g, i)
             /\ i \in S => g[i].parked = CascadeReason(f, t, reason, S, i)
             /\ i \notin S => g[i] = f[i]
  <2>1. f[i] \in Op BY DEF OpsType
  <2>2. CASE i \in S
    <3> DEFINE r == CascadeReason(f, t, reason, S, i)
    <3>2. g[i] = [f[i] EXCEPT !.parked = r] BY <1>1, <2>2
    <3> HIDE DEF r
    <3>3. g[i].parked = r
      BY <2>1, <3>2 DEF Op
    <3>4. SameThing(f, g, i) /\ SameRefs(f, g, i)
      BY <2>1, <3>2 DEF Op, SameThing, SameRefs
    <3> QED BY <2>2, <3>3, <3>4 DEF r
  <2>3. CASE i \notin S
    BY <2>1, <2>3, <1>1 DEF SameThing, SameRefs
  <2> QED BY <2>2, <2>3
<1>3. DOMAIN g = DOMAIN f BY <1>1
<1>4. Creations(g) = Creations(f)
  BY <1>2, <1>3 DEF Creations, IsCreation, SameThing
<1>5. EditsWait(g)
  <2> SUFFICES ASSUME NEW i \in DOMAIN f, NEW c \in Creations(f),
                      g[i].target = g[c].target, IsWaiting(g[i])
               PROVE  IsWaiting(g[c])
    BY <1>3, <1>4 DEF EditsWait
  <2>1. c \in DOMAIN f /\ IsCreation(f[c]) /\ f[i].target = f[c].target /\ f[c].target < 0
    BY <1>2 DEF Creations, SameThing, NamedOnce
  <2>2. CASE i = c
    BY <2>2
  <2>3. CASE i # c
    <3>1. ~IsCreation(f[i])
      BY <2>1, <2>3 DEF NamedOnce, Creations
    <3>2. f[c].target \in Dependencies(f[i])
      BY <2>1, <3>1 DEF Dependencies
    <3>3. c < i
      BY <2>1, <2>3, <3>2 DEF InOrder, OpsType
    <3>4. ASSUME i \in S, c \in S PROVE FALSE
      <4> DEFINE creation == S \cap Creations(f)
                 before == {b \in creation : b < i}
                 why == [b \in creation |->
                          IF b = t THEN reason
                          ELSE MissingReason(f[b], TargetsOf(f, {x \in creation : x < b}))]
      <4>1. c \in before
        BY <3>3, <3>4
      <4>2. \A b \in before : why[b] # NotHeld
        BY DEF MissingReason, ParkReasons, NotHeld
      <4>3. BlockedReason(f, f[i], before, why) # NotHeld
        <5> DEFINE b == CHOOSE x \in before : f[x].target = f[i].target
        <5>1. b \in before
          BY <2>1, <4>1
        <5>2. BlockedReason(f, f[i], before, why) = why[b]
          BY <2>1, <3>1, <4>1 DEF BlockedReason
        <5> QED BY <4>2, <5>1, <5>2
      <4>4. CascadeReason(f, t, reason, S, i) # NotHeld
        BY <4>3 DEF CascadeReason, ParkReasons, NotHeld
      <4> QED BY <1>2, <3>4, <4>4 DEF IsWaiting
    <3>5. ASSUME i \notin S PROVE c \notin S
      <4> SUFFICES ASSUME c \in S PROVE FALSE
        OBVIOUS
      <4>1. IsWaiting(f[i])
        BY <1>2, <3>5
      <4>2. c \in {x \in S \cap Creations(f) : x < i}
        BY <3>3
      <4>3. f[c].target \in TargetsOf(f, {x \in S \cap Creations(f) : x < i})
        BY <4>2 DEF TargetsOf
      <4>4. i \in S
        BY <1>1, <3>2, <4>1, <4>3 DEF GoesWith
      <4> QED BY <3>5, <4>4
    <3>6. CASE i \notin S
      BY <1>2, <2>1, <3>5, <3>6 DEF EditsWait
    <3>7. CASE i \in S /\ c \notin S
      \* i was waiting too, unless it is where the cascade starts
      <4>1. g[c] = f[c]
        BY <1>2, <2>1, <3>7
      <4>2. CASE IsWaiting(f[i])
        BY <2>1, <4>1, <4>2 DEF EditsWait
      <4>3. CASE ~IsWaiting(f[i])
        <5>1. i = t
          BY <1>1, <3>7, <4>3 DEF GoesWith
        <5>2. g[i].parked = reason
          BY <1>2, <3>7, <5>1 DEF CascadeReason
        <5> QED BY <5>2 DEF IsWaiting, ParkReasons, NotHeld
      <4> QED BY <4>2, <4>3
    <3> QED BY <3>4, <3>6, <3>7
  <2> QED BY <2>2, <2>3
<1> QED BY <1>2, <1>3, <1>5

-----------------------------------------------------------------------------
(* What each way of changing the queue keeps of Named.                     *)

LEMMA NamedWithout ==
  ASSUME NEW f, Named(f), NEW S
  PROVE  Named(Without(f, S))
<1> DEFINE g == Without(f, S)
<1>1. DOMAIN g \subseteq DOMAIN f /\ \A i \in DOMAIN g : g[i] = f[i]
  BY DEF Without
<1>2. Creations(g) \subseteq Creations(f)
  BY <1>1 DEF Creations
<1>3. \A c \in Creations(g) : c \in DOMAIN g
  BY DEF Creations
<1> HIDE DEF g
<1>4. NamedOnce(g) /\ EditsWait(g)
  BY <1>1, <1>2, <1>3 DEF Named, NamedOnce, EditsWait
<1>5. \A id, e : KindOf(f, id, e) => KindOf(g, id, e)
  BY <1>1, <1>2, <1>3 DEF KindOf
<1>6. KindsAgree(g)
  BY <1>1, <1>5 DEF Named, KindsAgree
<1> QED BY <1>4, <1>6 DEF Named, g

\* Ops that are parked or retried stay about what they were about.
LEMMA NamedReparked ==
  ASSUME NEW f, Named(f), NEW g, DOMAIN g = DOMAIN f, EditsWait(g),
         \A i \in DOMAIN f : SameThing(f, g, i) /\ SameRefs(f, g, i)
  PROVE  Named(g)
<1>1. Creations(g) = Creations(f) /\ \A c \in Creations(f) : c \in DOMAIN f
  BY DEF Creations, IsCreation, SameThing
<1>2. NamedOnce(g)
  BY <1>1 DEF Named, NamedOnce, SameThing
<1>3. \A id, e : KindOf(f, id, e) => KindOf(g, id, e)
  BY <1>1 DEF KindOf, SameThing
<1>4. KindsAgree(g)
  BY <1>3 DEF Named, KindsAgree, SameThing, SameRefs
<1> QED BY <1>2, <1>4 DEF Named

\* An op folded into: about the same thing, as waiting as before.
LEMMA NamedFolded ==
  ASSUME NEW f, Named(f), NEW t \in DOMAIN f, NEW g, DOMAIN g = DOMAIN f,
         \A i \in DOMAIN f : SameThing(f, g, i) /\ g[i].parked = f[i].parked,
         \A i \in DOMAIN f : i # t => SameRefs(f, g, i),
         \A id \in g[t].tags : KindOf(f, id, "tag"),
         KindOf(f, g[t].category, "category")
  PROVE  Named(g)
<1>1. Creations(g) = Creations(f) /\ \A c \in Creations(f) : c \in DOMAIN f
  BY DEF Creations, IsCreation, SameThing
<1>2. NamedOnce(g) /\ EditsWait(g)
  BY <1>1 DEF Named, NamedOnce, EditsWait, SameThing, IsWaiting
<1>3. \A id, e : KindOf(f, id, e) => KindOf(g, id, e)
  BY <1>1 DEF KindOf, SameThing
<1>4. ASSUME NEW i \in DOMAIN f
      PROVE  /\ \A id \in g[i].tags : KindOf(g, id, "tag")
             /\ KindOf(g, g[i].category, "category")
             /\ KindOf(g, g[i].target, g[i].entity)
  <2>1. CASE i = t
    BY <1>3, <2>1 DEF Named, KindsAgree, SameThing
  <2>2. CASE i # t
    BY <1>3, <2>2 DEF Named, KindsAgree, SameThing, SameRefs
  <2> QED BY <2>1, <2>2
<1>5. KindsAgree(g)
  BY <1>4 DEF KindsAgree
<1> QED BY <1>2, <1>5 DEF Named

\* An op added: a creation under an id nothing uses, or a change.
LEMMA NamedExtended ==
  ASSUME NEW f, NEW next \in Int, NEW last \in Nat, Queue(f, next, last), next < 0, Named(f),
         NEW op \in Op, \A d \in Dependencies(op) : next < d,
         IsCreation(op) => op.target = next,
         \A id \in op.tags : KindOf(f, id, "tag"),
         KindOf(f, op.category, "category"),
         ~IsCreation(op) => KindOf(f, op.target, op.entity)
  PROVE  Named(Extended(f, last + 1, Admitted(f, op)))
<1> DEFINE new == Admitted(f, op)
           n == last + 1
           g == Extended(f, n, new)
<1>1. /\ new.entity = op.entity /\ new.kind = op.kind /\ new.target = op.target
      /\ new.tags = op.tags /\ new.category = op.category
      /\ (IsWaiting(new) /\ ~IsCreation(op)) =>
           \A c \in Creations(f) : f[c].target = op.target => IsWaiting(f[c])
  BY AdmittedKeeps DEF Queue
<1> HIDE DEF new
<1>2. n \notin DOMAIN f /\ DOMAIN f \subseteq Nat
  BY DEF Queue, OpsType
<1>3. /\ DOMAIN g = DOMAIN f \cup {n}
      /\ g[n] = new
      /\ \A i \in DOMAIN f : g[i] = f[i]
  BY <1>2 DEF Extended
<1> HIDE DEF g, n
<1>4. /\ \A c \in Creations(g) : c \in Creations(f) \/ (c = n /\ IsCreation(op))
      /\ \A c \in Creations(f) : c \in DOMAIN f
      /\ n \notin Creations(f)
  BY <1>1, <1>2, <1>3 DEF Creations, IsCreation
<1>5. \A c \in Creations(g) : c = n => g[c].target = next
  BY <1>1, <1>3, <1>4
<1>6. ASSUME NEW i \in DOMAIN f
      PROVE  f[i].target # next /\ next \notin f[i].tags /\ f[i].category # next
  <2>1. f[i].target # next
    BY DEF Queue, OpsType, Op, HandedOut, Dependencies
  <2>2. next \in f[i].tags => next \in Dependencies(f[i])
    BY DEF Dependencies, TagDependencies
  <2>3. f[i].category = next => next \in Dependencies(f[i])
    BY DEF Dependencies
  <2> QED BY <2>1, <2>2, <2>3 DEF Queue, HandedOut
<1>7. NamedOnce(g)
  BY <1>3, <1>4, <1>5, <1>6 DEF Named, NamedOnce
<1>8. EditsWait(g)
  <2> SUFFICES ASSUME NEW t \in DOMAIN g, NEW c \in Creations(g),
                      g[t].target = g[c].target, IsWaiting(g[t])
               PROVE  IsWaiting(g[c])
    BY DEF EditsWait
  <2>1. CASE t \in DOMAIN f /\ c \in Creations(f)
    BY <1>3, <1>4, <2>1 DEF Named, EditsWait
  <2>2. CASE t = n /\ c = n
    BY <2>2
  <2>3. CASE t \in DOMAIN f /\ c = n
    BY <1>3, <1>5, <1>6, <2>3
  <2>4. CASE t = n /\ c \in Creations(f)
    <3>1. g[c] = f[c] /\ g[t] = new /\ f[c].target # next
      BY <1>3, <1>4, <1>6, <2>4
    <3>2. ~IsCreation(op)
      BY <1>1, <3>1
    <3> QED BY <1>1, <2>4, <3>1, <3>2
  <2> QED BY <1>3, <1>4, <2>1, <2>2, <2>3, <2>4
<1>9. KindsAgree(g)
  <2>1. \A id, e : KindOf(f, id, e) /\ id # next => KindOf(g, id, e)
    BY <1>3, <1>4, <1>5 DEF KindOf
  <2>2. ASSUME NEW i \in DOMAIN f
        PROVE  /\ \A id \in g[i].tags : KindOf(g, id, "tag")
               /\ KindOf(g, g[i].category, "category")
               /\ KindOf(g, g[i].target, g[i].entity)
    <3>1. g[i] = f[i] BY <1>3
    <3>2. /\ \A id \in f[i].tags : KindOf(f, id, "tag")
          /\ KindOf(f, f[i].category, "category")
          /\ KindOf(f, f[i].target, f[i].entity)
      BY DEF Named, KindsAgree
    <3> QED BY <1>6, <2>1, <3>1, <3>2
  <2>3. next \notin op.tags /\ op.category # next
    BY DEF Dependencies, TagDependencies
  <2>4. \A id \in new.tags : KindOf(g, id, "tag")
    BY <1>1, <2>1, <2>3
  <2>5. KindOf(g, new.category, "category")
    BY <1>1, <2>1, <2>3
  <2>6. KindOf(g, new.target, new.entity)
    <3>1. CASE IsCreation(op)
      BY <1>1, <1>3, <1>4, <1>6, <3>1 DEF KindOf
    <3>2. CASE ~IsCreation(op)
      <4>1. op.target # next
        BY <3>2 DEF Dependencies, Op
      <4> QED BY <1>1, <2>1, <3>2, <4>1
    <3> QED BY <3>1, <3>2
  <2>7. ASSUME NEW i \in DOMAIN g
        PROVE  /\ \A id \in g[i].tags : KindOf(g, id, "tag")
               /\ KindOf(g, g[i].category, "category")
               /\ KindOf(g, g[i].target, g[i].entity)
    BY <1>3, <2>2, <2>4, <2>5, <2>6, <2>7
  <2> QED BY <2>7 DEF KindsAgree
<1> QED BY <1>7, <1>8, <1>9 DEF Named, g, n, new

\* Ops aimed at a server id by a completion, none of them a creation: each
\* has lost an id or has it as before.
LEMMA NamedRetargeted ==
  ASSUME NEW f, Named(f), NEW from \in Int, NEW to \in Nat \ {0}, NEW e,
         \A c \in Creations(f) : f[c].target # from,
         \A i \in DOMAIN f : f[i] \in Op
  PROVE  Named([i \in DOMAIN f |-> Rewritten(f[i], from, to, e)])
<1> DEFINE g == [i \in DOMAIN f |-> Rewritten(f[i], from, to, e)]
<1>1. ASSUME NEW i \in DOMAIN f
      PROVE  /\ g[i].entity = f[i].entity /\ g[i].kind = f[i].kind
             /\ g[i].parked = f[i].parked
             /\ g[i].target = f[i].target \/ g[i].target = to
             /\ f[i].target # from => g[i].target = f[i].target
             /\ \A id \in g[i].tags : id \in f[i].tags \/ id = to
             /\ g[i].category = f[i].category \/ g[i].category = to
  <2> DEFINE op == f[i]
             target == IF op.target = from /\ (from < 0 \/ op.entity = e) THEN to ELSE op.target
             tags == IF from < 0 THEN RewrittenSet(op.tags, from, to) ELSE op.tags
             category == IF from < 0 /\ op.category = from THEN to ELSE op.category
  <2>1. op \in Op
    OBVIOUS
  <2>2. g[i] = [op EXCEPT !.target = target, !.tags = tags, !.category = category]
    BY DEF Rewritten
  <2>3. \A id \in tags : id \in op.tags \/ id = to
    BY DEF RewrittenSet
  <2>4. /\ target = op.target \/ target = to
        /\ op.target # from => target = op.target
        /\ category = op.category \/ category = to
    OBVIOUS
  <2> HIDE DEF g, op, target, tags, category
  <2>5. /\ g[i].entity = op.entity /\ g[i].kind = op.kind /\ g[i].parked = op.parked
        /\ g[i].target = target /\ g[i].tags = tags /\ g[i].category = category
    BY <2>1, <2>2 DEF Op
  <2> QED BY <2>3, <2>4, <2>5 DEF op
<1>2. DOMAIN g = DOMAIN f
  OBVIOUS
<1> HIDE DEF g
<1>3. /\ Creations(g) = Creations(f)
      /\ \A c \in Creations(f) : c \in DOMAIN f /\ g[c].target = f[c].target
  BY <1>1, <1>2 DEF Creations, IsCreation
<1>4. \A c \in Creations(g) : g[c].target # to
  BY <1>3 DEF Named, NamedOnce
<1>5. NamedOnce(g) /\ EditsWait(g)
  BY <1>1, <1>2, <1>3, <1>4 DEF Named, NamedOnce, EditsWait, IsWaiting
<1>6. \A id, k : KindOf(f, id, k) => KindOf(g, id, k)
  BY <1>1, <1>3 DEF KindOf
<1>7. \A k : KindOf(g, to, k)
  BY <1>4 DEF KindOf
<1>8. ASSUME NEW i \in DOMAIN f
      PROVE  /\ \A id \in g[i].tags : KindOf(g, id, "tag")
             /\ KindOf(g, g[i].category, "category")
             /\ KindOf(g, g[i].target, g[i].entity)
  <2>1. /\ \A id \in f[i].tags : KindOf(f, id, "tag")
        /\ KindOf(f, f[i].category, "category")
        /\ KindOf(f, f[i].target, f[i].entity)
    BY DEF Named, KindsAgree
  <2> QED BY <1>1, <1>6, <1>7, <2>1
<1>9. KindsAgree(g)
  BY <1>2, <1>8 DEF KindsAgree
<1> QED BY <1>5, <1>9 DEF Named, g

\* Folding changes what an op carries, never what it is about.
LEMMA FoldedFields ==
  ASSUME NEW op \in Op, writes \in Nat,
         NEW body, body.tags \in SUBSET Int, body.category \in Int
  PROVE  /\ Folded(op, body).entity = op.entity /\ Folded(op, body).kind = op.kind
         /\ Folded(op, body).target = op.target /\ Folded(op, body).base = op.base
         /\ Folded(op, body).parked = op.parked /\ Folded(op, body).tags = body.tags
         /\ Folded(op, body).category \in {op.category, body.category}
         /\ Folded(op, body).write = writes + 1
<1> DEFINE category == IF op.entity = "group" THEN op.category ELSE body.category
           tags == body.tags
           write == writes + 1
           new == [op EXCEPT !.tags = tags, !.category = category, !.write = write]
<1>1. category \in {op.category, body.category}
  OBVIOUS
<1>2. Folded(op, body) = new
  BY DEF Folded
<1>3. /\ new.entity = op.entity /\ new.kind = op.kind /\ new.target = op.target
      /\ new.base = op.base /\ new.parked = op.parked
      /\ new.tags = tags /\ new.category = category /\ new.write = write
  <2> HIDE DEF tags, category, write
  <2> QED BY DEF Op
<1> HIDE DEF new
<1> QED BY <1>1, <1>2, <1>3

LEMMA RewrittenFields ==
  ASSUME NEW op \in Op, NEW from \in Int, NEW to, NEW e
  PROVE  /\ Rewritten(op, from, to, e).entity = op.entity
         /\ Rewritten(op, from, to, e).kind = op.kind
         /\ Rewritten(op, from, to, e).parked = op.parked
         /\ Rewritten(op, from, to, e).base = op.base
         /\ Rewritten(op, from, to, e).write = op.write
         /\ Rewritten(op, from, to, e).target =
              IF op.target = from /\ (from < 0 \/ op.entity = e) THEN to ELSE op.target
         /\ \A id \in Rewritten(op, from, to, e).tags : id \in op.tags \/ id = to
         /\ Rewritten(op, from, to, e).category \in {op.category, to}
<1> DEFINE target == IF op.target = from /\ (from < 0 \/ op.entity = e) THEN to ELSE op.target
           tags == IF from < 0 THEN RewrittenSet(op.tags, from, to) ELSE op.tags
           category == IF from < 0 /\ op.category = from THEN to ELSE op.category
           new == [op EXCEPT !.target = target, !.tags = tags, !.category = category]
<1>1. Rewritten(op, from, to, e) = new
  BY DEF Rewritten
<1>2. \A id \in tags : id \in op.tags \/ id = to
  BY DEF RewrittenSet
<1>3. category \in {op.category, to}
  OBVIOUS
<1>4. /\ new.entity = op.entity /\ new.kind = op.kind /\ new.parked = op.parked
      /\ new.base = op.base /\ new.write = op.write
      /\ new.target = target /\ new.tags = tags /\ new.category = category
  <2> HIDE DEF target, tags, category
  <2> QED BY DEF Op
<1> HIDE DEF new, tags, category
<1> QED BY <1>1, <1>2, <1>3, <1>4

LEMMA NewIdsPositive ==
  ASSUME NEW t \in Nat
  PROVE  NewIds(t) \subseteq Nat \ {0}
<1>1. \A again \in 1..(Recreations + 1) : FirstFree * again + t \in Nat \ {0}
  BY OutboxAssumption DEF FirstFree
<1> QED BY <1>1 DEF NewIds

\* What is remembered of an answer is about an id handed out.
LEMMA RememberOld ==
  ASSUME IInv, NInv, NEW h \in held, NEW id \in AnswerIds(h), Remember(h, id),
         nextTempId' = nextTempId
  PROVE  RemapOld'
<1>1. nextTempId < h.op.target
  BY DEF NInv, HeldAlone
<1>2. CASE Rewrites(h, id) /\ h.op.target < 0
  <2>1. DOMAIN remap' = DOMAIN remap \cup {h.op.target}
    BY <1>2 DEF Remember, Extended
  <2> QED BY <1>1, <1>2, <2>1 DEF NInv, RemapOld
<1>3. CASE ~(Rewrites(h, id) /\ h.op.target < 0)
  <2>1. remap' = remap
    BY <1>3 DEF Remember
  <2> QED BY <2>1 DEF NInv, RemapOld
<1> QED BY <1>2, <1>3

-----------------------------------------------------------------------------
(* What the screens can name.                                              *)

LEMMA ScreenKinds ==
  ASSUME IInv, NInv
  PROVE  /\ \A id \in Nat : \A e : KindOf(ops, id, e)
         /\ \A e : \A id \in Either(ScreenIds(e)) : KindOf(ops, id, e)
         /\ \A e : \A id \in ScreenIds(e) : KindOf(ops, id, e)
         /\ \A p \in shown : KindOf(ops, Target(p[1], p[2]), p[1])
<1>1. \A id \in Nat : \A e : KindOf(ops, id, e)
  BY DEF NInv, Named, NamedOnce, KindOf
<1>2. ASSUME NEW e, NEW id \in ScreenIds(e) PROVE KindOf(ops, id, e)
  BY DEF NInv, ShownKinds, ScreenIds
<1>3. \A id \in DOMAIN remap : remap[id] \in Nat
  BY DEF IInv, TypeOK
<1>4. \A id \in DOMAIN eventRemap : eventRemap[id] \in Nat
  BY DEF IInv, TypeOK
<1>5. ASSUME NEW e, NEW id \in Either(ScreenIds(e)) PROVE KindOf(ops, id, e)
  BY <1>1, <1>2, <1>3 DEF Either, Resolve
<1>6. ASSUME NEW p \in shown PROVE KindOf(ops, Target(p[1], p[2]), p[1])
  BY <1>1, <1>3, <1>4 DEF NInv, ShownKinds, Target, ResolveEvent, Resolve
<1> QED BY <1>1, <1>2, <1>5, <1>6

LEMMA BodyKinds ==
  ASSUME IInv, NInv, NEW e \in AllEntities, NEW body \in Bodies(e)
  PROVE  /\ \A id \in body.tags : KindOf(ops, id, "tag")
         /\ KindOf(ops, body.category, "category")
         /\ KindOf(ops, NoId, "category")
<1>1. KindOf(ops, NoId, "category")
  BY ScreenKinds DEF NoId
<1>2. body.category = NoId \/ body.category \in Either(ScreenIds("category"))
  BY DEF Bodies
<1>3. KindOf(ops, body.category, "category")
  BY <1>1, <1>2, ScreenKinds
<1>4. body.tags \subseteq Either(ScreenIds("tag"))
  <2>1. CASE e = "event"    BY <2>1 DEF Bodies, Either
  <2>2. CASE e = "tag"      BY <2>2 DEF Bodies
  <2>3. CASE e = "group"    BY <2>3 DEF Bodies, Either
  <2>4. CASE e = "category" BY <2>4 DEF Bodies
  <2> QED BY <2>1, <2>2, <2>3, <2>4 DEF AllEntities
<1> QED BY <1>1, <1>3, <1>4, ScreenKinds

-----------------------------------------------------------------------------
(* The actions, one lemma each, up to SentInv: SentUserStep and            *)
(* SentOtherStep are about every step.                                     *)

RestN == ShownKinds /\ HeldAlone /\ MarkHeld /\ RemapOld

\* The creations after a step are those before it, or one under the next id.
LEMMA SmallerKinds ==
  ASSUME NEW f, NEW g, \A c \in Creations(g) : c \in Creations(f) /\ g[c] = f[c]
  PROVE  \A id, e : KindOf(f, id, e) => KindOf(g, id, e)
BY DEF KindOf

\* The outbox loses ops and nothing else moves, or the mark is taken off.
LEMMA RestLess ==
  ASSUME NInv, IInv, \A c \in Creations(ops') : c \in Creations(ops) /\ ops'[c] = ops[c],
         shown' \subseteq shown, nextTempId' = nextTempId,
         DOMAIN remap' \subseteq DOMAIN remap,
         \/ held' = {} /\ sending' = Nobody
         \/ UNCHANGED <<held, sending>>
  PROVE  RestN'
<1>1. ShownKinds'
  BY DEF NInv, ShownKinds, KindOf
<1>2. HeldAlone'
  BY DEF NInv, HeldAlone
<1>3. MarkHeld'
  BY DEF NInv, MarkHeld
<1>4. RemapOld'
  BY DEF NInv, RemapOld
<1> QED BY <1>1, <1>2, <1>3, <1>4 DEF RestN

LEMMA CreateNamed ==
  ASSUME IInv, NInv, NEW e \in AllEntities, NEW body \in Bodies(e), Create(e, body)
  PROVE  Named(ops') /\ RestN'
<1> DEFINE op == NewOp(e, "create", nextTempId, body, NoBase)
           new == Admitted(ops, op)
           n == writes + 1
<1>1. /\ nextTempId \in Int /\ nextTempId < 0 /\ writes \in Nat
      /\ Queue(ops, nextTempId, writes)
  BY IdsResolve DEF IInv, TypeOK
<1>2. /\ op \in Op /\ op.kind = "create" /\ op.target = nextTempId
      /\ \A d \in Dependencies(op) : nextTempId < d
  BY <1>1, BodiesType, NewOpType DEF Kinds
<1>3. op.tags = body.tags /\ op.category = body.category /\ op.entity = e
  BY DEF NewOp
<1>4. ops' = Extended(ops, n, new)
  BY DEF Create
<1> HIDE DEF op
<1>5. IsCreation(op)
  BY <1>2 DEF IsCreation
<1>6. Named(ops')
  BY <1>1, <1>2, <1>3, <1>4, <1>5, BodyKinds, NamedExtended DEF NInv
<1>7. new.entity = e /\ new.target = nextTempId
  BY <1>1, <1>2, <1>3, AdmittedKeeps DEF Queue
<1> HIDE DEF new
<1>8. n \notin DOMAIN ops
  BY <1>1 DEF Queue
<1>9. \A c \in Creations(ops') :
        \/ c \in Creations(ops) /\ ops'[c] = ops[c]
        \/ c = n /\ ops'[c].target = nextTempId /\ ops'[c].entity = e
  BY <1>4, <1>7, <1>8 DEF Extended, Creations
<1>10. nextTempId' = nextTempId - 1 /\ shown' = shown \cup {<<e, nextTempId>>}
       /\ UNCHANGED <<remap, held, sending>>
  BY DEF Create, TempIdAfter
<1>11. ShownKinds'
  <2>1. \A p \in shown : p[2] # nextTempId
    BY <1>1 DEF IInv, TypeOK, ShownHandedOut
  <2>2. \A c \in Creations(ops) : ops[c].target # nextTempId
    BY <1>1 DEF Queue, HandedOut, Creations, OpsType, Op
  <2> QED BY <1>9, <1>10, <2>1, <2>2 DEF NInv, ShownKinds, KindOf
<1>12. HeldAlone'
  <2>1. \A h \in held : h.op.target \in Int
    BY DEF IInv, TypeOK, Held, Op
  <2> QED BY <1>1, <1>9, <1>10, <2>1 DEF NInv, HeldAlone
<1>13. MarkHeld' /\ RemapOld'
  <2>1. DOMAIN remap \subseteq Int
    BY DEF IInv, TypeOK
  <2> QED BY <1>1, <1>10, <2>1 DEF NInv, MarkHeld, RemapOld
<1> QED BY <1>6, <1>11, <1>12, <1>13 DEF RestN

LEMMA UpdateNamed ==
  ASSUME IInv, NInv, NEW p \in shown, NEW body \in Bodies(p[1]),
         NEW base \in GivenBases(Target(p[1], p[2])), Update(p[1], p[2], body, base)
  PROVE  Named(ops') /\ RestN'
<1> DEFINE e == p[1]
           target == Target(p[1], p[2])
           n == writes + 1
<1>1. RestType /\ ShownType /\ Queue(ops, nextTempId, writes)
  BY IInvParts
<1>2. /\ nextTempId \in Int /\ nextTempId < 0 /\ writes \in Nat
      /\ UNCHANGED <<nextTempId, remap, held, sending, shown>>
  BY <1>1, IdsResolve DEF Update, RestType
<1>3. e \in AllEntities /\ target \in Int /\ nextTempId < target
  BY <1>1, IdsResolve DEF ShownType, ShownHandedOut, Target
<1>4. \/ \E t \in Foldable(e, target, body) : ops' = [ops EXCEPT ![t] = Folded(@, body)]
      \/ ops' = Extended(ops, n,
                  Admitted(ops, NewOp(e, "update", target,
                    IF e = "group" THEN [body EXCEPT !.category = NoId] ELSE body,
                    EarliestBase(e, target, base))))
  BY DEF Update
<1>5. /\ body.tags \in SUBSET Int /\ body.category \in Int
      /\ \A id \in body.tags : nextTempId < id
      /\ nextTempId < body.category
  BY <1>3, BodiesType
<1>6. /\ \A id \in body.tags : KindOf(ops, id, "tag")
      /\ KindOf(ops, body.category, "category")
      /\ KindOf(ops, NoId, "category")
  BY <1>3, BodyKinds
<1>7. KindOf(ops, target, e)
  BY ScreenKinds
<1>8. EarliestBase(e, target, base) \in Bases \cup {NoBase}
  BY BasesType
<1> HIDE DEF e, target
<1>9. ASSUME NEW t \in Foldable(e, target, body), ops' = [ops EXCEPT ![t] = Folded(@, body)]
      PROVE  Named(ops') /\ Creations(ops') = Creations(ops)
             /\ \A c \in Creations(ops) : /\ ops'[c].target = ops[c].target
                                          /\ ops'[c].entity = ops[c].entity
  <2>1. t \in DOMAIN ops /\ ops[t] \in Op
    BY <1>1 DEF Foldable, Queue, OpsType
  <2>2. /\ ops'[t].entity = ops[t].entity /\ ops'[t].kind = ops[t].kind
        /\ ops'[t].target = ops[t].target /\ ops'[t].base = ops[t].base
        /\ ops'[t].parked = ops[t].parked /\ ops'[t].tags = body.tags
        /\ ops'[t].category \in {ops[t].category, body.category}
    BY <1>2, <1>5, <1>9, <2>1, FoldedFields
  <2>3. DOMAIN ops' = DOMAIN ops /\ \A i \in DOMAIN ops : i # t => ops'[i] = ops[i]
    BY <1>9
  <2>4. \A i \in DOMAIN ops : SameThing(ops, ops', i) /\ ops'[i].parked = ops[i].parked
    BY <2>2, <2>3 DEF SameThing
  <2>5. \A i \in DOMAIN ops : i # t => SameRefs(ops, ops', i)
    BY <2>3 DEF SameRefs
  <2>6. KindOf(ops, ops'[t].category, "category")
    BY <1>6, <2>1, <2>2 DEF NInv, Named, KindsAgree
  <2>7. Named(ops')
    BY <1>6, <2>1, <2>2, <2>3, <2>4, <2>5, <2>6, NamedFolded DEF NInv
  <2> QED BY <2>3, <2>4, <2>7 DEF SameThing, Creations, IsCreation
<1>10. ASSUME ops' = Extended(ops, n,
                      Admitted(ops, NewOp(e, "update", target,
                        IF e = "group" THEN [body EXCEPT !.category = NoId] ELSE body,
                        EarliestBase(e, target, base))))
      PROVE  Named(ops') /\ Creations(ops') = Creations(ops)
             /\ \A c \in Creations(ops) : /\ ops'[c].target = ops[c].target
                                          /\ ops'[c].entity = ops[c].entity
  <2> DEFINE sent == IF e = "group" THEN [body EXCEPT !.category = NoId] ELSE body
             op == NewOp(e, "update", target, sent, EarliestBase(e, target, base))
             new == Admitted(ops, op)
  <2>1. /\ sent.tags = body.tags
        /\ sent.category \in {NoId, body.category}
    BY DEF Bodies, e
  <2> HIDE DEF sent
  <2>2. /\ sent.tags \in SUBSET Int /\ sent.category \in Int
        /\ \A id \in sent.tags : nextTempId < id
        /\ nextTempId < sent.category
    BY <1>2, <1>5, <2>1 DEF NoId
  <2>3. /\ op \in Op /\ op.kind = "update"
        /\ \A d \in Dependencies(op) : nextTempId < d
    BY <1>2, <1>3, <1>8, <2>2, NewOpType DEF Kinds
  <2>4. /\ op.tags = body.tags /\ op.category \in {NoId, body.category}
        /\ op.target = target /\ op.entity = e
    BY <2>1 DEF NewOp
  <2> HIDE DEF op
  <2>5. ~ IsCreation(op)
    BY <2>3 DEF IsCreation
  <2>6. ops' = Extended(ops, n, Admitted(ops, op))
    BY <1>10 DEF op, sent
  <2>7. KindOf(ops, op.category, "category")
    BY <1>6, <2>4
  <2>8. Named(ops')
    BY <1>1, <1>2, <1>6, <1>7, <2>3, <2>4, <2>5, <2>6, <2>7, NamedExtended DEF NInv
  <2>9. ~ IsCreation(new)
    BY <1>1, <2>3, <2>5, AdmittedKeeps DEF IsCreation, Queue
  <2>10. n \notin DOMAIN ops
    BY <1>1, <1>2 DEF Queue
  <2> HIDE DEF new, n
  <2>11. Creations(ops') = Creations(ops) /\ \A c \in Creations(ops) : ops'[c] = ops[c]
    BY <2>6, <2>9, <2>10 DEF Creations, Extended, new
  <2> QED BY <2>8, <2>11
<1>11. Named(ops') /\ Creations(ops') = Creations(ops)
       /\ \A c \in Creations(ops) : /\ ops'[c].target = ops[c].target
                                    /\ ops'[c].entity = ops[c].entity
  BY <1>4, <1>9, <1>10
<1>12. RestN'
  BY <1>2, <1>11 DEF NInv, RestN, ShownKinds, KindOf, HeldAlone, MarkHeld, RemapOld
<1> QED BY <1>11, <1>12

LEMMA DeleteNamed ==
  ASSUME IInv, NInv, NEW p \in shown, NEW body \in Noted(p[1], p[2]),
         NEW base \in GivenBases(Target(p[1], p[2])), Delete(p[1], p[2], body, base)
  PROVE  Named(ops') /\ RestN'
<1> DEFINE e == p[1]
           target == Target(p[1], p[2])
           gone == Replaced(e, target)
           left == Without(ops, gone)
           n == writes + 1
<1>1. RestType /\ ShownType /\ Queue(ops, nextTempId, writes)
  BY IInvParts
<1>2. /\ nextTempId \in Int /\ nextTempId < 0 /\ writes \in Nat
      /\ UNCHANGED <<nextTempId, remap, held, sending>> /\ shown' \subseteq shown
  BY <1>1, IdsResolve DEF Delete, RestType
<1>3. e \in AllEntities /\ target \in Int /\ nextTempId < target
  BY <1>1, IdsResolve DEF ShownType, ShownHandedOut, Target
<1>4. KindOf(ops, target, e)
  BY ScreenKinds
<1>5. /\ ops' = DeleteOp(e, target, gone, body, base)
      /\ body.tags \in SUBSET ScreenIds("tag") /\ body.category = NoId
  BY DEF Delete, Noted
<1>6. EarliestBase(e, target, base) \in Bases \cup {NoBase}
  BY BasesType
<1> HIDE DEF e, target
<1>7. /\ Queue(left, nextTempId, writes) /\ Named(left)
      /\ \A c \in Creations(left) : c \in Creations(ops) /\ left[c] = ops[c]
      /\ DOMAIN left \subseteq DOMAIN ops
  BY <1>1, <1>2, QueueWithout, NamedWithout DEF NInv, Without, Creations
<1>8. \A id, k : KindOf(ops, id, k) => KindOf(left, id, k)
  BY <1>7, SmallerKinds
<1>9. ASSUME \E t \in gone : IsCreation(ops[t])
      PROVE  /\ Named(ops')
             /\ \A c \in Creations(ops') : c \in Creations(ops) /\ ops'[c] = ops[c]
  BY <1>5, <1>7, <1>9 DEF DeleteOp
<1>10. ASSUME ~ \E t \in gone : IsCreation(ops[t])
      PROVE  /\ Named(ops')
             /\ \A c \in Creations(ops') : c \in Creations(ops) /\ ops'[c] = ops[c]
  <2> DEFINE op == NewOp(e, "delete", target, body, EarliestBase(e, target, base))
             new == Admitted(left, op)
  <2>1. \A id \in body.tags : id \in Int /\ nextTempId < id
    BY IdsResolve, <1>5 DEF AllEntities
  <2>2. /\ body.tags \in SUBSET Int /\ body.category \in Int
        /\ \A id \in body.tags : nextTempId < id
        /\ nextTempId < body.category
    BY <1>2, <1>5, <2>1 DEF NoId
  <2>3. op \in Op /\ op.kind = "delete" /\ \A d \in Dependencies(op) : nextTempId < d
    BY <1>3, <1>6, <2>2, NewOpType DEF Kinds
  <2>4. op.tags = body.tags /\ op.category = NoId /\ op.target = target /\ op.entity = e
    BY <1>5 DEF NewOp
  <2> HIDE DEF op, left
  <2>5. ~ IsCreation(op)
    BY <2>3 DEF IsCreation
  <2>6. ops' = Extended(left, n, Admitted(left, op))
    BY <1>5, <1>10 DEF DeleteOp, op, left
  <2>7. /\ \A id \in op.tags : KindOf(left, id, "tag")
        /\ KindOf(left, op.category, "category")
        /\ KindOf(left, op.target, op.entity)
    <3>1. \A id \in op.tags : KindOf(left, id, "tag")
      BY <1>5, <1>8, <2>4, ScreenKinds
    <3>2. KindOf(left, NoId, "category")
      BY <1>8, ScreenKinds DEF NoId
    <3> QED BY <1>4, <1>8, <2>4, <3>1, <3>2
  <2>8. Named(ops')
    BY <1>2, <1>7, <2>3, <2>4, <2>5, <2>6, <2>7, NamedExtended
  <2>9. ~ IsCreation(new)
    BY <1>7, <2>3, <2>5, AdmittedKeeps DEF IsCreation, Queue
  <2>10. n \notin DOMAIN left
    BY <1>2, <1>7 DEF Queue
  <2> HIDE DEF new, n
  <2>11. Creations(ops') = Creations(left) /\ \A c \in Creations(left) : ops'[c] = left[c]
    BY <2>6, <2>9, <2>10 DEF Creations, Extended, new
  <2> QED BY <1>7, <2>8, <2>11
<1>11. /\ Named(ops')
       /\ \A c \in Creations(ops') : c \in Creations(ops) /\ ops'[c] = ops[c]
  BY <1>9, <1>10
<1>12. RestN'
  BY <1>2, <1>11, RestLess
<1> QED BY <1>11, <1>12

\* nextToSend takes the first op that waits.  A creation with its id would
\* be queued before it, and would wait as well.
LEMMA TakeNamed ==
  ASSUME IInv, NInv, Take
  PROVE  RestN'
<1>1. PICK t \in DOMAIN ops :
        /\ IsWaiting(ops[t])
        /\ \A u \in DOMAIN ops : IsWaiting(ops[u]) => t <= u
        /\ sending' = t /\ held' = {[ticket |-> t, op |-> ops[t]]}
  BY DEF Take
<1>2. UNCHANGED <<ops, nextTempId, remap, shown>>
  BY DEF Take
<1>3. ASSUME NEW c \in Creations(ops), ops[c].target = ops[t].target
      PROVE  c = t
  <2>1. c \in DOMAIN ops /\ ops[c].target < 0 /\ c \in Nat /\ t \in Nat
    BY DEF Creations, NInv, Named, NamedOnce, IInv, TypeOK
  <2>2. t <= c
    BY <1>1, <1>3, <2>1 DEF NInv, Named, EditsWait
  <2>3. CASE IsCreation(ops[t])
    BY <1>3, <2>3 DEF NInv, Named, NamedOnce, Creations
  <2>4. CASE ~IsCreation(ops[t])
    <3>1. ops[c].target \in Dependencies(ops[t])
      BY <1>3, <2>1, <2>4 DEF Dependencies
    <3>2. c <= t
      BY <3>1 DEF IInv, Queue, InOrder
    <3> QED BY <2>1, <2>2, <3>2
  <2> QED BY <2>3, <2>4
<1>4. nextTempId < ops[t].target
  <2>1. ops[t] \in Op /\ nextTempId \in Int /\ nextTempId < 0
    BY IdsResolve DEF IInv, TypeOK
  <2>2. ~IsCreation(ops[t]) /\ ops[t].target < 0 => ops[t].target \in Dependencies(ops[t])
    BY DEF Dependencies
  <2> QED BY <2>1, <2>2 DEF IInv, Queue, HandedOut, Op
<1>5. IsCreation(ops[t]) => ops[t].target < 0
  BY DEF NInv, Named, NamedOnce, Creations
<1>6. HeldAlone'
  BY <1>1, <1>2, <1>3, <1>4, <1>5 DEF HeldAlone
<1> QED BY <1>1, <1>2, <1>6 DEF NInv, RestN, ShownKinds, MarkHeld, RemapOld

\* Steps that only park or retry ops.
LEMMA ReparkedNamed ==
  ASSUME IInv, NInv, DOMAIN ops' = DOMAIN ops, EditsWait(ops'),
         \A i \in DOMAIN ops : SameThing(ops, ops', i) /\ SameRefs(ops, ops', i),
         UNCHANGED <<nextTempId, remap, shown>>,
         \/ held' = {} /\ sending' = Nobody
         \/ UNCHANGED <<held, sending>>
  PROVE  Named(ops') /\ RestN'
<1>1. Named(ops')
  BY NamedReparked DEF NInv
<1>2. /\ Creations(ops') = Creations(ops)
      /\ \A c \in Creations(ops) : /\ ops'[c].target = ops[c].target
                                   /\ ops'[c].entity = ops[c].entity
  BY DEF Creations, IsCreation, SameThing
<1> QED BY <1>1, <1>2 DEF NInv, RestN, ShownKinds, KindOf, HeldAlone, MarkHeld, RemapOld

LEMMA HoldBackNamed == ASSUME IInv, NInv, HoldBack PROVE Named(ops') /\ RestN'
<1>1. UNCHANGED <<nextTempId, remap, shown>> /\ held' = {} /\ sending' = Nobody
  BY DEF HoldBack
<1>2. CASE ops' = ops
  BY <1>1, <1>2, ReparkedNamed DEF NInv, Named, SameThing, SameRefs
<1>3. ASSUME NEW t, NEW reason \in ParkReasons, Park(ops, t, reason, ops')
      PROVE  Named(ops') /\ RestN'
  <2>1. OpsType(ops) /\ InOrder(ops) /\ NamedOnce(ops) /\ EditsWait(ops)
    BY DEF NInv, Named, IInv, Queue
  <2>2. /\ DOMAIN ops' = DOMAIN ops /\ EditsWait(ops')
        /\ \A i \in DOMAIN ops : SameThing(ops, ops', i) /\ SameRefs(ops, ops', i)
    BY <1>3, <2>1, ParkKeeps
  <2> QED BY <1>1, <2>2, ReparkedNamed
<1>4. PICK h \in held, reason \in {"refused", "missingTag", "missingParent"} :
        IF h.ticket \in DOMAIN ops THEN Park(ops, h.ticket, reason, ops') ELSE ops' = ops
  BY DEF HoldBack
<1>5. reason \in ParkReasons
  BY DEF ParkReasons
<1> QED BY <1>2, <1>3, <1>4, <1>5

LEMMA ParkStaleNamed == ASSUME IInv, NInv, ParkStale PROVE Named(ops') /\ RestN'
<1>1. UNCHANGED <<nextTempId, remap, shown>> /\ held' = {} /\ sending' = Nobody
  BY DEF ParkStale
<1>2. PICK t \in DOMAIN ops, reason \in {"encryptionChanged", "dataReplaced"} :
        Park(ops, t, reason, ops')
  BY DEF ParkStale
<1>3. OpsType(ops) /\ InOrder(ops) /\ NamedOnce(ops) /\ EditsWait(ops)
  BY DEF NInv, Named, IInv, Queue
<1>4. /\ DOMAIN ops' = DOMAIN ops /\ EditsWait(ops')
      /\ \A i \in DOMAIN ops : SameThing(ops, ops', i) /\ SameRefs(ops, ops', i)
  <2>1. reason \in ParkReasons
    BY DEF ParkReasons
  <2> QED BY <1>2, <1>3, <2>1, ParkKeeps
<1> QED BY <1>1, <1>4, ReparkedNamed

LEMMA RetryParkedNamed == ASSUME IInv, NInv, RetryParked PROVE Named(ops') /\ RestN'
<1>1. UNCHANGED <<nextTempId, remap, shown, held, sending>> /\ DOMAIN ops' = DOMAIN ops
  BY DEF RetryParked
<1>2. ASSUME NEW i \in DOMAIN ops
      PROVE  SameThing(ops, ops', i) /\ SameRefs(ops, ops', i) /\ IsWaiting(ops'[i])
  <2>1. ops[i] \in Op BY DEF IInv, TypeOK
  <2>2. ops'[i] = [ops[i] EXCEPT !.parked = NotHeld] BY DEF RetryParked
  <2> QED BY <2>1, <2>2 DEF Op, SameThing, SameRefs, IsWaiting
<1>3. EditsWait(ops')
  BY <1>1, <1>2 DEF EditsWait, Creations
<1> QED BY <1>1, <1>2, <1>3, ReparkedNamed

\* What a completion points at the server's id is no creation that stays.
LEMMA CompleteNamed ==
  ASSUME IInv, NInv, NEW h \in held, NEW id \in AnswerIds(h), NEW givenUp,
         Complete(h, id, givenUp)
  PROVE  Named(ops') /\ RestN'
<1>1. h.op \in Op /\ id \in Nat /\ h.op.target \in Int /\ nextTempId \in Int
  BY AnswersPositive, IdsResolve DEF Op
<1>2. /\ UNCHANGED nextTempId /\ sending' = Nobody /\ held' = {}
      /\ Remember(h, id)
      /\ shown' = ShownAfter(h, id)
                    \cup (IF givenUp THEN {<<h.op.entity, h.op.target>>} ELSE {})
      /\ givenUp => h.op.target > 0
  BY DEF Complete
<1> DEFINE left == Without(ops, {h.ticket})
           g == [t \in DOMAIN left |-> Rewritten(left[t], h.op.target, id, h.op.entity)]
<1>3. /\ DOMAIN left = DOMAIN ops \ {h.ticket}
      /\ \A t \in DOMAIN left : left[t] = ops[t] /\ left[t] \in Op
  BY DEF Without, IInv, TypeOK
<1>4. Named(left)
  BY NamedWithout DEF NInv
<1>5. ops' = IF Rewrites(h, id) THEN g ELSE left
  BY DEF Complete
<1>6. \A c \in Creations(left) : c \in Creations(ops) /\ left[c] = ops[c]
                                 /\ c \in DOMAIN left /\ c # h.ticket
  BY <1>3 DEF Creations
<1> HIDE DEF left
<1>7. ASSUME Rewrites(h, id)
      PROVE  /\ Named(g)
             /\ Creations(g) = Creations(left)
             /\ \A c \in Creations(left) : /\ g[c].target = left[c].target
                                           /\ g[c].entity = left[c].entity
  <2>1. id \in Nat \ {0}
    BY <1>1, <1>7 DEF Rewrites, NoId
  <2>2. \A c \in Creations(left) : left[c].target # h.op.target
    BY <1>6 DEF NInv, HeldAlone
  <2>3. Named(g)
    <3>1. /\ h.op.target \in Int
          /\ \A c \in Creations(left) : left[c].target # h.op.target
          /\ \A t \in DOMAIN left : left[t] \in Op
      BY <1>1, <1>3, <2>2
    <3>2. \A f, e : Named(f) /\ (\A c \in Creations(f) : f[c].target # h.op.target)
                    /\ (\A t \in DOMAIN f : f[t] \in Op)
                    => Named([t \in DOMAIN f |-> Rewritten(f[t], h.op.target, id, e)])
      BY <2>1, <3>1, NamedRetargeted
    <3> QED BY <1>4, <3>1, <3>2
  <2>4. \A t \in DOMAIN left :
          /\ g[t].kind = left[t].kind /\ g[t].entity = left[t].entity
          /\ left[t].target # h.op.target => g[t].target = left[t].target
    BY <1>1, <1>3, RewrittenFields
  <2>5. DOMAIN g = DOMAIN left
    OBVIOUS
  <2> HIDE DEF g
  <2> QED BY <1>6, <2>2, <2>3, <2>4, <2>5 DEF Creations, IsCreation
<1> HIDE DEF g
<1>8. /\ Named(ops')
      /\ \A c \in Creations(ops') : /\ c \in Creations(ops)
                                    /\ ops'[c].target = ops[c].target
                                    /\ ops'[c].entity = ops[c].entity
  BY <1>4, <1>5, <1>6, <1>7
<1>9. ShownKinds'
  <2>1. \A c \in Creations(ops') : ops'[c].target < 0
    BY <1>8 DEF Named, NamedOnce
  <2>2. \A p \in shown' : p \in shown \/ p[2] > 0
    BY <1>1, <1>2 DEF ShownAfter, NoId
  <2>3. \A c \in Creations(ops') : ops'[c].target \in Int
    BY <1>8 DEF IInv, TypeOK, Op, Creations
  <2>4. \A p \in shown' : p \in shown \/ \A c \in Creations(ops') : ops'[c].target # p[2]
    BY <1>1, <1>2, <2>1, <2>3 DEF ShownAfter, NoId
  <2> QED BY <1>8, <2>4 DEF NInv, ShownKinds, KindOf
<1>10. HeldAlone' /\ MarkHeld'
  BY <1>2 DEF HeldAlone, MarkHeld
<1>11. RemapOld'
  BY <1>1, <1>2, RememberOld
<1> QED BY <1>8, <1>9, <1>10, <1>11 DEF RestN

LEMMA CompleteUnsavedNamed ==
  ASSUME IInv, NInv, CompleteUnsaved
  PROVE  RestN'
<1>1. PICK h \in held : \E id \in AnswerIds(h) : Remember(h, id)
  BY DEF CompleteUnsaved
<1>2. PICK id \in AnswerIds(h) : Remember(h, id)
  BY <1>1
<1>3. UNCHANGED <<ops, nextTempId, shown>> /\ held' = {} /\ sending' = Nobody
  BY DEF CompleteUnsaved
<1>4. RemapOld'
  BY <1>2, <1>3, RememberOld
<1> QED BY <1>3, <1>4 DEF NInv, RestN, ShownKinds, HeldAlone, MarkHeld

LEMMA DiscardNamed ==
  ASSUME IInv, NInv, NEW t \in DOMAIN ops, Discard(t)
  PROVE  Named(ops') /\ RestN'
<1>1. PICK S \in SUBSET DOMAIN ops :
        /\ ops' = Without(ops, S)
        /\ shown' = shown \cup {<<ops[i].entity, ops[i].target>> :
                                  i \in {j \in S : ops[j].kind = "delete"}}
  BY DEF Discard
<1>2. UNCHANGED <<nextTempId, remap, held, sending>>
  BY DEF Discard
<1>3. Named(ops')
  BY <1>1, NamedWithout DEF NInv
<1>4. \A c \in Creations(ops') : c \in Creations(ops) /\ ops'[c] = ops[c]
  BY <1>1 DEF Without, Creations
<1>5. ShownKinds'
  <2>1. \A p \in shown' : KindOf(ops, p[2], p[1])
    BY <1>1 DEF NInv, ShownKinds, Named, KindsAgree
  <2>2. \A id, e : KindOf(ops, id, e) => KindOf(ops', id, e)
    BY <1>4 DEF KindOf
  <2> QED BY <2>1, <2>2 DEF ShownKinds, KindOf
<1> QED BY <1>2, <1>3, <1>4, <1>5 DEF NInv, RestN, HeldAlone, MarkHeld, RemapOld

\* What the screens show again: what they showed, or a creation of the queue.
LEMMA RereadKinds ==
  ASSUME NInv, NEW copy \in SavedCopies
  PROVE  \A p \in Reread(copy, ops) : KindOf(ops, p[2], p[1])
<1>1. \A p \in copy : KindOf(ops, p[2], p[1])
  BY DEF SavedCopies, NInv, ShownKinds
<1>2. \A c \in Creations(ops) : KindOf(ops, ops[c].target, ops[c].entity)
  BY DEF NInv, Named, NamedOnce, KindOf
<1> QED BY <1>1, <1>2 DEF Reread

LEMMA RestartNamed ==
  ASSUME IInv, NInv, NEW copy \in SavedCopies, Restart(copy)
  PROVE  RestN'
<1>1. UNCHANGED <<ops, nextTempId>> /\ DOMAIN remap' = {} /\ held' = {} /\ sending' = Nobody
      /\ shown' = Reread(copy, ops)
  BY DEF Restart
<1>2. ShownKinds'
  BY <1>1, RereadKinds DEF ShownKinds
<1> QED BY <1>1, <1>2 DEF RestN, HeldAlone, MarkHeld, RemapOld

LEMMA EndSessionNamed ==
  ASSUME IInv, NInv, ~LateReplies, NEW copy \in SavedCopies, NEW keep \in BOOLEAN,
         EndSession(keep, copy)
  PROVE  Named(ops') /\ RestN'
<1>1. /\ DOMAIN remap' = {} /\ held = {} /\ held' = {} /\ sending' = Nobody
      /\ shown' = Reread(copy, ops') /\ ops' = IF keep THEN ops ELSE [t \in {} |-> 0]
  BY DEF EndSession
<1>2. CASE keep
  BY <1>1, <1>2, RereadKinds DEF NInv, RestN, ShownKinds, HeldAlone, MarkHeld, RemapOld
<1>3. CASE ~keep
  <2>1. DOMAIN ops' = {} /\ Creations(ops') = {}
    BY <1>1, <1>3 DEF Creations
  <2> QED BY <1>1, <2>1 DEF Named, NamedOnce, EditsWait, KindsAgree, KindOf,
                            RestN, ShownKinds, HeldAlone, MarkHeld, RemapOld
<1> QED BY <1>2, <1>3

LEMMA StepNInv ==
  ASSUME ~LateReplies, IInv, NInv, [Next]_vars
  PROVE  NInv'
<1>1. SentInv'
  BY SentUserStep, SentOtherStep DEF NInv, Next
<1>2. Named(ops') /\ RestN'
  <2>1. CASE UserStep
    BY <2>1, CreateNamed, UpdateNamed, DeleteNamed, DiscardNamed, RetryParkedNamed,
       OutboxAssumption DEF UserStep
  <2>2. CASE Take \/ CompleteUnsaved \/ Abort
    <3>1. ops' = ops
      BY <2>2 DEF Take, CompleteUnsaved, Abort
    <3>2. ASSUME Abort PROVE RestN'
      <4>1. UNCHANGED <<ops, nextTempId, remap, shown>> /\ held' = {} /\ sending' = Nobody
        BY <3>2 DEF Abort
      <4>2. \A c \in Creations(ops') : c \in Creations(ops) /\ ops'[c] = ops[c]
        BY <4>1
      <4> QED BY <4>1, <4>2, RestLess
    <3> QED BY <2>2, <3>1, <3>2, TakeNamed, CompleteUnsavedNamed DEF NInv
  <2>3. CASE HoldBack \/ ParkStale \/ Completes
    BY <2>3, HoldBackNamed, ParkStaleNamed, CompleteNamed DEF Completes
  <2>4. CASE LifeStep
    <3>1. ASSUME NEW copy \in SavedCopies, Restart(copy) PROVE ops' = ops
      BY <3>1 DEF Restart
    <3> QED BY <2>4, <3>1, RestartNamed, EndSessionNamed DEF LifeStep, NInv
  <2>5. CASE UNCHANGED vars
    BY <2>5 DEF vars, NInv, RestN, ShownKinds, HeldAlone, MarkHeld, RemapOld
  <2> QED BY <2>1, <2>2, <2>3, <2>4, <2>5 DEF Next, EngineStep
<1> QED BY <1>1, <1>2 DEF NInv, RestN

LEMMA InitNInv == ASSUME Init PROVE NInv
BY DEF Init, NInv, Named, NamedOnce, EditsWait, KindsAgree, KindOf, Creations,
       ShownKinds, SentInv, HeldAlone, MarkHeld, RemapOld

LEMMA NInvHolds == ~LateReplies => (Spec => [](IInv /\ NInv))
<1> SUFFICES ASSUME ~LateReplies PROVE Spec => [](IInv /\ NInv)
  OBVIOUS
<1>1. Init => NInv
  BY InitNInv
<1>2. IInv /\ NInv /\ [Next]_vars => NInv'
  BY StepNInv
<1> QED BY <1>1, <1>2, IInvHolds, PTL DEF Spec

\* While no session ends with a request under way, a temporary id names one
\* waiting creation, which keeps it until it leaves the queue, and the next
\* id is still free (outbox.dart:26-29): whatever is folded, parked, retried,
\* answered twice because it could not be saved, or kept over a restart, no
\* completion points another creation at its server id.
THEOREM IdsNameOneCreation == ~LateReplies => (Spec => []TempIdsNameOneCreation)
<1> SUFFICES ASSUME ~LateReplies PROVE Spec => []TempIdsNameOneCreation
  OBVIOUS
<1>1. IInv /\ NInv => TempIdsNameOneCreation
  BY DEF IInv, Queue, HandedOut, NInv, Named, NamedOnce, TempIdsNameOneCreation, Creations
<1> QED BY <1>1, NInvHolds, PTL

-----------------------------------------------------------------------------
(* A creation that leaves unsent takes along what needs it.                *)

Cascades ==
  \A c \in Creations(ops) :
    (c \notin DOMAIN ops' /\ ops[c].target \notin DOMAIN remap')
      => \A t \in DOMAIN ops' : ops[c].target \notin Dependencies(ops'[t])

\* discard goes through the queue once: what needs a creation comes after it.
LEMMA DiscardCascades ==
  ASSUME IInv, NEW t \in DOMAIN ops, Discard(t)
  PROVE  Cascades
<1>1. PICK S \in SUBSET DOMAIN ops : GoesWith(ops, t, DOMAIN ops, S) /\ ops' = Without(ops, S)
  BY DEF Discard
<1> SUFFICES ASSUME NEW c \in Creations(ops), c \notin DOMAIN ops', NEW u \in DOMAIN ops',
                    ops[c].target \in Dependencies(ops'[u])
             PROVE  FALSE
  BY DEF Cascades
<1>2. /\ c \in S /\ u \in DOMAIN ops /\ u \notin S /\ ops'[u] = ops[u]
      /\ c \in Nat /\ u \in Nat
  BY <1>1 DEF Without, Creations, IInv, TypeOK
<1>3. c < u
  BY <1>2 DEF IInv, Queue, InOrder
<1>4. c \in {x \in S \cap Creations(ops) : x < u}
  BY <1>2, <1>3
<1>5. ops[c].target \in TargetsOf(ops, {x \in S \cap Creations(ops) : x < u})
  BY <1>4 DEF TargetsOf
<1>6. u \in S
  BY <1>1, <1>2, <1>5 DEF GoesWith
<1> QED BY <1>2, <1>6

\* deleteEvent drops everything waiting of an event created here but the op
\* being sent, which is about no creation but itself.
LEMMA DeleteCascades ==
  ASSUME IInv, NInv, NEW p \in shown, NEW body, NEW base, Delete(p[1], p[2], body, base)
  PROVE  Cascades
<1> DEFINE e == p[1]
           target == Target(p[1], p[2])
           gone == Replaced(e, target)
<1>1. ops' = DeleteOp(e, target, gone, body, base)
  BY DEF Delete
<1> HIDE DEF e, target
<1> SUFFICES ASSUME NEW c \in Creations(ops), c \notin DOMAIN ops', NEW u \in DOMAIN ops',
                    ops[c].target \in Dependencies(ops'[u])
             PROVE  FALSE
  BY DEF Cascades
<1>2. c \in DOMAIN ops /\ IsCreation(ops[c]) /\ ops[c].target < 0
  BY DEF Creations, NInv, Named, NamedOnce
<1>3. c \in gone
  BY <1>1, <1>2 DEF DeleteOp, Extended, Without
<1>4. ops' = Without(ops, gone)
  BY <1>1, <1>2, <1>3 DEF DeleteOp
<1>5. u \in DOMAIN ops /\ u \notin gone /\ ops'[u] = ops[u]
  BY <1>4 DEF Without
<1>6. e = "event" /\ About(ops[c], e, target) /\ c # sending
  BY <1>2, <1>3 DEF Replaced, IsCreation
<1>7. /\ ops[c].target \notin ops[u].tags
      /\ ops[c].target # ops[u].category
      /\ ops[c].target = ops[u].target => ops[c].entity = ops[u].entity
  BY <1>5, <1>6 DEF NInv, Named, KindsAgree, KindOf, About
<1>8. ops[c].target = ops[u].target
  BY <1>5, <1>7 DEF Dependencies, TagDependencies
<1>9. u = sending
  BY <1>5, <1>6, <1>7, <1>8 DEF Replaced, About
<1>10. u \in Nat /\ u # 0
  BY <1>5 DEF IInv, Queue
<1>11. PICK h \in held : TRUE
  BY <1>9, <1>10 DEF NInv, MarkHeld, Nobody
<1>12. h.ticket = u /\ h.op = ops[u]
  BY <1>5, <1>9 DEF NInv, SentInv
<1>13. c = u
  BY <1>8, <1>12 DEF NInv, HeldAlone
<1> QED BY <1>3, <1>5, <1>13

LEMMA CompleteCascades ==
  ASSUME IInv, NInv, NEW h \in held, NEW id \in AnswerIds(h), NEW givenUp,
         Complete(h, id, givenUp)
  PROVE  Cascades
<1> SUFFICES ASSUME NEW c \in Creations(ops), c \notin DOMAIN ops'
             PROVE  ops[c].target \in DOMAIN remap'
  BY DEF Cascades
<1>1. c \in DOMAIN ops /\ IsCreation(ops[c]) /\ ops[c].target < 0
  BY DEF Creations, NInv, Named, NamedOnce
<1>2. DOMAIN ops' = DOMAIN ops \ {h.ticket}
  BY DEF Complete, Without
<1>3. c = h.ticket /\ h.op = ops[c]
  BY <1>1, <1>2 DEF NInv, SentInv
<1>4. id \in Nat \ {0}
  <2>1. h.op.entity \in AllEntities /\ h.ticket \in Nat
    BY DEF IInv, TypeOK, Held, Op
  <2>2. Known[h.op.entity] \subseteq Nat \ {0}
    BY <2>1, OutboxAssumption
  <2>3. NewIds(h.ticket) \subseteq Nat \ {0}
    BY <2>1, NewIdsPositive
  <2> QED BY <1>1, <1>3, <2>2, <2>3 DEF AnswerIds, IsCreation
<1>5. Rewrites(h, id)
  BY <1>1, <1>3, <1>4 DEF Rewrites, NoId
<1>6. DOMAIN remap' = DOMAIN remap \cup {h.op.target}
  BY <1>1, <1>3, <1>5 DEF Complete, Remember, Extended
<1> QED BY <1>3, <1>6

LEMMA StepCascades ==
  ASSUME IInv, NInv, [Next]_vars
  PROVE  Cascades
<1>1. (DOMAIN ops \subseteq DOMAIN ops') => Cascades
  BY DEF Cascades, Creations
<1>2. CASE UserStep
  <2>1. ASSUME NEW e, NEW body, Create(e, body) PROVE Cascades
    BY <1>1, <2>1 DEF Create, Extended
  <2>2. ASSUME NEW e, NEW i, NEW body, NEW base, Update(e, i, body, base) PROVE Cascades
    BY <1>1, <2>2 DEF Update, Extended
  <2>3. ASSUME RetryParked PROVE Cascades
    BY <1>1, <2>3 DEF RetryParked
  <2> QED BY <1>2, <2>1, <2>2, <2>3, DeleteCascades, DiscardCascades DEF UserStep
<1>3. CASE EngineStep
  <2>1. CASE Take \/ CompleteUnsaved \/ Abort
    BY <1>1, <2>1 DEF Take, CompleteUnsaved, Abort
  <2>2. CASE HoldBack \/ ParkStale
    BY <1>1, <2>2 DEF HoldBack, ParkStale, Park
  <2>3. CASE Completes
    BY <2>3, CompleteCascades DEF Completes
  <2> QED BY <1>3, <2>1, <2>2, <2>3 DEF EngineStep
<1>4. CASE LifeStep
  <2>1. ASSUME NEW copy, Restart(copy) PROVE Cascades
    BY <1>1, <2>1 DEF Restart
  <2>2. ASSUME NEW keep, NEW copy, EndSession(keep, copy) PROVE Cascades
    BY <1>1, <2>2 DEF EndSession, Cascades
  <2> QED BY <1>4, <2>1, <2>2 DEF LifeStep
<1>5. CASE UNCHANGED vars
  BY <1>1, <1>5 DEF vars
<1> QED BY <1>2, <1>3, <1>4, <1>5 DEF Next

\* A creation that leaves the queue without reaching the server, discarded
\* or deleted again, takes along every waiting op that needs it
\* (outbox.dart:656-657), with no session ending while a request is under
\* way: nothing is left that could only wait for ever.
THEOREM NothingOrphaned == ~LateReplies => (Spec => DropCascades)
<1> SUFFICES ASSUME ~LateReplies PROVE Spec => DropCascades
  OBVIOUS
<1>1. IInv /\ NInv /\ [Next]_vars => [Cascades]_vars
  BY StepCascades
<1> QED BY <1>1, NInvHolds, PTL DEF Spec, DropCascades, Cascades

-----------------------------------------------------------------------------
(* What each write adds to the queue: one op, about what was written to.   *)

\* The ops of g are those of f, about the same things, or the one added; what
\* the ops of f carry is kept or the new write.
AddsOne(f, g, n, e, target, base) ==
  \A i \in DOMAIN g :
    \/ i \in DOMAIN f /\ SameThing(f, g, i) /\ g[i].write \in {f[i].write, n}
    \/ /\ i = n /\ n \notin DOMAIN f
       /\ g[i].entity = e /\ g[i].target = target /\ g[i].base = base /\ g[i].write = n

LEMMA ExtendedAddsOne ==
  ASSUME NEW f, OpsType(f), NEW n, n \notin DOMAIN f, NEW op \in Op, op.write = n
  PROVE  AddsOne(f, Extended(f, n, Admitted(f, op)), n, op.entity, op.target, op.base)
<1> DEFINE new == Admitted(f, op)
<1>1. /\ new.entity = op.entity /\ new.target = op.target /\ new.base = op.base
      /\ new.write = n
  BY AdmittedKeeps
<1> HIDE DEF new
<1>2. AddsOne(f, Extended(f, n, new), n, op.entity, op.target, op.base)
  BY <1>1 DEF AddsOne, Extended, SameThing
<1> QED BY <1>2 DEF new

LEMMA CreateAdds ==
  ASSUME IInv, NEW e \in AllEntities, NEW body \in Bodies(e), Create(e, body)
  PROVE  AddsOne(ops, ops', writes + 1, e, nextTempId, NoBase)
<1> DEFINE op == NewOp(e, "create", nextTempId, body, NoBase)
<1>1. /\ OpsType(ops) /\ writes \in Nat /\ DOMAIN ops \subseteq 1..writes
      /\ nextTempId \in Int
  BY DEF IInv, TypeOK, Queue
<1>2. op \in Op
  BY <1>1, BodiesType, NewOpType DEF Kinds
<1>3. op.entity = e /\ op.target = nextTempId /\ op.base = NoBase /\ op.write = writes + 1
  BY DEF NewOp
<1>4. ops' = Extended(ops, writes + 1, Admitted(ops, op))
  BY DEF Create
<1> HIDE DEF op
<1> QED BY <1>1, <1>2, <1>3, <1>4, ExtendedAddsOne

LEMMA UpdateAdds ==
  ASSUME IInv, NEW p \in shown, NEW body \in Bodies(p[1]),
         NEW base \in GivenBases(Target(p[1], p[2])), Update(p[1], p[2], body, base)
  PROVE  AddsOne(ops, ops', writes + 1, p[1], Target(p[1], p[2]),
                 EarliestBase(p[1], Target(p[1], p[2]), base))
<1> DEFINE e == p[1]
           target == Target(p[1], p[2])
           given == EarliestBase(p[1], Target(p[1], p[2]), base)
           sent == IF e = "group" THEN [body EXCEPT !.category = NoId] ELSE body
           op == NewOp(e, "update", target, sent, given)
<1>1. /\ OpsType(ops) /\ writes \in Nat /\ DOMAIN ops \subseteq 1..writes
      /\ nextTempId \in Int /\ nextTempId < 0
  BY IdsResolve DEF IInv, TypeOK, Queue
<1>2. e \in AllEntities /\ target \in Int /\ nextTempId < target
  BY IdsResolve DEF IInv, TypeOK, ShownHandedOut, Target
<1>3. /\ body.tags \in SUBSET Int /\ body.category \in Int
      /\ \A id \in body.tags : nextTempId < id
      /\ nextTempId < body.category
  BY <1>2, BodiesType
<1>4. given \in Bases \cup {NoBase}
  BY BasesType
<1>5. sent.tags = body.tags /\ sent.category \in {NoId, body.category}
  BY DEF Bodies
<1>6. \/ \E t \in Foldable(e, target, body) : ops' = [ops EXCEPT ![t] = Folded(@, body)]
      \/ ops' = Extended(ops, writes + 1, Admitted(ops, op))
  BY DEF Update
<1> HIDE DEF e, target, given, sent
<1>7. /\ sent.tags \in SUBSET Int /\ sent.category \in Int
      /\ \A id \in sent.tags : nextTempId < id
      /\ nextTempId < sent.category
  BY <1>1, <1>3, <1>5 DEF NoId
<1>8. op \in Op
  BY <1>2, <1>4, <1>7, NewOpType DEF Kinds
<1>9. op.entity = e /\ op.target = target /\ op.base = given /\ op.write = writes + 1
  BY DEF NewOp
<1> HIDE DEF op
<1>10. ASSUME NEW t \in Foldable(e, target, body), ops' = [ops EXCEPT ![t] = Folded(@, body)]
       PROVE  AddsOne(ops, ops', writes + 1, e, target, given)
  <2>1. t \in DOMAIN ops /\ ops[t] \in Op
    BY <1>1 DEF Foldable, OpsType
  <2>2. SameThing(ops, ops', t) /\ ops'[t].write = writes + 1
    BY <1>1, <1>3, <1>10, <2>1, FoldedFields DEF SameThing
  <2> QED BY <1>10, <2>2 DEF AddsOne, SameThing
<1>11. ASSUME ops' = Extended(ops, writes + 1, Admitted(ops, op))
       PROVE  AddsOne(ops, ops', writes + 1, e, target, given)
  <2>1. writes + 1 \notin DOMAIN ops
    BY <1>1
  <2>2. AddsOne(ops, Extended(ops, writes + 1, Admitted(ops, op)), writes + 1,
                op.entity, op.target, op.base)
    BY <1>1, <1>8, <1>9, <2>1, ExtendedAddsOne
  <2> QED BY <1>9, <1>11, <2>2
<1> QED BY <1>6, <1>10, <1>11 DEF e, target, given

LEMMA DeleteAdds ==
  ASSUME IInv, NEW p \in shown, NEW body \in Noted(p[1], p[2]),
         NEW base \in GivenBases(Target(p[1], p[2])), Delete(p[1], p[2], body, base)
  PROVE  AddsOne(ops, ops', writes + 1, p[1], Target(p[1], p[2]),
                 EarliestBase(p[1], Target(p[1], p[2]), base))
<1> DEFINE e == p[1]
           target == Target(p[1], p[2])
           given == EarliestBase(p[1], Target(p[1], p[2]), base)
           left == Without(ops, Replaced(e, target))
           op == NewOp(e, "delete", target, body, given)
<1>1. /\ OpsType(ops) /\ writes \in Nat /\ DOMAIN ops \subseteq 1..writes
      /\ nextTempId \in Int /\ nextTempId < 0
  BY IdsResolve DEF IInv, TypeOK, Queue
<1>2. e \in AllEntities /\ target \in Int /\ nextTempId < target
  BY IdsResolve DEF IInv, TypeOK, ShownHandedOut, Target
<1>3. body.tags \in SUBSET ScreenIds("tag") /\ body.category = NoId
  BY DEF Noted
<1>4. \A id \in body.tags : id \in Int /\ nextTempId < id
  BY IdsResolve, <1>3 DEF AllEntities
<1>5. /\ body.tags \in SUBSET Int /\ body.category \in Int
      /\ \A id \in body.tags : nextTempId < id
      /\ nextTempId < body.category
  BY <1>1, <1>3, <1>4 DEF NoId
<1>6. given \in Bases \cup {NoBase}
  BY BasesType
<1>7. ops' = left \/ ops' = Extended(left, writes + 1, Admitted(left, op))
  BY DEF Delete, DeleteOp
<1>8. DOMAIN left \subseteq DOMAIN ops /\ \A i \in DOMAIN left : left[i] = ops[i]
  BY DEF Without
<1> HIDE DEF e, target, given, left
<1>9. op \in Op
  BY <1>2, <1>5, <1>6, NewOpType DEF Kinds
<1>10. op.entity = e /\ op.target = target /\ op.base = given /\ op.write = writes + 1
  BY DEF NewOp
<1> HIDE DEF op
<1>11. OpsType(left) /\ writes + 1 \notin DOMAIN left /\ writes + 1 \notin DOMAIN ops
  BY <1>1, <1>8 DEF OpsType
<1>12. ASSUME ops' = left
       PROVE  AddsOne(ops, ops', writes + 1, e, target, given)
  BY <1>8, <1>12 DEF AddsOne, SameThing
<1>13. ASSUME ops' = Extended(left, writes + 1, Admitted(left, op))
       PROVE  AddsOne(ops, ops', writes + 1, e, target, given)
  <2>1. AddsOne(left, ops', writes + 1, e, target, given)
    BY <1>9, <1>10, <1>11, <1>13, ExtendedAddsOne
  <2> QED BY <1>8, <1>11, <2>1 DEF AddsOne, SameThing
<1> QED BY <1>7, <1>12, <1>13 DEF e, target, given

-----------------------------------------------------------------------------
(* Changes follow a temporary id to the server's.                          *)

\* A screen's id resolved is not one the server has replaced.
LEMMA ResolvedTarget ==
  ASSUME IInv, NInv, NEW e, NEW id
  PROVE  Target(e, id) \notin DOMAIN remap
<1>1. \A i \in DOMAIN remap : i < 0 /\ i \in Int /\ remap[i] \in Nat
  BY DEF IInv, TypeOK, NInv, RemapOld
<1>2. \A i \in DOMAIN eventRemap : eventRemap[i] \in Nat
  BY DEF IInv, TypeOK
<1>3. \A i \in Nat : i \notin DOMAIN remap
  BY <1>1
<1> QED BY <1>1, <1>2, <1>3 DEF Target, ResolveEvent, Resolve

LEMMA FollowComplete ==
  ASSUME IInv, NInv, TargetsFollow, NEW h \in held, NEW id \in AnswerIds(h), NEW givenUp,
         Complete(h, id, givenUp)
  PROVE  TargetsFollow'
<1>1. h.op \in Op /\ h.op.target \in Int /\ id \in Nat
  BY AnswersPositive DEF Op
<1> DEFINE left == Without(ops, {h.ticket})
           g == [t \in DOMAIN left |-> Rewritten(left[t], h.op.target, id, h.op.entity)]
<1>2. /\ \A t \in DOMAIN left : t \in DOMAIN ops /\ left[t] = ops[t] /\ left[t] \in Op
      /\ ops' = IF Rewrites(h, id) THEN g ELSE left
      /\ Remember(h, id)
  BY DEF Without, IInv, TypeOK, Complete
<1>3. \A i \in DOMAIN remap : i < 0 /\ i \in Int
  BY DEF IInv, TypeOK, NInv, RemapOld
<1> HIDE DEF left
<1>4. CASE ~Rewrites(h, id)
  BY <1>2, <1>4 DEF Remember, TargetsFollow
<1>5. CASE Rewrites(h, id)
  <2>1. id \in Nat \ {0}
    BY <1>1, <1>5 DEF Rewrites, NoId
  <2>2. \A t \in DOMAIN left :
          g[t].target = IF left[t].target = h.op.target
                           /\ (h.op.target < 0 \/ left[t].entity = h.op.entity)
                        THEN id ELSE left[t].target
    BY <1>1, <1>2, RewrittenFields
  <2>3. DOMAIN g = DOMAIN left /\ ops' = g
    BY <1>2, <1>5
  <2> HIDE DEF g
  <2>4. CASE h.op.target < 0
    <3>1. DOMAIN remap' = DOMAIN remap \cup {h.op.target}
      BY <1>2, <1>5, <2>4 DEF Remember, Extended
    <3>2. id \notin DOMAIN remap'
      BY <1>1, <1>3, <2>1, <2>4, <3>1
    <3> QED BY <1>2, <2>2, <2>3, <2>4, <3>1, <3>2 DEF TargetsFollow
  <2>5. CASE ~(h.op.target < 0)
    <3>1. remap' = remap
      BY <1>2, <1>5, <2>5 DEF Remember
    <3>2. id \notin DOMAIN remap
      BY <1>3, <2>1
    <3> QED BY <1>2, <2>2, <2>3, <3>1, <3>2 DEF TargetsFollow
  <2> QED BY <2>4, <2>5
<1> QED BY <1>4, <1>5

LEMMA StepFollow ==
  ASSUME ~StorageFails, ~LateReplies, IInv, NInv, TargetsFollow, [Next]_vars
  PROVE  TargetsFollow'
<1>1. ASSUME NEW n, NEW e, NEW target, NEW base, AddsOne(ops, ops', n, e, target, base),
             target \notin DOMAIN remap, remap' = remap
      PROVE  TargetsFollow'
  BY <1>1 DEF AddsOne, SameThing, TargetsFollow
<1>2. ASSUME DOMAIN ops' \subseteq DOMAIN ops, remap' = remap,
             \A i \in DOMAIN ops' : ops'[i].target = ops[i].target
      PROVE  TargetsFollow'
  BY <1>2 DEF TargetsFollow
<1>3. CASE UserStep
  <2>1. ASSUME NEW e \in AllEntities, NEW body \in Bodies(e), Create(e, body)
        PROVE  TargetsFollow'
    <3>1. nextTempId \notin DOMAIN remap /\ remap' = remap
      BY <2>1 DEF Create, NInv, RemapOld, IInv, TypeOK
    <3> QED BY <1>1, <2>1, <3>1, CreateAdds
  <2>2. ASSUME NEW p \in shown, NEW body \in Bodies(p[1]),
               NEW base \in GivenBases(Target(p[1], p[2])), Update(p[1], p[2], body, base)
        PROVE  TargetsFollow'
    <3>1. remap' = remap
      BY <2>2 DEF Update
    <3> QED BY <1>1, <2>2, <3>1, UpdateAdds, ResolvedTarget
  <2>3. ASSUME NEW p \in shown, NEW body \in Noted(p[1], p[2]),
               NEW base \in GivenBases(Target(p[1], p[2])), Delete(p[1], p[2], body, base)
        PROVE  TargetsFollow'
    <3>1. remap' = remap
      BY <2>3 DEF Delete
    <3> QED BY <1>1, <2>3, <3>1, DeleteAdds, ResolvedTarget
  <2>4. ASSUME NEW t \in DOMAIN ops, Discard(t)
        PROVE  TargetsFollow'
    BY <1>2, <2>4 DEF Discard, Without
  <2>5. ASSUME RetryParked
        PROVE  TargetsFollow'
    <3>1. \A i \in DOMAIN ops : ops'[i].target = ops[i].target
      BY <2>5 DEF RetryParked, IInv, TypeOK, Op
    <3> QED BY <1>2, <2>5, <3>1 DEF RetryParked
  <2> QED BY <1>3, <2>1, <2>2, <2>3, <2>4, <2>5, OutboxAssumption DEF UserStep
<1>4. CASE EngineStep
  <2>1. CASE Take \/ Abort
    BY <1>2, <2>1 DEF Take, Abort
  <2>2. ASSUME NEW t, NEW reason \in ParkReasons, Park(ops, t, reason, ops'), remap' = remap
        PROVE  TargetsFollow'
    BY <1>2, <2>2, ParkType DEF IInv, Queue
  <2>3. CASE HoldBack
    <3>1. PICK h \in held, reason \in {"refused", "missingTag", "missingParent"} :
            IF h.ticket \in DOMAIN ops THEN Park(ops, h.ticket, reason, ops') ELSE ops' = ops
      BY <2>3 DEF HoldBack
    <3>2. reason \in ParkReasons /\ remap' = remap
      BY <2>3 DEF HoldBack, ParkReasons
    <3> QED BY <1>2, <2>2, <3>1, <3>2
  <2>4. CASE ParkStale
    <3>1. PICK t \in DOMAIN ops, reason \in {"encryptionChanged", "dataReplaced"} :
            Park(ops, t, reason, ops')
      BY <2>4 DEF ParkStale
    <3>2. reason \in ParkReasons /\ remap' = remap
      BY <2>4 DEF ParkStale, ParkReasons
    <3> QED BY <2>2, <3>1, <3>2
  <2>5. CASE Completes
    BY <2>5, FollowComplete DEF Completes
  <2> QED BY <1>4, <2>1, <2>3, <2>4, <2>5 DEF EngineStep, CompleteUnsaved
<1>5. CASE LifeStep
  <2>1. DOMAIN remap' = {}
    BY <1>5 DEF LifeStep, Restart, EndSession
  <2> QED BY <2>1 DEF TargetsFollow
<1>6. CASE UNCHANGED vars
  BY <1>2, <1>6 DEF vars
<1> QED BY <1>3, <1>4, <1>5, <1>6 DEF Next

\* As long as completions are saved and no session ends with a request under
\* way, no waiting change stays aimed at a temporary id the server has
\* replaced, nor does a screen that still holds the id aim one at it
\* (outbox.dart:207-209).
THEOREM ChangesFollow == ~StorageFails /\ ~LateReplies => (Spec => []TargetsFollow)
<1> SUFFICES ASSUME ~StorageFails, ~LateReplies PROVE Spec => []TargetsFollow
  OBVIOUS
<1>1. Init => TargetsFollow
  BY DEF Init, TargetsFollow
<1>2. IInv /\ NInv /\ TargetsFollow /\ [Next]_vars => TargetsFollow'
  BY StepFollow
<1> QED BY <1>1, <1>2, NInvHolds, PTL DEF Spec

-----------------------------------------------------------------------------
(* One base.  Edits of a thing that only this device knows have no base    *)
(* (TempBase), so pointing them at its server id adds none to those there. *)
(* An event created again gets an id nothing uses yet (AnswersNew): its    *)
(* edits take their base along and meet no other.                          *)

TempBase == \A t \in DOMAIN ops : ops[t].target < 0 => ops[t].base = NoBase

\* The ids an op is about, a screen shows or the outbox maps to.
Used(id) ==
  \/ \E t \in DOMAIN ops : ops[t].target = id
  \/ \E h \in held : h.op.target = id
  \/ \E p \in shown : p[2] = id
  \/ \E i \in DOMAIN remap : remap[i] = id
  \/ \E i \in DOMAIN eventRemap : eventRemap[i] = id

\* The tickets whose answer is still to come.
Unanswered(t) ==
  \/ t \in DOMAIN ops
  \/ \E h \in held : h.ticket = t
  \/ t > writes

AnswersNew ==
  \A t \in 1..MaxWrites : Unanswered(t) => \A id \in NewIds(t) : ~Used(id)

TicketsBounded ==
  /\ writes <= MaxWrites
  /\ \A h \in held : h.ticket \in 1..MaxWrites

BInv == TempBase /\ OneBase /\ AnswersNew /\ TicketsBounded

\* A change of a thing takes the base its waiting changes have, if any has.
LEMMA EarliestAgrees ==
  ASSUME IInv, TempBase, OneBase, NEW e, NEW target \in Int, NEW base \in GivenBases(target)
  PROVE  LET given == EarliestBase(e, target, base)
         IN  /\ \A t \in DOMAIN ops :
                  About(ops[t], e, target) /\ ops[t].base # NoBase => given = ops[t].base
             /\ target < 0 => given = NoBase
<1> DEFINE based == {t \in DOMAIN ops : About(ops[t], e, target) /\ ops[t].base # NoBase}
           given == EarliestBase(e, target, base)
<1>1. CASE based = {}
  <2>1. given = base
    BY <1>1 DEF EarliestBase
  <2>2. target < 0 => base = NoBase
    BY DEF GivenBases
  <2> QED BY <1>1, <2>1, <2>2
<1>2. CASE based # {}
  <2> DEFINE first == CHOOSE t \in based : \A u \in based : t <= u
  <2>1. first \in based
    <3>1. based \subseteq Nat
      BY DEF IInv, TypeOK
    <3> HIDE DEF based
    <3>2. \E t \in based : \A u \in based : t <= u
      BY <1>2, <3>1, SmallestTicket
    <3> QED BY <3>2
  <2>2. given = ops[first].base
    BY <1>2 DEF EarliestBase
  <2> HIDE DEF first, given
  <2>3. \A t \in DOMAIN ops :
          About(ops[t], e, target) /\ ops[t].base # NoBase => ops[first].base = ops[t].base
    BY <2>1 DEF OneBase, About
  <2>4. ~(target < 0)
    BY <2>1 DEF TempBase, About
  <2> QED BY <2>2, <2>3, <2>4 DEF given
<1> QED BY <1>1, <1>2

\* A write keeps the bases.
LEMMA WriteBases ==
  ASSUME TempBase, OneBase, NEW n, NEW e, NEW target \in Int, NEW given,
         AddsOne(ops, ops', n, e, target, given),
         \A t \in DOMAIN ops :
           About(ops[t], e, target) /\ ops[t].base # NoBase /\ given # NoBase
             => given = ops[t].base,
         target < 0 => given = NoBase
  PROVE  TempBase' /\ OneBase'
<1>1. TempBase'
  BY DEF TempBase, AddsOne, SameThing
<1>2. OneBase'
  <2> SUFFICES ASSUME NEW t \in DOMAIN ops', NEW u \in DOMAIN ops',
                      ops'[t].entity = ops'[u].entity, ops'[t].target = ops'[u].target,
                      ops'[t].base # NoBase, ops'[u].base # NoBase
               PROVE  ops'[t].base = ops'[u].base
    BY DEF OneBase
  <2> DEFINE Old(i) == i \in DOMAIN ops /\ SameThing(ops, ops', i)
             New(i) == /\ ops'[i].entity = e /\ ops'[i].target = target
                       /\ ops'[i].base = given
  <2>1. (Old(t) \/ New(t)) /\ (Old(u) \/ New(u))
    BY DEF AddsOne
  <2>2. CASE Old(t) /\ Old(u)
    BY <2>2 DEF OneBase, SameThing
  <2>3. CASE New(t) /\ New(u)
    BY <2>3
  <2>4. CASE Old(t) /\ New(u)
    BY <2>4 DEF SameThing, About
  <2>5. CASE New(t) /\ Old(u)
    BY <2>5 DEF SameThing, About
  <2> QED BY <2>1, <2>2, <2>3, <2>4, <2>5
<1> QED BY <1>1, <1>2

\* Steps that change no op but in what it carries keep the bases.
LEMMA SameBases ==
  ASSUME TempBase, OneBase, \A i \in DOMAIN ops' : i \in DOMAIN ops /\ SameThing(ops, ops', i)
  PROVE  TempBase' /\ OneBase'
BY DEF TempBase, OneBase, SameThing

\* Steps after which no more ids are used, and no more answers awaited.
LEMMA StillNew ==
  ASSUME AnswersNew,
         \A t \in 1..MaxWrites : Unanswered(t)' => Unanswered(t),
         \A t \in 1..MaxWrites : \A id \in NewIds(t) : Unanswered(t)' /\ Used(id)' => Used(id)
  PROVE  AnswersNew'
BY DEF AnswersNew

LEMMA ResolvedUsed ==
  ASSUME NEW p \in shown
  PROVE  Used(Target(p[1], p[2]))
BY DEF Target, ResolveEvent, Resolve, Used

\* A write uses no id but the one it resolved, or a temporary one.
LEMMA WriteNew ==
  ASSUME IInv, BInv, NEW e, NEW target \in Int, NEW given,
         AddsOne(ops, ops', writes + 1, e, target, given),
         CountWrite, Used(target) \/ target < 0,
         UNCHANGED <<remap, eventRemap, held>>,
         \A p \in shown' : p \in shown \/ p[2] = target
  PROVE  AnswersNew' /\ TicketsBounded'
<1>1. writes \in Nat /\ writes' = writes + 1 /\ writes < MaxWrites /\ MaxWrites \in Nat
  BY OutboxAssumption DEF CountWrite, IInv, TypeOK
<1>2. ASSUME NEW t \in 1..MaxWrites, Unanswered(t)' PROVE Unanswered(t)
  BY <1>1, <1>2 DEF Unanswered, AddsOne
<1>3. ASSUME NEW t \in 1..MaxWrites, NEW id \in NewIds(t), Used(id)'
      PROVE  Used(id)
  <2>1. id \in Nat \ {0}
    BY <1>1, NewIdsPositive
  <2>2. Used(id) \/ id = target
    BY <1>3 DEF Used, AddsOne, SameThing
  <2> QED BY <2>1, <2>2
<1>4. AnswersNew'
  BY <1>2, <1>3, StillNew DEF BInv
<1>5. TicketsBounded'
  BY <1>1 DEF TicketsBounded, BInv
<1> QED BY <1>4, <1>5

LEMMA WritesKeepBases ==
  ASSUME IInv, BInv, NEW p \in shown, NEW base \in GivenBases(Target(p[1], p[2])),
         \/ \E body \in Bodies(p[1]) : Update(p[1], p[2], body, base)
         \/ \E body \in Noted(p[1], p[2]) : Delete(p[1], p[2], body, base)
  PROVE  BInv'
<1> DEFINE e == p[1]
           target == Target(p[1], p[2])
           given == EarliestBase(p[1], Target(p[1], p[2]), base)
<1>1. AddsOne(ops, ops', writes + 1, e, target, given)
  BY UpdateAdds, DeleteAdds
<1>2. CountWrite /\ UNCHANGED <<remap, eventRemap, held>> /\ shown' \subseteq shown
  BY DEF Update, Delete
<1>3. target \in Int /\ Used(target)
  BY IdsResolve, ResolvedUsed DEF IInv, TypeOK, ShownHandedOut, Target
<1>4. /\ \A t \in DOMAIN ops :
           About(ops[t], e, target) /\ ops[t].base # NoBase => given = ops[t].base
      /\ target < 0 => given = NoBase
  BY <1>3, EarliestAgrees DEF BInv
<1> HIDE DEF e, target, given
<1>5. TempBase' /\ OneBase'
  BY <1>1, <1>3, <1>4, WriteBases DEF BInv
<1>6. AnswersNew' /\ TicketsBounded'
  BY <1>1, <1>2, <1>3, WriteNew
<1> QED BY <1>5, <1>6 DEF BInv

LEMMA CreateKeepsBases ==
  ASSUME IInv, BInv, NEW e \in AllEntities, NEW body \in Bodies(e), Create(e, body)
  PROVE  BInv'
<1>1. AddsOne(ops, ops', writes + 1, e, nextTempId, NoBase)
  BY CreateAdds
<1>2. nextTempId \in Int /\ nextTempId < 0
  BY IdsResolve
<1>3. /\ CountWrite /\ UNCHANGED <<remap, eventRemap, held>>
      /\ shown' = shown \cup {<<e, nextTempId>>}
  BY DEF Create
<1>4. TempBase' /\ OneBase'
  BY <1>1, <1>2, WriteBases DEF BInv
<1>5. \A p \in shown' : p \in shown \/ p[2] = nextTempId
  BY <1>3
<1>6. AnswersNew' /\ TicketsBounded'
  BY <1>1, <1>2, <1>3, <1>5, WriteNew
<1> QED BY <1>4, <1>6 DEF BInv

\* Steps of the engine, the user's sheet and the app that use no new id.
LEMMA OthersKeepBases ==
  ASSUME IInv, BInv,
         \A i \in DOMAIN ops' : i \in DOMAIN ops /\ SameThing(ops, ops', i),
         writes' = writes,
         \A h \in held' : \/ h \in held
                          \/ h.ticket \in DOMAIN ops /\ h.op = ops[h.ticket],
         \A p \in shown' : p \in shown \/ \E i \in DOMAIN ops : p[2] = ops[i].target,
         remap' = remap \/ DOMAIN remap' = {},
         eventRemap' = eventRemap \/ DOMAIN eventRemap' = {}
  PROVE  BInv'
<1>1. TempBase' /\ OneBase'
  BY SameBases DEF BInv
<1>2. ASSUME NEW t \in 1..MaxWrites, Unanswered(t)' PROVE Unanswered(t)
  BY <1>2 DEF Unanswered
<1>3. ASSUME NEW id, Used(id)' PROVE Used(id)
  BY <1>3 DEF Used, SameThing
<1>4. AnswersNew'
  BY <1>2, <1>3, StillNew DEF BInv
<1>5. TicketsBounded'
  <2>1. DOMAIN ops \subseteq 1..writes /\ writes \in Nat /\ MaxWrites \in Nat
    BY OutboxAssumption DEF IInv, Queue, TypeOK
  <2> QED BY <2>1 DEF BInv, TicketsBounded
<1> QED BY <1>1, <1>4, <1>5 DEF BInv

\* An answer is an id nothing uses, but for a creation the server already
\* had; the ops it is given to have no base, or are the only ones about it.
LEMMA CompleteKeepsBases ==
  ASSUME IInv, NInv, BInv, NEW h \in held, NEW id \in AnswerIds(h), NEW givenUp,
         Complete(h, id, givenUp)
  PROVE  BInv'
<1>1. /\ h.op \in Op /\ h.op.target \in Int /\ id \in Nat
      /\ h.ticket \in 1..MaxWrites /\ writes \in Nat /\ MaxWrites \in Nat
  BY AnswersPositive, OutboxAssumption DEF Op, BInv, TicketsBounded, IInv, TypeOK
<1> DEFINE left == Without(ops, {h.ticket})
           g == [t \in DOMAIN left |-> Rewritten(left[t], h.op.target, id, h.op.entity)]
<1>2. /\ DOMAIN left = DOMAIN ops \ {h.ticket}
      /\ \A t \in DOMAIN left : left[t] = ops[t] /\ left[t] \in Op
      /\ ops' = IF Rewrites(h, id) THEN g ELSE left
      /\ Remember(h, id) /\ held' = {} /\ writes' = writes
      /\ shown' = ShownAfter(h, id)
                    \cup (IF givenUp THEN {<<h.op.entity, h.op.target>>} ELSE {})
  BY DEF Without, IInv, TypeOK, Complete
<1> HIDE DEF left
<1>3. \A t \in DOMAIN left :
        /\ g[t].entity = left[t].entity /\ g[t].base = left[t].base
        /\ g[t].target = IF left[t].target = h.op.target
                            /\ (h.op.target < 0 \/ left[t].entity = h.op.entity)
                         THEN id ELSE left[t].target
  BY <1>1, <1>2, RewrittenFields
<1>4. DOMAIN ops' = DOMAIN left
  BY <1>2
<1>5. \A t \in DOMAIN ops' :
        /\ t \in DOMAIN ops
        /\ ops'[t].entity = ops[t].entity /\ ops'[t].base = ops[t].base
        /\ \/ ops'[t].target = ops[t].target
           \/ /\ Rewrites(h, id) /\ ops'[t].target = id /\ ops[t].target = h.op.target
              /\ h.op.target < 0 \/ ops[t].entity = h.op.entity
        /\ (Rewrites(h, id) /\ h.op.target >= 0 /\ ops[t].target = h.op.target
              /\ ops[t].entity = h.op.entity) => ops'[t].target = id
  BY <1>1, <1>2, <1>3, <1>4
<1> HIDE DEF g
<1>6. h.op.target >= 0 /\ id # NoId => id \in NewIds(h.ticket)
  <2>1. h.op.target >= 0 => h.op.kind # "create"
    BY <1>1 DEF NInv, HeldAlone, IsCreation
  <2> QED BY <2>1 DEF AnswerIds
<1>7. id # NoId => id \in NewIds(h.ticket) \cup UNION {Known[e] : e \in AllEntities}
  BY <1>1 DEF AnswerIds, Op
<1>8. TempBase'
  BY <1>1, <1>5 DEF BInv, TempBase
<1>9. OneBase'
  <2> SUFFICES ASSUME NEW t \in DOMAIN ops', NEW u \in DOMAIN ops',
                      ops'[t].entity = ops'[u].entity, ops'[t].target = ops'[u].target,
                      ops'[t].base # NoBase, ops'[u].base # NoBase
               PROVE  ops'[t].base = ops'[u].base
    BY DEF OneBase
  <2>1. /\ ops[t].base = ops'[t].base /\ ops[u].base = ops'[u].base
        /\ ops[t].entity = ops[u].entity
        /\ t \in DOMAIN ops /\ u \in DOMAIN ops
    BY <1>5
  <2>2. CASE ops[t].target = ops[u].target
    BY <2>1, <2>2 DEF BInv, OneBase
  <2>3. CASE ops[t].target # ops[u].target
    <3>1. PICK x \in {t, u}, y \in {t, u} :
            /\ x # y /\ Rewrites(h, id)
            /\ ops'[x].target = id /\ ops[x].target = h.op.target
            /\ ops'[y].target = ops[y].target
      BY <1>5, <2>3
    <3>2. ~(h.op.target < 0)
      BY <2>1, <3>1 DEF BInv, TempBase
    <3>3. id \in NewIds(h.ticket)
      BY <1>1, <1>6, <3>1, <3>2 DEF Rewrites
    <3>4. ops[y].target = id
      BY <3>1
    <3>5. Used(id) /\ Unanswered(h.ticket)
      BY <2>1, <3>4 DEF Used, Unanswered
    <3> QED BY <1>1, <3>3, <3>5 DEF BInv, AnswersNew
  <2> QED BY <2>2, <2>3
<1>10. ASSUME NEW t \in 1..MaxWrites, Unanswered(t)' PROVE Unanswered(t) /\ t # h.ticket
  <2>1. h.ticket <= writes
    BY DEF NInv, SentInv
  <2> QED BY <1>1, <1>2, <1>4, <1>10, <2>1 DEF Unanswered
<1>11. ASSUME NEW t \in 1..MaxWrites, NEW x \in NewIds(t), Unanswered(t)', Used(x)'
       PROVE  Used(x)
  <2>1. x \in Nat \ {0} /\ t # h.ticket
    BY <1>1, <1>10, <1>11, NewIdsPositive
  <2>2. x # id
    BY <1>1, <1>7, <2>1, ServerAssumption DEF NoId
  <2>3. Used(x) \/ x = id
    <3>1. CASE \E i \in DOMAIN ops' : ops'[i].target = x
      BY <1>5, <3>1 DEF Used
    <3>2. CASE \E p \in shown' : p[2] = x
      BY <1>2, <3>2 DEF Used, ShownAfter
    <3>3. CASE \E i \in DOMAIN remap' : remap'[i] = x
      BY <1>2, <3>3 DEF Used, Remember, Extended
    <3>4. CASE \E i \in DOMAIN eventRemap' : eventRemap'[i] = x
      BY <1>2, <3>4 DEF Used, Remember
    <3> QED BY <1>2, <1>11, <3>1, <3>2, <3>3, <3>4 DEF Used
  <2> QED BY <2>2, <2>3
<1>12. AnswersNew'
  BY <1>10, <1>11, StillNew DEF BInv
<1>13. TicketsBounded'
  BY <1>2 DEF BInv, TicketsBounded
<1> QED BY <1>8, <1>9, <1>12, <1>13 DEF BInv

LEMMA StepBInv ==
  ASSUME ~StorageFails, IInv, NInv, BInv, [Next]_vars
  PROVE  BInv'
<1>1. CASE UserStep
  <2>1. ASSUME NEW t \in DOMAIN ops, Discard(t) PROVE BInv'
    <3>1. PICK S \in SUBSET DOMAIN ops :
            /\ ops' = Without(ops, S)
            /\ shown' = shown \cup {<<ops[i].entity, ops[i].target>> :
                                      i \in {j \in S : ops[j].kind = "delete"}}
      BY <2>1 DEF Discard
    <3>2. \A i \in DOMAIN ops' : i \in DOMAIN ops /\ SameThing(ops, ops', i)
      BY <3>1 DEF Without, SameThing
    <3>3. \A p \in shown' : p \in shown \/ \E i \in DOMAIN ops : p[2] = ops[i].target
      BY <3>1
    <3>4. UNCHANGED <<writes, remap, eventRemap, held>>
      BY <2>1 DEF Discard
    <3> QED BY <3>2, <3>3, <3>4, OthersKeepBases
  <2>2. ASSUME RetryParked PROVE BInv'
    <3>1. DOMAIN ops' = DOMAIN ops /\ \A i \in DOMAIN ops : SameThing(ops, ops', i)
      BY <2>2 DEF RetryParked, IInv, TypeOK, Op, SameThing
    <3>2. UNCHANGED <<writes, remap, eventRemap, held, shown>>
      BY <2>2 DEF RetryParked
    <3> QED BY <3>1, <3>2, OthersKeepBases
  <2> QED BY <1>1, <2>1, <2>2, CreateKeepsBases, WritesKeepBases, OutboxAssumption DEF UserStep
<1>2. CASE EngineStep
  <2>1. CASE Take
    <3>1. PICK t \in DOMAIN ops : held' = {[ticket |-> t, op |-> ops[t]]}
      BY <2>1 DEF Take
    <3>2. /\ UNCHANGED <<writes, remap, eventRemap, shown>>
          /\ \A i \in DOMAIN ops' : i \in DOMAIN ops /\ SameThing(ops, ops', i)
      BY <2>1 DEF Take, SameThing
    <3> QED BY <3>1, <3>2, OthersKeepBases
  <2>2. CASE Abort
    BY <2>2, OthersKeepBases DEF Abort, SameThing
  <2>3. ASSUME NEW t, NEW reason \in ParkReasons, Park(ops, t, reason, ops'),
               UNCHANGED <<writes, remap, eventRemap, shown>>, held' = {}
        PROVE  BInv'
    <3>1. OpsType(ops) /\ InOrder(ops) /\ NamedOnce(ops) /\ EditsWait(ops)
      BY DEF NInv, Named, IInv, Queue
    <3>2. DOMAIN ops' = DOMAIN ops /\ \A i \in DOMAIN ops : SameThing(ops, ops', i)
      BY <2>3, <3>1, ParkKeeps
    <3> QED BY <2>3, <3>2, OthersKeepBases
  <2>4. CASE HoldBack
    <3>1. PICK h \in held, reason \in {"refused", "missingTag", "missingParent"} :
            IF h.ticket \in DOMAIN ops THEN Park(ops, h.ticket, reason, ops') ELSE ops' = ops
      BY <2>4 DEF HoldBack
    <3>2. reason \in ParkReasons
      BY DEF ParkReasons
    <3>3. UNCHANGED <<writes, remap, eventRemap, shown>> /\ held' = {}
      BY <2>4 DEF HoldBack
    <3>4. CASE ops' = ops
      BY <3>3, <3>4, OthersKeepBases DEF SameThing
    <3> QED BY <2>3, <3>1, <3>2, <3>3, <3>4
  <2>5. CASE ParkStale
    <3>1. PICK t \in DOMAIN ops, reason \in {"encryptionChanged", "dataReplaced"} :
            Park(ops, t, reason, ops')
      BY <2>5 DEF ParkStale
    <3>2. reason \in ParkReasons
      BY DEF ParkReasons
    <3>3. UNCHANGED <<writes, remap, eventRemap, shown>> /\ held' = {}
      BY <2>5 DEF ParkStale
    <3> QED BY <2>3, <3>1, <3>2, <3>3
  <2>6. CASE Completes
    BY <2>6, CompleteKeepsBases DEF Completes
  <2> QED BY <1>2, <2>1, <2>2, <2>4, <2>5, <2>6 DEF EngineStep, CompleteUnsaved
<1>3. CASE LifeStep
  <2>1. /\ writes' = writes /\ DOMAIN remap' = {} /\ DOMAIN eventRemap' = {}
        /\ held' = {} \/ held' = held
        /\ \A i \in DOMAIN ops' : i \in DOMAIN ops /\ SameThing(ops, ops', i)
    BY <1>3 DEF LifeStep, Restart, EndSession, SameThing
  <2>2. \E copy \in SavedCopies : shown' = Reread(copy, ops')
    BY <1>3 DEF LifeStep, Restart, EndSession
  <2>3. \A p \in shown' : p \in shown \/ \E i \in DOMAIN ops : p[2] = ops[i].target
    BY <2>1, <2>2 DEF SavedCopies, Reread, Creations, SameThing
  <2> QED BY <2>1, <2>3, OthersKeepBases
<1>4. CASE UNCHANGED vars
  BY <1>4, OthersKeepBases DEF vars, SameThing
<1> QED BY <1>1, <1>2, <1>3, <1>4 DEF Next

LEMMA InitBInv == ASSUME Init PROVE BInv
<1>1. AnswersNew
  <2> SUFFICES ASSUME NEW t \in 1..MaxWrites, NEW id \in NewIds(t), Used(id)
               PROVE  FALSE
    BY DEF AnswersNew
  <2>1. \E p \in shown : p[2] = id
    BY DEF Init, Used
  <2>2. PICK e \in AllEntities : id \in Known[e]
    BY <2>1 DEF Init
  <2> QED BY <2>2, ServerAssumption
<1>2. TempBase /\ OneBase /\ TicketsBounded
  BY OutboxAssumption DEF Init, TempBase, OneBase, TicketsBounded
<1> QED BY <1>1, <1>2 DEF BInv

\* As long as completions are saved and no session ends with a request under
\* way, the waiting changes of one thing are made on one base
\* (outbox.dart:105-107), through folds, parks, retries and restarts, and
\* also when the thing gets its server id, or an event another one because
\* it had to be created again.
THEOREM ChangesShareBase == ~StorageFails /\ ~LateReplies => (Spec => []OneBase)
<1> SUFFICES ASSUME ~StorageFails, ~LateReplies PROVE Spec => []OneBase
  OBVIOUS
<1>1. Init => BInv
  BY InitBInv
<1>2. IInv /\ NInv /\ BInv /\ [Next]_vars => BInv'
  BY StepBInv
<1>3. BInv => OneBase
  BY DEF BInv
<1> QED BY <1>1, <1>2, <1>3, NInvHolds, PTL DEF Spec
=============================================================================
