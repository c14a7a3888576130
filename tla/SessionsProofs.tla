--------------------------- MODULE SessionsProofs ---------------------------
(***************************************************************************)
(* Theorems about the sessions, for every number of devices, requests,     *)
(* pairs and faults.                                                       *)
(***************************************************************************)
EXTENDS Sessions, FiniteSetTheorems, TLAPS

-----------------------------------------------------------------------------
(* The inductive invariant.  TypeOK needs to know what a request has with  *)
(* it at each of its steps (ReqOK).  That the halves of a pair die together*)
(* is not inductive: a sign-out of all deletes what it read two commands   *)
(* earlier, so the index has to hold both halves of each live pair, and    *)
(* what it read has to hold both halves of those still live (SlotOK).      *)
(* That a token lives once rests on who may touch it: a claimed token is   *)
(* neither live nor pending, and one request has it (Apart).               *)

Exchanging == {"look", "claim", "replay", "create", "carry", "write"} \cup Exchange

ReqOK(q) ==
  /\ q.op \in {"refresh", "logout"} => q.tok \in Pairs
  /\ q.pc \in {"look", "claim", "replay", "unlink", "record", "carry"} => q.op = "refresh"
  /\ q.op = "refresh" => q.pc \in Exchanging
  /\ q.pc \in {"del", "drop", "settle"} => q.mate \in Pairs
  /\ q.pc \in {"create", "carry", "write"} => q.new \in Pairs
  /\ q.pc \in {"write", "exists"} => q.id \in Pairs

Requests == h \in [Slots -> ReqType] /\ \A s \in Slots : ReqOK(h[s])

SlotOK(q) ==
  /\ Claiming(q) => q.tok \in issued \ rt /\ rot[q.tok] = None
  /\ q.pc = "create" => q.new \notin issued /\ q.new < next
  /\ q.pc \in {"devices", "wipe"} => q.refs \subseteq issued /\ at \cap q.refs \subseteq q.accs

Store ==
  /\ at \subseteq rt /\ rt \subseteq issued /\ refIdx \subseteq issued
  /\ at \cap refIdx \subseteq accIdx
  /\ \A p \in issued : p < next
  /\ \A p \in Pairs : rot[p] # None => p \in issued \ rt

Apart ==
  \A r, s \in Slots : r # s =>
    /\ Claiming(h[r]) /\ Claiming(h[s]) => h[r].tok # h[s].tok
    /\ h[r].pc = "create" /\ h[s].pc = "create" => h[r].new # h[s].new

IInv == TypeOK /\ Requests /\ Store /\ (\A s \in Slots : SlotOK(h[s])) /\ Apart

-----------------------------------------------------------------------------
(* A request takes a step that leaves the tokens alone.                    *)

\* The request at r goes on as q, with nothing it had not claimed before.
Turn(r, q) ==
  /\ q \in ReqType /\ ReqOK(q) /\ SlotOK(q)
  /\ h' = [h EXCEPT ![r] = q]
  /\ Claiming(q) => Claiming(h[r]) /\ q.tok = h[r].tok
  /\ q.pc = "create" => h[r].pc = "create" /\ q.new = h[r].new

TokensKept == UNCHANGED <<at, rt, rot, accIdx, refIdx, issued, next>>

\* A request that keeps what it claimed.
Lasting(r) == Claiming(h[r]) => Claiming(h'[r])

Quiet(r) == TypeOK' /\ TokensKept /\ (\E q \in ReqType : Turn(r, q)) /\ Lasting(r)

LEMMA PairsAreNumbers == Pairs \subseteq 0..MaxPairs /\ None \in 0..MaxPairs
BY SessionsAssumption DEF Pairs, None

LEMMA IdleFits ==
  IdleReq \in ReqType /\ ReqOK(IdleReq) /\ ~Claiming(IdleReq) /\ SlotOK(IdleReq)
  /\ IdleReq.pc = "idle"
BY PairsAreNumbers, SessionsAssumption
   DEF IdleReq, ReqType, ReqOK, None, AllOps, Claiming, Exchanging, Exchange, SlotOK

LEMMA Replaced ==
  ASSUME NEW r \in Slots, NEW q \in ReqType, ReqOK(q), Requests, h' = [h EXCEPT ![r] = q]
  PROVE  Requests'
BY DEF Requests

LEMMA TurnKeeps ==
  ASSUME IInv, NEW r \in Slots, TypeOK', TokensKept, NEW q \in ReqType, Turn(r, q)
  PROVE  IInv'
<1>1. Requests' BY Replaced DEF Turn, IInv
<1>2. Store' BY DEF IInv, Store, TokensKept
<1>3. \A s \in Slots : h'[s] = IF s = r THEN q ELSE h[s]
  BY DEF Turn, IInv, Requests
<1>4. \A s \in Slots : SlotOK(h[s])'
  BY <1>3 DEF IInv, Turn, SlotOK, TokensKept, Claiming
<1>5. Apart'
  BY <1>3 DEF IInv, Turn, Apart, Claiming
<1> QED BY <1>1, <1>2, <1>4, <1>5 DEF IInv

\* The answer frees the slot and may change what the device holds.
LEMMA AnswerTurns ==
  ASSUME IInv, NEW r \in Slots, NEW got \in 0..MaxPairs, Answer(r, got)
  PROVE  /\ Turn(r, IdleReq) /\ IdleReq \in ReqType /\ Requests'
         /\ hold' \in [Clients -> 0..MaxPairs]
<1>1. Turn(r, IdleReq) BY IdleFits DEF Answer, Turn
<1>2. Requests' BY <1>1, IdleFits, Replaced DEF Turn, IInv
<1>3. hold' \in [Clients -> 0..MaxPairs] BY DEF Answer, IInv, TypeOK
<1> QED BY <1>1, <1>2, <1>3, IdleFits

LEMMA RefusedTurns ==
  ASSUME IInv, NEW r \in Slots, Refused(r)
  PROVE  Turn(r, IdleReq) /\ IdleReq \in ReqType /\ Requests' /\ hold' = hold
<1>1. Turn(r, IdleReq) BY IdleFits DEF Answer, Refused, Turn
<1>2. Requests' BY <1>1, IdleFits, Replaced DEF Turn, IInv
<1>3. hold' = hold BY DEF Answer, Refused, IInv, TypeOK
<1> QED BY <1>1, <1>2, <1>3, IdleFits

\* The slot of the request, before its step.
LEMMA SlotOf ==
  ASSUME IInv, NEW r \in Slots
  PROVE  h[r] \in ReqType /\ ReqOK(h[r]) /\ SlotOK(h[r]) /\ TypeOK /\ Requests
BY DEF IInv, Requests

-----------------------------------------------------------------------------
(* The actions that leave the tokens alone.                                *)

LEMMA LinkTypes ==
  ASSUME TypeOK, NEW p \in Pairs
  PROVE  /\ rot[p] \in 0..MaxPairs /\ prev[p] \in 0..MaxPairs /\ sid[p] \in 0..MaxPairs
         /\ dev[p] \in 0..MaxPairs /\ line[p] \in 0..MaxPairs
BY DEF TypeOK, Links

\* A step that leaves the tokens alone, and the claim of the request with it.
LEMMA Quietly ==
  ASSUME IInv, NEW r \in Slots, NEW q \in ReqType, ReqOK(q), SlotOK(q),
         h' = [h EXCEPT ![r] = q],
         q.pc = "create" => h[r].pc = "create" /\ q.new = h[r].new,
         Claiming(q) <=> Claiming(h[r]), Claiming(q) => q.tok = h[r].tok,
         Requests' => TypeOK', TokensKept
  PROVE  Quiet(r)
<1>1. Requests' BY Replaced DEF IInv
<1>2. Turn(r, q) BY DEF Turn
<1>3. h'[r] = q BY DEF IInv, Requests
<1>4. Lasting(r) BY <1>3 DEF Lasting
<1> QED BY <1>1, <1>2, <1>4 DEF Quiet

LEMMA LookQuiet ==
  ASSUME IInv, NEW r \in Slots, Look(r)
  PROVE  Quiet(r)
<1> DEFINE q == [h[r] EXCEPT !.pc = IF h[r].tok \in rt THEN "claim" ELSE "replay"]
<1>0. /\ h[r] \in ReqType /\ ReqOK(h[r]) /\ SlotOK(h[r]) /\ TypeOK /\ Requests
      /\ h[r].pc = "look"
  BY SlotOf DEF Look
<1>1. h' = [h EXCEPT ![r] = q] BY DEF Look, Goto
<1>2. q \in ReqType BY <1>0, PairsAreNumbers DEF Look, ReqType, ReqOK, TypeOK
<1>3. /\ ReqOK(q) /\ SlotOK(q) /\ q.pc # "create"
      /\ (Claiming(q) <=> Claiming(h[r])) /\ (Claiming(q) => q.tok = h[r].tok)
  BY <1>0 DEF Look, ReqType, ReqOK, SlotOK, Claiming, Exchanging, Exchange
<1>4. Requests' => TypeOK'
  BY <1>0, PairsAreNumbers DEF Look, TypeOK, Requests, Links, Goto, redis, notes
<1>5. TokensKept BY DEF Look, TokensKept, redis, notes
<1> QED BY <1>1, <1>2, <1>3, <1>4, <1>5, Quietly

LEMMA UnlinkQuiet ==
  ASSUME IInv, NEW r \in Slots, Unlink(r)
  PROVE  Quiet(r)
<1> DEFINE q == [h[r] EXCEPT !.pc = "get"]
<1>0. /\ h[r] \in ReqType /\ ReqOK(h[r]) /\ SlotOK(h[r]) /\ TypeOK /\ Requests
      /\ h[r].pc = "unlink"
  BY SlotOf DEF Unlink
<1>1. h' = [h EXCEPT ![r] = q] BY DEF Unlink, Goto
<1>2. q \in ReqType BY <1>0, PairsAreNumbers DEF Unlink, ReqType, ReqOK, TypeOK
<1>3. /\ ReqOK(q) /\ SlotOK(q) /\ q.pc # "create"
      /\ (Claiming(q) <=> Claiming(h[r])) /\ (Claiming(q) => q.tok = h[r].tok)
  BY <1>0 DEF Unlink, ReqType, ReqOK, SlotOK, Claiming, Exchanging, Exchange
<1>4. Requests' => TypeOK'
  BY <1>0, PairsAreNumbers DEF Unlink, TypeOK, Requests, Links, Goto, notes
<1>5. TokensKept BY DEF Unlink, TokensKept, notes
<1> QED BY <1>1, <1>2, <1>3, <1>4, <1>5, Quietly

LEMMA CarrySessionQuiet ==
  ASSUME IInv, NEW r \in Slots, CarrySession(r)
  PROVE  Quiet(r)
<1> DEFINE q == [h[r] EXCEPT !.pc = "write",
                             !.id = IF sid[h[r].tok] = None THEN h[r].new ELSE sid[h[r].tok]]
<1>0. /\ h[r] \in ReqType /\ ReqOK(h[r]) /\ SlotOK(h[r]) /\ TypeOK /\ Requests
      /\ h[r].pc = "carry"
  BY SlotOf DEF CarrySession
<1>1. h' = [h EXCEPT ![r] = q] BY DEF CarrySession
<1>a. sid[h[r].tok] \in 0..MaxPairs BY <1>0, LinkTypes DEF ReqOK
<1>2. q \in ReqType BY <1>0, PairsAreNumbers, <1>a DEF CarrySession, ReqType, ReqOK, TypeOK
<1>3. /\ ReqOK(q) /\ SlotOK(q) /\ q.pc # "create"
      /\ (Claiming(q) <=> Claiming(h[r])) /\ (Claiming(q) => q.tok = h[r].tok)
  BY <1>0 DEF CarrySession, ReqType, ReqOK, SlotOK, Claiming, Exchanging, Exchange,
               TypeOK, Links, Pairs, None
<1>4. Requests' => TypeOK'
  BY <1>0, PairsAreNumbers DEF CarrySession, TypeOK, Requests, Links, redis, notes
<1>5. TokensKept BY DEF CarrySession, TokensKept, redis, notes
<1> QED BY <1>1, <1>2, <1>3, <1>4, <1>5, Quietly

LEMMA GetPairQuiet ==
  ASSUME IInv, NEW r \in Slots, GetPair(r)
  PROVE  Quiet(r)
<1> DEFINE q == [h[r] EXCEPT !.pc = IF h[r].mate \in (IF h[r].op = "logout" THEN at ELSE rt)
                                    THEN "del" ELSE AfterRevoke(h[r])]
<1>0. /\ h[r] \in ReqType /\ ReqOK(h[r]) /\ SlotOK(h[r]) /\ TypeOK /\ Requests
      /\ h[r].pc = "get"
  BY SlotOf DEF GetPair
<1>1. h' = [h EXCEPT ![r] = q] BY DEF GetPair, Goto
<1>2. q \in ReqType BY <1>0, PairsAreNumbers DEF GetPair, ReqType, ReqOK, TypeOK, AfterRevoke
<1>3. /\ ReqOK(q) /\ SlotOK(q) /\ q.pc # "create"
      /\ (Claiming(q) <=> Claiming(h[r])) /\ (Claiming(q) => q.tok = h[r].tok)
  BY <1>0 DEF GetPair, ReqType, ReqOK, SlotOK, Claiming, Exchanging, Exchange, AfterRevoke, TypeOK
<1>4. Requests' => TypeOK'
  BY <1>0, PairsAreNumbers DEF GetPair, TypeOK, Requests, Links, Goto, redis, notes
<1>5. TokensKept BY DEF GetPair, TokensKept, redis, notes
<1> QED BY <1>1, <1>2, <1>3, <1>4, <1>5, Quietly

LEMMA DropLinkQuiet ==
  ASSUME IInv, NEW r \in Slots, DropLink(r)
  PROVE  Quiet(r)
<1> DEFINE q == [h[r] EXCEPT !.pc = IF prev[h[r].mate] = None THEN AfterRevoke(h[r])
                                    ELSE "settle",
                             !.old = prev[h[r].mate]]
<1>0. /\ h[r] \in ReqType /\ ReqOK(h[r]) /\ SlotOK(h[r]) /\ TypeOK /\ Requests
      /\ h[r].pc = "drop"
  BY SlotOf DEF DropLink
<1>1. h' = [h EXCEPT ![r] = q] BY DEF DropLink
<1>a. prev[h[r].mate] \in 0..MaxPairs BY <1>0, LinkTypes DEF ReqOK
<1>2. q \in ReqType BY <1>0, PairsAreNumbers, <1>a DEF DropLink, ReqType, ReqOK, TypeOK, AfterRevoke
<1>3. /\ ReqOK(q) /\ SlotOK(q) /\ q.pc # "create"
      /\ (Claiming(q) <=> Claiming(h[r])) /\ (Claiming(q) => q.tok = h[r].tok)
  BY <1>0 DEF DropLink, ReqType, ReqOK, SlotOK, Claiming, Exchanging, Exchange, AfterRevoke
<1>4. Requests' => TypeOK'
  BY <1>0, PairsAreNumbers DEF DropLink, TypeOK, Requests, Links, notes
<1>5. TokensKept BY DEF DropLink, TokensKept, notes
<1> QED BY <1>1, <1>2, <1>3, <1>4, <1>5, Quietly

LEMMA IdsQuiet ==
  ASSUME IInv, NEW r \in Slots, Ids(r)
  PROVE  Quiet(r)
<1> DEFINE q == [h[r] EXCEPT !.pc = "visit", !.ids = devs]
<1>0. /\ h[r] \in ReqType /\ ReqOK(h[r]) /\ SlotOK(h[r]) /\ TypeOK /\ Requests
      /\ h[r].pc = "ids"
  BY SlotOf DEF Ids
<1>1. h' = [h EXCEPT ![r] = q] BY DEF Ids
<1>2. q \in ReqType BY <1>0, PairsAreNumbers DEF Ids, ReqType, ReqOK, TypeOK
<1>3. /\ ReqOK(q) /\ SlotOK(q) /\ q.pc # "create"
      /\ (Claiming(q) <=> Claiming(h[r])) /\ (Claiming(q) => q.tok = h[r].tok)
  BY <1>0 DEF Ids, ReqType, ReqOK, SlotOK, Claiming, Exchanging, Exchange
<1>4. Requests' => TypeOK'
  BY <1>0, PairsAreNumbers DEF Ids, TypeOK, Requests, Links, redis, notes
<1>5. TokensKept BY DEF Ids, TokensKept, redis, notes
<1> QED BY <1>1, <1>2, <1>3, <1>4, <1>5, Quietly

LEMMA CurrentQuiet ==
  ASSUME IInv, NEW r \in Slots, Current(r)
  PROVE  Quiet(r)
<1> DEFINE cur == IF h[r].tok \in at THEN sid[h[r].tok] ELSE None
           q == [h[r] EXCEPT !.pc = "pick", !.cur = cur, !.kept = @ \ {cur}]
<1>0. /\ h[r] \in ReqType /\ ReqOK(h[r]) /\ SlotOK(h[r]) /\ TypeOK /\ Requests
      /\ h[r].pc = "current"
  BY SlotOf DEF Current
<1>1. h' = [h EXCEPT ![r] = q] BY DEF Current
<1>a. (IF h[r].tok \in at THEN sid[h[r].tok] ELSE None) \in 0..MaxPairs
  BY <1>0, LinkTypes, PairsAreNumbers DEF TypeOK
<1>2. q \in ReqType BY <1>0, PairsAreNumbers, <1>a DEF Current, ReqType, ReqOK, TypeOK
<1>3. /\ ReqOK(q) /\ SlotOK(q) /\ q.pc # "create"
      /\ (Claiming(q) <=> Claiming(h[r])) /\ (Claiming(q) => q.tok = h[r].tok)
  BY <1>0 DEF Current, ReqType, ReqOK, SlotOK, Claiming, Exchanging, Exchange
<1>4. Requests' => TypeOK'
  BY <1>0, PairsAreNumbers DEF Current, TypeOK, Requests, Links, redis, notes
<1>5. TokensKept BY DEF Current, TokensKept, redis, notes
<1> QED BY <1>1, <1>2, <1>3, <1>4, <1>5, Quietly

LEMMA WhoQuiet ==
  ASSUME IInv, NEW r \in Slots, Who(r)
  PROVE  Quiet(r)
<1> DEFINE q == [h[r] EXCEPT !.pc = "val", !.mate = h[r].tok,
                             !.id = IF h[r].tok \in at THEN sid[h[r].tok] ELSE None]
<1>0. /\ h[r] \in ReqType /\ ReqOK(h[r]) /\ SlotOK(h[r]) /\ TypeOK /\ Requests
      /\ h[r].pc = "who"
  BY SlotOf DEF Who
<1>1. h' = [h EXCEPT ![r] = q] BY DEF Who
<1>a. (IF h[r].tok \in at THEN sid[h[r].tok] ELSE None) \in 0..MaxPairs
  BY <1>0, LinkTypes, PairsAreNumbers DEF TypeOK
<1>2. q \in ReqType BY <1>0, PairsAreNumbers, <1>a DEF Who, ReqType, ReqOK, TypeOK
<1>3. /\ ReqOK(q) /\ SlotOK(q) /\ q.pc # "create"
      /\ (Claiming(q) <=> Claiming(h[r])) /\ (Claiming(q) => q.tok = h[r].tok)
  BY <1>0 DEF Who, ReqType, ReqOK, SlotOK, Claiming, Exchanging, Exchange
<1>4. Requests' => TypeOK'
  BY <1>0, PairsAreNumbers DEF Who, TypeOK, Requests, Links, redis, notes
<1>5. TokensKept BY DEF Who, TokensKept, redis, notes
<1> QED BY <1>1, <1>2, <1>3, <1>4, <1>5, Quietly

LEMMA MembersQuiet ==
  ASSUME IInv, NEW r \in Slots, Members(r)
  PROVE  Quiet(r)
<1> DEFINE q == [h[r] EXCEPT !.pc = "devices", !.accs = accIdx, !.refs = refIdx]
<1>0. /\ h[r] \in ReqType /\ ReqOK(h[r]) /\ SlotOK(h[r]) /\ TypeOK /\ Requests
      /\ h[r].pc = "members"
  BY SlotOf DEF Members
<1>1. h' = [h EXCEPT ![r] = q] BY DEF Members
<1>2. q \in ReqType BY <1>0, PairsAreNumbers DEF Members, ReqType, ReqOK, TypeOK
<1>3. /\ ReqOK(q) /\ SlotOK(q) /\ q.pc # "create"
      /\ (Claiming(q) <=> Claiming(h[r])) /\ (Claiming(q) => q.tok = h[r].tok)
  BY <1>0 DEF Members, ReqType, ReqOK, SlotOK, Claiming, Exchanging, Exchange, IInv, Store
<1>4. Requests' => TypeOK'
  BY <1>0, PairsAreNumbers DEF Members, TypeOK, Requests, Links, redis, notes
<1>5. TokensKept BY DEF Members, TokensKept, redis, notes
<1> QED BY <1>1, <1>2, <1>3, <1>4, <1>5, Quietly

LEMMA DevicesQuiet ==
  ASSUME IInv, NEW r \in Slots, Devices(r)
  PROVE  Quiet(r)
<1> DEFINE q == [h[r] EXCEPT !.pc = "wipe", !.ids = devs]
<1>0. /\ h[r] \in ReqType /\ ReqOK(h[r]) /\ SlotOK(h[r]) /\ TypeOK /\ Requests
      /\ h[r].pc = "devices"
  BY SlotOf DEF Devices
<1>1. h' = [h EXCEPT ![r] = q] BY DEF Devices
<1>2. q \in ReqType BY <1>0, PairsAreNumbers DEF Devices, ReqType, ReqOK, TypeOK
<1>3. /\ ReqOK(q) /\ SlotOK(q) /\ q.pc # "create"
      /\ (Claiming(q) <=> Claiming(h[r])) /\ (Claiming(q) => q.tok = h[r].tok)
  BY <1>0 DEF Devices, ReqType, ReqOK, SlotOK, Claiming, Exchanging, Exchange
<1>4. Requests' => TypeOK'
  BY <1>0, PairsAreNumbers DEF Devices, TypeOK, Requests, Links, redis, notes
<1>5. TokensKept BY DEF Devices, TokensKept, redis, notes
<1> QED BY <1>1, <1>2, <1>3, <1>4, <1>5, Quietly

LEMMA ForgetQuiet ==
  ASSUME IInv, NEW r \in Slots, Forget(r)
  PROVE  Quiet(r)
<1> DEFINE q == [h[r] EXCEPT !.pc = "visit", !.ids = @ \ {h[r].id}, !.id = None, !.mate = None]
<1>0. /\ h[r] \in ReqType /\ ReqOK(h[r]) /\ SlotOK(h[r]) /\ TypeOK /\ Requests
      /\ h[r].pc = "forget"
  BY SlotOf DEF Forget
<1>1. h' = [h EXCEPT ![r] = q] BY DEF Forget
<1>2. q \in ReqType BY <1>0, PairsAreNumbers DEF Forget, ReqType, ReqOK, TypeOK
<1>3. /\ ReqOK(q) /\ SlotOK(q) /\ q.pc # "create"
      /\ (Claiming(q) <=> Claiming(h[r])) /\ (Claiming(q) => q.tok = h[r].tok)
  BY <1>0 DEF Forget, ReqType, ReqOK, SlotOK, Claiming, Exchanging, Exchange
<1>4. Requests' => TypeOK'
  BY <1>0, PairsAreNumbers DEF Forget, TypeOK, Requests, Links, notes
<1>5. TokensKept BY DEF Forget, TokensKept, notes
<1> QED BY <1>1, <1>2, <1>3, <1>4, <1>5, Quietly

-----------------------------------------------------------------------------
(* Answers, and steps with more than one outcome.                          *)

LEMMA AnswersQuietly ==
  ASSUME IInv, NEW r \in Slots, NEW got \in 0..MaxPairs, Answer(r, got), ~Claiming(h[r]),
         Requests' /\ hold' \in [Clients -> 0..MaxPairs] => TypeOK', TokensKept
  PROVE  Quiet(r)
<1>1. /\ Turn(r, IdleReq) /\ IdleReq \in ReqType /\ Requests'
      /\ hold' \in [Clients -> 0..MaxPairs]
  BY AnswerTurns
<1>2. Lasting(r) BY DEF Lasting
<1> QED BY <1>1, <1>2 DEF Quiet

LEMMA RefusesQuietly ==
  ASSUME IInv, NEW r \in Slots, Refused(r), ~Claiming(h[r]),
         Requests' /\ hold' = hold => TypeOK', TokensKept
  PROVE  Quiet(r)
<1>1. Turn(r, IdleReq) /\ IdleReq \in ReqType /\ Requests' /\ hold' = hold BY RefusedTurns
<1>2. Lasting(r) BY DEF Lasting
<1> QED BY <1>1, <1>2 DEF Quiet

LEMMA WriteSessionQuiet ==
  ASSUME IInv, NEW r \in Slots, WriteSession(r)
  PROVE  Quiet(r)
<1>0. /\ h[r] \in ReqType /\ ReqOK(h[r]) /\ TypeOK /\ h[r].pc = "write"
  BY SlotOf DEF WriteSession
<1>1. h[r].new \in Pairs /\ h[r].id \in Pairs /\ h[r].new \in 0..MaxPairs
  BY <1>0 DEF ReqOK, ReqType
<1>2. ~Claiming(h[r]) BY <1>0 DEF Claiming, Exchange
<1>3. Requests' /\ hold' \in [Clients -> 0..MaxPairs] => TypeOK'
  BY <1>0, <1>1, PairsAreNumbers DEF WriteSession, TypeOK, Requests, Links
<1>4. TokensKept BY DEF WriteSession, TokensKept
<1> QED BY <1>1, <1>2, <1>3, <1>4, AnswersQuietly DEF WriteSession

LEMMA ValQuiet ==
  ASSUME IInv, NEW r \in Slots, Val(r)
  PROVE  Quiet(r)
<1> DEFINE q == [h[r] EXCEPT !.pc = "get"]
<1>0. /\ h[r] \in ReqType /\ ReqOK(h[r]) /\ SlotOK(h[r]) /\ TypeOK /\ Requests
      /\ h[r].pc = "val"
  BY SlotOf DEF Val
<1>1. ~Claiming(h[r]) BY <1>0 DEF Claiming, Exchange
<1>2. TokensKept BY DEF Val, TokensKept, redis, notes
<1>3. CASE h[r].tok \in at
  <2>1. h' = [h EXCEPT ![r] = q] /\ hold' = hold BY <1>3 DEF Val, Goto
  <2>2. q \in ReqType BY <1>0 DEF ReqType
  <2>3. ReqOK(q) /\ SlotOK(q) /\ q.pc # "create" /\ ~Claiming(q)
    BY <1>0 DEF ReqType, ReqOK, SlotOK, Claiming, Exchanging, Exchange
  <2>4. Requests' => TypeOK' BY <1>0, <2>1 DEF Val, TypeOK, Requests, redis, notes
  <2> QED BY <1>1, <1>2, <2>1, <2>2, <2>3, <2>4, Quietly
<1>4. CASE h[r].tok \notin at
  <2>1. Refused(r) BY <1>4 DEF Val
  <2>2. Requests' /\ hold' = hold => TypeOK'
    BY <1>0 DEF Val, TypeOK, Requests, redis, notes
  <2> QED BY <1>1, <1>2, <2>1, <2>2, RefusesQuietly
<1> QED BY <1>3, <1>4

LEMMA VisitQuiet ==
  ASSUME IInv, NEW r \in Slots, Visit(r)
  PROVE  Quiet(r)
<1>0. /\ h[r] \in ReqType /\ ReqOK(h[r]) /\ SlotOK(h[r]) /\ TypeOK /\ Requests
      /\ h[r].pc = "visit"
  BY SlotOf DEF Visit
<1>1. ~Claiming(h[r]) BY <1>0 DEF Claiming, Exchange
<1>2. TokensKept BY DEF Visit, TokensKept, redis, notes
<1>3. CASE Refused(r)
  <2>1. Requests' /\ hold' = hold => TypeOK'
    BY <1>0 DEF Visit, TypeOK, Requests, redis, notes
  <2> QED BY <1>1, <1>2, <1>3, <2>1, RefusesQuietly
<1>4. ASSUME NEW q \in ReqType, h' = [h EXCEPT ![r] = q], hold' = hold,
             ReqOK(q), SlotOK(q), q.pc # "create", ~Claiming(q)
      PROVE  Quiet(r)
  <2>1. Requests' => TypeOK'
    BY <1>0, <1>4 DEF Visit, TypeOK, Requests, redis, notes
  <2> QED BY <1>1, <1>2, <1>4, <2>1, Quietly
<1>5. CASE Goto(r, "current")
  <2> DEFINE q == [h[r] EXCEPT !.pc = "current"]
  <2>1. h' = [h EXCEPT ![r] = q] /\ hold' = hold BY <1>5 DEF Goto
  <2>2. q \in ReqType BY <1>0 DEF ReqType
  <2>3. ReqOK(q) /\ SlotOK(q) /\ q.pc # "create" /\ ~Claiming(q)
    BY <1>0 DEF ReqType, ReqOK, SlotOK, Claiming, Exchanging, Exchange
  <2> QED BY <1>4, <2>1, <2>2, <2>3
<1>6. ASSUME NEW d \in h[r].ids,
             h' = [h EXCEPT ![r].pc = IF dev[d] = None THEN "forget" ELSE "exists",
                            ![r].id = d, ![r].mate = dev[d]],
             hold' = hold
      PROVE  Quiet(r)
  <2> DEFINE q == [h[r] EXCEPT !.pc = IF dev[d] = None THEN "forget" ELSE "exists",
                               !.id = d, !.mate = dev[d]]
  <2>1. h' = [h EXCEPT ![r] = q] BY <1>6
  <2>2. d \in Pairs BY <1>0 DEF ReqType
  <2>3. d \in 0..MaxPairs /\ dev[d] \in 0..MaxPairs BY <1>0, <2>2, LinkTypes, PairsAreNumbers
  <2>4. q \in ReqType BY <1>0, <2>3 DEF ReqType
  <2>5. ReqOK(q) /\ SlotOK(q) /\ q.pc # "create" /\ ~Claiming(q)
    BY <1>0, <2>2 DEF ReqType, ReqOK, SlotOK, Claiming, Exchanging, Exchange
  <2> QED BY <1>4, <1>6, <2>1, <2>4, <2>5
<1> QED BY <1>3, <1>5, <1>6 DEF Visit

LEMMA ExistsQuiet ==
  ASSUME IInv, NEW r \in Slots, Exists(r)
  PROVE  Quiet(r)
<1> DEFINE dead == [h[r] EXCEPT !.pc = "forget"]
           alive == [h[r] EXCEPT !.pc = "visit", !.ids = @ \ {h[r].id},
                                 !.kept = @ \cup {h[r].id}, !.id = None, !.mate = None]
           q == IF Usable(h[r].mate) THEN alive ELSE dead
<1>0. /\ h[r] \in ReqType /\ ReqOK(h[r]) /\ SlotOK(h[r]) /\ TypeOK /\ Requests
      /\ h[r].pc = "exists"
  BY SlotOf DEF Exists
<1>1. h' = [h EXCEPT ![r] = q] /\ hold' = hold BY DEF Exists
<1>a. h[r].id \in Pairs BY <1>0 DEF ReqOK
<1>2. dead \in ReqType /\ alive \in ReqType BY <1>0, <1>a, PairsAreNumbers DEF ReqType
<1>3. /\ ReqOK(q) /\ SlotOK(q) /\ q.pc # "create"
      /\ (Claiming(q) <=> Claiming(h[r])) /\ (Claiming(q) => q.tok = h[r].tok)
  BY <1>0 DEF ReqType, ReqOK, SlotOK, Claiming, Exchanging, Exchange
<1>4. Requests' => TypeOK' BY <1>0 DEF Exists, TypeOK, Requests, redis, notes
<1>5. TokensKept BY DEF Exists, TokensKept, redis, notes
<1> QED BY <1>1, <1>2, <1>3, <1>4, <1>5, Quietly

LEMMA PickQuiet ==
  ASSUME IInv, NEW r \in Slots, Pick(r)
  PROVE  Quiet(r)
<1>0. /\ h[r] \in ReqType /\ ReqOK(h[r]) /\ SlotOK(h[r]) /\ TypeOK /\ Requests
      /\ h[r].pc = "pick"
  BY SlotOf DEF Pick
<1>1. ~Claiming(h[r]) /\ h[r].op # "refresh"
  BY <1>0 DEF Claiming, Exchange, ReqOK, Exchanging
<1>2. TokensKept BY DEF Pick, TokensKept, redis, notes
<1>3. PICK d \in h[r].kept :
        IF dev[d] # None
        THEN /\ h' = [h EXCEPT ![r].pc = "get", ![r].id = d, ![r].mate = dev[d]]
             /\ UNCHANGED hold
        ELSE IF h[r].op = "revoke" THEN Refused(r)
        ELSE h' = [h EXCEPT ![r].kept = @ \ {d}] /\ UNCHANGED hold
  BY DEF Pick
<1>a. d \in Pairs BY <1>0 DEF ReqType
<1>b. d \in 0..MaxPairs /\ dev[d] \in 0..MaxPairs BY <1>0, <1>a, LinkTypes, PairsAreNumbers
<1>4. CASE Refused(r)
  <2>1. Requests' /\ hold' = hold => TypeOK'
    BY <1>0 DEF Pick, TypeOK, Requests, redis, notes
  <2> QED BY <1>1, <1>2, <1>4, <2>1, RefusesQuietly
<1>5. ASSUME NEW q \in ReqType, h' = [h EXCEPT ![r] = q], hold' = hold,
             ReqOK(q), SlotOK(q), q.pc # "create", ~Claiming(q)
      PROVE  Quiet(r)
  <2>1. Requests' => TypeOK'
    BY <1>0, <1>5 DEF Pick, TypeOK, Requests, redis, notes
  <2> QED BY <1>1, <1>2, <1>5, <2>1, Quietly
<1>6. CASE dev[d] # None
  <2> DEFINE q == [h[r] EXCEPT !.pc = "get", !.id = d, !.mate = dev[d]]
  <2>1. h' = [h EXCEPT ![r] = q] /\ hold' = hold BY <1>3, <1>6
  <2>2. q \in ReqType BY <1>0, <1>b DEF ReqType
  <2>3. ReqOK(q) /\ SlotOK(q) /\ q.pc # "create" /\ ~Claiming(q)
    BY <1>0, <1>1 DEF ReqType, ReqOK, SlotOK, Claiming, Exchanging, Exchange
  <2> QED BY <1>5, <2>1, <2>2, <2>3
<1>7. CASE dev[d] = None /\ h[r].op # "revoke"
  <2> DEFINE q == [h[r] EXCEPT !.kept = @ \ {d}]
  <2>1. h' = [h EXCEPT ![r] = q] /\ hold' = hold BY <1>3, <1>7
  <2>2. q \in ReqType BY <1>0 DEF ReqType
  <2>3. ReqOK(q) /\ SlotOK(q) /\ q.pc # "create" /\ ~Claiming(q)
    BY <1>0, <1>1 DEF ReqType, ReqOK, SlotOK, Claiming, Exchanging, Exchange
  <2> QED BY <1>5, <2>1, <2>2, <2>3
<1> QED BY <1>3, <1>4, <1>6, <1>7

LEMMA OthersDoneQuiet ==
  ASSUME IInv, NEW r \in Slots, OthersDone(r)
  PROVE  Quiet(r)
<1>0. /\ h[r] \in ReqType /\ TypeOK /\ h[r].pc = "pick"
  BY SlotOf DEF OthersDone
<1>1. ~Claiming(h[r]) BY <1>0 DEF Claiming, Exchange
<1>2. Requests' /\ hold' = hold => TypeOK'
  <2>1. Lines \subseteq 0..MaxPairs BY <1>0, LinkTypes DEF Lines, TypeOK
  <2> QED BY <1>0, <2>1 DEF OthersDone, TypeOK, Requests, redis
<1>3. TokensKept BY DEF OthersDone, TokensKept, redis
<1> QED BY <1>1, <1>2, <1>3, RefusesQuietly DEF OthersDone

LEMMA EraseQuiet ==
  ASSUME IInv, NEW r \in Slots, Erase(r)
  PROVE  Quiet(r)
<1>0. /\ TypeOK /\ h[r].pc = "erase"
  BY SlotOf DEF Erase
<1>1. ~Claiming(h[r]) BY <1>0 DEF Claiming, Exchange
<1>2. Requests' /\ hold' \in [Clients -> 0..MaxPairs] => TypeOK'
  BY <1>0 DEF Erase, TypeOK, Requests, redis, notes
<1>3. TokensKept BY DEF Erase, TokensKept, redis, notes
<1> QED BY <1>1, <1>2, <1>3, PairsAreNumbers, AnswersQuietly DEF Erase

LEMMA AbandonQuiet ==
  ASSUME IInv, NEW r \in Slots, Abandon(r)
  PROVE  Quiet(r)
<1> DEFINE q == [h[r] EXCEPT !.heard = FALSE]
<1>0. h[r] \in ReqType /\ ReqOK(h[r]) /\ SlotOK(h[r]) /\ TypeOK /\ Requests
  BY SlotOf DEF Abandon
<1>1. h' = [h EXCEPT ![r] = q] BY DEF Abandon
<1>2. q \in ReqType BY <1>0 DEF ReqType
<1>3. /\ ReqOK(q) /\ SlotOK(q) /\ (q.pc = "create" => h[r].pc = "create" /\ q.new = h[r].new)
      /\ (Claiming(q) <=> Claiming(h[r])) /\ (Claiming(q) => q.tok = h[r].tok)
  BY <1>0 DEF ReqType, ReqOK, SlotOK, Claiming
<1>4. Requests' => TypeOK'
  BY <1>0, SessionsAssumption DEF Abandon, TypeOK, Requests, redis, notes
<1>5. TokensKept BY DEF Abandon, TokensKept, redis, notes
<1> QED BY <1>1, <1>2, <1>3, <1>4, <1>5, Quietly

LEMMA EndSessionQuiet ==
  ASSUME IInv, NEW r \in Slots, EndSession(r)
  PROVE  Quiet(r)
<1>0. /\ h[r] \in ReqType /\ ReqOK(h[r]) /\ SlotOK(h[r]) /\ TypeOK /\ Requests
      /\ h[r].pc = "end"
  BY SlotOf DEF EndSession
<1>1. ~Claiming(h[r]) BY <1>0 DEF Claiming, Exchange
<1>2. TokensKept BY DEF EndSession, TokensKept
<1>3. h[r].op = "logout" => line[h[r].tok] \in 0..MaxPairs
  BY <1>0, LinkTypes DEF ReqOK
<1>4. out' \subseteq 0..MaxPairs
  <2>1. h[r].id \in 0..MaxPairs BY <1>0 DEF ReqType
  <2> QED BY <1>0, <1>3, <2>1 DEF EndSession, TypeOK
<1>5. Requests' /\ hold' \in [Clients -> 0..MaxPairs] => TypeOK'
  <2>1. dev' \in Links BY <1>0, PairsAreNumbers DEF EndSession, TypeOK, Links
  <2> QED BY <1>0, <1>4, <2>1 DEF EndSession, TypeOK, Requests
<1>6. CASE h[r].op = "others"
  <2> DEFINE q == [h[r] EXCEPT !.pc = "pick", !.kept = @ \ {h[r].id},
                               !.id = None, !.mate = None]
  <2>1. h' = [h EXCEPT ![r] = q] /\ hold' = hold BY <1>6 DEF EndSession
  <2>2. q \in ReqType BY <1>0, PairsAreNumbers DEF ReqType
  <2>3. ReqOK(q) /\ SlotOK(q) /\ q.pc # "create" /\ ~Claiming(q)
    BY <1>0, <1>6 DEF ReqType, ReqOK, SlotOK, Claiming, Exchanging, Exchange
  <2>4. Requests' => TypeOK' BY <1>0, <1>5, <2>1 DEF TypeOK
  <2> QED BY <1>1, <1>2, <2>1, <2>2, <2>3, <2>4, Quietly
<1>7. CASE Answer(r, None)
  BY <1>1, <1>2, <1>5, <1>7, PairsAreNumbers, AnswersQuietly
<1>8. CASE Refused(r)
  <2>1. Requests' /\ hold' = hold => TypeOK' BY <1>0, <1>5 DEF TypeOK
  <2> QED BY <1>1, <1>2, <1>8, <2>1, RefusesQuietly
<1> QED BY <1>6, <1>7, <1>8 DEF EndSession

\* A request that fails gives up what it had claimed.
LEMMA FailTurns ==
  ASSUME IInv, NEW r \in Slots, Fail(r)
  PROVE  TypeOK' /\ TokensKept /\ Turn(r, IdleReq) /\ IdleReq \in ReqType
<1>0. h[r] \in ReqType /\ ReqOK(h[r]) /\ TypeOK /\ Requests
  BY SlotOf
<1>1. Turn(r, IdleReq) BY IdleFits DEF Fail, Turn
<1>2. Requests' BY <1>0, <1>1, IdleFits, Replaced DEF Turn
<1>3. lost' \subseteq 0..MaxPairs
  <2>1. Claiming(h[r]) => line[h[r].tok] \in 0..MaxPairs
    BY <1>0, LinkTypes DEF Claiming, ReqOK
  <2> QED BY <1>0, <2>1 DEF Fail, TypeOK
<1>4. torn' \subseteq 0..MaxPairs
  <2>1. h[r].pc \in {"drop", "settle"} => line[h[r].mate] \in 0..MaxPairs
    BY <1>0, LinkTypes DEF ReqOK
  <2>2. h[r].pc \in {"create", "carry", "write"} => line[h[r].new] \in 0..MaxPairs
    BY <1>0, LinkTypes DEF ReqOK
  <2> QED BY <1>0, <2>1, <2>2 DEF Fail, TypeOK
<1>5. TypeOK'
  BY <1>0, <1>2, <1>3, <1>4, SessionsAssumption DEF Fail, TypeOK, Requests, redis
<1> QED BY <1>1, <1>5, IdleFits DEF Fail, TokensKept, redis

-----------------------------------------------------------------------------
(* Requests arrive.                                                        *)

LEMMA OverlapType == \A q, others : Overlap(q, others) \subseteq 0..MaxPairs
BY PairsAreNumbers DEF Overlap

LEMMA ArrivesQuietly ==
  ASSUME IInv, NEW r \in Slots, NEW q \in ReqType, Arrive(r, q), ReqOK(q),
         q.pc \in {"look", "who", "ids", "pick", "members"}, UNCHANGED <<next, line>>
  PROVE  Quiet(r)
<1>0. h[r] \in ReqType /\ TypeOK /\ h[r].pc = "idle" BY SlotOf DEF Arrive
<1>1. /\ h' = [h EXCEPT ![r] = q] /\ SlotOK(q) /\ q.pc # "create"
      /\ ~Claiming(q) /\ ~Claiming(h[r])
  BY <1>0 DEF Arrive, SlotOK, Claiming, Exchange
<1>2. stirred' \subseteq 0..MaxPairs BY <1>0, OverlapType DEF Arrive, TypeOK
<1>3. Requests' => TypeOK' BY <1>0, <1>2 DEF Arrive, TypeOK, Requests, redis
<1>4. TokensKept BY DEF Arrive, TokensKept, redis
<1> QED BY <1>1, <1>3, <1>4, Quietly

LEMMA ReqFits ==
  ASSUME NEW op \in AllOps, NEW c \in Clients, NEW p \in 0..MaxPairs,
         NEW pc \in {"look", "who", "ids", "pick", "members", "create"}
  PROVE  /\ Req(op, c, pc, p) \in ReqType
         /\ Req(op, c, pc, p).pc = pc /\ Req(op, c, pc, p).op = op
         /\ Req(op, c, pc, p).tok = p
         /\ \A d \in Pairs : [Req(op, c, pc, p) EXCEPT !.kept = {d}] \in ReqType
         /\ \A n \in Pairs : [Req(op, c, pc, p) EXCEPT !.new = n] \in ReqType
<1> DEFINE q == Req(op, c, pc, p)
<1>1. IdleReq \in ReqType BY IdleFits
<1>2. q = [IdleReq EXCEPT !.op = op, !.cl = c, !.pc = pc, !.tok = p, !.heard = TRUE] BY DEF Req
<1> HIDE DEF q
<1>3. q \in ReqType /\ q.pc = pc /\ q.op = op /\ q.tok = p BY <1>1, <1>2 DEF ReqType
<1>4. \A d \in Pairs : [q EXCEPT !.kept = {d}] \in ReqType BY <1>3 DEF ReqType
<1>5. \A n \in Pairs : [q EXCEPT !.new = n] \in ReqType
  <2>1. \A n \in Pairs : n \in 0..MaxPairs BY PairsAreNumbers
  <2> QED BY <1>3, <2>1 DEF ReqType
<1> QED BY <1>3, <1>4, <1>5 DEF q

LEMMA HeldType ==
  ASSUME TypeOK, NEW c \in Clients
  PROVE  /\ hold[c] \in 0..MaxPairs
         /\ hold[c] # None => hold[c] \in Pairs
         /\ Admitted(c) => hold[c] \in Pairs
BY SessionsAssumption DEF TypeOK, Admitted, None, Pairs

LEMMA ArrivalQuiet ==
  ASSUME IInv, NEW r \in Slots, NEW c \in Clients,
         \/ Refresh(r, c) \/ Logout(r, c) \/ ListSessions(r, c) \/ RevokeOtherSessions(r, c)
         \/ RevokeSession(r, c) \/ UpdatePassword(r, c) \/ DeleteAccount(r, c)
  PROVE  Quiet(r)
<1>0. TypeOK BY DEF IInv
<1>1. hold[c] \in 0..MaxPairs BY <1>0, HeldType
<1>2. ASSUME NEW op \in AllOps, NEW pc \in {"look", "who", "ids", "pick", "members"},
             op \in {"refresh", "logout"} => hold[c] \in Pairs, op = "refresh" <=> pc = "look",
             Arrive(r, Req(op, c, pc, hold[c])), UNCHANGED <<next, line>>
      PROVE  Quiet(r)
  <2> DEFINE q == Req(op, c, pc, hold[c])
  <2>1. q \in ReqType /\ q.pc = pc /\ q.op = op /\ q.tok = hold[c] BY <1>1, ReqFits
  <2> HIDE DEF q
  <2>2. ReqOK(q) BY <1>2, <2>1 DEF ReqOK, Exchanging
  <2>3. Arrive(r, q) BY <1>2 DEF q
  <2> QED BY <1>2, <2>1, <2>2, <2>3, ArrivesQuietly
<1>3. CASE Refresh(r, c)
  BY <1>0, <1>2, <1>3, HeldType DEF Refresh, AllOps
<1>4. CASE Logout(r, c)
  BY <1>0, <1>2, <1>4, HeldType DEF Logout, AllOps
<1>5. CASE ListSessions(r, c)
  BY <1>2, <1>5 DEF ListSessions, AllOps
<1>6. CASE RevokeOtherSessions(r, c)
  BY <1>2, <1>6 DEF RevokeOtherSessions, AllOps
<1>7. CASE UpdatePassword(r, c)
  BY <1>2, <1>7 DEF UpdatePassword, AllOps
<1>8. CASE DeleteAccount(r, c)
  BY <1>2, <1>8 DEF DeleteAccount, AllOps
<1>9. CASE RevokeSession(r, c)
  <2>1. PICK d \in Lines :
          Arrive(r, [Req("revoke", c, "pick", hold[c]) EXCEPT !.kept = {d}])
    BY <1>9 DEF RevokeSession
  <2> DEFINE q == [Req("revoke", c, "pick", hold[c]) EXCEPT !.kept = {d}]
  <2>2. d \in Pairs
    <3>1. PICK p \in issued : d = line[p] /\ d # None BY DEF Lines
    <3>2. line[p] \in 0..MaxPairs BY <1>0, LinkTypes DEF TypeOK
    <3> QED BY <3>1, <3>2, SessionsAssumption DEF Pairs, None
  <2>3. q \in ReqType BY <1>1, <2>2, ReqFits DEF AllOps
  <2>4. q.pc = "pick" /\ q.op = "revoke" BY DEF Req, IdleReq
  <2> HIDE DEF q
  <2>5. ReqOK(q) BY <2>3, <2>4 DEF ReqOK, Exchanging
  <2>6. Arrive(r, q) BY <2>1 DEF q
  <2>7. UNCHANGED <<next, line>> BY <1>9 DEF RevokeSession
  <2> QED BY <2>3, <2>4, <2>5, <2>6, <2>7, ArrivesQuietly
<1> QED BY <1>3, <1>4, <1>5, <1>6, <1>7, <1>8, <1>9

-----------------------------------------------------------------------------
(* The actions that hand out, claim, replace or revoke tokens.             *)

\* A step of a request that changes the tokens: what is left to show.
LEMMA StepKeeps ==
  ASSUME IInv, NEW r \in Slots, NEW q \in ReqType, ReqOK(q), h' = [h EXCEPT ![r] = q],
         Requests' => TypeOK', Store', \A s \in Slots : SlotOK(h[s])',
         \A s \in Slots : s # r =>
           /\ Claiming(q) /\ Claiming(h[s]) => q.tok # h[s].tok
           /\ q.pc = "create" /\ h[s].pc = "create" => q.new # h[s].new
  PROVE  IInv'
<1>1. Requests' BY Replaced DEF IInv
<1>2. \A s \in Slots : h'[s] = IF s = r THEN q ELSE h[s] BY DEF IInv, Requests
<1>3. Apart' BY <1>2 DEF IInv, Apart, Claiming
<1> QED BY <1>1, <1>3 DEF IInv

LEMMA SpareLeavesOne ==
  ASSUME TypeOK, Spare
  PROVE  next \in Pairs
<1> DEFINE S == {r \in InFlight : h[r].op \in Creators /\ h[r].new = None}
<1>1. IsFiniteSet(S) BY SessionsAssumption, FS_Subset DEF InFlight
<1>2. Cardinality(S) \in Nat BY <1>1, FS_CardinalityType
<1>3. next \in Nat /\ next >= 1 BY SessionsAssumption DEF TypeOK
<1> QED BY <1>2, <1>3, SessionsAssumption DEF Spare, Pairs

LEMMA LoginKeeps ==
  ASSUME IInv, NEW r \in Slots, NEW c \in Clients, Login(r, c)
  PROVE  IInv'
<1> DEFINE q == [Req("login", c, "create", None) EXCEPT !.new = next]
<1>0. /\ TypeOK /\ Store /\ Requests /\ h[r].pc = "idle" /\ Arrive(r, q)
      /\ \A s \in Slots : SlotOK(h[s])
  BY DEF IInv, Login, Arrive
<1>1. q.op = "login" /\ q.pc = "create" /\ q.new = next
  BY DEF Req, IdleReq
<1>2. Spare BY <1>0, <1>1 DEF Arrive, Creators
<1>3. next \in Pairs BY <1>0, <1>2, SpareLeavesOne
<1>4. q \in ReqType BY <1>3, PairsAreNumbers, ReqFits DEF AllOps
<1> HIDE DEF q
<1>5. ReqOK(q) BY <1>1, <1>3 DEF ReqOK
<1>6. h' = [h EXCEPT ![r] = q] BY <1>0 DEF Arrive
<1>7. UNCHANGED <<at, rt, rot, accIdx, refIdx, issued>> /\ next' = next + 1
  BY <1>0 DEF Arrive, Login, redis
<1>8. next \in Nat BY <1>3 DEF Pairs
<1>9. Requests' => TypeOK'
  <2>1. stirred' \subseteq 0..MaxPairs BY <1>0, OverlapType DEF Arrive, TypeOK
  <2>2. line' \in Links BY <1>0, <1>3, PairsAreNumbers DEF Login, TypeOK, Links
  <2>3. next' \in 1..(MaxPairs + 1) BY <1>3, <1>7, SessionsAssumption DEF Pairs
  <2> QED BY <1>0, <2>1, <2>2, <2>3 DEF Arrive, TypeOK, Requests, redis
<1>a. issued \subseteq Nat /\ \A p \in issued : p < next BY <1>0 DEF Store, TypeOK, Pairs
<1>b. Store'
  <2>1. \A p \in issued : p < next + 1 BY <1>8, <1>a
  <2> QED BY <1>0, <1>7, <2>1 DEF Store
<1>c. next \notin issued BY <1>8, <1>a
<1>d. SlotOK(h[r])'
  <2>1. h'[r].pc = "create" /\ h'[r].new = next BY <1>0, <1>1, <1>6 DEF Requests
  <2> QED BY <1>7, <1>8, <1>c, <2>1 DEF SlotOK, Claiming, Exchange
<1>e. ASSUME NEW s \in Slots, s # r
      PROVE  /\ SlotOK(h[s])'
             /\ ~Claiming(q)
             /\ h[s].pc = "create" => q.new # h[s].new
  <2>1. h'[s] = h[s] BY <1>0, <1>6, <1>e DEF Requests
  <2>2. h[s] \in ReqType /\ SlotOK(h[s]) BY <1>0 DEF Requests
  <2>3. h[s].new \in Nat BY <2>2, SessionsAssumption DEF ReqType
  <2>4. SlotOK(h[s])' BY <1>7, <1>8, <2>1, <2>2, <2>3 DEF SlotOK, Claiming
  <2>5. h[s].pc = "create" => q.new # h[s].new BY <1>1, <1>8, <2>2, <2>3 DEF SlotOK
  <2> QED BY <1>1, <2>4, <2>5 DEF Claiming, Exchange
<1> QED BY <1>4, <1>5, <1>6, <1>9, <1>b, <1>d, <1>e, StepKeeps

\* What a request at r finds before such a step.
LEMMA Before ==
  ASSUME IInv, NEW r \in Slots
  PROVE  /\ h[r] \in ReqType /\ ReqOK(h[r]) /\ SlotOK(h[r])
         /\ TypeOK /\ Requests /\ Store /\ Apart
         /\ \A s \in Slots : SlotOK(h[s])
BY DEF IInv, Requests

LEMMA ClaimKeeps ==
  ASSUME IInv, NEW r \in Slots, Claim(r)
  PROVE  IInv'
<1> DEFINE tok == h[r].tok
<1>0. /\ h[r] \in ReqType /\ ReqOK(h[r]) /\ SlotOK(h[r]) /\ h[r].pc = "claim"
      /\ TypeOK /\ Requests /\ Store /\ Apart /\ \A s \in Slots : SlotOK(h[s])
  BY Before DEF Claim
<1>1. /\ rt' = rt \ {tok} /\ at' = at \ {tok} /\ accIdx' = accIdx \ {tok}
      /\ UNCHANGED <<rot, refIdx, issued, next>>
  BY DEF Claim, notes
<1>2. h[r].op = "refresh" /\ tok \in Pairs BY <1>0 DEF ReqOK
<1>3. Store' BY <1>0, <1>1 DEF Store
<1>4. ASSUME NEW s \in Slots, h'[s] = h[s] PROVE SlotOK(h[s])'
  BY <1>0, <1>1, <1>4 DEF SlotOK, Claiming
<1>5. CASE tok \in rt
  <2> DEFINE q == [h[r] EXCEPT !.pc = "drop", !.mate = tok]
  <2>1. h' = [h EXCEPT ![r] = q] /\ hold' = hold BY <1>5 DEF Claim
  <2>2. q \in ReqType BY <1>0 DEF ReqType
  <2>3. ReqOK(q) BY <1>0, <1>2 DEF ReqType, ReqOK, Exchanging, Exchange
  <2>4. q.tok = tok /\ q.pc = "drop" BY <1>0 DEF ReqType
  <2>5. Requests' => TypeOK' BY <1>0, <2>1 DEF Claim, TypeOK, Requests, notes
  <2>6. rot[tok] = None /\ tok \in issued BY <1>0, <1>2, <1>5 DEF Store
  <2>7. ASSUME NEW s \in Slots PROVE SlotOK(h[s])'
    <3>1. CASE s = r
      <4>1. h'[r] = q BY <1>0, <2>1 DEF Requests
      <4> QED BY <1>1, <2>4, <2>6, <3>1, <4>1 DEF SlotOK
    <3>2. CASE s # r BY <1>0, <1>4, <2>1, <3>2 DEF Requests
    <3> QED BY <3>1, <3>2
  <2>8. \A s \in Slots : Claiming(h[s]) => q.tok # h[s].tok
    BY <1>0, <1>5, <2>4 DEF SlotOK
  <2> QED BY <1>3, <2>1, <2>2, <2>3, <2>4, <2>5, <2>7, <2>8, StepKeeps
<1>6. CASE tok \notin rt
  <2>1. Answer(r, None) BY <1>6 DEF Claim
  <2>2. h' = [h EXCEPT ![r] = IdleReq] BY <2>1 DEF Answer
  <2>3. Requests' => TypeOK'
    <3>1. hold' \in [Clients -> 0..MaxPairs] BY <2>1, PairsAreNumbers, AnswerTurns
    <3> QED BY <1>0, <3>1 DEF Claim, TypeOK, Requests, notes
  <2>4. ASSUME NEW s \in Slots PROVE SlotOK(h[s])'
    <3>1. CASE s = r
      <4>1. h'[r] = IdleReq BY <1>0, <2>2 DEF Requests
      <4> QED BY <3>1, <4>1, IdleFits DEF SlotOK
    <3>2. CASE s # r BY <1>0, <1>4, <2>2, <3>2 DEF Requests
    <3> QED BY <3>1, <3>2
  <2> QED BY <1>3, <2>2, <2>3, <2>4, IdleFits, StepKeeps
<1> QED BY <1>5, <1>6

LEMMA ReplayKeeps ==
  ASSUME IInv, NEW r \in Slots, Replay(r)
  PROVE  IInv'
<1> DEFINE tok == h[r].tok
<1>0. /\ h[r] \in ReqType /\ ReqOK(h[r]) /\ SlotOK(h[r]) /\ h[r].pc = "replay"
      /\ TypeOK /\ Requests /\ Store /\ Apart /\ \A s \in Slots : SlotOK(h[s])
  BY Before DEF Replay
<1>1. rot' = [rot EXCEPT ![tok] = None] /\ UNCHANGED <<at, rt, accIdx, refIdx, issued, next>>
  BY DEF Replay, notes
<1>2. h[r].op = "refresh" /\ tok \in Pairs BY <1>0 DEF ReqOK
<1>3. \A p \in Pairs : rot'[p] = IF p = tok THEN None ELSE rot[p]
  BY <1>0, <1>1 DEF TypeOK, Links
<1>4. rot' \in Links BY <1>0, <1>1, PairsAreNumbers DEF TypeOK, Links
<1>5. Store' BY <1>0, <1>1, <1>3 DEF Store
<1>6. ASSUME NEW s \in Slots, h'[s] = h[s] PROVE SlotOK(h[s])'
  <2>1. Claiming(h[s]) => h[s].tok \in Pairs BY <1>0 DEF SlotOK, TypeOK
  <2> QED BY <1>0, <1>1, <1>3, <1>6, <2>1 DEF SlotOK, Claiming
<1>7. CASE rot[tok] # None
  <2> DEFINE q == [h[r] EXCEPT !.pc = "unlink", !.mate = rot[tok]]
  <2>1. h' = [h EXCEPT ![r] = q] /\ hold' = hold BY <1>7 DEF Replay
  <2>a. rot[tok] \in 0..MaxPairs BY <1>0, <1>2, LinkTypes
  <2>2. q \in ReqType BY <1>0, <2>a DEF ReqType
  <2>3. ReqOK(q) BY <1>0, <1>2 DEF ReqType, ReqOK, Exchanging, Exchange
  <2>4. q.tok = tok /\ q.pc = "unlink" BY <1>0 DEF ReqType
  <2>5. Requests' => TypeOK' BY <1>0, <1>4, <2>1 DEF Replay, TypeOK, Requests, notes
  <2>6. tok \in issued \ rt BY <1>0, <1>2, <1>7 DEF Store
  <2>7. ASSUME NEW s \in Slots PROVE SlotOK(h[s])'
    <3>1. CASE s = r
      <4>1. h'[r] = q BY <1>0, <2>1 DEF Requests
      <4> QED BY <1>1, <1>2, <1>3, <2>4, <2>6, <3>1, <4>1 DEF SlotOK
    <3>2. CASE s # r BY <1>0, <1>6, <2>1, <3>2 DEF Requests
    <3> QED BY <3>1, <3>2
  <2>8. \A s \in Slots : Claiming(h[s]) => q.tok # h[s].tok
    BY <1>0, <1>7, <2>4 DEF SlotOK
  <2> QED BY <1>5, <2>1, <2>2, <2>3, <2>4, <2>5, <2>7, <2>8, StepKeeps
<1>8. CASE rot[tok] = None
  <2>1. Answer(r, None) BY <1>8 DEF Replay
  <2>2. h' = [h EXCEPT ![r] = IdleReq] BY <2>1 DEF Answer
  <2>3. Requests' => TypeOK'
    <3>1. hold' \in [Clients -> 0..MaxPairs] BY <2>1, PairsAreNumbers, AnswerTurns
    <3> QED BY <1>0, <1>4, <3>1 DEF Replay, TypeOK, Requests, notes
  <2>4. ASSUME NEW s \in Slots PROVE SlotOK(h[s])'
    <3>1. CASE s = r
      <4>1. h'[r] = IdleReq BY <1>0, <2>2 DEF Requests
      <4> QED BY <3>1, <4>1, IdleFits DEF SlotOK
    <3>2. CASE s # r BY <1>0, <1>6, <2>2, <3>2 DEF Requests
    <3> QED BY <3>1, <3>2
  <2> QED BY <1>5, <2>2, <2>3, <2>4, IdleFits, StepKeeps
<1> QED BY <1>7, <1>8

LEMMA RecordKeeps ==
  ASSUME IInv, NEW r \in Slots, Record(r)
  PROVE  IInv'
<1> DEFINE tok == h[r].tok
           q == [h[r] EXCEPT !.pc = "create", !.new = next, !.mate = None]
<1>0. /\ h[r] \in ReqType /\ ReqOK(h[r]) /\ SlotOK(h[r]) /\ h[r].pc = "record"
      /\ TypeOK /\ Requests /\ Store /\ Apart /\ \A s \in Slots : SlotOK(h[s])
  BY Before DEF Record
<1>1. /\ rot' = [rot EXCEPT ![tok] = next] /\ next' = next + 1
      /\ UNCHANGED <<at, rt, accIdx, refIdx, issued>>
      /\ h' = [h EXCEPT ![r] = q] /\ hold' = hold
  BY DEF Record
<1>2. h[r].op = "refresh" /\ Claiming(h[r]) BY <1>0 DEF ReqOK, Claiming, Exchange
<1>3. tok \in Pairs /\ tok \in issued \ rt BY <1>0, <1>2 DEF SlotOK, ReqOK
<1>4. next \in Pairs /\ next \in Nat BY <1>0, SessionsAssumption DEF Record, TypeOK, Pairs
<1>5. \A p \in Pairs : rot'[p] = IF p = tok THEN next ELSE rot[p]
  BY <1>0, <1>1 DEF TypeOK, Links
<1>6. issued \subseteq Nat /\ \A p \in issued : p < next BY <1>0 DEF Store, TypeOK, Pairs
<1>7. Store'
  <2>1. \A p \in issued : p < next + 1 BY <1>4, <1>6
  <2> QED BY <1>0, <1>1, <1>3, <1>5, <2>1 DEF Store
<1>8. q \in ReqType BY <1>0, <1>4, PairsAreNumbers DEF ReqType
<1>9. ReqOK(q) BY <1>0, <1>2, <1>3, <1>4 DEF ReqType, ReqOK, Exchanging
<1>a. Requests' => TypeOK'
  <2>1. rot' \in Links /\ prev' \in Links /\ line' \in Links
    BY <1>0, <1>3, <1>4, LinkTypes, PairsAreNumbers DEF Record, TypeOK, Links
  <2>2. next' \in 1..(MaxPairs + 1) BY <1>1, <1>4, SessionsAssumption DEF Pairs
  <2> QED BY <1>0, <2>1, <2>2 DEF Record, TypeOK, Requests
<1>b. q.pc = "create" /\ q.new = next BY <1>0 DEF ReqType
<1>c. next \notin issued BY <1>4, <1>6
<1>d. ASSUME NEW s \in Slots, s # r
      PROVE  /\ SlotOK(h[s])'
             /\ h[s].pc = "create" => q.new # h[s].new
  <2> HIDE DEF q
  <2>1. h'[s] = h[s] BY <1>0, <1>1, <1>d DEF Requests
  <2>2. h[s] \in ReqType /\ SlotOK(h[s]) BY <1>0 DEF Requests
  <2>3. h[s].new \in Nat BY <2>2, SessionsAssumption DEF ReqType
  <2>a. Claiming(h[s]) => h[s].tok # tok BY <1>0, <1>2, <1>d DEF Apart
  <2>4. Claiming(h[s]) => h[s].tok \in Pairs /\ h[s].tok # tok
    BY <1>0, <2>2, <2>a DEF SlotOK, TypeOK
  <2>5. SlotOK(h[s])' BY <1>1, <1>4, <1>5, <2>1, <2>2, <2>3, <2>4 DEF SlotOK, Claiming
  <2>6. h[s].pc = "create" => q.new # h[s].new BY <1>4, <1>b, <2>2, <2>3 DEF SlotOK
  <2> QED BY <2>5, <2>6
<1>e. SlotOK(h[r])'
  <2>1. h'[r].pc = "create" /\ h'[r].new = next BY <1>0, <1>1, <1>b DEF Requests
  <2> QED BY <1>1, <1>4, <1>c, <2>1 DEF SlotOK, Claiming, Exchange
<1>f. ~Claiming(q) BY <1>b DEF Claiming, Exchange
<1> HIDE DEF q
<1> QED BY <1>1, <1>7, <1>8, <1>9, <1>a, <1>d, <1>e, <1>f, StepKeeps

LEMMA CreateAuthKeeps ==
  ASSUME IInv, NEW r \in Slots, CreateAuth(r)
  PROVE  IInv'
<1> DEFINE new == h[r].new
           carry == [h[r] EXCEPT !.pc = "carry"]
           write == [h[r] EXCEPT !.pc = "write", !.id = new]
           q == IF h[r].op = "refresh" THEN carry ELSE write
<1>0. /\ h[r] \in ReqType /\ ReqOK(h[r]) /\ SlotOK(h[r]) /\ h[r].pc = "create"
      /\ TypeOK /\ Requests /\ Store /\ Apart /\ \A s \in Slots : SlotOK(h[s])
  BY Before DEF CreateAuth
<1>1. /\ at' = at \cup {new} /\ rt' = rt \cup {new}
      /\ accIdx' = accIdx \cup {new} /\ refIdx' = refIdx \cup {new}
      /\ issued' = issued \cup {new} /\ UNCHANGED <<rot, next>>
      /\ h' = [h EXCEPT ![r] = q] /\ hold' = hold
  BY DEF CreateAuth
<1>2. new \in Pairs /\ new \notin issued /\ new < next BY <1>0 DEF ReqOK, SlotOK
<1>3. Store' BY <1>0, <1>1, <1>2 DEF Store
<1>4. q \in ReqType
  <2>1. new \in 0..MaxPairs BY <1>2, PairsAreNumbers
  <2> QED BY <1>0, <2>1 DEF ReqType
<1>5. ReqOK(q) BY <1>0, <1>2 DEF ReqType, ReqOK, Exchanging, Exchange
<1>6. Requests' => TypeOK' BY <1>0, <1>1, <1>2 DEF CreateAuth, TypeOK, Requests
<1>7. q.pc \in {"carry", "write"} BY <1>0 DEF ReqType
<1>8. ASSUME NEW s \in Slots PROVE SlotOK(h[s])'
  <2>1. CASE s = r
    <3>1. h'[r] = q BY <1>0, <1>1 DEF Requests
    <3> QED BY <1>7, <2>1, <3>1 DEF SlotOK, Claiming, Exchange
  <2>2. CASE s # r
    <3> HIDE DEF q
    <3>1. h'[s] = h[s] BY <1>0, <1>1, <2>2 DEF Requests
    <3>2. SlotOK(h[s]) /\ (h[s].pc = "create" => h[s].new # new)
      BY <1>0, <2>2 DEF Apart
    <3> QED BY <1>1, <1>2, <3>1, <3>2 DEF SlotOK, Claiming
  <2> QED BY <2>1, <2>2
<1>9. ~Claiming(q) /\ q.pc # "create" BY <1>7 DEF Claiming, Exchange
<1> HIDE DEF q
<1> QED BY <1>1, <1>3, <1>4, <1>5, <1>6, <1>8, <1>9, StepKeeps

LEMMA DelPairKeeps ==
  ASSUME IInv, NEW r \in Slots, DelPair(r)
  PROVE  IInv'
<1> DEFINE mate == h[r].mate
           q == [h[r] EXCEPT !.pc = "drop", !.ok = h[r].op = "logout" /\ mate \in at \cup rt]
<1>0. /\ h[r] \in ReqType /\ ReqOK(h[r]) /\ SlotOK(h[r]) /\ h[r].pc = "del"
      /\ TypeOK /\ Requests /\ Store /\ Apart /\ \A s \in Slots : SlotOK(h[s])
  BY Before DEF DelPair
<1>1. /\ at' = at \ {mate} /\ rt' = rt \ {mate}
      /\ accIdx' = accIdx \ {mate} /\ refIdx' = refIdx \ {mate}
      /\ UNCHANGED <<rot, issued, next>>
      /\ h' = [h EXCEPT ![r] = q] /\ hold' = hold
  BY DEF DelPair
<1>2. mate \in Pairs BY <1>0 DEF ReqOK
<1>3. Store' BY <1>0, <1>1 DEF Store
<1>4. q \in ReqType BY <1>0 DEF ReqType
<1>5. ReqOK(q) BY <1>0 DEF ReqType, ReqOK, Exchanging, Exchange
<1>6. Requests' => TypeOK'
  <2>1. line[mate] \in 0..MaxPairs BY <1>0, <1>2, LinkTypes
  <2>2. sid' \in Links BY <1>0, PairsAreNumbers DEF DelPair, TypeOK, Links
  <2> QED BY <1>0, <1>1, <2>1, <2>2 DEF DelPair, TypeOK, Requests
<1>7. q.pc = "drop" /\ q.tok = h[r].tok /\ q.op = h[r].op BY <1>0 DEF ReqType
<1>8. Claiming(q) => Claiming(h[r]) BY <1>0, <1>7 DEF Claiming, Exchange
<1>9. ASSUME NEW s \in Slots PROVE SlotOK(h[s])'
  <2>1. CASE s = r
    <3>1. h'[r] = q BY <1>0, <1>1 DEF Requests
    <3> HIDE DEF q
    <3>2. Claiming(h'[r]) => h'[r].tok \in issued' \ rt' /\ rot'[h'[r].tok] = None
      BY <1>0, <1>1, <1>7, <1>8, <3>1 DEF SlotOK
    <3>3. h'[r].pc = "drop" BY <1>7, <3>1
    <3> QED BY <2>1, <3>2, <3>3 DEF SlotOK, Claiming
  <2>2. CASE s # r
    <3> HIDE DEF q
    <3>1. h'[s] = h[s] BY <1>0, <1>1, <2>2 DEF Requests
    <3> QED BY <1>0, <1>1, <3>1 DEF SlotOK, Claiming
  <2> QED BY <2>1, <2>2
<1> HIDE DEF q
<1>a. \A s \in Slots : s # r =>
        /\ Claiming(q) /\ Claiming(h[s]) => q.tok # h[s].tok
        /\ q.pc = "create" /\ h[s].pc = "create" => q.new # h[s].new
  BY <1>0, <1>7, <1>8 DEF Apart
<1> QED BY <1>1, <1>3, <1>4, <1>5, <1>6, <1>9, <1>a, StepKeeps

LEMMA DropPredecessorKeeps ==
  ASSUME IInv, NEW r \in Slots, DropPredecessor(r)
  PROVE  IInv'
<1> DEFINE old == h[r].old
           q == [h[r] EXCEPT !.pc = AfterRevoke(h[r]), !.old = None]
<1>0. /\ h[r] \in ReqType /\ ReqOK(h[r]) /\ SlotOK(h[r]) /\ h[r].pc = "settle"
      /\ TypeOK /\ Requests /\ Store /\ Apart /\ \A s \in Slots : SlotOK(h[s])
  BY Before DEF DropPredecessor
<1>1. /\ rot' = [rot EXCEPT ![old] = None] /\ refIdx' = refIdx \ {old}
      /\ UNCHANGED <<at, rt, accIdx, issued, next>>
      /\ h' = [h EXCEPT ![r] = q] /\ hold' = hold
  BY DEF DropPredecessor, notes
<1>2. \A p \in Pairs : rot'[p] = IF p = old THEN None ELSE rot[p]
  BY <1>0, <1>1 DEF TypeOK, Links
<1>3. Store' BY <1>0, <1>1, <1>2 DEF Store
<1>4. q \in ReqType BY <1>0, PairsAreNumbers DEF ReqType, AfterRevoke
<1>5. ReqOK(q) BY <1>0 DEF ReqType, ReqOK, AfterRevoke, Exchanging, Exchange
<1>6. Requests' => TypeOK'
  <2>1. rot' \in Links /\ sid' \in Links
    BY <1>0, PairsAreNumbers DEF DropPredecessor, TypeOK, Links
  <2> QED BY <1>0, <1>1, <2>1 DEF DropPredecessor, TypeOK, Requests, notes
<1>7. /\ q.pc \in {"record", "end"} /\ q.tok = h[r].tok /\ q.op = h[r].op
      /\ (Claiming(q) => Claiming(h[r]))
  BY <1>0 DEF ReqType, AfterRevoke, Claiming, Exchange
<1>8. ASSUME NEW s \in Slots PROVE SlotOK(h[s])'
  <2>0. Claiming(h[s]) => h[s].tok \in Pairs BY <1>0 DEF SlotOK, TypeOK
  <2>1. CASE s = r
    <3>1. h'[r] = q BY <1>0, <1>1 DEF Requests
    <3> HIDE DEF q
    <3>2. Claiming(h'[r]) => h'[r].tok \in issued' \ rt' /\ rot'[h'[r].tok] = None
      BY <1>0, <1>1, <1>2, <1>7, <2>0, <2>1, <3>1 DEF SlotOK
    <3>3. h'[r].pc \in {"record", "end"} BY <1>7, <3>1
    <3> QED BY <2>1, <3>2, <3>3 DEF SlotOK, Claiming
  <2>2. CASE s # r
    <3> HIDE DEF q
    <3>1. h'[s] = h[s] BY <1>0, <1>1, <2>2 DEF Requests
    <3> QED BY <1>0, <1>1, <1>2, <2>0, <3>1 DEF SlotOK, Claiming
  <2> QED BY <2>1, <2>2
<1> HIDE DEF q
<1>9. \A s \in Slots : s # r =>
        /\ Claiming(q) /\ Claiming(h[s]) => q.tok # h[s].tok
        /\ q.pc = "create" /\ h[s].pc = "create" => q.new # h[s].new
  BY <1>0, <1>7 DEF Apart
<1> QED BY <1>1, <1>3, <1>4, <1>5, <1>6, <1>8, <1>9, StepKeeps

LEMMA RevokeAllSessionsKeeps ==
  ASSUME IInv, NEW r \in Slots, RevokeAllSessions(r)
  PROVE  IInv'
<1> DEFINE again == [h[r] EXCEPT !.pc = "create", !.new = next]
           gone == [h[r] EXCEPT !.pc = "erase"]
           q == IF h[r].op = "password" THEN again ELSE gone
<1>0. /\ h[r] \in ReqType /\ ReqOK(h[r]) /\ SlotOK(h[r]) /\ h[r].pc = "wipe"
      /\ TypeOK /\ Requests /\ Store /\ Apart /\ \A s \in Slots : SlotOK(h[s])
  BY Before DEF RevokeAllSessions
<1>1. /\ at' = at \ h[r].accs /\ rt' = rt \ h[r].refs /\ rot' = Wiped(rot, h[r].refs)
      /\ accIdx' = {} /\ refIdx' = {} /\ UNCHANGED issued
      /\ h' = [h EXCEPT ![r] = q] /\ hold' = hold
      /\ next' = IF h[r].op = "password" THEN next + 1 ELSE next
  BY DEF RevokeAllSessions
<1>2. \A p \in Pairs : rot'[p] = IF p \in h[r].refs THEN None ELSE rot[p]
  BY <1>1 DEF Wiped
<1>3. at \cap h[r].refs \subseteq h[r].accs BY <1>0 DEF SlotOK
<1>4. next \in Nat /\ (h[r].op = "password" => next \in Pairs)
  BY <1>0, SessionsAssumption DEF RevokeAllSessions, TypeOK, Pairs
<1>5. issued \subseteq Nat /\ \A p \in issued : p < next /\ p < next'
  BY <1>0, <1>1, <1>4 DEF Store, TypeOK, Pairs
<1>6. Store' BY <1>0, <1>1, <1>2, <1>3, <1>5 DEF Store
<1>7. h[r].op # "refresh" BY <1>0 DEF ReqOK, Exchanging, Exchange
<1>8. q \in ReqType
  <2>1. h[r].op = "password" => next \in 0..MaxPairs BY <1>4, PairsAreNumbers
  <2> QED BY <1>0, <2>1 DEF ReqType
<1>9. ReqOK(q) BY <1>0, <1>4, <1>7 DEF ReqType, ReqOK, Exchanging
<1>a. Requests' => TypeOK'
  <2>1. \A f \in Links : \A S : Wiped(f, S) \in Links
    BY LinkTypes, PairsAreNumbers DEF Wiped, Links
  <2>2. rot' \in Links /\ prev' \in Links /\ sid' \in Links /\ dev' \in Links
    BY <1>0, <2>1 DEF RevokeAllSessions, TypeOK
  <2>3. Lines \subseteq 0..MaxPairs BY <1>0, LinkTypes DEF Lines, TypeOK
  <2>4. line' \in Links /\ stirred' \subseteq 0..MaxPairs
    BY <1>0, <1>4, PairsAreNumbers DEF RevokeAllSessions, TypeOK, Links
  <2>5. next' \in 1..(MaxPairs + 1)
    BY <1>0, <1>1, <1>4, SessionsAssumption DEF TypeOK, Pairs
  <2> QED BY <1>0, <1>1, <2>2, <2>3, <2>4, <2>5 DEF RevokeAllSessions, TypeOK, Requests
<1>b. /\ q.pc \in {"create", "erase"} /\ ~Claiming(q)
      /\ q.pc = "create" => q.new = next /\ next' = next + 1
  BY <1>0, <1>1 DEF ReqType, Claiming, Exchange
<1>c. next \notin issued BY <1>4, <1>5
<1>d. next' \in Nat /\ next' >= next BY <1>1, <1>4
<1> HIDE DEF q
<1>e. ASSUME NEW s \in Slots, s # r
      PROVE  /\ SlotOK(h[s])'
             /\ q.pc = "create" /\ h[s].pc = "create" => q.new # h[s].new
  <2>1. h'[s] = h[s] BY <1>0, <1>1, <1>e DEF Requests
  <2>2. h[s] \in ReqType /\ SlotOK(h[s]) BY <1>0 DEF Requests
  <2>3. h[s].new \in Nat BY <2>2, SessionsAssumption DEF ReqType
  <2>4. Claiming(h[s]) => h[s].tok \in Pairs BY <1>0, <2>2 DEF SlotOK, TypeOK
  <2>5. SlotOK(h[s])' BY <1>1, <1>2, <1>4, <1>d, <2>1, <2>2, <2>3, <2>4 DEF SlotOK, Claiming
  <2>6. q.pc = "create" /\ h[s].pc = "create" => q.new # h[s].new
    BY <1>4, <1>b, <2>2, <2>3 DEF SlotOK
  <2> QED BY <2>5, <2>6
<1>f. SlotOK(h[r])'
  <2>1. h'[r] = q BY <1>0, <1>1 DEF Requests
  <2>2. ~Claiming(h'[r]) /\ h'[r].pc \in {"create", "erase"}
        /\ (h'[r].pc = "create" => h'[r].new = next /\ next' = next + 1)
    BY <1>b, <2>1
  <2> QED BY <1>1, <1>4, <1>c, <2>2 DEF SlotOK
<1> QED BY <1>1, <1>6, <1>8, <1>9, <1>a, <1>b, <1>e, <1>f, StepKeeps

-----------------------------------------------------------------------------
(* The invariant, and what follows from it.                                *)

LEMMA InvInit == Init => IInv
<1> SUFFICES ASSUME Init PROVE IInv
  OBVIOUS
<1>1. TypeOK
  BY IdleFits, PairsAreNumbers, SessionsAssumption DEF Init, TypeOK, Links
<1>2. \A s \in Slots : h[s] = IdleReq BY DEF Init
<1>3. Requests /\ \A s \in Slots : SlotOK(h[s])
  BY <1>1, <1>2, IdleFits DEF Requests, TypeOK
<1>4. Apart BY <1>2, IdleFits DEF Apart
<1>5. Store BY DEF Init, Store
<1> QED BY <1>1, <1>3, <1>4, <1>5 DEF IInv

LEMMA StepInv ==
  ASSUME IInv, NEW r \in Slots, Step(r)
  PROVE  IInv'
<1>1. Quiet(r) => IInv' BY TurnKeeps DEF Quiet
<1>2. CASE RotationStep(r)
  BY <1>1, <1>2, LookQuiet, ClaimKeeps, ReplayKeeps, UnlinkQuiet, RecordKeeps DEF RotationStep
<1>3. CASE CreationStep(r)
  BY <1>1, <1>3, CreateAuthKeeps, CarrySessionQuiet, WriteSessionQuiet DEF CreationStep
<1>4. CASE RevocationStep(r)
  BY <1>1, <1>4, GetPairQuiet, DelPairKeeps, DropLinkQuiet, DropPredecessorKeeps,
     EndSessionQuiet, WhoQuiet, ValQuiet DEF RevocationStep
<1>5. CASE ListStep(r)
  BY <1>1, <1>5, IdsQuiet, VisitQuiet, ExistsQuiet, ForgetQuiet, CurrentQuiet, PickQuiet,
     OthersDoneQuiet DEF ListStep
<1>6. CASE WipeStep(r)
  BY <1>1, <1>6, MembersQuiet, DevicesQuiet, RevokeAllSessionsKeeps, EraseQuiet DEF WipeStep
<1> QED BY <1>2, <1>3, <1>4, <1>5, <1>6 DEF Step

LEMMA ArrivalInv ==
  ASSUME IInv, NEW r \in Slots, NEW c \in Clients, Arrival(r, c)
  PROVE  IInv'
<1>1. CASE Login(r, c) BY <1>1, LoginKeeps
<1>2. CASE ~Login(r, c)
  <2>1. Quiet(r) BY <1>2, ArrivalQuiet DEF Arrival
  <2> QED BY <2>1, TurnKeeps DEF Quiet
<1> QED BY <1>1, <1>2

LEMMA InvNext == IInv /\ [Next]_vars => IInv'
<1> SUFFICES ASSUME IInv, [Next]_vars PROVE IInv'
  OBVIOUS
<1>1. CASE UNCHANGED vars
  <2>1. /\ UNCHANGED <<at, rt, rot, prev, sid, accIdx, refIdx, dev, devs>>
        /\ UNCHANGED <<issued, line, cut, out, lost, torn, stirred>>
        /\ UNCHANGED <<account, next, h, hold, faults>>
    BY <1>1 DEF vars, redis, notes
  <2>2. TypeOK' BY <2>1 DEF IInv, TypeOK
  <2>3. Requests' /\ Store' /\ Apart' BY <2>1 DEF IInv, Requests, Store, Apart
  <2>4. \A s \in Slots : SlotOK(h[s])' BY <2>1 DEF IInv, SlotOK
  <2> QED BY <2>2, <2>3, <2>4 DEF IInv
<1>2. ASSUME NEW r \in Slots, Step(r) PROVE IInv' BY <1>2, StepInv
<1>3. ASSUME NEW r \in Slots, Abandon(r) PROVE IInv'
  BY <1>3, AbandonQuiet, TurnKeeps DEF Quiet
<1>4. ASSUME NEW r \in Slots, Fail(r) PROVE IInv' BY <1>4, FailTurns, TurnKeeps
<1>5. ASSUME NEW r \in Slots, NEW c \in Clients, Arrival(r, c) PROVE IInv'
  BY <1>5, ArrivalInv
<1> QED BY <1>1, <1>2, <1>3, <1>4, <1>5 DEF Next

LEMMA Invariance == Spec => []IInv
BY InvInit, InvNext, PTL DEF Spec

\* The variables keep their types, for any number of devices, requests, pairs
\* and faults.
THEOREM SessionTypes == Spec => []TypeOK
<1>1. IInv => TypeOK BY DEF IInv
<1> QED BY <1>1, Invariance, PTL

\* No access token is accepted once its refresh token was claimed or revoked,
\* whatever requests interleave and wherever they fail: a sign-out of all that
\* read the index two commands ago deletes both halves of a pair or neither.
THEOREM HalvesDieTogether == Spec => []PairsDieTogether
<1>1. IInv => PairsDieTogether BY DEF IInv, Store, PairsDieTogether
<1> QED BY <1>1, Invariance, PTL

-----------------------------------------------------------------------------
(* Sessions implements TokenLife: each step issues, claims or retires one  *)
(* token, kills some, or leaves all as they are.                           *)

Claimed(p) == \E r \in Slots : Claiming(h[r]) /\ h[r].tok = p

LEMMA StageOf ==
  ASSUME NEW p \in Pairs
  PROVE  /\ Stage(p) = IF p \notin issued THEN "fresh"
                       ELSE IF p \in rt THEN "live"
                       ELSE IF rot[p] # None THEN "pending"
                       ELSE IF Claimed(p) THEN "claimed" ELSE "dead"
         /\ Stage(p)' = IF p \notin issued' THEN "fresh"
                        ELSE IF p \in rt' THEN "live"
                        ELSE IF rot'[p] # None THEN "pending"
                        ELSE IF Claimed(p)' THEN "claimed" ELSE "dead"
BY DEF Stage, Claimed

\* A token lives in one way at a time.
LEMMA ClaimedAlone ==
  ASSUME IInv, NEW p \in Pairs, Claimed(p)
  PROVE  p \in issued \ rt /\ rot[p] = None
BY DEF IInv, Claimed, SlotOK

LEMMA LivingIssued ==
  ASSUME IInv, NEW p \in Pairs
  PROVE  /\ p \in rt => p \in issued /\ rot[p] = None
         /\ rot[p] # None => p \in issued \ rt
BY DEF IInv, Store

LEMMA Killing ==
  ASSUME \A p \in Pairs :
           Stage(p)' = Stage(p) \/ (Stage(p)' = "dead" /\ Stage(p) # "fresh")
  PROVE  Life!LifeNext
<1> DEFINE S == {p \in Pairs : Stage(p)' = "dead" /\ Stage(p) # "fresh"}
           st == [p \in Pairs |-> Stage(p)]
<1>1. \A p \in S : st[p] # "fresh" OBVIOUS
<1>2. st' = [p \in Pairs |-> Stage(p)'] OBVIOUS
<1>3. \A p \in Pairs : Stage(p)' = IF p \in S THEN "dead" ELSE st[p] OBVIOUS
<1>4. st' = [p \in Pairs |-> IF p \in S THEN "dead" ELSE st[p]] BY <1>2, <1>3
<1>5. Life!Kill(S) BY <1>1, <1>4 DEF Life!Kill
<1>6. S \in SUBSET Pairs OBVIOUS
<1> QED BY <1>5, <1>6 DEF Life!LifeNext

LEMMA Moving ==
  ASSUME NEW t \in Pairs, \A p \in Pairs : p # t => Stage(p)' = Stage(p),
         \/ Stage(t) = "fresh" /\ Stage(t)' = "live"
         \/ Stage(t) \in {"live", "pending"} /\ Stage(t)' = "claimed"
         \/ Stage(t) = "claimed" /\ Stage(t)' = "pending"
  PROVE  Life!LifeNext
<1> DEFINE st == [p \in Pairs |-> Stage(p)]
<1>1. st' = [p \in Pairs |-> Stage(p)'] OBVIOUS
<1>2. st[t] = Stage(t) OBVIOUS
<1>3. st' = [st EXCEPT ![t] = Stage(t)'] BY <1>1
<1>4. Life!Issue(t) \/ Life!Claim(t) \/ Life!Retire(t)
  BY <1>2, <1>3 DEF Life!Issue, Life!Claim, Life!Retire
<1> QED BY <1>4 DEF Life!LifeNext

\* The claims of a step that changes one slot.
LEMMA ClaimsKept ==
  ASSUME Requests, NEW r \in Slots,
         \A s \in Slots : s # r => h'[s] = h[s],
         Claiming(h'[r]) <=> Claiming(h[r]), Claiming(h[r]) => h'[r].tok = h[r].tok
  PROVE  \A p \in Pairs : Claimed(p)' <=> Claimed(p)
BY DEF Claimed, Claiming

LEMMA QuietLife ==
  ASSUME IInv, NEW r \in Slots, Quiet(r)
  PROVE  Life!LifeNext
<1>1. PICK q \in ReqType : Turn(r, q) BY DEF Quiet
<1>2. Requests BY DEF IInv
<1>3. h'[r] = q /\ \A s \in Slots : s # r => h'[s] = h[s] BY <1>1, <1>2 DEF Turn, Requests
<1>4. (Claiming(h'[r]) <=> Claiming(h[r])) /\ (Claiming(h[r]) => h'[r].tok = h[r].tok)
  BY <1>1, <1>3 DEF Turn, Quiet, Lasting
<1>5. \A p \in Pairs : Claimed(p)' <=> Claimed(p) BY <1>2, <1>3, <1>4, ClaimsKept
<1>6. \A p \in Pairs : Stage(p)' = Stage(p)
  BY <1>5, StageOf DEF Quiet, TokensKept
<1> QED BY <1>6, Killing

\* A claim lost with its request.
LEMMA FailLife ==
  ASSUME IInv, NEW r \in Slots, Fail(r)
  PROVE  Life!LifeNext
<1>1. TokensKept /\ h' = [h EXCEPT ![r] = IdleReq] BY FailTurns DEF Turn
<1>2. \A s \in Slots : h'[s] = IF s = r THEN IdleReq ELSE h[s] BY <1>1 DEF IInv, Requests
<1>3. \A p \in Pairs : Claimed(p)' => Claimed(p)
  BY <1>2, IdleFits DEF Claimed, Claiming
<1>4. ASSUME NEW p \in Pairs
      PROVE  Stage(p)' = Stage(p) \/ (Stage(p)' = "dead" /\ Stage(p) # "fresh")
  BY <1>1, <1>3, StageOf DEF TokensKept
<1> QED BY <1>4, Killing

LEMMA LoginLife ==
  ASSUME IInv, NEW r \in Slots, NEW c \in Clients, Login(r, c)
  PROVE  Life!LifeNext
<1> DEFINE q == [Req("login", c, "create", None) EXCEPT !.new = next]
<1>0. Requests /\ h[r].pc = "idle" /\ Arrive(r, q) BY DEF IInv, Login, Arrive
<1>1. q.pc = "create" BY DEF Req, IdleReq
<1> HIDE DEF q
<1>2. h' = [h EXCEPT ![r] = q] /\ UNCHANGED <<rt, rot, issued>> BY <1>0 DEF Arrive, redis
<1>3. h'[r] = q /\ \A s \in Slots : s # r => h'[s] = h[s] BY <1>0, <1>2 DEF Requests
<1>4. ~Claiming(h[r]) /\ ~Claiming(h'[r]) BY <1>0, <1>1, <1>3 DEF Claiming, Exchange
<1>5. \A p \in Pairs : Claimed(p)' <=> Claimed(p) BY <1>0, <1>3, <1>4, ClaimsKept
<1>6. \A p \in Pairs : Stage(p)' = Stage(p) BY <1>2, <1>5, StageOf
<1> QED BY <1>6, Killing

LEMMA CreateAuthLife ==
  ASSUME IInv, NEW r \in Slots, CreateAuth(r)
  PROVE  Life!LifeNext
<1>0. /\ h[r] \in ReqType /\ ReqOK(h[r]) /\ SlotOK(h[r]) /\ h[r].pc = "create" /\ Requests
  BY Before DEF CreateAuth
<1>a. PICK new \in Pairs : new = h[r].new BY <1>0 DEF ReqOK
<1>1. /\ rt' = rt \cup {new} /\ issued' = issued \cup {new} /\ UNCHANGED rot
      /\ \A s \in Slots : s # r => h'[s] = h[s]
      /\ h'[r].pc \in {"carry", "write"}
  BY <1>0, <1>a DEF CreateAuth, Requests, ReqType
<1>2. new \notin issued BY <1>0, <1>a DEF SlotOK
<1>3. ~Claiming(h[r]) /\ ~Claiming(h'[r]) BY <1>0, <1>1 DEF Claiming, Exchange
<1>4. \A p \in Pairs : Claimed(p)' <=> Claimed(p) BY <1>0, <1>1, <1>3, ClaimsKept
<1>5. Stage(new) = "fresh" /\ Stage(new)' = "live" BY <1>1, <1>2, StageOf
<1>6. \A p \in Pairs : p # new => Stage(p)' = Stage(p) BY <1>1, <1>4, StageOf
<1> QED BY <1>5, <1>6, Moving

LEMMA ClaimLife ==
  ASSUME IInv, NEW r \in Slots, Claim(r)
  PROVE  Life!LifeNext
<1>0. /\ h[r] \in ReqType /\ ReqOK(h[r]) /\ h[r].pc = "claim" /\ Requests /\ Store
  BY Before DEF Claim
<1>a. PICK tok \in Pairs : tok = h[r].tok BY <1>0 DEF ReqOK
<1>1. rt' = rt \ {tok} /\ UNCHANGED <<rot, issued>> BY <1>a DEF Claim, notes
<1>2. h[r].op = "refresh" /\ ~Claiming(h[r])
  BY <1>0 DEF ReqOK, Claiming, Exchange
<1>3. CASE tok \in rt
  <2>1. /\ h'[r].pc = "drop" /\ h'[r].op = "refresh" /\ h'[r].tok = tok
        /\ \A s \in Slots : s # r => h'[s] = h[s]
    BY <1>0, <1>a, <1>2, <1>3 DEF Claim, Requests, ReqType
  <2>2. Claimed(tok)' BY <2>1 DEF Claimed, Claiming, Exchange
  <2>3. \A p \in Pairs : p # tok => (Claimed(p)' <=> Claimed(p))
    BY <1>a, <1>2, <2>1 DEF Claimed, Claiming
  <2>4. Stage(tok) = "live" /\ Stage(tok)' = "claimed"
    BY <1>0, <1>1, <1>2, <1>3, <2>2, StageOf DEF Store
  <2>5. \A p \in Pairs : p # tok => Stage(p)' = Stage(p) BY <1>1, <2>3, StageOf
  <2> QED BY <2>4, <2>5, Moving
<1>4. CASE tok \notin rt
  <2>1. h' = [h EXCEPT ![r] = IdleReq] BY <1>a, <1>4 DEF Claim, Answer
  <2>2. h'[r] = IdleReq /\ \A s \in Slots : s # r => h'[s] = h[s]
    BY <1>0, <2>1 DEF Requests
  <2>3. \A p \in Pairs : Claimed(p)' <=> Claimed(p)
    BY <1>0, <1>2, <2>2, IdleFits, ClaimsKept
  <2>4. \A p \in Pairs : Stage(p)' = Stage(p) BY <1>1, <1>4, <2>3, StageOf
  <2> QED BY <2>4, Killing
<1> QED BY <1>3, <1>4

LEMMA ReplayLife ==
  ASSUME IInv, NEW r \in Slots, Replay(r)
  PROVE  Life!LifeNext
<1>0. /\ h[r] \in ReqType /\ ReqOK(h[r]) /\ h[r].pc = "replay" /\ Requests /\ Store /\ TypeOK
  BY Before DEF Replay
<1>a. PICK tok \in Pairs : tok = h[r].tok BY <1>0 DEF ReqOK
<1>1. /\ UNCHANGED <<rt, issued>>
      /\ \A p \in Pairs : rot'[p] = IF p = tok THEN None ELSE rot[p]
  BY <1>0, <1>a DEF Replay, notes, TypeOK, Links
<1>2. h[r].op = "refresh" /\ ~Claiming(h[r])
  BY <1>0 DEF ReqOK, Claiming, Exchange
<1>3. CASE rot[tok] # None
  <2>1. /\ h'[r].pc = "unlink" /\ h'[r].op = "refresh" /\ h'[r].tok = tok
        /\ \A s \in Slots : s # r => h'[s] = h[s]
    BY <1>0, <1>a, <1>2, <1>3 DEF Replay, Requests, ReqType
  <2>2. Claimed(tok)' BY <2>1 DEF Claimed, Claiming, Exchange
  <2>3. \A p \in Pairs : p # tok => (Claimed(p)' <=> Claimed(p))
    BY <1>a, <1>2, <2>1 DEF Claimed, Claiming
  <2>4. Stage(tok) = "pending" /\ Stage(tok)' = "claimed"
    BY <1>0, <1>1, <1>2, <1>3, <2>2, StageOf DEF Store
  <2>5. \A p \in Pairs : p # tok => Stage(p)' = Stage(p) BY <1>1, <2>3, StageOf
  <2> QED BY <2>4, <2>5, Moving
<1>4. CASE rot[tok] = None
  <2>1. h' = [h EXCEPT ![r] = IdleReq] BY <1>a, <1>4 DEF Replay, Answer
  <2>2. h'[r] = IdleReq /\ \A s \in Slots : s # r => h'[s] = h[s]
    BY <1>0, <2>1 DEF Requests
  <2>3. \A p \in Pairs : Claimed(p)' <=> Claimed(p)
    BY <1>0, <1>2, <2>2, IdleFits, ClaimsKept
  <2>4. \A p \in Pairs : Stage(p)' = Stage(p) BY <1>1, <1>4, <2>3, StageOf
  <2> QED BY <2>4, Killing
<1> QED BY <1>3, <1>4

LEMMA RecordLife ==
  ASSUME IInv, NEW r \in Slots, Record(r)
  PROVE  Life!LifeNext
<1>0. /\ h[r] \in ReqType /\ ReqOK(h[r]) /\ SlotOK(h[r]) /\ h[r].pc = "record"
      /\ Requests /\ Store /\ TypeOK /\ Apart
  BY Before DEF Record
<1>a. h[r].op = "refresh" /\ Claiming(h[r]) BY <1>0 DEF ReqOK, Claiming, Exchange
<1>b. PICK tok \in Pairs : tok = h[r].tok BY <1>0, <1>a DEF ReqOK
<1>1. next # None BY <1>0, SessionsAssumption DEF TypeOK, None
<1>2. /\ UNCHANGED <<rt, issued>>
      /\ \A p \in Pairs : rot'[p] = IF p = tok THEN next ELSE rot[p]
  BY <1>0, <1>b DEF Record, TypeOK, Links
<1>3. h'[r].pc = "create" /\ \A s \in Slots : s # r => h'[s] = h[s]
  BY <1>0 DEF Record, Requests, ReqType
<1>4. ~Claiming(h'[r]) BY <1>3 DEF Claiming, Exchange
<1>5. \A p \in Pairs : p # tok => (Claimed(p)' <=> Claimed(p))
  BY <1>b, <1>3, <1>4 DEF Claimed, Claiming
<1>6. Claimed(tok) /\ tok \in issued \ rt /\ rot[tok] = None
  BY <1>0, <1>a, <1>b DEF Claimed, SlotOK
<1>7. Stage(tok) = "claimed" BY <1>6, StageOf
<1>8. Stage(tok)' = "pending" BY <1>1, <1>2, <1>6, StageOf
<1>9. \A p \in Pairs : p # tok => Stage(p)' = Stage(p) BY <1>2, <1>5, StageOf
<1> QED BY <1>7, <1>8, <1>9, Moving

\* Tokens that are revoked, live or pending, while every claim goes on.
LEMMA RevokedLife ==
  ASSUME IInv, IInv', UNCHANGED issued, rt' \subseteq rt,
         \A p \in Pairs : rot'[p] \in {None, rot[p]},
         \A p \in Pairs : Claimed(p)' <=> Claimed(p)
  PROVE  Life!LifeNext
<1>1. ASSUME NEW p \in Pairs
      PROVE  Stage(p)' = Stage(p) \/ (Stage(p)' = "dead" /\ Stage(p) # "fresh")
  <2>1. Claimed(p) => p \notin rt /\ rot[p] = None BY ClaimedAlone
  <2>2. p \in rt => rot[p] = None BY LivingIssued
  <2> QED BY <1>1, <2>1, <2>2, StageOf
<1> QED BY <1>1, Killing

LEMMA DelPairLife ==
  ASSUME IInv, NEW r \in Slots, DelPair(r)
  PROVE  Life!LifeNext
<1>0. h[r] \in ReqType /\ h[r].pc = "del" /\ Requests BY Before DEF DelPair
<1>1. /\ h'[r].pc = "drop" /\ h'[r].op = h[r].op /\ h'[r].tok = h[r].tok
      /\ \A s \in Slots : s # r => h'[s] = h[s]
  BY <1>0 DEF DelPair, Requests, ReqType
<1>a. Claiming(h'[r]) <=> Claiming(h[r]) BY <1>0, <1>1 DEF Claiming, Exchange
<1>2. \A p \in Pairs : Claimed(p)' <=> Claimed(p) BY <1>0, <1>1, <1>a, ClaimsKept
<1>3. UNCHANGED <<issued, rot>> /\ rt' \subseteq rt BY DEF DelPair
<1>4. IInv' BY DelPairKeeps
<1> QED BY <1>2, <1>3, <1>4, RevokedLife

LEMMA DropPredecessorLife ==
  ASSUME IInv, NEW r \in Slots, DropPredecessor(r)
  PROVE  Life!LifeNext
<1>0. h[r] \in ReqType /\ h[r].pc = "settle" /\ Requests /\ TypeOK BY Before DEF DropPredecessor
<1>1. /\ h'[r].pc = AfterRevoke(h[r]) /\ h'[r].op = h[r].op /\ h'[r].tok = h[r].tok
      /\ \A s \in Slots : s # r => h'[s] = h[s]
  BY <1>0 DEF DropPredecessor, Requests, ReqType
<1>a. Claiming(h'[r]) <=> Claiming(h[r]) BY <1>0, <1>1 DEF Claiming, Exchange, AfterRevoke
<1>2. \A p \in Pairs : Claimed(p)' <=> Claimed(p) BY <1>0, <1>1, <1>a, ClaimsKept
<1>3. /\ UNCHANGED <<issued, rt>>
      /\ \A p \in Pairs : rot'[p] \in {None, rot[p]}
  BY <1>0 DEF DropPredecessor, notes, TypeOK, Links
<1>4. IInv' BY DropPredecessorKeeps
<1> QED BY <1>2, <1>3, <1>4, RevokedLife

LEMMA RevokeAllSessionsLife ==
  ASSUME IInv, NEW r \in Slots, RevokeAllSessions(r)
  PROVE  Life!LifeNext
<1>0. /\ h[r] \in ReqType /\ ReqOK(h[r]) /\ h[r].pc = "wipe" /\ Requests /\ TypeOK
  BY Before DEF RevokeAllSessions
<1>1. /\ h'[r].pc \in {"create", "erase"}
      /\ \A s \in Slots : s # r => h'[s] = h[s]
  <2> DEFINE again == [h[r] EXCEPT !.pc = "create", !.new = next]
             gone == [h[r] EXCEPT !.pc = "erase"]
  <2>1. PICK q \in {again, gone} : h' = [h EXCEPT ![r] = q] BY DEF RevokeAllSessions
  <2>2. again.pc = "create" /\ gone.pc = "erase" BY <1>0 DEF ReqType
  <2> QED BY <1>0, <2>1, <2>2 DEF Requests
<1>a. ~Claiming(h[r]) /\ ~Claiming(h'[r]) BY <1>0, <1>1 DEF Claiming, Exchange
<1>2. \A p \in Pairs : Claimed(p)' <=> Claimed(p) BY <1>0, <1>1, <1>a, ClaimsKept
<1>3. /\ UNCHANGED issued /\ rt' \subseteq rt
      /\ \A p \in Pairs : rot'[p] \in {None, rot[p]}
  BY DEF RevokeAllSessions, Wiped
<1>4. IInv' BY RevokeAllSessionsKeeps
<1> QED BY <1>2, <1>3, <1>4, RevokedLife

LEMMA StepLife ==
  ASSUME IInv, NEW r \in Slots, Step(r)
  PROVE  Life!LifeNext
<1>1. Quiet(r) => Life!LifeNext BY QuietLife
<1>2. CASE RotationStep(r)
  BY <1>1, <1>2, LookQuiet, ClaimLife, ReplayLife, UnlinkQuiet, RecordLife DEF RotationStep
<1>3. CASE CreationStep(r)
  BY <1>1, <1>3, CreateAuthLife, CarrySessionQuiet, WriteSessionQuiet DEF CreationStep
<1>4. CASE RevocationStep(r)
  BY <1>1, <1>4, GetPairQuiet, DelPairLife, DropLinkQuiet, DropPredecessorLife,
     EndSessionQuiet, WhoQuiet, ValQuiet DEF RevocationStep
<1>5. CASE ListStep(r)
  BY <1>1, <1>5, IdsQuiet, VisitQuiet, ExistsQuiet, ForgetQuiet, CurrentQuiet, PickQuiet,
     OthersDoneQuiet DEF ListStep
<1>6. CASE WipeStep(r)
  BY <1>1, <1>6, MembersQuiet, DevicesQuiet, RevokeAllSessionsLife, EraseQuiet DEF WipeStep
<1> QED BY <1>2, <1>3, <1>4, <1>5, <1>6 DEF Step

LEMMA NextLife ==
  IInv /\ [Next]_vars => [Life!LifeNext]_([p \in Pairs |-> Stage(p)])
<1> SUFFICES ASSUME IInv, [Next]_vars
             PROVE  Life!LifeNext \/ UNCHANGED [p \in Pairs |-> Stage(p)]
  OBVIOUS
<1>1. CASE UNCHANGED vars
  <2>1. UNCHANGED <<issued, rt, rot, h>> BY <1>1 DEF vars, redis, notes
  <2>2. \A p \in Pairs : Stage(p)' = Stage(p) BY <2>1 DEF Stage
  <2> QED BY <2>2, Killing
<1>2. ASSUME NEW r \in Slots, Step(r) PROVE Life!LifeNext BY <1>2, StepLife
<1>3. ASSUME NEW r \in Slots, Abandon(r) PROVE Life!LifeNext BY <1>3, AbandonQuiet, QuietLife
<1>4. ASSUME NEW r \in Slots, Fail(r) PROVE Life!LifeNext BY <1>4, FailLife
<1>5. ASSUME NEW r \in Slots, NEW c \in Clients, Arrival(r, c) PROVE Life!LifeNext
  <2>1. CASE Login(r, c) BY <2>1, LoginLife
  <2>2. CASE ~Login(r, c)
    <3>1. Quiet(r) BY <1>5, <2>2, ArrivalQuiet DEF Arrival
    <3> QED BY <3>1, QuietLife
  <2> QED BY <2>1, <2>2
<1> QED BY <1>1, <1>2, <1>3, <1>4, <1>5 DEF Next

\* Every token lives the life TokenLife promises: handed out once, exchanged by
\* one request at a time, again only while that exchange is pending, and dead
\* for good, under every interleaving and wherever requests fail.
THEOREM TokensLive == Spec => TokensLiveOnce
<1>1. Init => Life!LifeInit
  <2>1. Init => \A p \in Pairs : Stage(p) = "fresh" BY DEF Init, Stage
  <2> QED BY <2>1 DEF Life!LifeInit
<1> QED BY <1>1, Invariance, NextLife, PTL DEF Spec, TokensLiveOnce, Life!LifeSpec

=============================================================================
