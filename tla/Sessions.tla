------------------------------ MODULE Sessions ------------------------------
(***************************************************************************)
(* The sessions of one account in Redis (homl-web, persistence/user.go and *)
(* device_session.go), the requests that read and write them, and the      *)
(* devices that send those requests.  Each action of a request is one      *)
(* Redis command or one MULTI, so any two requests interleave between      *)
(* commands; a request may fail after any of them (a Redis error, the      *)
(* handler timeout, a crash) and its answer may be lost.                   *)
(*                                                                         *)
(* The access and the refresh uuid of a pair are minted together and know  *)
(* each other, so both are the number of the pair.  A device session is    *)
(* named by the pair it was opened with, its uuid being as fresh.  No key  *)
(* expires: the horizon is shorter than a token's lifetime.                *)
(***************************************************************************)
EXTENDS Integers, FiniteSets

CONSTANTS
  Clients,  \* devices of the account
  Slots,    \* bound: requests the server handles at the same time
  MaxPairs, \* bound: token pairs minted
  MaxFaults, \* bound: requests that fail and answers that are lost
  Ops,      \* the kinds of request this instance sends
  Alone     \* bound: kinds of which one request at most runs at a time

AllOps   == {"login", "refresh", "logout", "list", "revoke", "others", "password", "delete"}
Creators == {"login", "refresh", "password"} \* those that mint a pair
None     == 0
Pairs    == 1..MaxPairs

ASSUME SessionsAssumption ==
  /\ IsFiniteSet(Slots)
  /\ MaxPairs \in Nat /\ MaxFaults \in Nat
  /\ Ops \subseteq AllOps /\ Alone \subseteq Ops

VARIABLES
  \* Redis
  at,      \* pairs with a key auth:at:<access>
  rt,      \* pairs with a key auth:rt:<refresh>
  rot,     \* auth:rot:<old> -> the pair that replaces it, or None
  prev,    \* auth:prev:<new> -> the pair it replaced, or None
  sid,     \* auth:sid:<refresh> -> device session, or None
  accIdx,  \* access uuids in the set auth:user:<id>
  refIdx,  \* refresh uuids in that set
  dev,     \* auth:device:<id> -> its newest refresh uuid, or None
  devs,    \* the set auth:devices:<id>
  account, \* the account has its row in MySQL
  \* the server and the devices
  next,    \* the next pair
  h,       \* slot -> the request it runs
  hold,    \* client -> the pair it holds, or None
  faults,  \* faults so far
  \* what happened, for the properties
  issued,  \* pairs whose keys were stored
  line,    \* pair -> the device session it belongs to
  cut,     \* device sessions some sign-out has deleted tokens of
  out,     \* device sessions signed out by a request that succeeded
  lost,    \* device sessions whose token was claimed by a request that failed
  torn,    \* device sessions a failed request left half written
  stirred  \* device sessions two requests worked on at the same time

redis == <<at, rt, rot, prev, sid, accIdx, refIdx, dev, devs>>
notes == <<issued, line, cut, out, lost, torn, stirred>>
vars  == <<redis, account, next, h, hold, faults, notes>>

IdleReq == [pc |-> "idle", op |-> "none", cl |-> None, heard |-> FALSE, ok |-> FALSE,
            tok |-> None, new |-> None, mate |-> None, old |-> None, id |-> None,
            cur |-> None, ids |-> {}, kept |-> {}, accs |-> {}, refs |-> {}]

InFlight == {r \in Slots : h[r].pc # "idle"}
Lines    == {line[p] : p \in issued} \ {None}
Usable(p) == p \in rt \/ rot[p] # None \* RefreshSessionExists

\* The device sessions a request works on.
Touched(q) == CASE q.op = "login"  -> {q.new}
                [] q.op \in {"refresh", "logout"} -> {line[q.tok]}
                [] q.op = "revoke" -> q.kept
                [] OTHER           -> Pairs

\* Those that request q, arriving now, works on together with another one;
\* two requests that mint nothing do not disturb each other.
Overlap(q, others) ==
  Pairs \cap (1..next) \cap UNION {Touched(q) \cap Touched(h[s]) :
         s \in {s \in others : q.op \in Creators \/ h[s].op \in Creators}}

\* What Registration has committed; the session it goes on to open is a Login.
Init ==
  /\ at = {} /\ rt = {} /\ accIdx = {} /\ refIdx = {} /\ devs = {}
  /\ rot = [p \in Pairs |-> None] /\ prev = rot /\ sid = rot /\ dev = rot /\ line = rot
  /\ account = TRUE /\ next = 1 /\ faults = 0
  /\ h = [r \in Slots |-> IdleReq]
  /\ hold = [c \in Clients |-> None]
  /\ issued = {} /\ cut = {} /\ out = {} /\ lost = {} /\ torn = {} /\ stirred = {}

-----------------------------------------------------------------------------
(* Requests arrive. *)

\* A pair is left for one more request.
Spare == next + Cardinality({r \in InFlight : h[r].op \in Creators /\ h[r].new = None})
         <= MaxPairs

\* A device waits for one answer at a time.
Free(c) == \A r \in InFlight : ~(h[r].cl = c /\ h[r].heard)

Arrive(r, q) ==
  /\ h[r].pc = "idle"
  /\ q.op \in Ops
  /\ Free(q.cl)
  /\ q.op \in Creators => Spare
  /\ q.op \in Alone => \A s \in InFlight : h[s].op \notin Alone
  /\ h' = [h EXCEPT ![r] = q]
  /\ stirred' = stirred \cup Overlap(q, InFlight)
  /\ UNCHANGED <<redis, account, hold, faults, issued, cut, out, lost, torn>>

Req(op, c, pc, p) == [IdleReq EXCEPT !.op = op, !.cl = c, !.pc = pc, !.tok = p, !.heard = TRUE]

\* The password was right; createSession mints the pair.
Login(r, c) ==
  /\ account /\ hold[c] = None
  /\ Arrive(r, [Req("login", c, "create", None) EXCEPT !.new = next])
  /\ next' = next + 1
  /\ line' = [line EXCEPT ![next] = next]

\* The factors were right: see Credentials for them.
Refresh(r, c) ==
  /\ account /\ hold[c] # None
  /\ Arrive(r, Req("refresh", c, "look", hold[c]))
  /\ UNCHANGED <<next, line>>

\* The token middleware lets a request through only with a live access token.
Admitted(c) == hold[c] \in at

Logout(r, c) ==
  /\ Admitted(c)
  /\ Arrive(r, Req("logout", c, "who", hold[c]))
  /\ UNCHANGED <<next, line>>

ListSessions(r, c) ==
  /\ Admitted(c)
  /\ Arrive(r, Req("list", c, "ids", hold[c]))
  /\ UNCHANGED <<next, line>>

RevokeOtherSessions(r, c) ==
  /\ Admitted(c)
  /\ Arrive(r, Req("others", c, "ids", hold[c]))
  /\ UNCHANGED <<next, line>>

\* One device is picked from a list the client was shown, however old.
RevokeSession(r, c) ==
  /\ Admitted(c)
  /\ \E d \in Lines :
       Arrive(r, [Req("revoke", c, "pick", hold[c]) EXCEPT !.kept = {d}])
  /\ UNCHANGED <<next, line>>

\* UpdatePassword with a live session, or ConfirmResetPassword without one.
\* The new password is stored; the sessions go before the new one is opened.
UpdatePassword(r, c) ==
  /\ account /\ (Admitted(c) \/ hold[c] = None)
  /\ Arrive(r, Req("password", c, "members", hold[c]))
  /\ UNCHANGED <<next, line>>

DeleteAccount(r, c) ==
  /\ account /\ Admitted(c)
  /\ Arrive(r, Req("delete", c, "members", hold[c]))
  /\ UNCHANGED <<next, line>>
-----------------------------------------------------------------------------
(* The answer, if the device still waits for it: the pair it holds then.   *)

Answer(r, got) ==
  /\ h' = [h EXCEPT ![r] = IdleReq]
  /\ hold' = IF h[r].heard THEN [hold EXCEPT ![h[r].cl] = got] ELSE hold

Refused(r) == Answer(r, hold[h[r].cl]) \* an error other than a 401 changes nothing

Goto(r, pc) == h' = [h EXCEPT ![r].pc = pc] /\ UNCHANGED hold

-----------------------------------------------------------------------------
(* The refresh: RotateSession and retireRefresh.                           *)

\* Variant: a token that is gone is refused, whether or not its rotation is pending.
LookOnce(r) ==
  /\ h[r].pc = "look"
  /\ Goto(r, "claim")
  /\ UNCHANGED <<redis, account, next, faults, notes>>

\* GET auth:rt:<tok>.
Look(r) ==
  /\ h[r].pc = "look"
  /\ Goto(r, IF h[r].tok \in rt THEN "claim" ELSE "replay")
  /\ UNCHANGED <<redis, account, next, faults, notes>>

\* Variant: what DEL deleted is not looked at.
ClaimAnyway(r) ==
  LET tok == h[r].tok IN
  /\ h[r].pc = "claim"
  /\ rt' = rt \ {tok} /\ at' = at \ {tok} /\ accIdx' = accIdx \ {tok}
  /\ h' = [h EXCEPT ![r].pc = "drop", ![r].mate = tok]
  /\ UNCHANGED <<rot, prev, sid, refIdx, dev, devs, account, next, hold, faults, notes>>

\* MULTI: a live token gives up its pair.  It stays in the index while its
\* rotation is pending.  Nothing deleted: another refresh of it came first.
Claim(r) ==
  LET tok == h[r].tok IN
  /\ h[r].pc = "claim"
  /\ rt' = rt \ {tok} /\ at' = at \ {tok} /\ accIdx' = accIdx \ {tok}
  /\ IF tok \in rt
     THEN h' = [h EXCEPT ![r].pc = "drop", ![r].mate = tok] /\ UNCHANGED hold
     ELSE Answer(r, None)
  /\ UNCHANGED <<rot, prev, sid, refIdx, dev, devs, account, next, faults, notes>>

\* Variant: the pair handed out before is not revoked.
ReplayBeside(r) ==
  LET tok == h[r].tok IN
  /\ h[r].pc = "replay"
  /\ rot' = [rot EXCEPT ![tok] = None]
  /\ IF rot[tok] = None
     THEN Answer(r, None)
     ELSE h' = [h EXCEPT ![r].pc = "record"] /\ UNCHANGED hold
  /\ UNCHANGED <<at, rt, prev, sid, accIdx, refIdx, dev, devs, account, next, faults, notes>>

\* MULTI PTTL, GETDEL auth:rot:<tok>: a replay of a rotation still pending.
Replay(r) ==
  LET tok == h[r].tok IN
  /\ h[r].pc = "replay"
  /\ rot' = [rot EXCEPT ![tok] = None]
  /\ IF rot[tok] = None
     THEN Answer(r, None)
     ELSE h' = [h EXCEPT ![r].pc = "unlink", ![r].mate = rot[tok]] /\ UNCHANGED hold
  /\ UNCHANGED <<at, rt, prev, sid, accIdx, refIdx, dev, devs, account, next, faults, notes>>

\* Variant: the unused pair keeps its link to tok.
LinkKept(r) ==
  /\ h[r].pc = "unlink"
  /\ Goto(r, "get")
  /\ UNCHANGED <<redis, account, next, faults, notes>>

\* DEL auth:prev:<unused>, so that revoking the unused pair keeps tok.
Unlink(r) ==
  /\ h[r].pc = "unlink"
  /\ prev' = [prev EXCEPT ![h[r].mate] = None]
  /\ Goto(r, "get")
  /\ UNCHANGED <<at, rt, rot, sid, accIdx, refIdx, dev, devs, account, next, faults, notes>>

\* Variant: the rotation is not on record.
RecordLess(r) ==
  LET tok == h[r].tok IN
  /\ h[r].pc = "record"
  /\ next <= MaxPairs
  /\ prev' = [prev EXCEPT ![next] = tok]
  /\ line' = [line EXCEPT ![next] = line[tok]]
  /\ next' = next + 1
  /\ h' = [h EXCEPT ![r].pc = "create", ![r].new = next, ![r].mate = None]
  /\ UNCHANGED <<at, rt, rot, sid, accIdx, refIdx, dev, devs, account, hold, faults,
                 issued, cut, out, lost, torn, stirred>>

\* MULTI: the rotation is on record before the new pair exists.
Record(r) ==
  LET tok == h[r].tok IN
  /\ h[r].pc = "record"
  /\ next <= MaxPairs
  /\ rot' = [rot EXCEPT ![tok] = next]
  /\ prev' = [prev EXCEPT ![next] = tok]
  /\ line' = [line EXCEPT ![next] = line[tok]]
  /\ next' = next + 1
  /\ h' = [h EXCEPT ![r].pc = "create", ![r].new = next, ![r].mate = None]
  /\ UNCHANGED <<at, rt, sid, accIdx, refIdx, dev, devs, account, hold, faults,
                 issued, cut, out, lost, torn, stirred>>

-----------------------------------------------------------------------------
(* A pair is stored, and a device session around it.                       *)

\* CreateAuth, one MULTI.
CreateAuth(r) ==
  LET new == h[r].new IN
  /\ h[r].pc = "create"
  /\ at' = at \cup {new} /\ rt' = rt \cup {new}
  /\ accIdx' = accIdx \cup {new} /\ refIdx' = refIdx \cup {new}
  /\ issued' = issued \cup {new}
  /\ h' = IF h[r].op = "refresh" THEN [h EXCEPT ![r].pc = "carry"]
          ELSE [h EXCEPT ![r].pc = "write", ![r].id = new]
  /\ UNCHANGED <<rot, prev, sid, dev, devs, account, next, hold, faults,
                 line, cut, out, lost, torn, stirred>>

\* carrySession: GET auth:sid:<tok>; without one a device session is opened.
CarrySession(r) ==
  LET found == sid[h[r].tok] IN
  /\ h[r].pc = "carry"
  /\ h' = [h EXCEPT ![r].pc = "write", ![r].id = IF found = None THEN h[r].new ELSE found]
  /\ UNCHANGED <<redis, account, next, hold, faults, notes>>

\* writeSession, one MULTI; the request is over.
WriteSession(r) ==
  LET q == h[r] IN
  /\ q.pc = "write"
  /\ dev' = [dev EXCEPT ![q.id] = q.new]
  /\ sid' = [sid EXCEPT ![q.new] = q.id]
  /\ devs' = devs \cup {q.id}
  /\ torn' = torn \ ({line[q.new]} \ out)
  /\ Answer(r, q.new)
  /\ UNCHANGED <<at, rt, rot, prev, accIdx, refIdx, account, next, faults,
                 issued, line, cut, out, lost, stirred>>

-----------------------------------------------------------------------------
(* A pair is revoked: revokeSession and dropPredecessor.                   *)

AfterRevoke(q) == IF q.op = "refresh" THEN "record" ELSE "end"

\* GET the key of the pair: the access one for a logout.
GetPair(r) ==
  LET q == h[r] IN
  /\ q.pc = "get"
  /\ Goto(r, IF q.mate \in (IF q.op = "logout" THEN at ELSE rt) THEN "del" ELSE AfterRevoke(q))
  /\ UNCHANGED <<redis, account, next, faults, notes>>

\* MULTI: both halves, the pointer to the device session, the index.
DelPair(r) ==
  LET q == h[r] IN
  /\ q.pc = "del"
  /\ rt' = rt \ {q.mate} /\ at' = at \ {q.mate}
  /\ accIdx' = accIdx \ {q.mate} /\ refIdx' = refIdx \ {q.mate}
  /\ sid' = [sid EXCEPT ![q.mate] = None]
  /\ h' = [h EXCEPT ![r].pc = "drop", ![r].ok = q.op = "logout" /\ q.mate \in at \cup rt]
  /\ cut' = IF q.op = "refresh" THEN cut ELSE cut \cup {line[q.mate]}
  /\ UNCHANGED <<rot, prev, dev, devs, account, next, hold, faults,
                 issued, line, out, lost, torn, stirred>>

\* GETDEL auth:prev:<mate>.
DropLink(r) ==
  LET q == h[r]  previous == prev[q.mate] IN
  /\ q.pc = "drop"
  /\ prev' = [prev EXCEPT ![q.mate] = None]
  /\ h' = [h EXCEPT ![r].pc = IF previous = None THEN AfterRevoke(q) ELSE "settle",
                    ![r].old = previous]
  /\ UNCHANGED <<at, rt, rot, sid, accIdx, refIdx, dev, devs, account, next, hold, faults, notes>>

\* MULTI: the token that rotation replaced can no longer replay it.
DropPredecessor(r) ==
  LET q == h[r] IN
  /\ q.pc = "settle"
  /\ rot' = [rot EXCEPT ![q.old] = None]
  /\ sid' = [sid EXCEPT ![q.old] = None]
  /\ refIdx' = refIdx \ {q.old}
  /\ h' = [h EXCEPT ![r].pc = AfterRevoke(q), ![r].old = None]
  /\ UNCHANGED <<at, rt, prev, accIdx, dev, devs, account, next, hold, faults, notes>>

\* endSession, when the request knows one, and the answer.  RevokeOtherSessions
\* goes on with the next device.
EndSession(r) ==
  LET q == h[r]
      succeeds == q.op = "revoke" \/ (q.op = "logout" /\ q.ok) IN
  /\ q.pc = "end"
  /\ dev' = IF q.id = None THEN dev ELSE [dev EXCEPT ![q.id] = None]
  /\ devs' = devs \ {q.id}
  /\ out' = IF succeeds THEN out \cup {IF q.op = "revoke" THEN q.id ELSE line[q.tok]} ELSE out
  /\ CASE q.op = "others" ->
            /\ h' = [h EXCEPT ![r].pc = "pick", ![r].kept = @ \ {q.id},
                              ![r].id = None, ![r].mate = None]
            /\ UNCHANGED hold
       [] q.op = "logout" /\ q.ok -> Answer(r, None)
       [] OTHER -> Refused(r)
  /\ UNCHANGED <<at, rt, rot, prev, sid, accIdx, refIdx, account, next, faults,
                 issued, line, cut, lost, torn, stirred>>

-----------------------------------------------------------------------------
(* A logout reads the device session of its access token, then the token.  *)

Who(r) ==
  LET tok == h[r].tok IN
  /\ h[r].pc = "who"
  /\ h' = [h EXCEPT ![r].pc = "val", ![r].mate = tok,
                    ![r].id = IF tok \in at THEN sid[tok] ELSE None]
  /\ UNCHANGED <<redis, account, next, hold, faults, notes>>

\* Gone meanwhile: nothing is deleted and the answer is an error.
Val(r) ==
  /\ h[r].pc = "val"
  /\ IF h[r].tok \in at THEN Goto(r, "get") ELSE Refused(r)
  /\ UNCHANGED <<redis, account, next, faults, notes>>

-----------------------------------------------------------------------------
(* The list of devices, which forgets the dead ones on the way.            *)

\* SMEMBERS auth:devices.
Ids(r) ==
  /\ h[r].pc = "ids"
  /\ h' = [h EXCEPT ![r].pc = "visit", ![r].ids = devs]
  /\ UNCHANGED <<redis, account, next, hold, faults, notes>>

\* HGETALL of one device, in no particular order; or the list is complete.
Visit(r) ==
  LET q == h[r] IN
  /\ q.pc = "visit"
  /\ \/ /\ q.ids = {}
        /\ IF q.op = "list" THEN Refused(r) ELSE Goto(r, "current")
     \/ \E d \in q.ids :
          /\ h' = [h EXCEPT ![r].pc = IF dev[d] = None THEN "forget" ELSE "exists",
                            ![r].id = d, ![r].mate = dev[d]]
          /\ UNCHANGED hold
  /\ UNCHANGED <<redis, account, next, faults, notes>>

\* EXISTS of the newest token's two keys.
Exists(r) ==
  LET q == h[r] IN
  /\ q.pc = "exists"
  /\ h' = IF Usable(q.mate)
          THEN [h EXCEPT ![r].pc = "visit", ![r].ids = @ \ {q.id}, ![r].kept = @ \cup {q.id},
                         ![r].id = None, ![r].mate = None]
          ELSE [h EXCEPT ![r].pc = "forget"]
  /\ UNCHANGED <<redis, account, next, hold, faults, notes>>

\* endSession of a dead device.
Forget(r) ==
  LET q == h[r] IN
  /\ q.pc = "forget"
  /\ dev' = [dev EXCEPT ![q.id] = None]
  /\ devs' = devs \ {q.id}
  /\ h' = [h EXCEPT ![r].pc = "visit", ![r].ids = @ \ {q.id},
                    ![r].id = None, ![r].mate = None]
  /\ UNCHANGED <<at, rt, rot, prev, sid, accIdx, refIdx, account, next, hold, faults, notes>>

\* RevokeOtherSessions: SessionOfAccess, the device asking is spared.
Current(r) ==
  LET q == h[r]  cur == IF q.tok \in at THEN sid[q.tok] ELSE None IN
  /\ q.pc = "current"
  /\ h' = [h EXCEPT ![r].pc = "pick", ![r].cur = cur, ![r].kept = @ \ {cur}]
  /\ UNCHANGED <<redis, account, next, hold, faults, notes>>

\* HGETALL of a device to sign out.  Without a hash, one device is a 404, and
\* one of several is passed over.
Pick(r) ==
  LET q == h[r] IN
  /\ q.pc = "pick"
  /\ \E d \in q.kept :
       IF dev[d] # None
       THEN /\ h' = [h EXCEPT ![r].pc = "get", ![r].id = d, ![r].mate = dev[d]]
            /\ UNCHANGED hold
       ELSE IF q.op = "revoke" THEN Refused(r)
       ELSE h' = [h EXCEPT ![r].kept = @ \ {d}] /\ UNCHANGED hold
  /\ UNCHANGED <<redis, account, next, faults, notes>>

OthersDone(r) ==
  LET q == h[r] IN
  /\ q.pc = "pick" /\ q.kept = {}
  /\ out' = out \cup (Lines \ {q.cur})
  /\ Refused(r)
  /\ UNCHANGED <<redis, account, next, faults, issued, line, cut, lost, torn, stirred>>

-----------------------------------------------------------------------------
(* RevokeAllSessions, then a new session or the end of the account.        *)

\* Variant: the access uuids of the index are passed over.
MembersRefreshOnly(r) ==
  /\ h[r].pc = "members"
  /\ h' = [h EXCEPT ![r].pc = "devices", ![r].refs = refIdx]
  /\ UNCHANGED <<redis, account, next, hold, faults, notes>>

\* SMEMBERS auth:user.
Members(r) ==
  /\ h[r].pc = "members"
  /\ h' = [h EXCEPT ![r].pc = "devices", ![r].accs = accIdx, ![r].refs = refIdx]
  /\ UNCHANGED <<redis, account, next, hold, faults, notes>>

\* SMEMBERS auth:devices.
Devices(r) ==
  /\ h[r].pc = "devices"
  /\ h' = [h EXCEPT ![r].pc = "wipe", ![r].ids = devs]
  /\ UNCHANGED <<redis, account, next, hold, faults, notes>>

\* Variants: only the tokens themselves go; the entries go with their keys.
Spared(f, S)   == [p \in Pairs |-> f[p]]
WipedOut(f, S) == [p \in Pairs \ S |-> f[p]]

\* One DEL of every key an index entry may have, and of the indexes.
Wiped(f, S) == [p \in Pairs |-> IF p \in S THEN None ELSE f[p]]

RevokeAllSessions(r) ==
  LET q == h[r] IN
  /\ q.pc = "wipe"
  /\ q.op = "password" => next <= MaxPairs
  /\ at' = at \ q.accs /\ rt' = rt \ q.refs
  /\ rot' = Wiped(rot, q.refs) /\ prev' = Wiped(prev, q.refs) /\ sid' = Wiped(sid, q.refs)
  /\ dev' = Wiped(dev, q.ids)
  /\ accIdx' = {} /\ refIdx' = {} /\ devs' = {}
  /\ cut' = cut \cup Lines /\ out' = out \cup Lines
  /\ IF q.op = "password"
     THEN LET q2 == [q EXCEPT !.pc = "create", !.new = next] IN
          /\ h' = [h EXCEPT ![r] = q2]
          /\ next' = next + 1
          /\ line' = [line EXCEPT ![next] = next]
          /\ stirred' = stirred \cup
               (IF InFlight \ {r} # {} THEN {next} ELSE {})
     ELSE /\ h' = [h EXCEPT ![r].pc = "erase"]
          /\ UNCHANGED <<next, line, stirred>>
  /\ UNCHANGED <<account, hold, faults, issued, lost, torn>>

\* The reset codes go, then the row and all it owns.
Erase(r) ==
  /\ h[r].pc = "erase"
  /\ account' = FALSE
  /\ Answer(r, None)
  /\ UNCHANGED <<redis, next, faults, notes>>

-----------------------------------------------------------------------------
(* Faults.                                                                 *)

\* The device stops waiting; the server goes on.
Abandon(r) ==
  /\ h[r].pc # "idle" /\ h[r].heard
  /\ faults < MaxFaults /\ faults' = faults + 1
  /\ h' = [h EXCEPT ![r].heard = FALSE]
  /\ UNCHANGED <<redis, account, next, hold, notes>>

\* A refresh between taking its token and naming the pair that replaces it.
Exchange == {"drop", "settle", "unlink", "get", "del", "record"}
Claiming(q) == q.op = "refresh" /\ q.pc \in Exchange

\* The request ends after any command, with an error the device keeps its
\* session on.
Fail(r) ==
  LET q == h[r] IN
  /\ q.pc # "idle"
  /\ faults < MaxFaults /\ faults' = faults + 1
  /\ h' = [h EXCEPT ![r] = IdleReq]
  /\ lost' = IF Claiming(q) THEN lost \cup {line[q.tok]} ELSE lost
  /\ torn' = CASE q.pc \in {"drop", "settle"} -> torn \cup {line[q.mate]}
               [] q.pc \in {"carry", "write"} -> torn \cup {line[q.new]}
               [] q.pc = "create" /\ q.op = "refresh" -> torn \cup {line[q.new]}
               [] OTHER -> torn
  /\ UNCHANGED <<redis, account, next, hold, issued, line, cut, out, stirred>>

-----------------------------------------------------------------------------
RotationStep(r) == Look(r) \/ Claim(r) \/ Replay(r) \/ Unlink(r) \/ Record(r)
CreationStep(r) == CreateAuth(r) \/ CarrySession(r) \/ WriteSession(r)
RevocationStep(r) == GetPair(r) \/ DelPair(r) \/ DropLink(r) \/ DropPredecessor(r)
                     \/ EndSession(r) \/ Who(r) \/ Val(r)
ListStep(r) == Ids(r) \/ Visit(r) \/ Exists(r) \/ Forget(r) \/ Current(r) \/ Pick(r)
               \/ OthersDone(r)
WipeStep(r) == Members(r) \/ Devices(r) \/ RevokeAllSessions(r) \/ Erase(r)

Step(r) == RotationStep(r) \/ CreationStep(r) \/ RevocationStep(r) \/ ListStep(r) \/ WipeStep(r)

Arrival(r, c) ==
  \/ Login(r, c) \/ Refresh(r, c) \/ Logout(r, c) \/ ListSessions(r, c)
  \/ RevokeOtherSessions(r, c) \/ RevokeSession(r, c) \/ UpdatePassword(r, c)
  \/ DeleteAccount(r, c)

Next == \E r \in Slots : Step(r) \/ Abandon(r) \/ Fail(r) \/ \E c \in Clients : Arrival(r, c)

Spec == Init /\ [][Next]_vars

\* A request the server runs goes on, and a device whose session is kept tries
\* again (the probe of the app, api.dart), its other requests notwithstanding;
\* nothing else has to come.
Fairness ==
  /\ \A r \in Slots : WF_vars(Step(r))
  /\ \A c \in Clients : SF_vars(\E r \in Slots : Refresh(r, c))

FairSpec == Spec /\ Fairness

-----------------------------------------------------------------------------
(* Properties.                                                             *)

ReqType ==
  [pc : {"idle", "look", "claim", "replay", "unlink", "get", "del", "drop", "settle",
         "record", "create", "carry", "write", "end", "who", "val", "ids", "visit",
         "exists", "forget", "current", "pick", "members", "devices", "wipe", "erase"},
   op : AllOps \cup {"none"}, cl : Clients \cup {None}, heard : BOOLEAN, ok : BOOLEAN,
   tok : 0..MaxPairs, new : 0..MaxPairs, mate : 0..MaxPairs, old : 0..MaxPairs,
   id : 0..MaxPairs, cur : 0..MaxPairs, ids : SUBSET Pairs, kept : SUBSET Pairs,
   accs : SUBSET Pairs, refs : SUBSET Pairs]

Links == [Pairs -> 0..MaxPairs]

\* The variables keep their types.
TypeOK ==
  /\ at \subseteq Pairs /\ rt \subseteq Pairs /\ accIdx \subseteq Pairs
  /\ refIdx \subseteq Pairs /\ devs \subseteq Pairs /\ issued \subseteq Pairs
  /\ rot \in Links /\ prev \in Links /\ sid \in Links /\ dev \in Links /\ line \in Links
  /\ account \in BOOLEAN /\ next \in 1..(MaxPairs + 1)
  /\ h \in [Slots -> ReqType]
  /\ hold \in [Clients -> 0..MaxPairs] /\ faults \in 0..MaxFaults
  /\ cut \subseteq 0..MaxPairs /\ out \subseteq 0..MaxPairs /\ lost \subseteq 0..MaxPairs
  /\ torn \subseteq 0..MaxPairs /\ stirred \subseteq 0..MaxPairs

Busy(l) == \E r \in InFlight : l \in Touched(h[r])
Revoking(l) ==
  \E r \in InFlight : h[r].pc \in {"drop", "settle"} /\ line[h[r].mate] = l
Refreshing(l) == \E r \in InFlight : h[r].op = "refresh" /\ line[h[r].tok] = l

\* The halves of a pair die together, however requests interleave: no access
\* token is accepted once its refresh token was claimed or revoked.
PairsDieTogether == at \subseteq rt

\* A device that is signed out, by itself, from the list, as one of the others
\* or by a change of password, holds no token that still works, even a
\* token whose rotation was pending.
SignedOutStaysOut ==
  \A p \in Pairs :
    line[p] \in out \ (stirred \cup torn) /\ ~Revoking(line[p]) => ~Usable(p) /\ p \notin at

\* Whatever answers were lost, a device nobody signed out holds a token that
\* still refreshes.
LostAnswerKeeps ==
  \A c \in Clients :
    LET p == hold[c] IN
    p # None /\ ~Refreshing(line[p]) /\ line[p] \notin cut \cup lost \cup stirred => Usable(p)

\* The list shows every device that can still refresh, under its newest token.
DevicesListed ==
  \A c \in Clients :
    LET p == hold[c]  l == line[p] IN
    p # None /\ ~Refreshing(l) /\ l \notin cut \cup lost \cup stirred \cup torn
      => l \in devs /\ dev[l] # None /\ Usable(dev[l])

\* Between requests a device session has one live pair at most, and a rotation
\* still pending leads to it and back.
PendingLeadsToLive ==
  /\ \A p, q \in rt : line[p] = line[q] /\ ~Busy(line[p]) /\ line[p] \notin stirred \cup torn
       => p = q
  /\ \A p \in Pairs :
       rot[p] # None /\ ~Busy(line[p]) /\ line[p] \notin stirred \cup torn
         => rot[p] \in rt /\ prev[rot[p]] = p

\* Each token lives the life TokenLife promises, under every interleaving.
Stage(p) == IF p \notin issued THEN "fresh"
            ELSE IF p \in rt THEN "live"
            ELSE IF rot[p] # None THEN "pending"
            ELSE IF \E r \in Slots : Claiming(h[r]) /\ h[r].tok = p THEN "claimed"
            ELSE "dead"

\* A device that keeps trying gets a new pair in the end, however many answers
\* were lost, unless its session is signed out, its token was lost to a
\* failure, or two requests met on it.  (Pairs must be left for the attempts.)
RetryDelivers ==
  \A c \in Clients : \A p \in Pairs :
    (hold[c] = p /\ next + Cardinality(Slots) + MaxFaults - faults <= MaxPairs)
      ~> (hold[c] \notin {p, None} \/ line[p] \in cut \cup lost \cup stirred)

Life == INSTANCE TokenLife WITH Tokens <- Pairs, st <- [p \in Pairs |-> Stage(p)]
TokensLiveOnce == Life!LifeSpec
=============================================================================
