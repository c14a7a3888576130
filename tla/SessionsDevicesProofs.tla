----------------------- MODULE SessionsDevicesProofs -----------------------
(***************************************************************************)
(* Theorems about the sessions as the devices know them: what is signed    *)
(* out stays out, what is not keeps a token that refreshes, and the list   *)
(* shows it; for every number of devices, requests, pairs and faults.      *)
(*                                                                         *)
(* A pair belongs to a line, the device session it was minted for.  Two    *)
(* requests that meet on a line, one of them minting, leave it stirred; on *)
(* any other, a request that mints is alone.                               *)
(***************************************************************************)
EXTENDS SessionsProofs

-----------------------------------------------------------------------------
(* Lines, and who works on them.                                           *)

Storing == {"create", "carry", "write"}
Revokes == {"get", "del", "drop", "settle"}
Minted  == {p \in Pairs : p < next}
Roots   == {l \in Minted : line[l] = l}

\* Whatever a key of a pair names is of the pair's line.
Lined ==
  /\ \A p \in Minted : line[p] \in Roots
  /\ \A p \in Pairs \ Minted : line[p] = None
  /\ \A p \in issued : line[p] \in issued
  /\ \A p \in Pairs : rot[p] # None => rot[p] \in Minted /\ line[rot[p]] = line[p] /\ p < rot[p]
  /\ \A p \in Pairs : prev[p] # None => p \in Minted /\ prev[p] < p /\ line[prev[p]] = line[p]
  /\ \A p \in Pairs : sid[p] # None => sid[p] \in Minted /\ line[sid[p]] = line[p]
  /\ \A d \in Pairs : dev[d] # None => d \in Minted /\ dev[d] \in Minted /\ line[dev[d]] = line[d]
  /\ out \cap Pairs \subseteq Minted

\* The steps each kind of request takes.
Runs(q) ==
  /\ q.pc \in {"ids", "visit", "exists", "forget"} => q.op \in {"list", "others"}
  /\ q.pc = "current" => q.op = "others"
  /\ q.pc = "pick" => q.op \in {"revoke", "others"}
  /\ q.pc \in Revokes => q.op \in {"refresh", "logout", "revoke", "others"}
  /\ q.pc = "end" => q.op \in {"logout", "revoke", "others"}
  /\ q.pc \in {"who", "val"} => q.op = "logout"
  /\ q.pc \in {"members", "devices", "wipe"} => q.op \in {"password", "delete"}
  /\ q.pc \in Storing => q.op \in Creators
  /\ q.op = "login" => q.new \in Minted /\ q.pc \in Storing
  /\ q.op = "revoke" => q.kept \subseteq Roots /\ q.kept # {}
  /\ q.heard => q.pc # "idle" /\ q.cl \in Clients
  /\ q.op # "none" => q.pc # "idle"

\* The pairs a request works on are of one line.
ReqLine(q) ==
  /\ q.op \in {"refresh", "logout"} => q.tok \in issued
  /\ q.pc \in Revokes \cup {"unlink"} => q.mate \in Minted
  /\ q.op = "refresh" /\ q.pc \in Revokes \cup {"unlink"} => line[q.mate] = line[q.tok]
  /\ q.op = "refresh" /\ q.pc \in {"unlink", "get", "del"} => q.tok < q.mate
  /\ q.op = "logout" /\ q.pc \in Revokes \cup {"val"} => q.mate = q.tok
  /\ q.op = "logout" /\ q.id # None => q.id \in Minted /\ line[q.id] = line[q.tok]
  /\ q.op \in {"revoke", "others"} /\ q.pc \in Revokes => line[q.mate] = line[q.id]
  /\ q.op \in {"revoke", "others"} /\ q.pc \in Revokes \cup {"end"}
       => q.id \in q.kept /\ q.id \in Minted
  /\ q.pc = "exists" => q.id \in Minted /\ q.mate \in Minted /\ line[q.mate] = line[q.id]
  /\ q.pc = "settle" => q.old \in Pairs /\ q.old < q.mate /\ line[q.old] = line[q.mate]
  /\ q.op # "refresh" /\ q.pc \in {"drop", "settle"} => line[q.mate] \in cut
  /\ q.pc \in Storing => /\ q.new \in Minted
                         /\ line[q.new] = IF q.op = "refresh" THEN line[q.tok] ELSE q.new
  /\ q.pc \in {"carry", "write"} => q.new \in issued
  /\ q.pc = "write" => q.id \in Minted /\ line[q.id] = line[q.new]

\* A device holds a token of its own line, and its refresh exchanges that one.
Holders ==
  /\ \A c \in Clients : hold[c] # None => hold[c] \in issued
  /\ \A c, d \in Clients : c # d /\ hold[c] # None /\ hold[d] # None
       => line[hold[c]] # line[hold[d]]
  /\ \A r \in Slots : h[r].pc \in Storing /\ h[r].op # "refresh" =>
       \A c \in Clients : hold[c] # None => line[hold[c]] # h[r].new
  /\ \A r, s \in Slots : r # s /\ h[r].pc \in Storing /\ h[s].pc \in Storing
       /\ h[r].op # "refresh" /\ h[s].op # "refresh" => h[r].new # h[s].new
  /\ \A r, s \in Slots : r # s /\ h[r].heard /\ h[s].heard => h[r].cl # h[s].cl
  /\ \A r \in Slots : h[r].op = "refresh" /\ h[r].heard => hold[h[r].cl] = h[r].tok
  /\ \A r \in Slots : h[r].op = "refresh" /\ line[h[r].tok] \notin stirred =>
       \A c \in Clients : hold[c] # None /\ line[hold[c]] = line[h[r].tok] => hold[c] = h[r].tok

\* Requests that met, one of them minting, stirred the line.
Meets ==
  \A r, s \in Slots : r # s /\ h[r].op \in Creators /\ h[s].pc # "idle" =>
    Touched(h[r]) \cap Touched(h[s]) \cap Roots \subseteq stirred

Aligned == Lined /\ (\A r \in Slots : Runs(h[r]) /\ ReqLine(h[r])) /\ Holders /\ Meets


-----------------------------------------------------------------------------
(* A request goes on, or ends, without minting.                            *)

\* q is the request u, further on.
Same(q, u) ==
  /\ q.op = u.op /\ q.tok = u.tok /\ q.cl = u.cl /\ (q.heard => u.heard)
  /\ q.pc # "idle" /\ u.pc # "idle"
  /\ q.op = "login" => q.new = u.new
  /\ q.op = "revoke" => q.kept = u.kept
  /\ q.pc \in Storing /\ q.op # "refresh" => u.pc \in Storing /\ q.new = u.new

\* No key names anything new; what is noted only grows.
Fewer ==
  /\ \A p \in Pairs : /\ rot'[p] \in {rot[p], None} /\ prev'[p] \in {prev[p], None}
                      /\ sid'[p] \in {sid[p], None} /\ dev'[p] \in {dev[p], None}
  /\ UNCHANGED <<line, next>>
  /\ issued \subseteq issued' /\ cut \subseteq cut' /\ stirred \subseteq stirred'
  /\ out' \cap Pairs \subseteq Minted

LEMMA FewerLined == ASSUME Lined, Fewer, UNCHANGED issued PROVE Lined'
<1>1. Minted' = Minted /\ Roots' = Roots
  BY DEF Fewer, Minted, Roots
<1> QED BY <1>1 DEF Lined, Fewer

LEMMA ReqLineStays ==
  ASSUME NEW q, ReqLine(q), UNCHANGED <<line, next>>, issued \subseteq issued', cut \subseteq cut'
  PROVE  ReqLine(q)'
<1>1. Minted' = Minted BY DEF Minted
<1> QED BY <1>1 DEF ReqLine

LEMMA RunsStays ==
  ASSUME NEW q, Runs(q), UNCHANGED <<line, next>>
  PROVE  Runs(q)'
<1>1. Minted' = Minted /\ Roots' = Roots BY DEF Minted, Roots
<1> QED BY <1>1 DEF Runs

\* What the others are at, one request going on as q.
LEMMA OtherSlots ==
  ASSUME IInv, NEW r \in Slots, NEW q, h' = [h EXCEPT ![r] = q]
  PROVE  h'[r] = q /\ \A s \in Slots : s # r => h'[s] = h[s]
BY DEF IInv, TypeOK

LEMMA MeetsStays ==
  ASSUME IInv, Meets, NEW r \in Slots, NEW q, h' = [h EXCEPT ![r] = q],
         Same(q, h[r]) \/ q = IdleReq,
         UNCHANGED <<line, next>>, stirred \subseteq stirred'
  PROVE  Meets'
<1>1. h'[r] = q /\ \A s \in Slots : s # r => h'[s] = h[s] BY OtherSlots
<1>2. Roots' = Roots BY DEF Roots, Minted
<1>3. CASE q = IdleReq
  <2>1. q.op \notin Creators /\ q.pc = "idle" BY <1>3 DEF IdleReq, Creators
  <2> QED BY <1>1, <1>2, <2>1 DEF Meets, Touched
<1>4. CASE Same(q, h[r])
  <2>1. Touched(q) = Touched(h[r]) /\ q.op = h[r].op /\ h[r].pc # "idle"
    BY <1>4 DEF Same, Touched
  <2>2. \A s \in Slots : /\ Touched(h[s])' = Touched(h[s]) /\ h'[s].op = h[s].op
                         /\ h'[s].pc # "idle" => h[s].pc # "idle"
    BY <1>1, <2>1 DEF Touched
  <2> QED BY <1>2, <2>2 DEF Meets
<1> QED BY <1>3, <1>4

LEMMA HoldersStay ==
  ASSUME IInv, Holders, NEW r \in Slots, NEW q, h' = [h EXCEPT ![r] = q],
         Same(q, h[r]), UNCHANGED <<line, next, hold>>,
         issued \subseteq issued', stirred \subseteq stirred'
  PROVE  Holders'
<1>1. h'[r] = q /\ \A s \in Slots : s # r => h'[s] = h[s] BY OtherSlots
<1>2. \A s \in Slots :
        /\ h'[s].op = h[s].op /\ h'[s].tok = h[s].tok /\ h'[s].cl = h[s].cl
        /\ h'[s].heard => h[s].heard
        /\ h'[s].pc \in Storing /\ h'[s].op # "refresh" =>
             h[s].pc \in Storing /\ h'[s].new = h[s].new
  BY <1>1 DEF Same
<1> QED BY <1>2 DEF Holders

\* The end of a request: only the device that hears it may lose its token.
LEMMA HoldersEnd ==
  ASSUME IInv, Holders, \A s \in Slots : Runs(h[s]),
         NEW r \in Slots, h' = [h EXCEPT ![r] = IdleReq],
         \A c \in Clients : hold'[c] = hold[c]
                            \/ (hold'[c] = None /\ h[r].heard /\ h[r].cl = c),
         UNCHANGED <<line, next>>,
         issued \subseteq issued', stirred \subseteq stirred'
  PROVE  Holders'
<1>1. h'[r] = IdleReq /\ \A s \in Slots : s # r => h'[s] = h[s] BY OtherSlots
<1>2. /\ IdleReq.op # "refresh" /\ IdleReq.pc \notin Storing /\ IdleReq.heard = FALSE
  BY DEF IdleReq, Storing
<1>3. \A s \in Slots : h'[s].pc \in Storing \/ h'[s].op = "refresh" \/ h'[s].heard
        => s # r /\ h'[s] = h[s]
  BY <1>1, <1>2
<1>4. \A c \in Clients : hold'[c] # None => hold'[c] = hold[c]
  OBVIOUS
<1>5. \A s \in Slots : h'[s].op = "refresh" /\ h'[s].heard => hold'[h[s].cl] = h[s].tok
  <2> SUFFICES ASSUME NEW s \in Slots, h'[s].op = "refresh", h'[s].heard
               PROVE  hold'[h[s].cl] = h[s].tok
    OBVIOUS
  <2>1. s # r /\ h'[s] = h[s] /\ hold[h[s].cl] = h[s].tok BY <1>3 DEF Holders
  <2>2. h[r].heard => h[r].cl # h[s].cl BY <2>1 DEF Holders
  <2>3. h[s].cl \in Clients BY <2>1 DEF Runs
  <2> QED BY <2>1, <2>2, <2>3
<1> QED BY <1>3, <1>4, <1>5 DEF Holders

\* What is known of the request at r.
LEMMA Known ==
  ASSUME IInv, Aligned, NEW r \in Slots
  PROVE  /\ h[r] \in ReqType /\ ReqOK(h[r]) /\ SlotOK(h[r]) /\ TypeOK /\ Store
         /\ Runs(h[r]) /\ ReqLine(h[r]) /\ Lined
BY SlotOf DEF Aligned, IInv

LEMMA GoesOn ==
  ASSUME IInv, Aligned, NEW r \in Slots, NEW q, h' = [h EXCEPT ![r] = q],
         Same(q, h[r]), Runs(q), ReqLine(q), Fewer, UNCHANGED <<hold, issued>>
  PROVE  Aligned'
<1>1. Lined' BY FewerLined DEF Aligned
<1>2. \A s \in Slots : Runs(h[s])' /\ ReqLine(h[s])'
  <2>1. h'[r] = q /\ \A s \in Slots : s # r => h'[s] = h[s] BY OtherSlots
  <2>2. \A u : (Runs(u) => Runs(u)') /\ (ReqLine(u) => ReqLine(u)')
    BY RunsStays, ReqLineStays DEF Fewer
  <2> QED BY <2>1, <2>2 DEF Aligned
<1>3. Holders' BY HoldersStay DEF Aligned, Fewer
<1>4. Meets' BY MeetsStays DEF Aligned, Fewer
<1> QED BY <1>1, <1>2, <1>3, <1>4 DEF Aligned

LEMMA EndsSo ==
  ASSUME IInv, Aligned, NEW r \in Slots, h' = [h EXCEPT ![r] = IdleReq],
         \A c \in Clients : hold'[c] = hold[c]
                            \/ (hold'[c] = None /\ h[r].heard /\ h[r].cl = c),
         Fewer, UNCHANGED issued
  PROVE  Aligned'
<1>1. Lined' BY FewerLined DEF Aligned
<1>2. \A s \in Slots : Runs(h[s])' /\ ReqLine(h[s])'
  <2>1. h'[r] = IdleReq /\ \A s \in Slots : s # r => h'[s] = h[s] BY OtherSlots
  <2>2. \A u : (Runs(u) => Runs(u)') /\ (ReqLine(u) => ReqLine(u)')
    BY RunsStays, ReqLineStays DEF Fewer
  <2>3. Runs(IdleReq) /\ ReqLine(IdleReq)
    BY DEF IdleReq, Runs, ReqLine, Storing, Revokes
  <2> QED BY <2>1, <2>2, <2>3 DEF Aligned
<1>3. Holders' BY HoldersEnd DEF Aligned, Fewer
<1>4. Meets' BY MeetsStays DEF Aligned, Fewer
<1> QED BY <1>1, <1>2, <1>3, <1>4 DEF Aligned

\* The two answers that hand out no pair.
LEMMA AnsweredSo ==
  ASSUME IInv, Aligned, NEW r \in Slots, Answer(r, None) \/ Refused(r), Fewer, UNCHANGED issued
  PROVE  Aligned'
<1>1. h' = [h EXCEPT ![r] = IdleReq] BY DEF Answer, Refused
<1>2. hold \in [Clients -> 0..MaxPairs] BY DEF IInv, TypeOK
<1>3. \A c \in Clients : hold'[c] = hold[c]
                         \/ (hold'[c] = None /\ h[r].heard /\ h[r].cl = c)
  BY <1>2 DEF Answer, Refused
<1> QED BY <1>1, <1>3, EndsSo

-----------------------------------------------------------------------------
(* The steps that mint nothing.                                            *)

LEMMA LookAligned == ASSUME IInv, Aligned, NEW r \in Slots, Look(r) PROVE Aligned'
<1> DEFINE q == [h[r] EXCEPT !.pc = IF h[r].tok \in rt THEN "claim" ELSE "replay"]
<1>1. h[r] \in ReqType /\ ReqOK(h[r]) /\ Runs(h[r]) /\ ReqLine(h[r]) BY Known
<1>2. h' = [h EXCEPT ![r] = q] /\ h[r].pc = "look" BY DEF Look, Goto
<1>3. Fewer /\ UNCHANGED <<hold, issued>>
  BY Known DEF Look, Goto, redis, notes, Fewer, Lined
<1>4. Same(q, h[r]) /\ Runs(q) /\ ReqLine(q)
  BY <1>1, <1>2 DEF ReqType, ReqOK, Same, Runs, ReqLine, Storing, Revokes
<1> HIDE DEF q
<1> QED BY <1>2, <1>3, <1>4, GoesOn

LEMMA UnlinkAligned == ASSUME IInv, Aligned, NEW r \in Slots, Unlink(r) PROVE Aligned'
<1> DEFINE q == [h[r] EXCEPT !.pc = "get"]
<1>1. h[r] \in ReqType /\ ReqOK(h[r]) /\ Runs(h[r]) /\ ReqLine(h[r]) BY Known
<1>2. h' = [h EXCEPT ![r] = q] /\ h[r].pc = "unlink" BY DEF Unlink, Goto
<1>3. Fewer /\ UNCHANGED <<hold, issued>>
  BY Known DEF Unlink, Goto, redis, notes, Fewer, Lined, TypeOK, Links
<1>4. Same(q, h[r]) /\ Runs(q) /\ ReqLine(q)
  BY <1>1, <1>2 DEF ReqType, ReqOK, Same, Runs, ReqLine, Storing, Revokes
<1> HIDE DEF q
<1> QED BY <1>2, <1>3, <1>4, GoesOn

LEMMA CarrySessionAligned == ASSUME IInv, Aligned, NEW r \in Slots, CarrySession(r) PROVE Aligned'
<1> DEFINE q == [h[r] EXCEPT !.pc = "write",
                             !.id = IF sid[h[r].tok] = None THEN h[r].new ELSE sid[h[r].tok]]
<1>1. h[r] \in ReqType /\ ReqOK(h[r]) /\ Runs(h[r]) /\ ReqLine(h[r]) BY Known
<1>2. h' = [h EXCEPT ![r] = q] /\ h[r].pc = "carry" BY DEF CarrySession
<1>3. Fewer /\ UNCHANGED <<hold, issued>>
  BY Known DEF CarrySession, redis, notes, Fewer, Lined, TypeOK, Links
<1>5. /\ h[r].tok \in Pairs
      /\ sid[h[r].tok] # None => sid[h[r].tok] \in Minted /\ line[sid[h[r].tok]] = line[h[r].tok]
  <2>1. h[r].tok \in Pairs BY <1>1, <1>2 DEF ReqOK
  <2> QED BY <2>1, Known DEF Lined
<1>4. Same(q, h[r]) /\ Runs(q) /\ ReqLine(q)
  BY <1>1, <1>2, <1>5 DEF ReqType, ReqOK, Same, Runs, ReqLine, Storing, Revokes
<1> HIDE DEF q
<1> QED BY <1>2, <1>3, <1>4, GoesOn

LEMMA GetPairAligned == ASSUME IInv, Aligned, NEW r \in Slots, GetPair(r) PROVE Aligned'
<1> DEFINE q == [h[r] EXCEPT !.pc = IF h[r].mate \in (IF h[r].op = "logout" THEN at ELSE rt)
                                    THEN "del" ELSE AfterRevoke(h[r])]
<1>1. h[r] \in ReqType /\ ReqOK(h[r]) /\ Runs(h[r]) /\ ReqLine(h[r]) BY Known
<1>2. h' = [h EXCEPT ![r] = q] /\ h[r].pc = "get" BY DEF GetPair, Goto
<1>3. Fewer /\ UNCHANGED <<hold, issued>>
  BY Known DEF GetPair, Goto, redis, notes, Fewer, Lined, TypeOK, Links
<1>4. Same(q, h[r]) /\ Runs(q) /\ ReqLine(q)
  BY <1>1, <1>2 DEF ReqType, ReqOK, Same, Runs, ReqLine, Storing, Revokes,
     AfterRevoke
<1> HIDE DEF q
<1> QED BY <1>2, <1>3, <1>4, GoesOn

LEMMA DropLinkAligned == ASSUME IInv, Aligned, NEW r \in Slots, DropLink(r) PROVE Aligned'
<1> DEFINE q == [h[r] EXCEPT !.pc = IF prev[h[r].mate] = None THEN AfterRevoke(h[r]) ELSE "settle",
                             !.old = prev[h[r].mate]]
<1>1. h[r] \in ReqType /\ ReqOK(h[r]) /\ Runs(h[r]) /\ ReqLine(h[r]) BY Known
<1>2. h' = [h EXCEPT ![r] = q] /\ h[r].pc = "drop" BY DEF DropLink
<1>3. Fewer /\ UNCHANGED <<hold, issued>>
  BY Known DEF DropLink, redis, notes, Fewer, Lined, TypeOK, Links
<1>5. prev[h[r].mate] # None => /\ prev[h[r].mate] \in Pairs /\ prev[h[r].mate] < h[r].mate
                                 /\ line[prev[h[r].mate]] = line[h[r].mate]
  <2>1. h[r].mate \in Pairs BY <1>1, <1>2 DEF ReqOK
  <2>2. prev[h[r].mate] \in 0..MaxPairs BY <2>1, Known, LinkTypes
  <2> QED BY <2>1, <2>2, Known DEF Lined, Pairs, None
<1>4. Same(q, h[r]) /\ Runs(q) /\ ReqLine(q)
  BY <1>1, <1>2, <1>5 DEF ReqType, ReqOK, Same, Runs, ReqLine, Storing, Revokes,
     AfterRevoke
<1> HIDE DEF q
<1> QED BY <1>2, <1>3, <1>4, GoesOn

LEMMA DropPredecessorAligned == ASSUME IInv, Aligned, NEW r \in Slots, DropPredecessor(r) PROVE Aligned'
<1> DEFINE q == [h[r] EXCEPT !.pc = AfterRevoke(h[r]), !.old = None]
<1>1. h[r] \in ReqType /\ ReqOK(h[r]) /\ Runs(h[r]) /\ ReqLine(h[r]) BY Known
<1>2. h' = [h EXCEPT ![r] = q] /\ h[r].pc = "settle" BY DEF DropPredecessor
<1>3. Fewer /\ UNCHANGED <<hold, issued>>
  BY Known DEF DropPredecessor, redis, notes, Fewer, Lined, TypeOK, Links
<1>4. Same(q, h[r]) /\ Runs(q) /\ ReqLine(q)
  BY <1>1, <1>2 DEF ReqType, ReqOK, Same, Runs, ReqLine, Storing, Revokes,
     AfterRevoke
<1> HIDE DEF q
<1> QED BY <1>2, <1>3, <1>4, GoesOn

LEMMA WhoAligned == ASSUME IInv, Aligned, NEW r \in Slots, Who(r) PROVE Aligned'
<1> DEFINE q == [h[r] EXCEPT !.pc = "val", !.mate = h[r].tok,
                             !.id = IF h[r].tok \in at THEN sid[h[r].tok] ELSE None]
<1>1. h[r] \in ReqType /\ ReqOK(h[r]) /\ Runs(h[r]) /\ ReqLine(h[r]) BY Known
<1>2. h' = [h EXCEPT ![r] = q] /\ h[r].pc = "who" BY DEF Who
<1>3. Fewer /\ UNCHANGED <<hold, issued>>
  BY Known DEF Who, redis, notes, Fewer, Lined, TypeOK, Links
<1>4. /\ h[r].op = "logout" /\ h[r].tok \in Pairs
      /\ q.id # None => q.id \in Minted /\ line[q.id] = line[h[r].tok]
  <2>1. h[r].op = "logout" /\ h[r].tok \in Pairs BY <1>1, <1>2 DEF Runs, ReqOK
  <2>2. q.id = IF h[r].tok \in at THEN sid[h[r].tok] ELSE None BY <1>1 DEF ReqType
  <2>3. \A p \in Pairs : sid[p] # None => sid[p] \in Minted /\ line[sid[p]] = line[p]
    BY Known DEF Lined
  <2> HIDE DEF q
  <2> QED BY <2>1, <2>2, <2>3
<1>5. Same(q, h[r]) /\ Runs(q) /\ ReqLine(q)
  BY <1>1, <1>2, <1>4 DEF ReqType, ReqOK, Same, Runs, ReqLine, Storing, Revokes
<1> HIDE DEF q
<1> QED BY <1>2, <1>3, <1>5, GoesOn

LEMMA IdsAligned == ASSUME IInv, Aligned, NEW r \in Slots, Ids(r) PROVE Aligned'
<1> DEFINE q == [h[r] EXCEPT !.pc = "visit", !.ids = devs]
<1>1. h[r] \in ReqType /\ ReqOK(h[r]) /\ Runs(h[r]) /\ ReqLine(h[r]) BY Known
<1>2. h' = [h EXCEPT ![r] = q] /\ h[r].pc = "ids" BY DEF Ids
<1>3. Fewer /\ UNCHANGED <<hold, issued>>
  BY Known DEF Ids, redis, notes, Fewer, Lined, TypeOK, Links
<1>4. Same(q, h[r]) /\ Runs(q) /\ ReqLine(q)
  BY <1>1, <1>2 DEF ReqType, ReqOK, Same, Runs, ReqLine, Storing, Revokes
<1> HIDE DEF q
<1> QED BY <1>2, <1>3, <1>4, GoesOn

LEMMA ExistsAligned == ASSUME IInv, Aligned, NEW r \in Slots, Exists(r) PROVE Aligned'
<1> DEFINE q == IF Usable(h[r].mate)
              THEN [h[r] EXCEPT !.pc = "visit", !.ids = @ \ {h[r].id}, !.kept = @ \cup {h[r].id},
                                !.id = None, !.mate = None]
              ELSE [h[r] EXCEPT !.pc = "forget"]
<1>1. h[r] \in ReqType /\ ReqOK(h[r]) /\ Runs(h[r]) /\ ReqLine(h[r]) BY Known
<1>2. h' = [h EXCEPT ![r] = q] /\ h[r].pc = "exists" BY DEF Exists
<1>3. Fewer /\ UNCHANGED <<hold, issued>>
  BY Known DEF Exists, redis, notes, Fewer, Lined, TypeOK, Links
<1>4. Same(q, h[r]) /\ Runs(q) /\ ReqLine(q)
  BY <1>1, <1>2 DEF ReqType, ReqOK, Same, Runs, ReqLine, Storing, Revokes
<1> HIDE DEF q
<1> QED BY <1>2, <1>3, <1>4, GoesOn

LEMMA ForgetAligned == ASSUME IInv, Aligned, NEW r \in Slots, Forget(r) PROVE Aligned'
<1> DEFINE q == [h[r] EXCEPT !.pc = "visit", !.ids = @ \ {h[r].id}, !.id = None, !.mate = None]
<1>1. h[r] \in ReqType /\ ReqOK(h[r]) /\ Runs(h[r]) /\ ReqLine(h[r]) BY Known
<1>2. h' = [h EXCEPT ![r] = q] /\ h[r].pc = "forget" BY DEF Forget
<1>3. Fewer /\ UNCHANGED <<hold, issued>>
  BY Known DEF Forget, redis, notes, Fewer, Lined, TypeOK, Links
<1>4. Same(q, h[r]) /\ Runs(q) /\ ReqLine(q)
  BY <1>1, <1>2 DEF ReqType, ReqOK, Same, Runs, ReqLine, Storing, Revokes
<1> HIDE DEF q
<1> QED BY <1>2, <1>3, <1>4, GoesOn

LEMMA CurrentAligned == ASSUME IInv, Aligned, NEW r \in Slots, Current(r) PROVE Aligned'
<1> DEFINE q == [h[r] EXCEPT !.pc = "pick",
                             !.cur = IF h[r].tok \in at THEN sid[h[r].tok] ELSE None,
                             !.kept = @ \ {IF h[r].tok \in at THEN sid[h[r].tok] ELSE None}]
<1>1. h[r] \in ReqType /\ ReqOK(h[r]) /\ Runs(h[r]) /\ ReqLine(h[r]) BY Known
<1>2. h' = [h EXCEPT ![r] = q] /\ h[r].pc = "current" BY DEF Current
<1>3. Fewer /\ UNCHANGED <<hold, issued>>
  BY Known DEF Current, redis, notes, Fewer, Lined, TypeOK, Links
<1>4. Same(q, h[r]) /\ Runs(q) /\ ReqLine(q)
  BY <1>1, <1>2 DEF ReqType, ReqOK, Same, Runs, ReqLine, Storing, Revokes
<1> HIDE DEF q
<1> QED BY <1>2, <1>3, <1>4, GoesOn

LEMMA MembersAligned == ASSUME IInv, Aligned, NEW r \in Slots, Members(r) PROVE Aligned'
<1> DEFINE q == [h[r] EXCEPT !.pc = "devices", !.accs = accIdx, !.refs = refIdx]
<1>1. h[r] \in ReqType /\ ReqOK(h[r]) /\ Runs(h[r]) /\ ReqLine(h[r]) BY Known
<1>2. h' = [h EXCEPT ![r] = q] /\ h[r].pc = "members" BY DEF Members
<1>3. Fewer /\ UNCHANGED <<hold, issued>>
  BY Known DEF Members, redis, notes, Fewer, Lined, TypeOK, Links
<1>4. Same(q, h[r]) /\ Runs(q) /\ ReqLine(q)
  BY <1>1, <1>2 DEF ReqType, ReqOK, Same, Runs, ReqLine, Storing, Revokes
<1> HIDE DEF q
<1> QED BY <1>2, <1>3, <1>4, GoesOn

LEMMA DevicesAligned == ASSUME IInv, Aligned, NEW r \in Slots, Devices(r) PROVE Aligned'
<1> DEFINE q == [h[r] EXCEPT !.pc = "wipe", !.ids = devs]
<1>1. h[r] \in ReqType /\ ReqOK(h[r]) /\ Runs(h[r]) /\ ReqLine(h[r]) BY Known
<1>2. h' = [h EXCEPT ![r] = q] /\ h[r].pc = "devices" BY DEF Devices
<1>3. Fewer /\ UNCHANGED <<hold, issued>>
  BY Known DEF Devices, redis, notes, Fewer, Lined, TypeOK, Links
<1>4. Same(q, h[r]) /\ Runs(q) /\ ReqLine(q)
  BY <1>1, <1>2 DEF ReqType, ReqOK, Same, Runs, ReqLine, Storing, Revokes
<1> HIDE DEF q
<1> QED BY <1>2, <1>3, <1>4, GoesOn

LEMMA ValAligned == ASSUME IInv, Aligned, NEW r \in Slots, Val(r) PROVE Aligned'
<1>1. h[r] \in ReqType /\ ReqOK(h[r]) /\ Runs(h[r]) /\ ReqLine(h[r]) /\ h[r].pc = "val"
  BY Known DEF Val
<1>2. Fewer /\ UNCHANGED issued
  BY Known DEF Val, redis, notes, Fewer, Lined, TypeOK, Links
<1>3. CASE h[r].tok \notin at
  <2>1. Refused(r) BY <1>3 DEF Val
  <2> QED BY <1>2, <2>1, AnsweredSo
<1>4. CASE h[r].tok \in at
  <2> DEFINE q == [h[r] EXCEPT !.pc = "get"]
  <2>1. h' = [h EXCEPT ![r] = q] /\ UNCHANGED hold BY <1>4 DEF Val, Goto
  <2>2. h[r].tok \in Minted /\ h[r].mate = h[r].tok
    BY <1>1, Known DEF ReqLine, Runs, Store, Minted, TypeOK
  <2>3. Same(q, h[r]) /\ Runs(q) /\ ReqLine(q)
    BY <1>1, <2>2 DEF ReqType, ReqOK, Same, Runs, ReqLine, Storing, Revokes
  <2> HIDE DEF q
  <2> QED BY <1>2, <2>1, <2>3, GoesOn
<1> QED BY <1>3, <1>4

LEMMA VisitAligned == ASSUME IInv, Aligned, NEW r \in Slots, Visit(r) PROVE Aligned'
<1>1. h[r] \in ReqType /\ ReqOK(h[r]) /\ Runs(h[r]) /\ ReqLine(h[r]) /\ h[r].pc = "visit"
  BY Known DEF Visit
<1>2. Fewer /\ UNCHANGED issued
  BY Known DEF Visit, redis, notes, Fewer, Lined, TypeOK, Links
<1>3. CASE Refused(r) BY <1>2, <1>3, AnsweredSo
<1>4. CASE h[r].op # "list" /\ Goto(r, "current")
  <2> DEFINE q == [h[r] EXCEPT !.pc = "current"]
  <2>1. h' = [h EXCEPT ![r] = q] /\ UNCHANGED hold BY <1>4 DEF Goto
  <2>2. Same(q, h[r]) /\ Runs(q) /\ ReqLine(q)
    BY <1>1, <1>4 DEF ReqType, ReqOK, Same, Runs, ReqLine, Storing, Revokes
  <2> HIDE DEF q
  <2> QED BY <1>2, <2>1, <2>2, GoesOn
<1>5. ASSUME NEW d \in h[r].ids, UNCHANGED hold,
             h' = [h EXCEPT ![r].pc = IF dev[d] = None THEN "forget" ELSE "exists",
                            ![r].id = d, ![r].mate = dev[d]]
      PROVE  Aligned'
  <2> DEFINE q == [h[r] EXCEPT !.pc = IF dev[d] = None THEN "forget" ELSE "exists",
                               !.id = d, !.mate = dev[d]]
  <2>1. h' = [h EXCEPT ![r] = q] BY <1>5
  <2>2. d \in Pairs BY <1>1 DEF ReqType
  <2>3. dev[d] # None => d \in Minted /\ dev[d] \in Minted /\ line[dev[d]] = line[d]
    BY <2>2, Known DEF Lined
  <2>4. Same(q, h[r]) /\ Runs(q) /\ ReqLine(q)
    BY <1>1, <2>3 DEF ReqType, ReqOK, Same, Runs, ReqLine, Storing, Revokes
  <2> HIDE DEF q
  <2> QED BY <1>2, <1>5, <2>1, <2>4, GoesOn
<1> QED BY <1>3, <1>4, <1>5 DEF Visit

LEMMA PickAligned == ASSUME IInv, Aligned, NEW r \in Slots, Pick(r) PROVE Aligned'
<1>1. h[r] \in ReqType /\ ReqOK(h[r]) /\ Runs(h[r]) /\ ReqLine(h[r]) /\ h[r].pc = "pick"
  BY Known DEF Pick
<1>2. Fewer /\ UNCHANGED issued
  BY Known DEF Pick, redis, notes, Fewer, Lined, TypeOK, Links
<1>3. CASE Refused(r) BY <1>2, <1>3, AnsweredSo
<1>4. ASSUME NEW d \in h[r].kept, dev[d] # None, UNCHANGED hold,
             h' = [h EXCEPT ![r].pc = "get", ![r].id = d, ![r].mate = dev[d]]
      PROVE  Aligned'
  <2> DEFINE q == [h[r] EXCEPT !.pc = "get", !.id = d, !.mate = dev[d]]
  <2>1. h' = [h EXCEPT ![r] = q] BY <1>4
  <2>2. d \in Pairs BY <1>1 DEF ReqType
  <2>3. d \in Minted /\ dev[d] \in Minted /\ line[dev[d]] = line[d]
    BY <1>4, <2>2, Known DEF Lined
  <2>4. Same(q, h[r]) /\ Runs(q) /\ ReqLine(q)
    BY <1>1, <2>3 DEF ReqType, ReqOK, Same, Runs, ReqLine, Storing, Revokes
  <2> HIDE DEF q
  <2> QED BY <1>2, <1>4, <2>1, <2>4, GoesOn
<1>5. ASSUME NEW d \in h[r].kept, h[r].op # "revoke", UNCHANGED hold,
             h' = [h EXCEPT ![r].kept = @ \ {d}]
      PROVE  Aligned'
  <2> DEFINE q == [h[r] EXCEPT !.kept = @ \ {d}]
  <2>1. h' = [h EXCEPT ![r] = q] BY <1>5
  <2>2. Same(q, h[r]) /\ Runs(q) /\ ReqLine(q)
    BY <1>1, <1>5 DEF ReqType, ReqOK, Same, Runs, ReqLine, Storing, Revokes
  <2> HIDE DEF q
  <2> QED BY <1>2, <1>5, <2>1, <2>2, GoesOn
<1> QED BY <1>3, <1>4, <1>5 DEF Pick

LEMMA OthersDoneAligned == ASSUME IInv, Aligned, NEW r \in Slots, OthersDone(r) PROVE Aligned'
<1>1. Refused(r) BY DEF OthersDone
<1>2. Lines \subseteq Minted \cup {None}
  <2>1. \A p \in issued : line[p] \in issued /\ p \in Minted BY Known DEF Lined, Store, TypeOK, Minted
  <2> QED BY <2>1 DEF Lines
<1>3. Fewer /\ UNCHANGED issued
  BY <1>2, Known DEF OthersDone, redis, notes, Fewer, Lined, TypeOK, Links, Pairs, None
<1> QED BY <1>1, <1>3, AnsweredSo

LEMMA ClaimAligned == ASSUME IInv, Aligned, NEW r \in Slots, Claim(r) PROVE Aligned'
<1>1. h[r] \in ReqType /\ ReqOK(h[r]) /\ Runs(h[r]) /\ ReqLine(h[r]) /\ h[r].pc = "claim"
  BY Known DEF Claim
<1>2. Fewer /\ UNCHANGED issued
  BY Known DEF Claim, redis, notes, Fewer, Lined, TypeOK, Links
<1>3. CASE h[r].tok \notin rt
  <2>1. Answer(r, None) BY <1>3 DEF Claim
  <2> QED BY <1>2, <2>1, AnsweredSo
<1>4. CASE h[r].tok \in rt
  <2> DEFINE q == [h[r] EXCEPT !.pc = "drop", !.mate = h[r].tok]
  <2>1. h' = [h EXCEPT ![r] = q] /\ UNCHANGED hold BY <1>4 DEF Claim
  <2>2. h[r].tok \in Minted BY <1>1, <1>4, Known DEF Store, Minted, ReqOK
  <2>3. Same(q, h[r]) /\ Runs(q) /\ ReqLine(q)
    BY <1>1, <2>2 DEF ReqType, ReqOK, Same, Runs, ReqLine, Storing, Revokes
  <2> HIDE DEF q
  <2> QED BY <1>2, <2>1, <2>3, GoesOn
<1> QED BY <1>3, <1>4

LEMMA ReplayAligned == ASSUME IInv, Aligned, NEW r \in Slots, Replay(r) PROVE Aligned'
<1>1. h[r] \in ReqType /\ ReqOK(h[r]) /\ Runs(h[r]) /\ ReqLine(h[r]) /\ h[r].pc = "replay"
  BY Known DEF Replay
<1>2. Fewer /\ UNCHANGED issued
  BY Known DEF Replay, notes, Fewer, Lined, TypeOK, Links
<1>3. CASE rot[h[r].tok] = None
  <2>1. Answer(r, None) BY <1>3 DEF Replay
  <2> QED BY <1>2, <2>1, AnsweredSo
<1>4. CASE rot[h[r].tok] # None
  <2> DEFINE q == [h[r] EXCEPT !.pc = "unlink", !.mate = rot[h[r].tok]]
  <2>1. h' = [h EXCEPT ![r] = q] /\ UNCHANGED hold BY <1>4 DEF Replay
  <2>2. h[r].tok \in Pairs BY <1>1 DEF ReqOK
  <2>3. /\ rot[h[r].tok] \in Minted /\ line[rot[h[r].tok]] = line[h[r].tok]
        /\ h[r].tok < rot[h[r].tok]
    BY <1>4, <2>2, Known DEF Lined
  <2>4. Same(q, h[r]) /\ Runs(q) /\ ReqLine(q)
    BY <1>1, <2>3 DEF ReqType, ReqOK, Same, Runs, ReqLine, Storing, Revokes
  <2> HIDE DEF q
  <2> QED BY <1>2, <2>1, <2>4, GoesOn
<1> QED BY <1>3, <1>4

LEMMA EraseAligned == ASSUME IInv, Aligned, NEW r \in Slots, Erase(r) PROVE Aligned'
<1>1. Answer(r, None) BY DEF Erase
<1>2. Fewer /\ UNCHANGED issued
  BY Known DEF Erase, redis, notes, Fewer, Lined, TypeOK, Links
<1> QED BY <1>1, <1>2, AnsweredSo

LEMMA AbandonAligned == ASSUME IInv, Aligned, NEW r \in Slots, Abandon(r) PROVE Aligned'
<1> DEFINE q == [h[r] EXCEPT !.heard = FALSE]
<1>1. h[r] \in ReqType /\ ReqOK(h[r]) /\ Runs(h[r]) /\ ReqLine(h[r]) BY Known
<1>2. h' = [h EXCEPT ![r] = q] /\ h[r].pc # "idle" BY DEF Abandon
<1>3. Fewer /\ UNCHANGED <<hold, issued>>
  BY Known DEF Abandon, redis, notes, Fewer, Lined
<1>4. Same(q, h[r]) /\ Runs(q) /\ ReqLine(q)
  BY <1>1, <1>2 DEF ReqType, Same, Runs, ReqLine, Storing, Revokes
<1> HIDE DEF q
<1> QED BY <1>2, <1>3, <1>4, GoesOn

LEMMA FailAligned == ASSUME IInv, Aligned, NEW r \in Slots, Fail(r) PROVE Aligned'
<1>1. h' = [h EXCEPT ![r] = IdleReq] /\ UNCHANGED <<hold, issued>> BY DEF Fail
<1>2. Fewer BY Known DEF Fail, redis, notes, Fewer, Lined
<1> QED BY <1>1, <1>2, EndsSo

LEMMA EndSessionAligned == ASSUME IInv, Aligned, NEW r \in Slots, EndSession(r) PROVE Aligned'
<1>1. h[r] \in ReqType /\ ReqOK(h[r]) /\ Runs(h[r]) /\ ReqLine(h[r]) /\ h[r].pc = "end"
  BY Known DEF EndSession
<1>2. h[r].op = "logout" => line[h[r].tok] \in Minted
  BY <1>1, Known DEF ReqLine, Lined, Store, TypeOK, Minted
<1>3. Fewer /\ UNCHANGED issued
  BY <1>1, <1>2, Known DEF EndSession, Fewer, Lined, TypeOK, Links, ReqLine
<1>4. CASE h[r].op # "others"
  <2>1. Answer(r, None) \/ Refused(r) BY <1>4 DEF EndSession
  <2> QED BY <1>3, <2>1, AnsweredSo
<1>5. CASE h[r].op = "others"
  <2> DEFINE q == [h[r] EXCEPT !.pc = "pick", !.kept = @ \ {h[r].id}, !.id = None, !.mate = None]
  <2>1. h' = [h EXCEPT ![r] = q] /\ UNCHANGED hold BY <1>5 DEF EndSession
  <2>2. Same(q, h[r]) /\ Runs(q) /\ ReqLine(q)
    BY <1>1, <1>5 DEF ReqType, ReqOK, Same, Runs, ReqLine, Storing, Revokes
  <2> HIDE DEF q
  <2> QED BY <1>3, <2>1, <2>2, GoesOn
<1> QED BY <1>4, <1>5

LEMMA DelPairAligned == ASSUME IInv, Aligned, NEW r \in Slots, DelPair(r) PROVE Aligned'
<1>1. h[r] \in ReqType /\ ReqOK(h[r]) /\ Runs(h[r]) /\ ReqLine(h[r]) /\ h[r].pc = "del"
  BY Known DEF DelPair
<1>2. Fewer /\ UNCHANGED <<hold, issued>>
  BY Known DEF DelPair, Fewer, Lined, TypeOK, Links
<1>3. PICK q : /\ q = [h[r] EXCEPT !.pc = "drop",
                                   !.ok = h[r].op = "logout" /\ h[r].mate \in at \cup rt]
               /\ h' = [h EXCEPT ![r] = q]
  BY DEF DelPair
<1>4. Same(q, h[r]) /\ Runs(q)
  BY <1>1, <1>3 DEF ReqType, Same, Runs, Storing, Revokes
<1>5. ReqLine(q)'
  <2>1. Minted' = Minted /\ line' = line /\ issued' = issued BY <1>2 DEF Minted, Fewer
  <2>2. q.op # "refresh" => line[q.mate] \in cut' BY <1>1, <1>3 DEF DelPair, ReqType
  <2> QED BY <1>1, <1>2, <1>3, <2>1, <2>2 DEF ReqType, ReqLine, Storing, Revokes, Fewer
<1>6. Lined' BY <1>2, FewerLined, Known
<1>7. \A s \in Slots : Runs(h[s])' /\ ReqLine(h[s])'
  <2>1. h'[r] = q /\ \A s \in Slots : s # r => h'[s] = h[s] BY <1>3, OtherSlots
  <2>2. \A u : (Runs(u) => Runs(u)') /\ (ReqLine(u) => ReqLine(u)')
    BY <1>2, RunsStays, ReqLineStays DEF Fewer
  <2> QED BY <1>4, <1>5, <2>1, <2>2 DEF Aligned
<1>8. Holders' BY <1>2, <1>3, <1>4, HoldersStay DEF Aligned, Fewer
<1>9. Meets' BY <1>2, <1>3, <1>4, MeetsStays DEF Aligned, Fewer
<1> QED BY <1>6, <1>7, <1>8, <1>9 DEF Aligned

-----------------------------------------------------------------------------
(* The steps that mint a pair.                                             *)

LEMMA Grows ==
  ASSUME TypeOK, Store, Lined, next \in Pairs, next' = next + 1,
         NEW l \in Roots \cup {next}, line' = [line EXCEPT ![next] = l]
  PROVE  /\ Minted' = Minted \cup {next} /\ next \notin Minted /\ issued \subseteq Minted
         /\ line'[next] = l /\ \A p \in Pairs : p # next => line'[p] = line[p]
         /\ \A p \in Minted : line'[p] = line[p]
         /\ Roots' = IF l = next THEN Roots \cup {next} ELSE Roots
<1>1. \A p \in Pairs : (p < next + 1 <=> p < next \/ p = next) /\ ~(next < next)
  BY DEF Pairs
<1>2. Minted' = Minted \cup {next} /\ next \notin Minted
  <2>1. Minted' = {p \in Pairs : p < next + 1} BY DEF Minted
  <2> HIDE DEF Pairs
  <2> QED BY <1>1, <2>1 DEF Minted
<1>3. issued \subseteq Minted BY DEF Store, TypeOK, Minted
<1>4. line'[next] = l /\ \A p \in Pairs : p # next => line'[p] = line[p]
  BY DEF TypeOK, Links
<1>5. \A p \in Minted : line'[p] = line[p] BY <1>2, <1>4 DEF Minted
<1>6. Roots' = IF l = next THEN Roots \cup {next} ELSE Roots
  BY <1>2, <1>4, <1>5 DEF Roots
<1> QED BY <1>2, <1>3, <1>4, <1>5, <1>6

\* A request that was in order stays so when a pair is minted.
LEMMA ReqLineGrows ==
  ASSUME TypeOK, Store, Lined, next \in Pairs, next' = next + 1,
         NEW l \in Roots \cup {next}, line' = [line EXCEPT ![next] = l],
         issued \subseteq issued', cut \subseteq cut',
         NEW q \in ReqType, ReqOK(q), Runs(q), ReqLine(q)
  PROVE  Runs(q)' /\ ReqLine(q)'
<1>1. /\ Minted \subseteq Minted' /\ issued \subseteq Minted /\ Roots \subseteq Roots'
      /\ \A p \in Minted : line'[p] = line[p]
  BY Grows
<1>2. Runs(q)' BY <1>1 DEF Runs
<1>3. q.pc = "settle" => q.old \in Minted
  BY DEF ReqLine, Minted, Pairs, Revokes, TypeOK
<1>4. ReqLine(q)' BY <1>1, <1>3 DEF ReqLine, Storing, Revokes, ReqOK, Exchanging, Exchange, Runs
<1> QED BY <1>2, <1>4

\* Of the lines there were, a request keeps those it touches.
LEMMA TouchedStays ==
  ASSUME NEW q, Runs(q), ReqLine(q), issued \subseteq Minted,
         \A p \in Minted : line'[p] = line[p]
  PROVE  Touched(q)' = Touched(q)
BY DEF Runs, ReqLine, Touched

\* A line that is met on anew by a request minting a pair is stirred.
LEMMA MeetsGrows ==
  ASSUME IInv, Aligned, NEW r \in Slots, NEW q, h' = [h EXCEPT ![r] = q],
         h[r].op \in Creators \/ q.op \notin Creators, q.pc # "idle" => h[r].pc # "idle",
         Touched(q)' \cap Roots \subseteq Touched(h[r]),
         issued \subseteq Minted, \A p \in Minted : line'[p] = line[p],
         stirred \subseteq stirred',
         \A l \in Roots' : l \in Roots \/ l \in stirred' \/ \A s \in Slots : s # r => h[s].pc = "idle"
  PROVE  Meets'
<1>1. h'[r] = q /\ \A s \in Slots : s # r => h'[s] = h[s] BY OtherSlots
<1>2. \A s \in Slots : s # r => Touched(h[s])' = Touched(h[s])
  <2>1. ASSUME NEW s \in Slots, s # r PROVE Touched(h[s])' = Touched(h[s])
    <3>1. Runs(h[s]) /\ ReqLine(h[s]) BY DEF Aligned
    <3>2. \A u : Runs(u) /\ ReqLine(u) => Touched(u)' = Touched(u) BY TouchedStays
    <3>3. h'[s] = h[s] BY <1>1, <2>1
    <3> QED BY <3>1, <3>2, <3>3
  <2> QED BY <2>1
<1>3. \A s \in Slots : /\ Touched(h[s])' \cap Roots \subseteq Touched(h[s])
                       /\ h'[s].op \in Creators => h[s].op \in Creators
                       /\ h'[s].pc # "idle" => h[s].pc # "idle"
  BY <1>1, <1>2
<1>4. ASSUME NEW s \in Slots, NEW t \in Slots, s # t, h'[s].op \in Creators, h'[t].pc # "idle",
             NEW l \in Roots', l \in Touched(h[s])', l \in Touched(h[t])'
      PROVE  l \in stirred'
  <2>1. h[s].op \in Creators /\ h[t].pc # "idle" /\ h[s].pc # "idle"
    BY <1>3, <1>4 DEF Aligned, Runs, Creators
  <2>2. CASE l \in Roots
    BY <1>3, <1>4, <2>1, <2>2 DEF Aligned, Meets
  <2>3. CASE \A u \in Slots : u # r => h[u].pc = "idle"
    BY <1>4, <2>1, <2>3
  <2> QED BY <2>2, <2>3
<1> QED BY <1>4 DEF Meets

\* A request arrives that mints nothing yet.
LEMMA ArriveAligned ==
  ASSUME IInv, Aligned, NEW r \in Slots, NEW c \in Clients,
         NEW q, Arrive(r, q), UNCHANGED <<next, line>>,
         q.cl = c, Runs(q), ReqLine(q), q.pc \notin Storing, q.pc # "idle",
         q.op = "refresh" => hold[c] # None /\ q.tok = hold[c]
  PROVE  Aligned'
<1>1. h' = [h EXCEPT ![r] = q] /\ UNCHANGED <<hold, issued, cut, out, rot, prev, sid, dev>>
      /\ h[r].pc = "idle" /\ stirred \subseteq stirred'
  BY DEF Arrive, redis
<1>2. h'[r] = q /\ \A s \in Slots : s # r => h'[s] = h[s] BY <1>1, OtherSlots
<1>3. Fewer BY <1>1, Known DEF Fewer, Lined
<1>4. Lined' BY <1>1, <1>3, FewerLined, Known
<1>5. \A s \in Slots : Runs(h[s])' /\ ReqLine(h[s])'
  <2>1. \A u : (Runs(u) => Runs(u)') /\ (ReqLine(u) => ReqLine(u)')
    BY <1>1, RunsStays, ReqLineStays
  <2> QED BY <1>2, <2>1 DEF Aligned
<1>6. Holders'
  <2>1. \A s \in Slots : h'[s].pc \in Storing => s # r /\ h'[s] = h[s] BY <1>2
  <2>2. \A s \in Slots : s # r /\ h'[s].heard => h[s].cl # c
    BY <1>2, <1>5 DEF Arrive, Free, InFlight, Aligned, Runs
  <2>3. \A s \in Slots : s # r => h'[s] = h[s] BY <1>2
  <2>4. h'[r] = q /\ q.cl = c BY <1>2
  <2>5. \A s, t \in Slots : s # t /\ h'[s].heard /\ h'[t].heard => h'[s].cl # h'[t].cl
    BY <2>2, <2>3, <2>4 DEF Aligned, Holders
  <2>6. \A s \in Slots : h'[s].op = "refresh" /\ h'[s].heard => hold'[h'[s].cl] = h'[s].tok
    BY <1>1, <2>3, <2>4 DEF Aligned, Holders
  <2>7. \A s \in Slots : h'[s].op = "refresh" /\ line[h'[s].tok] \notin stirred' =>
          \A d \in Clients : hold[d] # None /\ line[hold[d]] = line[h'[s].tok]
                             => hold[d] = h'[s].tok
    <3>1. ASSUME NEW d \in Clients, q.op = "refresh", hold[d] # None,
                 line[hold[d]] = line[q.tok]
          PROVE  hold[d] = q.tok
      BY <3>1 DEF Aligned, Holders
    <3> QED BY <1>1, <2>3, <2>4, <3>1 DEF Aligned, Holders
  <2> QED BY <1>1, <2>1, <2>5, <2>6, <2>7 DEF Aligned, Holders
<1>7. Meets'
  <2> SUFFICES ASSUME NEW s \in Slots, NEW t \in Slots, s # t,
                      h'[s].op \in Creators, h'[t].pc # "idle",
                      NEW l \in Roots, l \in Touched(h[s])', l \in Touched(h[t])'
               PROVE  l \in stirred'
    BY <1>1 DEF Meets, Roots, Minted
  <2>1. \A u : Touched(u)' = Touched(u) BY DEF Touched
  <2>2. l \in Touched(h'[s]) /\ l \in Touched(h'[t]) BY <2>1
  <2>3. CASE s # r /\ t # r
    BY <1>1, <1>2, <2>2, <2>3 DEF Aligned, Meets
  <2>4. l \in Pairs \cap (1..next)
    BY Known DEF Roots, Minted, Pairs, TypeOK
  <2>5. \A u \in InFlight : (q.op \in Creators \/ h[u].op \in Creators)
          => Pairs \cap (1..next) \cap Touched(q) \cap Touched(h[u]) \subseteq stirred'
    <3>1. stirred' = stirred \cup Overlap(q, InFlight) BY DEF Arrive
    <3> QED BY <3>1 DEF Overlap
  <2>6. CASE s = r
    <3>1. h'[s] = q /\ h'[t] = h[t] /\ t \in InFlight BY <1>2, <2>6 DEF InFlight
    <3> QED BY <2>2, <2>4, <2>5, <3>1
  <2>7. CASE t = r
    <3>1. h'[t] = q /\ h'[s] = h[s] BY <1>2, <2>7
    <3>2. s \in InFlight BY <3>1 DEF InFlight, Aligned, Runs, Creators
    <3> QED BY <2>2, <2>4, <2>5, <3>1, <3>2
  <2> QED BY <2>3, <2>6, <2>7
<1> QED BY <1>4, <1>5, <1>6, <1>7 DEF Aligned

LEMMA LinesAreRoots ==
  ASSUME IInv, Aligned
  PROVE  Lines \subseteq Roots /\ issued \subseteq Minted
<1>1. issued \subseteq Minted BY DEF IInv, Store, TypeOK, Minted
<1> QED BY <1>1 DEF Lines, Aligned, Lined

\* A device's token.
LEMMA HeldIssued ==
  ASSUME IInv, Aligned, NEW c \in Clients
  PROVE  (hold[c] # None => hold[c] \in issued) /\ (Admitted(c) => hold[c] \in issued)
BY DEF Aligned, Holders, IInv, Store, Admitted

LEMMA ArrivalAligned ==
  ASSUME IInv, Aligned, NEW r \in Slots, NEW c \in Clients,
         \/ Refresh(r, c) \/ Logout(r, c) \/ ListSessions(r, c) \/ RevokeOtherSessions(r, c)
         \/ RevokeSession(r, c) \/ UpdatePassword(r, c) \/ DeleteAccount(r, c)
  PROVE  Aligned'
<1>1. ASSUME NEW op, NEW pc,
             <<op, pc>> \in {<<"refresh", "look">>, <<"logout", "who">>, <<"list", "ids">>,
                             <<"others", "ids">>, <<"password", "members">>,
                             <<"delete", "members">>},
             op \in {"refresh", "logout"} => hold[c] # None /\ hold[c] \in issued,
             Arrive(r, Req(op, c, pc, hold[c])), UNCHANGED <<next, line>>
      PROVE  Aligned'
  <2>1. PICK q : q = Req(op, c, pc, hold[c]) OBVIOUS
  <2>2. q.op = op /\ q.cl = c /\ q.pc = pc /\ q.tok = hold[c] /\ q.heard = TRUE /\ q.id = None
    BY <2>1 DEF Req, IdleReq
  <2>3. Runs(q) /\ ReqLine(q) /\ q.pc \notin Storing /\ q.pc # "idle"
    BY <1>1, <2>2 DEF Runs, ReqLine, Storing, Revokes
  <2> QED BY <1>1, <2>1, <2>2, <2>3, ArriveAligned
<1>2. ASSUME NEW d \in Lines, UNCHANGED <<next, line>>,
             Arrive(r, [Req("revoke", c, "pick", hold[c]) EXCEPT !.kept = {d}])
      PROVE  Aligned'
  <2>1. PICK q : q = [Req("revoke", c, "pick", hold[c]) EXCEPT !.kept = {d}] OBVIOUS
  <2>2. q.op = "revoke" /\ q.cl = c /\ q.pc = "pick" /\ q.tok = hold[c] /\ q.heard = TRUE
        /\ q.kept = {d}
    BY <2>1 DEF Req, IdleReq
  <2>3. d \in Roots BY LinesAreRoots
  <2>4. Runs(q) /\ ReqLine(q) /\ q.pc \notin Storing /\ q.pc # "idle"
    BY <2>2, <2>3 DEF Runs, ReqLine, Storing, Revokes
  <2> QED BY <1>2, <2>1, <2>2, <2>4, ArriveAligned
<1>3. None \notin issued BY DEF IInv, TypeOK, Pairs, None
<1>4. /\ hold[c] # None => hold[c] \in issued
      /\ Admitted(c) => hold[c] \in issued
  BY HeldIssued
<1>5. CASE Refresh(r, c) BY <1>1, <1>4, <1>5 DEF Refresh
<1>6. CASE Logout(r, c) BY <1>1, <1>3, <1>4, <1>6 DEF Logout
<1>7. CASE ListSessions(r, c) BY <1>1, <1>7 DEF ListSessions
<1>8. CASE RevokeOtherSessions(r, c) BY <1>1, <1>8 DEF RevokeOtherSessions
<1>9. CASE RevokeSession(r, c) BY <1>2, <1>9 DEF RevokeSession
<1>10. CASE UpdatePassword(r, c) BY <1>1, <1>10 DEF UpdatePassword
<1>11. CASE DeleteAccount(r, c) BY <1>1, <1>11 DEF DeleteAccount
<1> QED BY <1>5, <1>6, <1>7, <1>8, <1>9, <1>10, <1>11

\* The keys name a pair that is minted only within its line.
LEMMA LinedGrows ==
  ASSUME TypeOK, Store, Lined, next \in Pairs, next' = next + 1,
         NEW l \in Roots \cup {next}, line' = [line EXCEPT ![next] = l], issued' = issued,
         \A p \in Pairs : /\ sid'[p] \in {sid[p], None} /\ dev'[p] \in {dev[p], None}
                          /\ \/ rot'[p] \in {rot[p], None}
                             \/ rot'[p] = next /\ p \in Minted /\ line[p] = l
                          /\ \/ prev'[p] \in {prev[p], None}
                             \/ p = next /\ prev'[p] \in Minted /\ line[prev'[p]] = l,
         out' \cap Pairs \subseteq Minted
  PROVE  Lined'
<1>1. /\ Minted' = Minted \cup {next} /\ next \notin Minted /\ issued \subseteq Minted
      /\ line'[next] = l /\ \A p \in Pairs : p # next => line'[p] = line[p]
      /\ \A p \in Minted : line'[p] = line[p]
      /\ Roots' = IF l = next THEN Roots \cup {next} ELSE Roots
  BY Grows
<1>2. \A p \in Minted : p \in Pairs /\ p < next BY DEF Minted
<1>3. \A p \in Minted' : line'[p] \in Roots'
  BY <1>1 DEF Lined
<1>4. \A p \in Pairs \ Minted' : line'[p] = None BY <1>1 DEF Lined
<1>5. \A p \in issued : line'[p] \in issued BY <1>1 DEF Lined
<1>6. \A p \in Pairs : rot'[p] # None => rot'[p] \in Minted' /\ line'[rot'[p]] = line'[p] /\ p < rot'[p]
  <2> SUFFICES ASSUME NEW p \in Pairs, rot'[p] # None
               PROVE  rot'[p] \in Minted' /\ line'[rot'[p]] = line'[p] /\ p < rot'[p]
    OBVIOUS
  <2>1. CASE rot'[p] = rot[p]
    <3>1. rot[p] \in Minted /\ line[rot[p]] = line[p] /\ p < rot[p] BY <2>1 DEF Lined
    <3>2. p \in Minted BY <3>1 DEF Minted, Pairs, TypeOK
    <3> QED BY <1>1, <2>1, <3>1, <3>2
  <2>2. CASE rot'[p] = next /\ p \in Minted /\ line[p] = l
    BY <1>1, <1>2, <2>2
  <2> QED BY <2>1, <2>2
<1>7. \A p \in Pairs : prev'[p] # None => p \in Minted' /\ prev'[p] < p /\ line'[prev'[p]] = line'[p]
  <2> SUFFICES ASSUME NEW p \in Pairs, prev'[p] # None
               PROVE  p \in Minted' /\ prev'[p] < p /\ line'[prev'[p]] = line'[p]
    OBVIOUS
  <2>1. CASE prev'[p] = prev[p]
    <3>1. p \in Minted /\ prev[p] < p /\ line[prev[p]] = line[p] BY <2>1 DEF Lined
    <3>2. prev[p] \in Minted
      <4>1. prev[p] \in 1..MaxPairs
        BY <2>1, SessionsAssumption DEF TypeOK, Links, None
      <4> QED BY <3>1, <4>1, SessionsAssumption DEF Minted, Pairs, TypeOK
    <3> QED BY <1>1, <2>1, <3>1, <3>2
  <2>2. CASE p = next /\ prev'[p] \in Minted /\ line[prev'[p]] = l
    BY <1>1, <1>2, <2>2
  <2> QED BY <2>1, <2>2
<1>8. \A p \in Pairs : sid'[p] # None => sid'[p] \in Minted' /\ line'[sid'[p]] = line'[p]
  <2> SUFFICES ASSUME NEW p \in Pairs, sid'[p] # None
               PROVE  sid'[p] \in Minted' /\ line'[sid'[p]] = line'[p]
    OBVIOUS
  <2>1. sid[p] \in Minted /\ line[sid[p]] = line[p] /\ sid'[p] = sid[p] BY DEF Lined
  <2>2. p \in Minted
    <3>1. sid[p] \in Minted /\ line[sid[p]] # None BY <2>1 DEF Lined, Roots, Minted, Pairs, None
    <3> QED BY <2>1, <3>1 DEF Lined
  <2> QED BY <1>1, <2>1, <2>2
<1>9. \A d \in Pairs : dev'[d] # None => d \in Minted' /\ dev'[d] \in Minted' /\ line'[dev'[d]] = line'[d]
  BY <1>1 DEF Lined
<1>10. out' \cap Pairs \subseteq Minted' BY <1>1
<1> QED BY <1>3, <1>4, <1>5, <1>6, <1>7, <1>8, <1>9, <1>10 DEF Lined

\* The requests, when a pair is minted for the one at r, which goes on as q.
LEMMA RequestsGrow ==
  ASSUME IInv, Aligned, next \in Pairs, next' = next + 1,
         NEW l \in Roots \cup {next}, line' = [line EXCEPT ![next] = l],
         issued \subseteq issued', cut \subseteq cut',
         NEW r \in Slots, NEW q, h' = [h EXCEPT ![r] = q], (Runs(q) /\ ReqLine(q))'
  PROVE  \A s \in Slots : Runs(h[s])' /\ ReqLine(h[s])'
<1>1. h'[r] = q /\ \A s \in Slots : s # r => h'[s] = h[s] BY OtherSlots
<1>2. TypeOK /\ Store /\ Lined BY DEF IInv, Aligned
<1>3. \A u \in ReqType : ReqOK(u) /\ Runs(u) /\ ReqLine(u) => Runs(u)' /\ ReqLine(u)'
  BY <1>2, ReqLineGrows
<1>4. ASSUME NEW s \in Slots, s # r PROVE Runs(h[s])' /\ ReqLine(h[s])'
  <2>1. h[s] \in ReqType /\ ReqOK(h[s]) /\ Runs(h[s]) /\ ReqLine(h[s]) BY Known
  <2> QED BY <1>1, <1>3, <1>4, <2>1
<1> QED BY <1>1, <1>4

\* The devices hold what they held; a request that stores a pair of no device
\* yet stores a new one.
LEMMA HoldersGrow ==
  ASSUME IInv, Aligned, NEW r \in Slots, NEW q, h' = [h EXCEPT ![r] = q],
         UNCHANGED <<hold, issued>>, \A p \in Minted : line'[p] = line[p],
         issued \subseteq Minted, stirred \subseteq stirred', next \notin Minted,
         q.pc \in Storing /\ q.op # "refresh" => q.new = next,
         q.heard => /\ q.cl \in Clients
                    /\ \A s \in Slots : s # r /\ h[s].heard => h[s].cl # q.cl,
         q.op = "refresh" => h[r].op = "refresh" /\ q.tok = h[r].tok /\ q.cl = h[r].cl
                             /\ (q.heard => h[r].heard)
  PROVE  Holders'
<1>1. h'[r] = q /\ \A s \in Slots : s # r => h'[s] = h[s] BY OtherSlots
<1>2. \A c \in Clients : hold[c] # None => hold[c] \in issued /\ line'[hold[c]] = line[hold[c]]
                                           /\ line[hold[c]] \in Minted
  BY DEF Aligned, Holders, Lined, Roots
<1>3. \A s \in Slots : h[s].op = "refresh" => line'[h[s].tok] = line[h[s].tok]
  BY DEF Aligned, ReqLine
<1>4. \A s \in Slots : h[s].pc \in Storing => h[s].new \in Minted BY DEF Aligned, ReqLine
<1>5. \A s \in Slots : h'[s].pc \in Storing /\ h'[s].op # "refresh" =>
        \A c \in Clients : hold[c] # None => line'[hold[c]] # h'[s].new
  BY <1>1, <1>2, <1>4 DEF Aligned, Holders
<1>6. \A s, t \in Slots : s # t /\ h'[s].pc \in Storing /\ h'[t].pc \in Storing
        /\ h'[s].op # "refresh" /\ h'[t].op # "refresh" => h'[s].new # h'[t].new
  BY <1>1, <1>4 DEF Aligned, Holders
<1>7. \A s, t \in Slots : s # t /\ h'[s].heard /\ h'[t].heard => h'[s].cl # h'[t].cl
  BY <1>1 DEF Aligned, Holders
<1>8. \A s \in Slots : h'[s].op = "refresh" =>
        h[s].op = "refresh" /\ h'[s].tok = h[s].tok /\ h'[s].cl = h[s].cl
        /\ (h'[s].heard => h[s].heard)
  BY <1>1
<1>9. \A s \in Slots : h'[s].op = "refresh" /\ h'[s].heard => hold'[h'[s].cl] = h'[s].tok
  BY <1>8 DEF Aligned, Holders
<1>10. \A s \in Slots : h'[s].op = "refresh" /\ line'[h'[s].tok] \notin stirred' =>
         \A c \in Clients : hold[c] # None /\ line'[hold[c]] = line'[h'[s].tok] => hold[c] = h'[s].tok
  BY <1>2, <1>3, <1>8 DEF Aligned, Holders
<1> QED BY <1>2, <1>5, <1>6, <1>7, <1>9, <1>10 DEF Aligned, Holders

LEMMA LoginAligned ==
  ASSUME IInv, Aligned, NEW r \in Slots, NEW c \in Clients, Login(r, c)
  PROVE  Aligned'
<1>1. PICK q : q = [Req("login", c, "create", None) EXCEPT !.new = next] OBVIOUS
<1>2. q.op = "login" /\ q.cl = c /\ q.pc = "create" /\ q.new = next /\ q.heard = TRUE
  BY <1>1 DEF Req, IdleReq
<1>3. /\ Arrive(r, q) /\ h' = [h EXCEPT ![r] = q] /\ h[r].pc = "idle" /\ Free(c) /\ Spare
      /\ UNCHANGED <<hold, issued, cut, out, rot, prev, sid, dev>>
      /\ next' = next + 1 /\ line' = [line EXCEPT ![next] = next]
      /\ stirred' = stirred \cup Overlap(q, InFlight)
  BY <1>1, <1>2 DEF Login, Arrive, redis, Creators
<1>4. TypeOK /\ Store /\ Lined BY DEF IInv, Aligned
<1>5. next \in Pairs BY <1>3, <1>4, SpareLeavesOne
<1>6. /\ Minted' = Minted \cup {next} /\ next \notin Minted /\ issued \subseteq Minted
      /\ line'[next] = next /\ \A p \in Minted : line'[p] = line[p]
      /\ Roots' = Roots \cup {next}
  BY <1>3, <1>4, <1>5, Grows
<1>7. h'[r] = q /\ \A s \in Slots : s # r => h'[s] = h[s] BY <1>3, OtherSlots
<1>8. Lined'
  <2>1. out' \cap Pairs \subseteq Minted BY <1>3, <1>4 DEF Lined
  <2> QED BY <1>3, <1>4, <1>5, <2>1, LinedGrows
<1>9. \A s \in Slots : Runs(h[s])' /\ ReqLine(h[s])'
  <2>1. (Runs(q) /\ ReqLine(q))'
    BY <1>2, <1>6 DEF Runs, ReqLine, Storing, Revokes, Creators
  <2> QED BY <1>3, <1>5, <2>1, RequestsGrow
<1>10. Holders'
  <2>1. \A s \in Slots : s # r /\ h[s].heard => h[s].cl # q.cl
    BY <1>2, <1>3 DEF Free, InFlight, Aligned, Runs
  <2> QED BY <1>2, <1>3, <1>6, <2>1, HoldersGrow
<1>11. Meets'
  <2>1. \A s \in Slots : s # r => Touched(h[s])' = Touched(h[s])
    <3>1. ASSUME NEW s \in Slots, s # r PROVE Touched(h[s])' = Touched(h[s])
      <4>1. Runs(h[s]) /\ ReqLine(h[s]) BY DEF Aligned
      <4>2. \A u : Runs(u) /\ ReqLine(u) => Touched(u)' = Touched(u) BY <1>6, TouchedStays
      <4>3. h'[s] = h[s] BY <1>7, <3>1
      <4> QED BY <4>1, <4>2, <4>3
    <3> QED BY <3>1
  <2>2. Touched(h[r])' = {next} /\ Touched(q) = {next}
    BY <1>2, <1>7 DEF Touched
  <2>3. next \in 1..next BY <1>5 DEF Pairs
  <2>4. ASSUME NEW s \in Slots, s # r, h[s].pc # "idle", next \in Touched(h[s])
        PROVE  next \in stirred'
    <3>1. s \in InFlight /\ q.op \in Creators BY <1>2, <2>4 DEF InFlight, Creators
    <3>2. next \in Overlap(q, InFlight) BY <1>5, <2>2, <2>3, <2>4, <3>1 DEF Overlap
    <3> QED BY <1>3, <3>2
  <2> SUFFICES ASSUME NEW s \in Slots, NEW t \in Slots, s # t,
                      h'[s].op \in Creators, h'[t].pc # "idle",
                      NEW l \in Roots', l \in Touched(h[s])', l \in Touched(h[t])'
               PROVE  l \in stirred'
    BY DEF Meets
  <2>5. h'[s].pc # "idle" BY <1>9 DEF Runs, Creators
  <2>6. CASE s = r \/ t = r
    BY <1>7, <2>1, <2>2, <2>4, <2>5, <2>6
  <2>7. CASE s # r /\ t # r /\ l \in Roots
    BY <1>3, <1>7, <2>1, <2>7 DEF Aligned, Meets
  <2>8. CASE s # r /\ t # r /\ l = next
    <3>1. h[s].op \in Creators /\ h[s].pc # "idle" /\ next \in Touched(h[s])
      BY <1>7, <2>1, <2>5, <2>8
    <3> QED BY <2>4, <2>8, <3>1
  <2> QED BY <1>6, <2>6, <2>7, <2>8
<1> QED BY <1>8, <1>9, <1>10, <1>11 DEF Aligned

LEMMA RecordAligned == ASSUME IInv, Aligned, NEW r \in Slots, Record(r) PROVE Aligned'
<1>a. PICK tok, l : tok = h[r].tok /\ l = line[tok] OBVIOUS
<1>0. PICK q : q = [h[r] EXCEPT !.pc = "create", !.new = next, !.mate = None] OBVIOUS
<1>1. /\ h[r] \in ReqType /\ ReqOK(h[r]) /\ Runs(h[r]) /\ ReqLine(h[r])
      /\ TypeOK /\ Store /\ Lined
  BY Known
<1>2. /\ h[r].pc = "record" /\ h' = [h EXCEPT ![r] = q] /\ next' = next + 1
      /\ rot' = [rot EXCEPT ![tok] = next] /\ prev' = [prev EXCEPT ![next] = tok]
      /\ line' = [line EXCEPT ![next] = l]
      /\ UNCHANGED <<sid, dev, hold, issued, cut, out, stirred>>
  BY <1>a, <1>0 DEF Record
<1>3. next \in Pairs BY <1>1, SessionsAssumption DEF Record, TypeOK, Pairs
<1>4. h[r].op = "refresh" /\ tok \in issued BY <1>a, <1>1, <1>2 DEF ReqOK, ReqLine
<1>5. issued \subseteq Minted /\ l \in Roots
  <2>1. issued \subseteq Minted BY <1>1 DEF Store, TypeOK, Minted
  <2> QED BY <1>a, <1>1, <1>4, <2>1 DEF Lined
<1>6. /\ Minted' = Minted \cup {next} /\ next \notin Minted
      /\ line'[next] = l /\ Roots' = Roots
      /\ \A p \in Minted : line'[p] = line[p]
  <2>1. l # next BY <1>3, <1>5 DEF Roots, Minted, Pairs
  <2> QED BY <1>1, <1>2, <1>3, <1>5, <2>1, Grows
<1>7. Lined'
  <2>1. \A p \in Pairs : /\ rot'[p] \in {rot[p], None} \/ (rot'[p] = next /\ p = tok)
                         /\ prev'[p] \in {prev[p], None} \/ (p = next /\ prev'[p] = tok)
                         /\ sid'[p] = sid[p] /\ dev'[p] = dev[p]
    BY <1>1, <1>2, <1>3 DEF TypeOK, Links
  <2>2. tok \in Minted /\ line[tok] = l /\ out' \cap Pairs \subseteq Minted
    BY <1>a, <1>1, <1>2, <1>4, <1>5 DEF Lined
  <2>3. next' = next + 1 /\ line' = [line EXCEPT ![next] = l] /\ issued' = issued
    BY <1>2
  <2>4. \A p \in Pairs : /\ sid'[p] \in {sid[p], None} /\ dev'[p] \in {dev[p], None}
                         /\ \/ rot'[p] \in {rot[p], None}
                            \/ rot'[p] = next /\ p \in Minted /\ line[p] = l
                         /\ \/ prev'[p] \in {prev[p], None}
                            \/ p = next /\ prev'[p] \in Minted /\ line[prev'[p]] = l
    BY <2>1, <2>2
  <2> QED BY <1>1, <1>3, <1>5, <2>2, <2>3, <2>4, LinedGrows
<1>8. q.pc = "create" /\ q.op = "refresh" /\ q.new = next /\ q.tok = tok /\ q.cl = h[r].cl
      /\ (q.heard => h[r].heard)
  BY <1>a, <1>0, <1>1, <1>4 DEF ReqType
<1>9. \A s \in Slots : Runs(h[s])' /\ ReqLine(h[s])'
  <2>1. (Runs(q) /\ ReqLine(q))'
    <3>1. line'[tok] = l BY <1>a, <1>4, <1>5, <1>6
    <3>2. q.heard => q.cl \in Clients BY <1>1, <1>8 DEF Runs
    <3>3. UNCHANGED issued BY <1>2
    <3> QED BY <1>4, <1>6, <1>8, <3>1, <3>2, <3>3 DEF Runs, ReqLine, Storing, Revokes, Creators
  <2>2. /\ next' = next + 1 /\ line' = [line EXCEPT ![next] = l] /\ h' = [h EXCEPT ![r] = q]
        /\ issued \subseteq issued' /\ cut \subseteq cut' /\ l \in Roots \cup {next}
    BY <1>2, <1>5
  <2> QED BY <1>3, <2>1, <2>2, RequestsGrow
<1>10. Holders'
  <2>1. q.heard => /\ q.cl \in Clients
                   /\ \A s \in Slots : s # r /\ h[s].heard => h[s].cl # q.cl
    BY <1>1, <1>8 DEF Runs, Aligned, Holders
  <2>2. h' = [h EXCEPT ![r] = q] /\ UNCHANGED <<hold, issued>> /\ stirred \subseteq stirred'
    BY <1>2
  <2>3. h[r].op = "refresh" /\ q.tok = h[r].tok /\ q.cl = h[r].cl
        /\ (q.heard => h[r].heard)
    BY <1>a, <1>4, <1>8
  <2> QED BY <1>5, <1>6, <1>8, <2>1, <2>2, <2>3, HoldersGrow
<1>11. Meets'
  <2>1. Touched(q)' = {l} /\ Touched(h[r]) = {l}
    <3>1. line'[tok] = l BY <1>a, <1>4, <1>5, <1>6
    <3> QED BY <1>a, <1>4, <1>8, <3>1 DEF Touched
  <2>2. h[r].op \in Creators BY <1>4 DEF Creators
  <2>3. h' = [h EXCEPT ![r] = q] /\ stirred \subseteq stirred' /\ h[r].pc # "idle"
    BY <1>2
  <2>4. Touched(q)' \cap Roots \subseteq Touched(h[r])
    BY <2>1
  <2> QED BY <1>5, <1>6, <2>2, <2>3, <2>4, MeetsGrows
<1> QED BY <1>7, <1>9, <1>10, <1>11 DEF Aligned

LEMMA RevokeAllSessionsAligned ==
  ASSUME IInv, Aligned, NEW r \in Slots, RevokeAllSessions(r)
  PROVE  Aligned'
<1>1. /\ h[r] \in ReqType /\ ReqOK(h[r]) /\ Runs(h[r]) /\ ReqLine(h[r])
      /\ TypeOK /\ Store /\ Lined
  BY Known
<1>2. /\ h[r].pc = "wipe" /\ UNCHANGED <<hold, issued>> /\ cut \subseteq cut'
      /\ stirred \subseteq stirred'
  BY DEF RevokeAllSessions
<1>3. h[r].op \in {"password", "delete"} BY <1>1, <1>2 DEF Runs
<1>4. \A p \in Pairs : /\ rot'[p] \in {rot[p], None} /\ prev'[p] \in {prev[p], None}
                       /\ sid'[p] \in {sid[p], None} /\ dev'[p] \in {dev[p], None}
  BY <1>1 DEF RevokeAllSessions, Wiped
<1>5. out' \cap Pairs \subseteq Minted /\ issued \subseteq Minted
  <2>1. Lines \subseteq Roots /\ issued \subseteq Minted BY LinesAreRoots
  <2> QED BY <1>1, <2>1 DEF RevokeAllSessions, Lined, Roots
<1>6. CASE h[r].op = "password"
  <2>0. PICK q : q = [h[r] EXCEPT !.pc = "create", !.new = next] OBVIOUS
  <2>1. /\ h' = [h EXCEPT ![r] = q] /\ next' = next + 1 /\ line' = [line EXCEPT ![next] = next]
        /\ stirred' = stirred \cup (IF InFlight \ {r} # {} THEN {next} ELSE {})
    BY <1>6, <2>0 DEF RevokeAllSessions
  <2>2. next \in Pairs BY <1>1, <1>6, SessionsAssumption DEF RevokeAllSessions, TypeOK, Pairs
  <2>3. /\ Minted' = Minted \cup {next} /\ next \notin Minted
        /\ line'[next] = next /\ Roots' = Roots \cup {next}
        /\ \A p \in Minted : line'[p] = line[p]
    BY <1>1, <2>1, <2>2, Grows
  <2>4. Lined' BY <1>1, <1>2, <1>4, <1>5, <2>1, <2>2, LinedGrows
  <2>5. q.pc = "create" /\ q.op = "password" /\ q.new = next /\ q.cl = h[r].cl
        /\ (q.heard => h[r].heard)
    BY <1>1, <1>6, <2>0 DEF ReqType
  <2>6. \A s \in Slots : Runs(h[s])' /\ ReqLine(h[s])'
    <3>1. q.heard => q.cl \in Clients BY <1>1, <2>5 DEF Runs
    <3>2. (Runs(q) /\ ReqLine(q))'
      BY <2>3, <2>5, <3>1 DEF Runs, ReqLine, Storing, Revokes, Creators
    <3> QED BY <1>2, <2>1, <2>2, <3>2, RequestsGrow
  <2>7. Holders'
    <3>1. q.heard => /\ q.cl \in Clients
                     /\ \A s \in Slots : s # r /\ h[s].heard => h[s].cl # q.cl
      BY <1>1, <2>5 DEF Runs, Aligned, Holders
    <3> QED BY <1>2, <1>5, <2>1, <2>3, <2>5, <3>1, HoldersGrow
  <2>8. Meets'
    <3>1. Touched(q)' = Pairs /\ Touched(h[r]) = Pairs BY <1>6, <2>5 DEF Touched
    <3>2. h[r].op \in Creators /\ h[r].pc # "idle" BY <1>2, <1>6 DEF Creators
    <3>3. next \in stirred' \/ \A s \in Slots : s # r => h[s].pc = "idle"
      BY <2>1 DEF InFlight
    <3>4. Touched(q)' \cap Roots \subseteq Touched(h[r]) BY <3>1
    <3>5. \A l \in Roots' : l \in Roots \/ l \in stirred' \/ \A s \in Slots : s # r => h[s].pc = "idle"
      BY <2>3, <3>3
    <3> QED BY <1>2, <1>5, <2>1, <2>3, <3>2, <3>4, <3>5, MeetsGrows
  <2> QED BY <2>4, <2>6, <2>7, <2>8 DEF Aligned
<1>7. CASE h[r].op # "password"
  <2> DEFINE q == [h[r] EXCEPT !.pc = "erase"]
  <2>1. h' = [h EXCEPT ![r] = q] /\ UNCHANGED <<next, line, stirred>>
    BY <1>7 DEF RevokeAllSessions
  <2>2. Fewer BY <1>2, <1>4, <1>5, <2>1 DEF Fewer
  <2>3. Same(q, h[r]) /\ Runs(q) /\ ReqLine(q)
    BY <1>1, <1>2, <1>3, <1>7 DEF ReqType, ReqOK, Same, Runs, ReqLine, Storing, Revokes
  <2> HIDE DEF q
  <2> QED BY <1>2, <2>1, <2>2, <2>3, GoesOn
<1> QED BY <1>6, <1>7

LEMMA CreateAuthAligned ==
  ASSUME IInv, Aligned, NEW r \in Slots, CreateAuth(r)
  PROVE  Aligned'
<1>1. /\ h[r] \in ReqType /\ ReqOK(h[r]) /\ Runs(h[r]) /\ ReqLine(h[r]) /\ Lined
  BY Known
<1>0. PICK q : q = IF h[r].op = "refresh" THEN [h[r] EXCEPT !.pc = "carry"]
                   ELSE [h[r] EXCEPT !.pc = "write", !.id = h[r].new] OBVIOUS
<1>2. /\ h[r].pc = "create" /\ issued' = issued \cup {h[r].new} /\ h' = [h EXCEPT ![r] = q]
      /\ UNCHANGED <<rot, prev, sid, dev, next, hold, line, cut, out, stirred>>
  BY <1>0 DEF CreateAuth
<1>3. /\ q.op = h[r].op /\ q.tok = h[r].tok /\ q.cl = h[r].cl /\ q.new = h[r].new
      /\ (q.heard => h[r].heard) /\ h[r].op \in Creators
      /\ IF q.op = "refresh" THEN q.pc = "carry" ELSE q.pc = "write" /\ q.id = q.new
  BY <1>0, <1>1, <1>2 DEF ReqType, Runs, Storing
<1>4. h[r].new \in Minted /\ line[h[r].new] = IF h[r].op = "refresh" THEN line[h[r].tok] ELSE h[r].new
  BY <1>1, <1>2 DEF ReqLine, Storing
<1>5. Lined'
  <2>1. Minted' = Minted /\ Roots' = Roots BY <1>2 DEF Minted, Roots
  <2>2. line[h[r].new] \in issued'
    BY <1>1, <1>2, <1>4 DEF Lined, ReqLine
  <2> QED BY <1>1, <1>2, <2>1, <2>2 DEF Lined
<1>6. \A s \in Slots : Runs(h[s])' /\ ReqLine(h[s])'
  <2>1. h'[r] = q /\ \A s \in Slots : s # r => h'[s] = h[s] BY <1>2, OtherSlots
  <2>2. \A u : (Runs(u) => Runs(u)') /\ (ReqLine(u) => ReqLine(u)')
    BY <1>2, RunsStays, ReqLineStays
  <2>3. Minted' = Minted /\ Roots' = Roots /\ line' = line /\ q.new \in issued'
    BY <1>2, <1>3 DEF Minted, Roots
  <2>4. (q.op = "refresh" => q.tok \in issued) /\ (q.op = "login" => q.new \in Minted)
        /\ (q.heard => q.cl \in Clients)
    BY <1>1, <1>2, <1>3 DEF Runs, ReqLine
  <2>5. Runs(q)' BY <1>3, <2>3, <2>4 DEF Runs, Storing, Revokes, Creators
  <2>6. ReqLine(q)'
    BY <1>2, <1>3, <1>4, <2>3, <2>4 DEF ReqLine, Storing, Revokes, Creators
  <2> QED BY <2>1, <2>2, <2>5, <2>6 DEF Aligned
<1>7. Same(q, h[r]) BY <1>2, <1>3 DEF Same, Storing, Creators
<1>8. Holders' BY <1>2, <1>7, HoldersStay DEF Aligned
<1>9. Meets' BY <1>2, <1>7, MeetsStays DEF Aligned
<1> QED BY <1>5, <1>6, <1>8, <1>9 DEF Aligned

LEMMA WriteSessionAligned ==
  ASSUME IInv, Aligned, NEW r \in Slots, WriteSession(r)
  PROVE  Aligned'
<1>0. PICK q : q = h[r] OBVIOUS
<1>1. /\ q \in ReqType /\ ReqOK(q) /\ Runs(q) /\ ReqLine(q) /\ Lined /\ TypeOK
  BY <1>0, Known
<1>2. /\ q.pc = "write" /\ h' = [h EXCEPT ![r] = IdleReq]
      /\ dev' = [dev EXCEPT ![q.id] = q.new] /\ sid' = [sid EXCEPT ![q.new] = q.id]
      /\ hold' = IF q.heard THEN [hold EXCEPT ![q.cl] = q.new] ELSE hold
      /\ UNCHANGED <<rot, prev, next, issued, line, cut, out, stirred>>
  BY <1>0 DEF WriteSession, Answer
<1>3. /\ q.new \in Minted /\ q.id \in Minted /\ line[q.id] = line[q.new] /\ q.new \in issued
      /\ line[q.new] = (IF q.op = "refresh" THEN line[q.tok] ELSE q.new)
      /\ q.op \in Creators /\ line[q.new] \in Roots
      /\ (q.op = "refresh" => q.tok \in issued)
  BY <1>1, <1>2 DEF ReqLine, Storing, Runs, Lined
<1>4. Minted' = Minted /\ Roots' = Roots BY <1>2 DEF Minted, Roots
<1>5. Lined'
  <2>1. \A p \in Pairs : /\ dev'[p] = dev[p] \/ (p = q.id /\ dev'[p] = q.new)
                         /\ sid'[p] = sid[p] \/ (p = q.new /\ sid'[p] = q.id)
    BY <1>1, <1>2 DEF TypeOK, Links
  <2> HIDE DEF Pairs
  <2> QED BY <1>1, <1>2, <1>3, <1>4, <2>1 DEF Lined
<1>6. h'[r] = IdleReq /\ \A s \in Slots : s # r => h'[s] = h[s] BY <1>2, OtherSlots
<1>7. \A s \in Slots : Runs(h[s])' /\ ReqLine(h[s])'
  <2>1. \A u : (Runs(u) => Runs(u)') /\ (ReqLine(u) => ReqLine(u)')
    BY <1>2, RunsStays, ReqLineStays
  <2>2. Runs(IdleReq) /\ ReqLine(IdleReq)
    BY DEF IdleReq, Runs, ReqLine, Storing, Revokes
  <2> QED BY <1>6, <2>1, <2>2 DEF Aligned
<1>8. Meets' BY <1>2, MeetsStays DEF Aligned
<1>9. \A c \in Clients : \/ hold'[c] = hold[c] /\ ~(q.heard /\ q.cl = c)
                         \/ q.heard /\ q.cl = c /\ hold'[c] = q.new
  BY <1>1, <1>2 DEF TypeOK
<1>10. IdleReq.op # "refresh" /\ IdleReq.pc \notin Storing /\ IdleReq.heard = FALSE
  BY DEF IdleReq, Storing
<1>11. \A s \in Slots : h'[s].pc \in Storing \/ h'[s].op = "refresh" \/ h'[s].heard
         => s # r /\ h'[s] = h[s]
  BY <1>6, <1>10
\* Whatever had the line of the new pair before was the request itself.
<1>12. q.op = "refresh" /\ q.heard => hold[q.cl] = q.tok /\ q.tok # None /\ q.cl \in Clients
  BY <1>0, <1>1, SessionsAssumption DEF Aligned, Holders, Runs, ReqOK, Pairs, None
<1>13. \A c \in Clients : q.heard /\ hold[c] # None /\ c # q.cl => line[hold[c]] # line[q.new]
  <2>1. CASE q.op = "refresh" BY <1>3, <1>12, <2>1 DEF Aligned, Holders
  <2>2. CASE q.op # "refresh" BY <1>0, <1>2, <1>3, <2>2 DEF Aligned, Holders, Storing
  <2> QED BY <2>1, <2>2
<1>14. \A s \in Slots : s # r /\ q.heard /\ h[s].pc \in Storing /\ h[s].op # "refresh"
         => line[q.new] # h[s].new
  <2>1. CASE q.op = "refresh" BY <1>3, <1>12, <2>1 DEF Aligned, Holders
  <2>2. CASE q.op # "refresh" BY <1>0, <1>2, <1>3, <2>2 DEF Aligned, Holders, Storing
  <2> QED BY <2>1, <2>2
<1>15. \A s \in Slots : s # r /\ h[s].op = "refresh" /\ line[h[s].tok] \notin stirred
         => line[h[s].tok] # line[q.new]
  <2> SUFFICES ASSUME NEW s \in Slots, s # r, h[s].op = "refresh", line[h[s].tok] = line[q.new]
               PROVE  line[q.new] \in stirred
    OBVIOUS
  <2>1. line[q.new] \in Touched(q)
    <3>1. line[q.new] \in Pairs BY <1>3 DEF Roots, Minted
    <3> QED BY <1>3, <3>1 DEF Touched, Creators
  <2>2. line[q.new] \in Touched(h[s]) BY DEF Touched
  <2>3. h[s].pc # "idle" BY DEF Aligned, Runs
  <2> QED BY <1>0, <1>3, <2>1, <2>2, <2>3 DEF Aligned, Meets
<1>16. Holders'
  <2>1. \A c \in Clients : hold'[c] # None => hold'[c] \in issued'
    BY <1>2, <1>3, <1>9 DEF Aligned, Holders
  <2>2. \A c, d \in Clients : c # d /\ hold'[c] # None /\ hold'[d] # None
          => line[hold'[c]] # line[hold'[d]]
    BY <1>9, <1>13 DEF Aligned, Holders
  <2>3. \A s \in Slots : h'[s].pc \in Storing /\ h'[s].op # "refresh" =>
          \A c \in Clients : hold'[c] # None => line[hold'[c]] # h'[s].new
    BY <1>9, <1>11, <1>14 DEF Aligned, Holders
  <2>4. \A s, t \in Slots : s # t /\ h'[s].pc \in Storing /\ h'[t].pc \in Storing
          /\ h'[s].op # "refresh" /\ h'[t].op # "refresh" => h'[s].new # h'[t].new
    BY <1>11 DEF Aligned, Holders
  <2>5. \A s, t \in Slots : s # t /\ h'[s].heard /\ h'[t].heard => h'[s].cl # h'[t].cl
    BY <1>11 DEF Aligned, Holders
  <2>6. \A s \in Slots : h'[s].op = "refresh" /\ h'[s].heard => hold'[h'[s].cl] = h'[s].tok
    <3> SUFFICES ASSUME NEW s \in Slots, h'[s].op = "refresh", h'[s].heard
                 PROVE  hold'[h'[s].cl] = h'[s].tok
      OBVIOUS
    <3>1. s # r /\ h'[s] = h[s] /\ h[s].cl \in Clients BY <1>11 DEF Aligned, Runs
    <3>2. q.heard => q.cl # h[s].cl BY <1>0, <3>1 DEF Aligned, Holders
    <3> QED BY <1>9, <3>1, <3>2 DEF Aligned, Holders
  <2>7. \A s \in Slots : h'[s].op = "refresh" /\ line[h'[s].tok] \notin stirred' =>
          \A c \in Clients : hold'[c] # None /\ line[hold'[c]] = line[h'[s].tok]
                             => hold'[c] = h'[s].tok
    BY <1>2, <1>9, <1>11, <1>15 DEF Aligned, Holders
  <2> QED BY <1>2, <2>1, <2>2, <2>3, <2>4, <2>5, <2>6, <2>7 DEF Holders
<1> QED BY <1>5, <1>7, <1>8, <1>16 DEF Aligned

-----------------------------------------------------------------------------
(* The lines stay aligned.                                                 *)

LEMMA AlignedInit == Init => Aligned
<1> SUFFICES ASSUME Init PROVE Aligned
  OBVIOUS
<1>1. /\ \A p \in Pairs : rot[p] = None /\ prev[p] = None /\ sid[p] = None /\ dev[p] = None
                          /\ line[p] = None
      /\ next = 1 /\ issued = {} /\ out = {} /\ \A s \in Slots : h[s] = IdleReq
      /\ \A c \in Clients : hold[c] = None
  BY DEF Init
<1>2. Minted = {} BY <1>1 DEF Minted, Pairs
<1>3. Lined BY <1>1, <1>2 DEF Lined
<1>4. \A s \in Slots : Runs(h[s]) /\ ReqLine(h[s])
  BY <1>1 DEF Runs, ReqLine, IdleReq, Storing, Revokes
<1>5. Holders BY <1>1 DEF Holders, IdleReq, Storing
<1>6. Meets BY <1>1 DEF Meets, IdleReq, Creators
<1> QED BY <1>3, <1>4, <1>5, <1>6 DEF Aligned

LEMMA AlignedStep == ASSUME IInv, Aligned, NEW r \in Slots, Step(r) PROVE Aligned'
<1>1. CASE RotationStep(r)
  BY <1>1, LookAligned, ClaimAligned, ReplayAligned, UnlinkAligned, RecordAligned
     DEF RotationStep
<1>2. CASE CreationStep(r)
  BY <1>2, CreateAuthAligned, CarrySessionAligned, WriteSessionAligned DEF CreationStep
<1>3. CASE RevocationStep(r)
  BY <1>3, GetPairAligned, DelPairAligned, DropLinkAligned, DropPredecessorAligned,
     EndSessionAligned, WhoAligned, ValAligned DEF RevocationStep
<1>4. CASE ListStep(r)
  BY <1>4, IdsAligned, VisitAligned, ExistsAligned, ForgetAligned, CurrentAligned,
     PickAligned, OthersDoneAligned DEF ListStep
<1>5. CASE WipeStep(r)
  BY <1>5, MembersAligned, DevicesAligned, RevokeAllSessionsAligned, EraseAligned DEF WipeStep
<1> QED BY <1>1, <1>2, <1>3, <1>4, <1>5 DEF Step

LEMMA AlignedNext == IInv /\ Aligned /\ [Next]_vars => Aligned'
<1> SUFFICES ASSUME IInv, Aligned, [Next]_vars PROVE Aligned'
  OBVIOUS
<1>1. CASE UNCHANGED vars
  <2>1. UNCHANGED <<rot, prev, sid, dev, next, h, hold, issued, line, cut, out, stirred>>
    BY <1>1 DEF vars, redis, notes
  <2>2. Minted' = Minted /\ Roots' = Roots BY <2>1 DEF Minted, Roots
  <2>3. Lined' BY <2>1, <2>2 DEF Aligned, Lined
  <2>4. \A u : (Runs(u) => Runs(u)') /\ (ReqLine(u) => ReqLine(u)')
    BY <2>1, RunsStays, ReqLineStays
  <2>5. \A s \in Slots : Runs(h[s])' /\ ReqLine(h[s])' BY <2>1, <2>4 DEF Aligned
  <2>6. Holders' BY <2>1 DEF Aligned, Holders
  <2>7. Meets' BY <2>1, <2>2 DEF Aligned, Meets, Touched
  <2> QED BY <2>3, <2>5, <2>6, <2>7 DEF Aligned
<1>2. ASSUME NEW r \in Slots, Step(r) PROVE Aligned' BY <1>2, AlignedStep
<1>3. ASSUME NEW r \in Slots, Abandon(r) PROVE Aligned' BY <1>3, AbandonAligned
<1>4. ASSUME NEW r \in Slots, Fail(r) PROVE Aligned' BY <1>4, FailAligned
<1>5. ASSUME NEW r \in Slots, NEW c \in Clients, Arrival(r, c) PROVE Aligned'
  BY <1>5, LoginAligned, ArrivalAligned DEF Arrival
<1> QED BY <1>1, <1>2, <1>3, <1>4, <1>5 DEF Next

LEMMA AlignedAlways == Spec => [](IInv /\ Aligned)
<1>1. Init => IInv /\ Aligned BY InvInit, AlignedInit
<1>2. IInv /\ Aligned /\ [Next]_vars => (IInv /\ Aligned)' BY InvNext, AlignedNext
<1> QED BY <1>1, <1>2, PTL DEF Spec

-----------------------------------------------------------------------------
(* What is not signed out keeps a token that refreshes.  Not inductive by  *)
(* itself: between its claim and the record of the new pair a token works  *)
(* no more, and the answer hands out a pair that has to work when it does. *)

ClaimingOn(l) == \E r \in Slots : Claiming(h[r]) /\ line[h[r].tok] = l

Works ==
  \A c \in Clients : hold[c] # None /\ line[hold[c]] \notin cut \cup lost \cup stirred
    => Usable(hold[c]) \/ ClaimingOn(line[hold[c]])

Answering ==
  \A r \in Slots : h[r].pc \in {"carry", "write"} /\ line[h[r].new] \notin cut \cup stirred
    => h[r].new \in rt

Kept == Works /\ Answering

LEMMA WorksStays ==
  ASSUME IInv, Aligned, Works, \A p \in issued : line'[p] = line[p],
         cut \subseteq cut', lost \subseteq lost', stirred \subseteq stirred',
         \A c \in Clients : hold'[c] \in {hold[c], None},
         \A p \in issued : Usable(p) => Usable(p)' \/ line[p] \in cut' \/ ClaimingOn(line[p])',
         \A p \in issued : ClaimingOn(line[p]) => ClaimingOn(line[p])' \/ line[p] \in lost'
  PROVE  Works'
<1>1. \A c \in Clients : hold'[c] # None => hold'[c] = hold[c] /\ hold[c] \in issued
  BY DEF Aligned, Holders
<1>2. ASSUME NEW c \in Clients, NEW p \in issued, hold'[c] = p, hold[c] = p, p # None,
             line'[p] \notin cut' \cup lost' \cup stirred'
      PROVE  Usable(p)' \/ ClaimingOn(line[p])'
  BY <1>2 DEF Works
<1>3. \A c \in Clients : \A p \in issued :
        hold'[c] = p /\ hold[c] = p /\ p # None /\ line'[p] \notin cut' \cup lost' \cup stirred'
          => p \in rt' \/ rot'[p] # None \/ \E r \in Slots : Claiming(h[r])' /\ line'[h'[r].tok] = line'[p]
  BY <1>2 DEF Usable, ClaimingOn
<1> QED BY <1>1, <1>3 DEF Works, Usable, ClaimingOn

\* What a step that leaves the tokens alone leaves alone besides.
Mildly(r) ==
  /\ Quiet(r) /\ UNCHANGED <<line, cut, lost, stirred>>
  /\ \A c \in Clients : hold'[c] \in {hold[c], None}
  /\ h'[r].pc \in {"carry", "write"} => h[r].pc \in {"carry", "write"} /\ h'[r].new = h[r].new

LEMMA LookMild == ASSUME IInv, NEW r \in Slots, Look(r) PROVE Mildly(r)
<1>1. Quiet(r) BY LookQuiet
<1>2. UNCHANGED <<line, cut, lost, stirred>> /\ \A c \in Clients : hold'[c] \in {hold[c], None}
  BY DEF Look, Goto, Answer, Refused, redis, notes, IInv, TypeOK
<1>3. h'[r].pc \in {"carry", "write"} => h[r].pc \in {"carry", "write"} /\ h'[r].new = h[r].new
  BY Known, SlotOf DEF Look, Goto, Answer, Refused, IdleReq, IInv, TypeOK, ReqType, AfterRevoke
<1> QED BY <1>1, <1>2, <1>3 DEF Mildly

LEMMA UnlinkMild == ASSUME IInv, NEW r \in Slots, Unlink(r) PROVE Mildly(r)
<1>1. Quiet(r) BY UnlinkQuiet
<1>2. UNCHANGED <<line, cut, lost, stirred>> /\ \A c \in Clients : hold'[c] \in {hold[c], None}
  BY DEF Unlink, Goto, Answer, Refused, redis, notes, IInv, TypeOK
<1>3. h'[r].pc \in {"carry", "write"} => h[r].pc \in {"carry", "write"} /\ h'[r].new = h[r].new
  BY Known, SlotOf DEF Unlink, Goto, Answer, Refused, IdleReq, IInv, TypeOK, ReqType, AfterRevoke
<1> QED BY <1>1, <1>2, <1>3 DEF Mildly

LEMMA CarrySessionMild == ASSUME IInv, NEW r \in Slots, CarrySession(r) PROVE Mildly(r)
<1>1. Quiet(r) BY CarrySessionQuiet
<1>2. UNCHANGED <<line, cut, lost, stirred>> /\ \A c \in Clients : hold'[c] \in {hold[c], None}
  BY DEF CarrySession, Goto, Answer, Refused, redis, notes, IInv, TypeOK
<1>3. h'[r].pc \in {"carry", "write"} => h[r].pc \in {"carry", "write"} /\ h'[r].new = h[r].new
  BY Known, SlotOf DEF CarrySession, Goto, Answer, Refused, IdleReq, IInv, TypeOK, ReqType, AfterRevoke
<1> QED BY <1>1, <1>2, <1>3 DEF Mildly

LEMMA GetPairMild == ASSUME IInv, NEW r \in Slots, GetPair(r) PROVE Mildly(r)
<1>1. Quiet(r) BY GetPairQuiet
<1>2. UNCHANGED <<line, cut, lost, stirred>> /\ \A c \in Clients : hold'[c] \in {hold[c], None}
  BY DEF GetPair, Goto, Answer, Refused, redis, notes, IInv, TypeOK
<1>3. h'[r].pc \in {"carry", "write"} => h[r].pc \in {"carry", "write"} /\ h'[r].new = h[r].new
  BY Known, SlotOf DEF GetPair, Goto, Answer, Refused, IdleReq, IInv, TypeOK, ReqType, AfterRevoke
<1> QED BY <1>1, <1>2, <1>3 DEF Mildly

LEMMA DropLinkMild == ASSUME IInv, NEW r \in Slots, DropLink(r) PROVE Mildly(r)
<1>1. Quiet(r) BY DropLinkQuiet
<1>2. UNCHANGED <<line, cut, lost, stirred>> /\ \A c \in Clients : hold'[c] \in {hold[c], None}
  BY DEF DropLink, Goto, Answer, Refused, redis, notes, IInv, TypeOK
<1>3. h'[r].pc \in {"carry", "write"} => h[r].pc \in {"carry", "write"} /\ h'[r].new = h[r].new
  BY Known, SlotOf DEF DropLink, Goto, Answer, Refused, IdleReq, IInv, TypeOK, ReqType, AfterRevoke
<1> QED BY <1>1, <1>2, <1>3 DEF Mildly

LEMMA EndSessionMild == ASSUME IInv, NEW r \in Slots, EndSession(r) PROVE Mildly(r)
<1>1. Quiet(r) BY EndSessionQuiet
<1>2. UNCHANGED <<line, cut, lost, stirred>> /\ \A c \in Clients : hold'[c] \in {hold[c], None}
  BY DEF EndSession, Goto, Answer, Refused, redis, notes, IInv, TypeOK
<1>3. h'[r].pc \in {"carry", "write"} => h[r].pc \in {"carry", "write"} /\ h'[r].new = h[r].new
  BY Known, SlotOf DEF EndSession, Goto, Answer, Refused, IdleReq, IInv, TypeOK, ReqType, AfterRevoke
<1> QED BY <1>1, <1>2, <1>3 DEF Mildly

LEMMA WhoMild == ASSUME IInv, NEW r \in Slots, Who(r) PROVE Mildly(r)
<1>1. Quiet(r) BY WhoQuiet
<1>2. UNCHANGED <<line, cut, lost, stirred>> /\ \A c \in Clients : hold'[c] \in {hold[c], None}
  BY DEF Who, Goto, Answer, Refused, redis, notes, IInv, TypeOK
<1>3. h'[r].pc \in {"carry", "write"} => h[r].pc \in {"carry", "write"} /\ h'[r].new = h[r].new
  BY Known, SlotOf DEF Who, Goto, Answer, Refused, IdleReq, IInv, TypeOK, ReqType, AfterRevoke
<1> QED BY <1>1, <1>2, <1>3 DEF Mildly

LEMMA ValMild == ASSUME IInv, NEW r \in Slots, Val(r) PROVE Mildly(r)
<1>1. Quiet(r) BY ValQuiet
<1>2. UNCHANGED <<line, cut, lost, stirred>> /\ \A c \in Clients : hold'[c] \in {hold[c], None}
  BY DEF Val, Goto, Answer, Refused, redis, notes, IInv, TypeOK
<1>3. h'[r].pc \in {"carry", "write"} => h[r].pc \in {"carry", "write"} /\ h'[r].new = h[r].new
  BY Known, SlotOf DEF Val, Goto, Answer, Refused, IdleReq, IInv, TypeOK, ReqType, AfterRevoke
<1> QED BY <1>1, <1>2, <1>3 DEF Mildly

LEMMA IdsMild == ASSUME IInv, NEW r \in Slots, Ids(r) PROVE Mildly(r)
<1>1. Quiet(r) BY IdsQuiet
<1>2. UNCHANGED <<line, cut, lost, stirred>> /\ \A c \in Clients : hold'[c] \in {hold[c], None}
  BY DEF Ids, Goto, Answer, Refused, redis, notes, IInv, TypeOK
<1>3. h'[r].pc \in {"carry", "write"} => h[r].pc \in {"carry", "write"} /\ h'[r].new = h[r].new
  BY Known, SlotOf DEF Ids, Goto, Answer, Refused, IdleReq, IInv, TypeOK, ReqType, AfterRevoke
<1> QED BY <1>1, <1>2, <1>3 DEF Mildly

LEMMA VisitMild == ASSUME IInv, NEW r \in Slots, Visit(r) PROVE Mildly(r)
<1>1. Quiet(r) BY VisitQuiet
<1>2. UNCHANGED <<line, cut, lost, stirred>> /\ \A c \in Clients : hold'[c] \in {hold[c], None}
  <2>1. Refused(r) => \A c \in Clients : hold'[c] = hold[c]
    BY DEF Refused, Answer, IInv, TypeOK
  <2>2. Refused(r) \/ UNCHANGED hold BY DEF Visit, Goto
  <2> QED BY <2>1, <2>2 DEF Visit, notes
<1>3. h'[r].pc \in {"carry", "write"} => h[r].pc \in {"carry", "write"} /\ h'[r].new = h[r].new
  <2>1. h[r] \in ReqType /\ r \in DOMAIN h BY SlotOf DEF TypeOK
  <2>2. Refused(r) => h'[r].pc = "idle" BY <2>1 DEF Refused, Answer, IdleReq
  <2>3. Goto(r, "current") => h'[r].pc = "current" BY <2>1 DEF Goto, ReqType
  <2>4. ASSUME NEW d \in h[r].ids,
               h' = [h EXCEPT ![r].pc = IF dev[d] = None THEN "forget" ELSE "exists",
                              ![r].id = d, ![r].mate = dev[d]]
        PROVE  h'[r].pc \in {"forget", "exists"}
    BY <2>1, <2>4 DEF ReqType
  <2> QED BY <2>2, <2>3, <2>4 DEF Visit
<1> QED BY <1>1, <1>2, <1>3 DEF Mildly

LEMMA ExistsMild == ASSUME IInv, NEW r \in Slots, Exists(r) PROVE Mildly(r)
<1>1. Quiet(r) BY ExistsQuiet
<1>2. UNCHANGED <<line, cut, lost, stirred>> /\ \A c \in Clients : hold'[c] \in {hold[c], None}
  BY DEF Exists, Goto, Answer, Refused, redis, notes, IInv, TypeOK
<1>3. h'[r].pc \in {"carry", "write"} => h[r].pc \in {"carry", "write"} /\ h'[r].new = h[r].new
  BY Known, SlotOf DEF Exists, Goto, Answer, Refused, IdleReq, IInv, TypeOK, ReqType, AfterRevoke
<1> QED BY <1>1, <1>2, <1>3 DEF Mildly

LEMMA ForgetMild == ASSUME IInv, NEW r \in Slots, Forget(r) PROVE Mildly(r)
<1>1. Quiet(r) BY ForgetQuiet
<1>2. UNCHANGED <<line, cut, lost, stirred>> /\ \A c \in Clients : hold'[c] \in {hold[c], None}
  BY DEF Forget, Goto, Answer, Refused, redis, notes, IInv, TypeOK
<1>3. h'[r].pc \in {"carry", "write"} => h[r].pc \in {"carry", "write"} /\ h'[r].new = h[r].new
  BY Known, SlotOf DEF Forget, Goto, Answer, Refused, IdleReq, IInv, TypeOK, ReqType, AfterRevoke
<1> QED BY <1>1, <1>2, <1>3 DEF Mildly

LEMMA CurrentMild == ASSUME IInv, NEW r \in Slots, Current(r) PROVE Mildly(r)
<1>1. Quiet(r) BY CurrentQuiet
<1>2. UNCHANGED <<line, cut, lost, stirred>> /\ \A c \in Clients : hold'[c] \in {hold[c], None}
  BY DEF Current, Goto, Answer, Refused, redis, notes, IInv, TypeOK
<1>3. h'[r].pc \in {"carry", "write"} => h[r].pc \in {"carry", "write"} /\ h'[r].new = h[r].new
  BY Known, SlotOf DEF Current, Goto, Answer, Refused, IdleReq, IInv, TypeOK, ReqType, AfterRevoke
<1> QED BY <1>1, <1>2, <1>3 DEF Mildly

LEMMA PickMild == ASSUME IInv, NEW r \in Slots, Pick(r) PROVE Mildly(r)
<1>1. Quiet(r) BY PickQuiet
<1>2. UNCHANGED <<line, cut, lost, stirred>> /\ \A c \in Clients : hold'[c] \in {hold[c], None}
  BY DEF Pick, Goto, Answer, Refused, redis, notes, IInv, TypeOK
<1>3. h'[r].pc \in {"carry", "write"} => h[r].pc \in {"carry", "write"} /\ h'[r].new = h[r].new
  BY Known, SlotOf DEF Pick, Goto, Answer, Refused, IdleReq, IInv, TypeOK, ReqType, AfterRevoke
<1> QED BY <1>1, <1>2, <1>3 DEF Mildly

LEMMA OthersDoneMild == ASSUME IInv, NEW r \in Slots, OthersDone(r) PROVE Mildly(r)
<1>1. Quiet(r) BY OthersDoneQuiet
<1>2. UNCHANGED <<line, cut, lost, stirred>> /\ \A c \in Clients : hold'[c] \in {hold[c], None}
  BY DEF OthersDone, Goto, Answer, Refused, redis, notes, IInv, TypeOK
<1>3. h'[r].pc \in {"carry", "write"} => h[r].pc \in {"carry", "write"} /\ h'[r].new = h[r].new
  BY Known, SlotOf DEF OthersDone, Goto, Answer, Refused, IdleReq, IInv, TypeOK, ReqType, AfterRevoke
<1> QED BY <1>1, <1>2, <1>3 DEF Mildly

LEMMA MembersMild == ASSUME IInv, NEW r \in Slots, Members(r) PROVE Mildly(r)
<1>1. Quiet(r) BY MembersQuiet
<1>2. UNCHANGED <<line, cut, lost, stirred>> /\ \A c \in Clients : hold'[c] \in {hold[c], None}
  BY DEF Members, Goto, Answer, Refused, redis, notes, IInv, TypeOK
<1>3. h'[r].pc \in {"carry", "write"} => h[r].pc \in {"carry", "write"} /\ h'[r].new = h[r].new
  BY Known, SlotOf DEF Members, Goto, Answer, Refused, IdleReq, IInv, TypeOK, ReqType, AfterRevoke
<1> QED BY <1>1, <1>2, <1>3 DEF Mildly

LEMMA DevicesMild == ASSUME IInv, NEW r \in Slots, Devices(r) PROVE Mildly(r)
<1>1. Quiet(r) BY DevicesQuiet
<1>2. UNCHANGED <<line, cut, lost, stirred>> /\ \A c \in Clients : hold'[c] \in {hold[c], None}
  BY DEF Devices, Goto, Answer, Refused, redis, notes, IInv, TypeOK
<1>3. h'[r].pc \in {"carry", "write"} => h[r].pc \in {"carry", "write"} /\ h'[r].new = h[r].new
  BY Known, SlotOf DEF Devices, Goto, Answer, Refused, IdleReq, IInv, TypeOK, ReqType, AfterRevoke
<1> QED BY <1>1, <1>2, <1>3 DEF Mildly

LEMMA EraseMild == ASSUME IInv, NEW r \in Slots, Erase(r) PROVE Mildly(r)
<1>1. Quiet(r) BY EraseQuiet
<1>2. UNCHANGED <<line, cut, lost, stirred>> /\ \A c \in Clients : hold'[c] \in {hold[c], None}
  BY DEF Erase, Goto, Answer, Refused, redis, notes, IInv, TypeOK
<1>3. h'[r].pc \in {"carry", "write"} => h[r].pc \in {"carry", "write"} /\ h'[r].new = h[r].new
  BY Known, SlotOf DEF Erase, Goto, Answer, Refused, IdleReq, IInv, TypeOK, ReqType, AfterRevoke
<1> QED BY <1>1, <1>2, <1>3 DEF Mildly

LEMMA AbandonMild == ASSUME IInv, NEW r \in Slots, Abandon(r) PROVE Mildly(r)
<1>1. Quiet(r) BY AbandonQuiet
<1>2. UNCHANGED <<line, cut, lost, stirred>> /\ \A c \in Clients : hold'[c] \in {hold[c], None}
  BY DEF Abandon, Goto, Answer, Refused, redis, notes, IInv, TypeOK
<1>3. h'[r].pc \in {"carry", "write"} => h[r].pc \in {"carry", "write"} /\ h'[r].new = h[r].new
  BY Known, SlotOf DEF Abandon, Goto, Answer, Refused, IdleReq, IInv, TypeOK, ReqType, AfterRevoke
<1> QED BY <1>1, <1>2, <1>3 DEF Mildly
LEMMA MildKept == ASSUME IInv, Aligned, Kept, NEW r \in Slots, Mildly(r) PROVE Kept'
<1>1. /\ UNCHANGED <<rt, rot, issued, line, cut, lost, stirred>>
      /\ \A c \in Clients : hold'[c] \in {hold[c], None}
      /\ h'[r].pc \in {"carry", "write"} => h[r].pc \in {"carry", "write"} /\ h'[r].new = h[r].new
  BY DEF Mildly, Quiet, TokensKept
<1>2. PICK q \in ReqType : Turn(r, q) BY DEF Mildly, Quiet
<1>3. h'[r] = q /\ \A s \in Slots : s # r => h'[s] = h[s] BY <1>2, OtherSlots DEF Turn
<1>4. Claiming(h[r]) => Claiming(q) /\ q.tok = h[r].tok
  <2>1. Claiming(h[r]) => Claiming(h'[r]) BY DEF Mildly, Quiet, Lasting
  <2> QED BY <1>2, <1>3, <2>1 DEF Turn
<1>5. \A p \in issued : (Usable(p) => Usable(p)') /\ (ClaimingOn(line[p]) => ClaimingOn(line[p])')
  <2>1. \A s \in Slots : Claiming(h[s]) => Claiming(h'[s]) /\ h'[s].tok = h[s].tok
    BY <1>3, <1>4
  <2>2. \A s \in Slots : Claiming(h[s])' = Claiming(h'[s]) BY DEF Claiming
  <2> QED BY <1>1, <2>1, <2>2 DEF Usable, ClaimingOn
<1>6. Works' BY <1>1, <1>5, WorksStays DEF Kept
<1>7. Answering' BY <1>1, <1>3 DEF Kept, Answering
<1> QED BY <1>6, <1>7 DEF Kept

\* The line a request takes a token of is one it works on.
LEMMA RefreshTouches ==
  ASSUME IInv, Aligned, NEW r \in Slots, h[r].op = "refresh"
  PROVE  /\ h[r].tok \in issued /\ line[h[r].tok] \in Roots /\ line[h[r].tok] \in Touched(h[r])
         /\ h[r].pc # "idle" /\ h[r].op \in Creators
<1>1. h[r].tok \in issued /\ h[r].pc # "idle" BY Known DEF ReqLine, Runs
<1>2. line[h[r].tok] \in Roots BY <1>1, LinesAreRoots DEF Aligned, Lined
<1> QED BY <1>1, <1>2 DEF Touched, Creators

LEMMA StorerTouches ==
  ASSUME IInv, Aligned, NEW r \in Slots, h[r].pc \in Storing
  PROVE  /\ h[r].new \in Minted /\ line[h[r].new] \in Roots /\ line[h[r].new] \in Touched(h[r])
         /\ h[r].pc # "idle" /\ h[r].op \in Creators
<1>1. /\ h[r].new \in Minted /\ h[r].op \in Creators
      /\ line[h[r].new] = IF h[r].op = "refresh" THEN line[h[r].tok] ELSE h[r].new
  BY Known DEF ReqLine, Runs
<1>2. line[h[r].new] \in Roots BY <1>1 DEF Aligned, Lined
<1>3. line[h[r].new] \in Pairs BY <1>2 DEF Roots, Minted
<1> QED BY <1>1, <1>2, <1>3 DEF Touched, Creators, Storing

\* A refresh that takes p out of the live pairs: nobody else is about to hand it out.
LEMMA AnsweringStays ==
  ASSUME IInv, Aligned, Answering, NEW r \in Slots, h[r].op = "refresh",
         NEW q, h' = [h EXCEPT ![r] = q], q.pc \notin {"carry", "write"},
         UNCHANGED line, cut \subseteq cut', stirred \subseteq stirred',
         \A p \in rt : p \in rt' \/ line[p] = line[h[r].tok]
  PROVE  Answering'
<1>1. h'[r] = q /\ \A s \in Slots : s # r => h'[s] = h[s] BY OtherSlots
<1> SUFFICES ASSUME NEW s \in Slots, h'[s].pc \in {"carry", "write"},
                    line[h'[s].new] \notin cut' \cup stirred'
             PROVE  h'[s].new \in rt'
  BY DEF Answering
<1>2. s # r /\ h'[s] = h[s] /\ h[s].pc \in Storing BY <1>1 DEF Storing
<1>3. h[s].new \in rt BY <1>2 DEF Answering
<1>4. line[h[s].new] # line[h[r].tok]
  BY <1>2, RefreshTouches, StorerTouches DEF Aligned, Meets
<1> QED BY <1>2, <1>3, <1>4

LEMMA ClaimKept == ASSUME IInv, Aligned, Kept, NEW r \in Slots, Claim(r) PROVE Kept'
<1>0. PICK q : q = IF h[r].tok \in rt THEN [h[r] EXCEPT !.pc = "drop", !.mate = h[r].tok]
                   ELSE IdleReq OBVIOUS
<1>1. /\ h' = [h EXCEPT ![r] = q] /\ h[r].pc = "claim" /\ rt' = rt \ {h[r].tok}
      /\ UNCHANGED <<rot, issued, line, cut, lost, stirred>>
  BY <1>0 DEF Claim, Answer, notes
<1>2. h[r] \in ReqType /\ h[r].op = "refresh" BY <1>1, Known DEF ReqOK
<1>3. \A c \in Clients : hold'[c] \in {hold[c], None} BY DEF Claim, Answer, IInv, TypeOK
<1>4. h'[r] = q /\ \A s \in Slots : s # r => h'[s] = h[s] BY <1>1, OtherSlots
<1>5. h[r].tok \in rt => Claiming(q) /\ q.tok = h[r].tok
  BY <1>0, <1>2 DEF ReqType, Claiming, Exchange
<1>6. q.pc \in {"drop", "idle"} BY <1>0, <1>2 DEF ReqType, IdleReq
<1>7. \A p \in issued : ClaimingOn(line[p]) => ClaimingOn(line[p])'
  <2>1. ~Claiming(h[r]) BY <1>1 DEF Claiming, Exchange
  <2>2. \A s \in Slots : Claiming(h[s]) => Claiming(h'[s]) /\ h'[s].tok = h[s].tok
    BY <1>4, <2>1
  <2>3. \A s \in Slots : Claiming(h[s])' = Claiming(h'[s]) BY DEF Claiming
  <2> QED BY <1>1, <2>2, <2>3 DEF ClaimingOn
<1>8. \A p \in issued : Usable(p) => Usable(p)' \/ ClaimingOn(line[p])'
  <2>1. \A p : p = h[r].tok /\ p \in rt => ClaimingOn(line[p])'
    <3>1. Claiming(h[r])' = Claiming(h'[r]) BY DEF Claiming
    <3> QED BY <1>1, <1>4, <1>5, <3>1 DEF ClaimingOn
  <2>2. \A p \in issued : p # h[r].tok \/ p \notin rt => (Usable(p) => Usable(p)')
    BY <1>1 DEF Usable
  <2> QED BY <2>1, <2>2
<1>9. Works' BY <1>1, <1>3, <1>7, <1>8, WorksStays DEF Kept
<1>10. Answering' BY <1>1, <1>2, <1>6, AnsweringStays DEF Kept
<1> QED BY <1>9, <1>10 DEF Kept

LEMMA ReplayKept == ASSUME IInv, Aligned, Kept, NEW r \in Slots, Replay(r) PROVE Kept'
<1>0. PICK q : q = IF rot[h[r].tok] # None
                   THEN [h[r] EXCEPT !.pc = "unlink", !.mate = rot[h[r].tok]]
                   ELSE IdleReq OBVIOUS
<1>1. /\ h' = [h EXCEPT ![r] = q] /\ h[r].pc = "replay" /\ rot' = [rot EXCEPT ![h[r].tok] = None]
      /\ UNCHANGED <<rt, issued, line, cut, lost, stirred>>
  BY <1>0 DEF Replay, Answer, notes
<1>2. h[r] \in ReqType /\ h[r].op = "refresh" BY <1>1, Known DEF ReqOK
<1>3. \A c \in Clients : hold'[c] \in {hold[c], None} BY DEF Replay, Answer, IInv, TypeOK
<1>4. h'[r] = q /\ \A s \in Slots : s # r => h'[s] = h[s] BY <1>1, OtherSlots
<1>5. rot[h[r].tok] # None => Claiming(q) /\ q.tok = h[r].tok
  BY <1>0, <1>2 DEF ReqType, Claiming, Exchange
<1>6. q.pc \in {"unlink", "idle"} BY <1>0, <1>2 DEF ReqType, IdleReq
<1>7. \A p \in issued : ClaimingOn(line[p]) => ClaimingOn(line[p])'
  <2>1. ~Claiming(h[r]) BY <1>1 DEF Claiming, Exchange
  <2>2. \A s \in Slots : Claiming(h[s]) => Claiming(h'[s]) /\ h'[s].tok = h[s].tok
    BY <1>4, <2>1
  <2>3. \A s \in Slots : Claiming(h[s])' = Claiming(h'[s]) BY DEF Claiming
  <2> QED BY <1>1, <2>2, <2>3 DEF ClaimingOn
<1>8. \A p \in issued : Usable(p) => Usable(p)' \/ ClaimingOn(line[p])'
  <2>1. \A p : p = h[r].tok /\ rot[p] # None => ClaimingOn(line[p])'
    <3>1. Claiming(h[r])' = Claiming(h'[r]) BY DEF Claiming
    <3> QED BY <1>1, <1>4, <1>5, <3>1 DEF ClaimingOn
  <2>2. \A p \in issued : p # h[r].tok \/ rot[p] = None => (Usable(p) => Usable(p)')
    <3>1. rot \in Links /\ issued \subseteq Pairs BY Known DEF TypeOK
    <3> QED BY <1>1, <3>1 DEF Usable, Links
  <2> QED BY <2>1, <2>2
<1>9. Works' BY <1>1, <1>3, <1>7, <1>8, WorksStays DEF Kept
<1>10. Answering' BY <1>1, <1>2, <1>6, AnsweringStays DEF Kept
<1> QED BY <1>9, <1>10 DEF Kept

\* The new pair is on record before it is stored: the token works again.
LEMMA RecordKept == ASSUME IInv, Aligned, Kept, NEW r \in Slots, Record(r) PROVE Kept'
<1>0. PICK q, tok : q = [h[r] EXCEPT !.pc = "create", !.new = next, !.mate = None]
                    /\ tok = h[r].tok OBVIOUS
<1>1. /\ h' = [h EXCEPT ![r] = q] /\ h[r].pc = "record" /\ rot' = [rot EXCEPT ![tok] = next]
      /\ line' = [line EXCEPT ![next] = line[tok]]
      /\ UNCHANGED <<rt, issued, cut, lost, stirred, hold>>
  BY <1>0 DEF Record
<1>2. h[r] \in ReqType /\ h[r].op = "refresh" /\ TypeOK /\ Store /\ tok \in issued
  BY <1>0, <1>1, Known DEF ReqOK, ReqLine
<1>3. h'[r] = q /\ \A s \in Slots : s # r => h'[s] = h[s] BY <1>1, OtherSlots
<1>4. next # None BY <1>2 DEF TypeOK, None
<1>5. /\ \A p \in issued : line'[p] = line[p] /\ p \in Pairs
      /\ \A p \in Pairs : rot'[p] = IF p = tok THEN next ELSE rot[p]
  <2>1. next \notin issued BY <1>2 DEF Store, TypeOK
  <2> QED BY <1>1, <1>2, <2>1 DEF TypeOK, Links
<1>6. q.pc = "create" BY <1>0, <1>2 DEF ReqType
<1>7. \A p \in issued : Usable(p) => Usable(p)' BY <1>1, <1>4, <1>5 DEF Usable
<1>8. Usable(tok)' BY <1>1, <1>2, <1>4, <1>5 DEF Usable
<1>9. \A p \in issued : ClaimingOn(line[p]) /\ line[p] # line[tok] => ClaimingOn(line[p])'
  <2>1. \A s \in Slots : Claiming(h[s]) => h[s].tok \in issued BY Known DEF ReqLine, Claiming
  <2>2. \A s \in Slots : Claiming(h[s])' = Claiming(h'[s]) BY DEF Claiming
  <2> QED BY <1>0, <1>3, <1>5, <2>1, <2>2 DEF ClaimingOn
<1>10. Works'
  <2>1. ASSUME NEW c \in Clients, NEW p \in issued, hold[c] = p, p # None,
               line[p] \notin cut \cup lost \cup stirred
        PROVE  Usable(p)' \/ ClaimingOn(line[p])'
    <3>1. CASE line[p] = line[tok]
      <4>1. p = tok BY <1>0, <1>2, <2>1, <3>1 DEF Aligned, Holders
      <4> QED BY <1>8, <4>1
    <3>2. CASE line[p] # line[tok]
      BY <1>7, <1>9, <2>1, <3>2 DEF Kept, Works
    <3> QED BY <3>1, <3>2
  <2>2. \A c \in Clients : hold[c] # None => hold[c] \in issued BY DEF Aligned, Holders
  <2>3. \A c \in Clients : \A p \in issued :
          hold[c] = p /\ p # None /\ line'[p] \notin cut \cup lost \cup stirred
            => p \in rt' \/ rot'[p] # None
               \/ \E s \in Slots : Claiming(h[s])' /\ line'[h'[s].tok] = line'[p]
    BY <1>5, <2>1 DEF Usable, ClaimingOn
  <2> QED BY <1>1, <2>2, <2>3 DEF Works, Usable, ClaimingOn
<1>11. Answering'
  <2>1. \A s \in Slots : h'[s].pc \in {"carry", "write"} => s # r /\ h'[s] = h[s] /\ h[s].new \in issued
    BY <1>3, <1>6, Known DEF ReqLine
  <2> QED BY <1>1, <1>5, <2>1 DEF Kept, Answering
<1> QED BY <1>10, <1>11 DEF Kept

LEMMA CreateAuthKept == ASSUME IInv, Aligned, Kept, NEW r \in Slots, CreateAuth(r) PROVE Kept'
<1>1. /\ h[r].pc = "create" /\ rt' = rt \cup {h[r].new} /\ issued \subseteq issued'
      /\ UNCHANGED <<rot, line, cut, lost, stirred, hold>>
  BY DEF CreateAuth
<1>2. /\ \A s \in Slots : s # r => h'[s] = h[s]
      /\ h'[r].new = h[r].new /\ h'[r].pc \in {"carry", "write"}
  BY Known DEF CreateAuth, TypeOK, ReqType
<1>3. \A p : Usable(p) => Usable(p)' BY <1>1 DEF Usable
<1>4. \A l : ClaimingOn(l) => ClaimingOn(l)'
  <2>1. ~Claiming(h[r]) BY <1>1 DEF Claiming, Exchange
  <2>2. \A s \in Slots : Claiming(h[s])' = Claiming(h'[s]) BY DEF Claiming
  <2> QED BY <1>1, <1>2, <2>1, <2>2 DEF ClaimingOn
<1>5. Works'
  <2>1. \A p \in issued : ClaimingOn(line[p]) => ClaimingOn(line[p])'
    BY <1>1, <1>4 DEF ClaimingOn
  <2>2. \A c \in Clients : hold'[c] \in {hold[c], None} BY <1>1
  <2> QED BY <1>1, <1>3, <2>1, <2>2, WorksStays DEF Kept
<1>6. Answering' BY <1>1, <1>2 DEF Kept, Answering
<1> QED BY <1>5, <1>6 DEF Kept

\* The answer hands out the pair that was just stored.
LEMMA WriteSessionKept == ASSUME IInv, Aligned, Kept, NEW r \in Slots, WriteSession(r) PROVE Kept'
<1>0. PICK q : q = h[r] OBVIOUS
<1>1. /\ q.pc = "write" /\ h' = [h EXCEPT ![r] = IdleReq]
      /\ hold' = (IF q.heard THEN [hold EXCEPT ![q.cl] = q.new] ELSE hold)
      /\ UNCHANGED <<rt, rot, issued, line, cut, lost, stirred>>
  BY <1>0 DEF WriteSession, Answer
<1>2. h'[r] = IdleReq /\ \A s \in Slots : s # r => h'[s] = h[s] BY <1>1, OtherSlots
<1>3. \A c \in Clients : hold'[c] = hold[c] \/ hold'[c] = q.new BY <1>1 DEF IInv, TypeOK
<1>4. \A p : Usable(p) => Usable(p)' BY <1>1 DEF Usable
<1>5. \A l : ClaimingOn(l) => ClaimingOn(l)'
  <2>1. ~Claiming(h[r]) BY <1>0, <1>1 DEF Claiming, Exchange
  <2>2. \A s \in Slots : Claiming(h[s])' = Claiming(h'[s]) BY DEF Claiming
  <2> QED BY <1>1, <1>2, <2>1, <2>2 DEF ClaimingOn
<1>6. line[q.new] \notin cut \cup stirred => q.new \in rt BY <1>0, <1>1 DEF Kept, Answering
<1>7. Works'
  <2>1. ASSUME NEW c \in Clients, NEW p, hold'[c] = p, p # None,
               line[p] \notin cut \cup lost \cup stirred
        PROVE  Usable(p)' \/ ClaimingOn(line[p])'
    <3>1. CASE hold[c] = p
      <4>1. Usable(p) \/ ClaimingOn(line[p]) BY <2>1, <3>1 DEF Kept, Works
      <4>2. ClaimingOn(line[p]) => ClaimingOn(line[p])' BY <1>1, <1>5 DEF ClaimingOn
      <4> QED BY <1>4, <4>1, <4>2
    <3>2. CASE p = q.new
      <4>1. Usable(p) BY <1>6, <2>1, <3>2 DEF Usable
      <4> QED BY <1>4, <4>1
    <3> QED BY <1>3, <2>1, <3>1, <3>2
  <2>2. \A c \in Clients : \A p :
          hold'[c] = p /\ p # None /\ line'[p] \notin cut' \cup lost' \cup stirred'
            => p \in rt' \/ rot'[p] # None
               \/ \E s \in Slots : Claiming(h[s])' /\ line'[h'[s].tok] = line'[p]
    BY <1>1, <2>1 DEF Usable, ClaimingOn
  <2> QED BY <2>2 DEF Works, Usable, ClaimingOn
<1>8. Answering' BY <1>1, <1>2 DEF Kept, Answering, IdleReq
<1> QED BY <1>7, <1>8 DEF Kept

\* Only a refresh may take a pair of a line that is not signed out, and it has
\* a claim on that line.
LEMMA DelPairKept == ASSUME IInv, Aligned, Kept, NEW r \in Slots, DelPair(r) PROVE Kept'
<1>0. PICK q, mate : q = [h[r] EXCEPT !.pc = "drop",
                                      !.ok = h[r].op = "logout" /\ h[r].mate \in at \cup rt]
                     /\ mate = h[r].mate OBVIOUS
<1>1. /\ h' = [h EXCEPT ![r] = q] /\ h[r].pc = "del" /\ rt' = rt \ {mate}
      /\ cut' = (IF h[r].op = "refresh" THEN cut ELSE cut \cup {line[mate]})
      /\ UNCHANGED <<rot, issued, line, lost, stirred, hold>>
  BY <1>0 DEF DelPair
<1>2. /\ h[r] \in ReqType /\ h[r].op \in {"refresh", "logout", "revoke", "others"}
      /\ h[r].op = "refresh" => line[mate] = line[h[r].tok]
  BY <1>0, <1>1, Known DEF Runs, ReqLine, Revokes
<1>3. h'[r] = q /\ \A s \in Slots : s # r => h'[s] = h[s] BY <1>1, OtherSlots
<1>4. q.op = h[r].op /\ q.pc = "drop" /\ q.tok = h[r].tok BY <1>0, <1>2 DEF ReqType
<1>5. \A l : ClaimingOn(l) => ClaimingOn(l)'
  <2>1. Claiming(h[r]) => Claiming(q) BY <1>4 DEF Claiming, Exchange
  <2>2. \A s \in Slots : Claiming(h[s]) => Claiming(h'[s]) /\ h'[s].tok = h[s].tok
    BY <1>3, <1>4, <2>1
  <2>3. \A s \in Slots : Claiming(h[s])' = Claiming(h'[s]) BY DEF Claiming
  <2> QED BY <1>1, <2>2, <2>3 DEF ClaimingOn
<1>6. line[mate] \in cut' \/ ClaimingOn(line[mate])
  <2>1. CASE h[r].op = "refresh"
    <3>1. Claiming(h[r]) BY <1>1, <2>1 DEF Claiming, Exchange
    <3> QED BY <1>2, <2>1, <3>1 DEF ClaimingOn
  <2>2. CASE h[r].op # "refresh" BY <1>1, <2>2
  <2> QED BY <2>1, <2>2
<1>7. Works'
  <2>1. \A p \in issued : ClaimingOn(line[p]) => ClaimingOn(line[p])'
    BY <1>1, <1>5 DEF ClaimingOn
  <2>2. \A p \in issued : p # mate => (Usable(p) => Usable(p)') BY <1>1 DEF Usable
  <2>3. \A p \in issued : Usable(p) => Usable(p)' \/ line[p] \in cut' \/ ClaimingOn(line[p])'
    BY <1>6, <2>1, <2>2
  <2>4. \A c \in Clients : hold'[c] \in {hold[c], None} BY <1>1
  <2> QED BY <1>1, <2>1, <2>3, <2>4, WorksStays DEF Kept
<1>8. Answering'
  <2>1. CASE h[r].op = "refresh"
    <3>1. \A p \in rt : p \in rt' \/ line[p] = line[h[r].tok] BY <1>1, <1>2, <2>1
    <3> QED BY <1>1, <1>4, <2>1, <3>1, AnsweringStays DEF Kept
  <2>2. CASE h[r].op # "refresh"
    <3>1. \A s \in Slots : h'[s].pc \in {"carry", "write"} => h'[s] = h[s] BY <1>3, <1>4
    <3> QED BY <1>1, <2>2, <3>1 DEF Kept, Answering
  <2> QED BY <2>1, <2>2
<1> QED BY <1>7, <1>8 DEF Kept

LEMMA DropPredecessorKept ==
  ASSUME IInv, Aligned, Kept, NEW r \in Slots, DropPredecessor(r)
  PROVE  Kept'
<1>0. PICK q, old : q = [h[r] EXCEPT !.pc = AfterRevoke(h[r]), !.old = None] /\ old = h[r].old
  OBVIOUS
<1>1. /\ h' = [h EXCEPT ![r] = q] /\ h[r].pc = "settle" /\ rot' = [rot EXCEPT ![old] = None]
      /\ UNCHANGED <<rt, issued, line, lost, cut, stirred, hold>>
  BY <1>0 DEF DropPredecessor, notes
<1>2. /\ h[r] \in ReqType /\ line[old] = line[h[r].mate] /\ rot \in Links /\ issued \subseteq Pairs
      /\ h[r].op # "refresh" => line[h[r].mate] \in cut
      /\ h[r].op = "refresh" => line[h[r].mate] = line[h[r].tok]
  BY <1>0, <1>1, Known DEF ReqLine, Revokes, TypeOK
<1>3. h'[r] = q /\ \A s \in Slots : s # r => h'[s] = h[s] BY <1>1, OtherSlots
<1>4. q.op = h[r].op /\ q.tok = h[r].tok /\ q.pc = IF q.op = "refresh" THEN "record" ELSE "end"
  BY <1>0, <1>2 DEF ReqType, AfterRevoke
<1>5. \A l : ClaimingOn(l) => ClaimingOn(l)'
  <2>1. Claiming(h[r]) => Claiming(q) BY <1>4 DEF Claiming, Exchange
  <2>2. \A s \in Slots : Claiming(h[s]) => Claiming(h'[s]) /\ h'[s].tok = h[s].tok
    BY <1>3, <1>4, <2>1
  <2>3. \A s \in Slots : Claiming(h[s])' = Claiming(h'[s]) BY DEF Claiming
  <2> QED BY <1>1, <2>2, <2>3 DEF ClaimingOn
<1>6. line[old] \in cut \/ ClaimingOn(line[old])
  <2>1. CASE h[r].op = "refresh"
    <3>1. Claiming(h[r]) BY <1>1, <2>1 DEF Claiming, Exchange
    <3> QED BY <1>2, <2>1, <3>1 DEF ClaimingOn
  <2> QED BY <1>2, <2>1
<1>7. Works'
  <2>1. \A p \in issued : ClaimingOn(line[p]) => ClaimingOn(line[p])'
    BY <1>1, <1>5 DEF ClaimingOn
  <2>2. \A p \in issued : p # old => (Usable(p) => Usable(p)') BY <1>1, <1>2 DEF Usable, Links
  <2>3. \A p \in issued : Usable(p) => Usable(p)' \/ line[p] \in cut' \/ ClaimingOn(line[p])'
    BY <1>1, <1>6, <2>1, <2>2
  <2>4. \A c \in Clients : hold'[c] \in {hold[c], None} BY <1>1
  <2> QED BY <1>1, <2>1, <2>3, <2>4, WorksStays DEF Kept
<1>8. Answering'
  <2>1. \A s \in Slots : h'[s].pc \in {"carry", "write"} => h'[s] = h[s] BY <1>3, <1>4
  <2> QED BY <1>1, <2>1 DEF Kept, Answering
<1> QED BY <1>7, <1>8 DEF Kept

\* Every line there is goes, and with it all there was to keep.
LEMMA RevokeAllSessionsKept ==
  ASSUME IInv, Aligned, Kept, NEW r \in Slots, RevokeAllSessions(r)
  PROVE  Kept'
<1>1. /\ UNCHANGED <<hold, issued>> /\ cut' = cut \cup Lines /\ h[r].pc = "wipe"
      /\ line' = line \/ \E n \in {next} : line' = [line EXCEPT ![n] = n]
  BY DEF RevokeAllSessions
<1>2. \A p \in issued : line'[p] = line[p] /\ line[p] \in cut'
  <2>1. next \notin issued BY Known DEF Store, TypeOK
  <2>2. \A p \in issued : line[p] \in Roots BY LinesAreRoots DEF Aligned, Lined
  <2>3. \A p \in issued : line[p] # None BY <2>2 DEF Roots, Minted, Pairs, None
  <2> QED BY <1>1, <2>1, <2>3, Known DEF Lines, TypeOK, Links
<1>3. Works'
  <2>1. \A c \in Clients : hold'[c] # None => line'[hold'[c]] \in cut'
    BY <1>1, <1>2 DEF Aligned, Holders
  <2> QED BY <2>1 DEF Works
<1>4. Answering'
  <2>1. \A s \in Slots : s # r => h'[s] = h[s]
    BY DEF RevokeAllSessions, IInv, TypeOK
  <2>2. h'[r].pc \in {"create", "erase"}
    <3>1. h[r] \in ReqType /\ r \in DOMAIN h BY Known DEF TypeOK
    <3>2. CASE h[r].op = "password"
      <4>1. h' = [h EXCEPT ![r] = [h[r] EXCEPT !.pc = "create", !.new = next]]
        BY <3>2 DEF RevokeAllSessions
      <4> QED BY <3>1, <4>1 DEF ReqType
    <3>3. CASE h[r].op # "password"
      <4>1. h' = [h EXCEPT ![r].pc = "erase"] BY <3>3 DEF RevokeAllSessions
      <4> QED BY <3>1, <4>1 DEF ReqType
    <3> QED BY <3>2, <3>3
  <2>3. \A s \in Slots : h'[s].pc \in {"carry", "write"} => line'[h'[s].new] \in cut'
    BY <1>2, <2>1, <2>2, Known DEF ReqLine
  <2> QED BY <2>3 DEF Answering
<1> QED BY <1>3, <1>4 DEF Kept

\* A refresh that fails with its token claimed loses the line.
LEMMA FailKept == ASSUME IInv, Aligned, Kept, NEW r \in Slots, Fail(r) PROVE Kept'
<1>1. /\ h' = [h EXCEPT ![r] = IdleReq]
      /\ lost' = (IF Claiming(h[r]) THEN lost \cup {line[h[r].tok]} ELSE lost)
      /\ UNCHANGED <<rt, rot, issued, line, cut, stirred, hold>>
  BY DEF Fail, redis
<1>2. h'[r] = IdleReq /\ \A s \in Slots : s # r => h'[s] = h[s] BY <1>1, OtherSlots
<1>3. \A p \in issued : ClaimingOn(line[p]) => ClaimingOn(line[p])' \/ line[p] \in lost'
  <2>1. ASSUME NEW s \in Slots, Claiming(h[s])
        PROVE  (Claiming(h[s])' /\ h'[s] = h[s]) \/ line[h[s].tok] \in lost'
    <3>1. CASE s = r BY <1>1, <2>1, <3>1
    <3>2. CASE s # r BY <1>2, <2>1, <3>2 DEF Claiming
    <3> QED BY <3>1, <3>2
  <2> QED BY <1>1, <2>1 DEF ClaimingOn
<1>4. Works'
  <2>1. \A p \in issued : Usable(p) => Usable(p)' BY <1>1 DEF Usable
  <2>2. \A c \in Clients : hold'[c] \in {hold[c], None} BY <1>1
  <2> QED BY <1>1, <1>3, <2>1, <2>2, WorksStays DEF Kept
<1>5. Answering' BY <1>1, <1>2 DEF Kept, Answering, IdleReq
<1> QED BY <1>4, <1>5 DEF Kept

\* A request that arrives, at a free slot.
LEMMA ArrivesKept ==
  ASSUME IInv, Aligned, Kept, NEW r \in Slots, h[r].pc = "idle", NEW q,
         h' = [h EXCEPT ![r] = q], q.pc \notin {"carry", "write"},
         UNCHANGED <<rt, rot, issued, cut, lost, hold>>, stirred \subseteq stirred',
         \A p \in issued : line'[p] = line[p]
  PROVE  Kept'
<1>1. h'[r] = q /\ \A s \in Slots : s # r => h'[s] = h[s] BY OtherSlots
<1>2. \A p \in issued : ClaimingOn(line[p]) => ClaimingOn(line[p])'
  <2>1. ~Claiming(h[r]) BY DEF Claiming, Exchange
  <2>2. \A s \in Slots : Claiming(h[s]) => h'[s] = h[s] /\ h[s].tok \in issued
    BY <1>1, <2>1, Known DEF ReqLine, Claiming
  <2>3. \A s \in Slots : Claiming(h[s])' = Claiming(h'[s]) BY DEF Claiming
  <2> QED BY <2>2, <2>3 DEF ClaimingOn
<1>3. \A p \in issued : Usable(p) => Usable(p)' BY DEF Usable
<1>4. Works' BY <1>2, <1>3, WorksStays DEF Kept
<1>5. \A s \in Slots : h'[s].pc \in {"carry", "write"} => h'[s] = h[s] /\ h[s].new \in issued
  BY <1>1, Known DEF ReqLine
<1>6. Answering' BY <1>5 DEF Kept, Answering
<1> QED BY <1>4, <1>6 DEF Kept

LEMMA LoginKept ==
  ASSUME IInv, Aligned, Kept, NEW r \in Slots, NEW c \in Clients, Login(r, c)
  PROVE  Kept'
<1>0. PICK q : q = [Req("login", c, "create", None) EXCEPT !.new = next] OBVIOUS
<1>1. /\ h' = [h EXCEPT ![r] = q] /\ h[r].pc = "idle" /\ q.pc = "create"
      /\ UNCHANGED <<rt, rot, issued, cut, lost, hold>> /\ stirred \subseteq stirred'
      /\ line' = [line EXCEPT ![next] = next]
  BY <1>0 DEF Login, Arrive, Req, IdleReq, redis
<1>2. \A p \in issued : line'[p] = line[p]
  <2>1. next \notin issued BY Known DEF Store, TypeOK
  <2> QED BY <1>1, <2>1, Known DEF TypeOK, Links
<1> QED BY <1>1, <1>2, ArrivesKept

LEMMA ArrivalKept ==
  ASSUME IInv, Aligned, Kept, NEW r \in Slots, NEW c \in Clients, Arrival(r, c)
  PROVE  Kept'
<1>1. ASSUME NEW q, Arrive(r, q), q.pc \notin {"carry", "write"}, UNCHANGED line
      PROVE  Kept'
  <2>1. /\ h' = [h EXCEPT ![r] = q] /\ h[r].pc = "idle" /\ stirred \subseteq stirred'
        /\ UNCHANGED <<rt, rot, issued, cut, lost, hold>>
    BY <1>1 DEF Arrive, redis
  <2> QED BY <1>1, <2>1, ArrivesKept
<1>2. ASSUME NEW op, NEW pc \in {"look", "who", "ids", "members"},
             Arrive(r, Req(op, c, pc, hold[c])), UNCHANGED line
      PROVE  Kept'
  <2>1. Req(op, c, pc, hold[c]).pc = pc BY DEF Req, IdleReq
  <2> QED BY <1>1, <1>2, <2>1
<1>3. ASSUME NEW d, Arrive(r, [Req("revoke", c, "pick", hold[c]) EXCEPT !.kept = {d}]),
             UNCHANGED line
      PROVE  Kept'
  <2>1. [Req("revoke", c, "pick", hold[c]) EXCEPT !.kept = {d}].pc = "pick" BY DEF Req, IdleReq
  <2> QED BY <1>1, <1>3, <2>1
<1>4. CASE Login(r, c) BY <1>4, LoginKept
<1>5. CASE Refresh(r, c) BY <1>2, <1>5 DEF Refresh
<1>6. CASE Logout(r, c) BY <1>2, <1>6 DEF Logout
<1>7. CASE ListSessions(r, c) BY <1>2, <1>7 DEF ListSessions
<1>8. CASE RevokeOtherSessions(r, c) BY <1>2, <1>8 DEF RevokeOtherSessions
<1>9. CASE RevokeSession(r, c) BY <1>3, <1>9 DEF RevokeSession
<1>10. CASE UpdatePassword(r, c) BY <1>2, <1>10 DEF UpdatePassword
<1>11. CASE DeleteAccount(r, c) BY <1>2, <1>11 DEF DeleteAccount
<1> QED BY <1>4, <1>5, <1>6, <1>7, <1>8, <1>9, <1>10, <1>11 DEF Arrival

LEMMA KeptStep == ASSUME IInv, Aligned, Kept, NEW r \in Slots, Step(r) PROVE Kept'
<1>1. CASE RotationStep(r)
  BY <1>1, MildKept, LookMild, ClaimKept, ReplayKept, UnlinkMild, RecordKept DEF RotationStep
<1>2. CASE CreationStep(r)
  BY <1>2, MildKept, CreateAuthKept, CarrySessionMild, WriteSessionKept DEF CreationStep
<1>3. CASE RevocationStep(r)
  BY <1>3, MildKept, GetPairMild, DelPairKept, DropLinkMild, DropPredecessorKept,
     EndSessionMild, WhoMild, ValMild DEF RevocationStep
<1>4. CASE ListStep(r)
  BY <1>4, MildKept, IdsMild, VisitMild, ExistsMild, ForgetMild, CurrentMild, PickMild,
     OthersDoneMild DEF ListStep
<1>5. CASE WipeStep(r)
  BY <1>5, MildKept, MembersMild, DevicesMild, RevokeAllSessionsKept, EraseMild DEF WipeStep
<1> QED BY <1>1, <1>2, <1>3, <1>4, <1>5 DEF Step

LEMMA KeptNext == IInv /\ Aligned /\ Kept /\ [Next]_vars => Kept'
<1> SUFFICES ASSUME IInv, Aligned, Kept, [Next]_vars PROVE Kept'
  OBVIOUS
<1>1. CASE UNCHANGED vars
  <2>1. UNCHANGED <<rt, rot, h, hold, issued, line, cut, lost, stirred>>
    BY <1>1 DEF vars, redis, notes
  <2> QED BY <2>1 DEF Kept, Works, Answering, Usable, ClaimingOn, Claiming
<1>2. ASSUME NEW r \in Slots, Step(r) PROVE Kept' BY <1>2, KeptStep
<1>3. ASSUME NEW r \in Slots, Abandon(r) PROVE Kept' BY <1>3, MildKept, AbandonMild
<1>4. ASSUME NEW r \in Slots, Fail(r) PROVE Kept' BY <1>4, FailKept
<1>5. ASSUME NEW r \in Slots, NEW c \in Clients, Arrival(r, c) PROVE Kept'
  BY <1>5, ArrivalKept
<1> QED BY <1>1, <1>2, <1>3, <1>4, <1>5 DEF Next

LEMMA KeptInit == Init => Kept
<1> SUFFICES ASSUME Init PROVE Kept
  OBVIOUS
<1>1. (\A c \in Clients : hold[c] = None) /\ (\A s \in Slots : h[s] = IdleReq) BY DEF Init
<1> QED BY <1>1 DEF Kept, Works, Answering, IdleReq

\* Whatever answers were lost and requests failed, a device whose session
\* nobody signed out, that lost no claim to a failure and that no two requests
\* stirred, holds a token that still refreshes.
THEOREM LostAnswersKeep == Spec => []LostAnswerKeeps
<1>1. Init => IInv /\ Aligned /\ Kept BY InvInit, AlignedInit, KeptInit
<1>2. IInv /\ Aligned /\ Kept /\ [Next]_vars => (IInv /\ Aligned /\ Kept)'
  BY InvNext, AlignedNext, KeptNext
<1>3. IInv /\ Aligned /\ Kept => LostAnswerKeeps
  <2>1. \A l : ClaimingOn(l) => Refreshing(l)
    BY DEF ClaimingOn, Refreshing, Claiming, InFlight, Exchange
  <2> QED BY <2>1 DEF Kept, Works, LostAnswerKeeps
<1> QED BY <1>1, <1>2, <1>3, PTL DEF Spec

-----------------------------------------------------------------------------
(* Where a rotation still pending leads.  On a line nothing stirred, what  *)
(* is live and what a pending rotation leads to is the newest pair; a      *)
(* rotation leads to a pair that is not live only while a request is on    *)
(* its way to store that pair or to drop the rotation.                     *)

Newest(p)  == \A q \in Minted : line[q] = line[p] => q <= p
Silent(l)  == \A p \in Pairs : line[p] = l => p \notin rt
Settled(l) == \A p \in Pairs : line[p] = l => rot[p] = None

Chain(l) ==
  /\ \A p \in Pairs : line[p] = l =>
       /\ p \in rt => Newest(p) /\ p \in at
       /\ rot[p] # None => Newest(rot[p]) /\ (rot[p] \in rt => prev[rot[p]] = p)
       /\ Usable(p) => p \in refIdx
  /\ \A p, q \in Pairs : line[p] = l /\ line[q] = l /\ rot[p] # None /\ rot[q] # None => p = q

Dropping(p) ==
  \E r \in Slots :
    \/ h[r].op = "refresh" /\ h[r].pc = "create" /\ h[r].new = rot[p]
    \/ h[r].pc = "drop" /\ h[r].mate = rot[p] /\ prev[rot[p]] = p
    \/ h[r].pc = "settle" /\ h[r].mate = rot[p] /\ h[r].old = p

Pendings(l) ==
  l \notin torn => \A p \in Pairs : line[p] = l /\ rot[p] # None => rot[p] \in rt \/ Dropping(p)

\* A refresh on its way, on its line l.
Exchanges(q, l) ==
  /\ q.pc \in Exchange => q.tok \in refIdx
  /\ q.pc \in {"drop", "settle", "record"} => Silent(l)
  /\ q.pc \in {"unlink", "get", "del"} => Newest(q.mate)
  /\ q.pc \in {"unlink", "get", "del", "record"} => Settled(l)
  /\ q.pc = "drop" => \A p \in Pairs : line[p] = l /\ rot[p] # None => p = prev[q.mate]
  /\ q.pc = "settle" => \A p \in Pairs : line[p] = l /\ rot[p] # None => p = q.old
  /\ q.pc \in {"get", "del"} => prev[q.mate] = None
  /\ q.pc = "drop" => q.mate = q.tok \/ prev[q.mate] = None
  /\ q.pc = "settle" => q.mate = q.tok
  /\ q.pc \in Storing => rot[q.tok] = q.new /\ prev[q.new] = q.tok

\* What holds of a request on line l.
Bound(q, l) ==
  /\ q.op = "refresh" /\ line[q.tok] = l => Exchanges(q, l)
  /\ q.pc \in Storing /\ line[q.new] = l => Newest(q.new) /\ (q.pc # "create" => q.new \in rt)
  /\ q.pc = "del" /\ line[q.mate] = l => rot[q.mate] = None
  /\ q.pc \in {"drop", "settle"} /\ line[q.mate] = l => q.mate \notin rt
  /\ q.pc \in {"devices", "wipe"} => \A p \in Pairs : line[p] = l /\ Usable(p) => p \in q.refs

InOrder(l) == Chain(l) /\ Pendings(l) /\ \A s \in Slots : Bound(h[s], l)
Orderly    == \A l \in Roots \ stirred : InOrder(l)

\* A request with nothing to do on line l.
Far(q, l) ==
  /\ q.op = "refresh" => line[q.tok] # l
  /\ q.pc \in Storing => line[q.new] # l
  /\ q.pc \in {"del", "drop", "settle"} => line[q.mate] # l
  /\ q.pc \notin {"devices", "wipe"}

LEMMA FarBound == ASSUME NEW q, NEW l, Far(q, l) PROVE Bound(q, l)
BY DEF Far, Bound

LEMMA FarUnlessTouched ==
  ASSUME IInv, Aligned, NEW s \in Slots, NEW l \in Roots, l \notin Touched(h[s]) \/ h[s].pc = "idle"
  PROVE  Far(h[s], l)
<1>1. Runs(h[s]) /\ ReqLine(h[s]) /\ l \in Pairs BY Known DEF Roots, Minted
<1>2. CASE h[s].pc = "idle"
  BY <1>1, <1>2 DEF Runs, Far, Storing
<1>3. CASE h[s].pc # "idle"
  <2>1. l \notin Touched(h[s]) BY <1>3
  <2>2. h[s].op = "refresh" => line[h[s].tok] # l BY <2>1, RefreshTouches
  <2>3. h[s].pc \in Storing => line[h[s].new] # l BY <2>1, StorerTouches
  <2>4. h[s].pc \notin {"devices", "wipe"} BY <1>1, <2>1 DEF Runs, Touched
  <2>5. ASSUME h[s].pc \in {"del", "drop", "settle"} PROVE line[h[s].mate] # l
    <3>1. h[s].op \in {"refresh", "logout", "revoke", "others"} BY <1>1, <2>5 DEF Runs, Revokes
    <3>2. CASE h[s].op \in {"refresh", "logout"}
      BY <1>1, <2>1, <2>5, <3>2 DEF ReqLine, Revokes, Touched
    <3>3. CASE h[s].op = "revoke"
      <4>1. line[h[s].mate] = line[h[s].id] /\ h[s].id \in h[s].kept /\ h[s].kept \subseteq Roots
        BY <1>1, <2>5, <3>3 DEF ReqLine, Runs, Revokes
      <4>2. line[h[s].mate] \in h[s].kept BY <4>1 DEF Roots
      <4> QED BY <2>1, <3>3, <4>2 DEF Touched
    <3>4. CASE h[s].op = "others" BY <1>1, <2>1, <3>4 DEF Touched
    <3> QED BY <3>1, <3>2, <3>3, <3>4
  <2> QED BY <2>2, <2>3, <2>4, <2>5 DEF Far
<1> QED BY <1>2, <1>3

\* A request that mints is alone on a line nothing stirred.
LEMMA MintsAlone ==
  ASSUME IInv, Aligned, NEW r \in Slots, NEW l \in Roots \ stirred, l \in Touched(h[r]),
         h[r].op \in Creators
  PROVE  \A s \in Slots : s # r => Far(h[s], l)
<1>1. \A s \in Slots : s # r => l \notin Touched(h[s]) \/ h[s].pc = "idle"
  BY DEF Aligned, Meets
<1> QED BY <1>1, FarUnlessTouched

LEMMA NoneMints ==
  ASSUME IInv, Aligned, NEW r \in Slots, NEW l \in Roots \ stirred, l \in Touched(h[r]),
         h[r].pc # "idle"
  PROVE  \A s \in Slots : s # r /\ h[s].op \in Creators => Far(h[s], l)
<1>1. \A s \in Slots : s # r /\ h[s].op \in Creators => l \notin Touched(h[s])
  BY DEF Aligned, Meets
<1> QED BY <1>1, FarUnlessTouched

-----------------------------------------------------------------------------
(* A step that leaves a line alone.                                        *)

\* The pairs of line l and their keys are as before.
Still(l) ==
  /\ \A p \in Pairs : line'[p] = l <=> line[p] = l
  /\ \A p \in Pairs : line[p] = l =>
       /\ (p \in rt' <=> p \in rt) /\ (p \in at' <=> p \in at) /\ (p \in refIdx' <=> p \in refIdx)
       /\ rot'[p] = rot[p] /\ prev'[p] = prev[p] /\ sid'[p] = sid[p]
       /\ (p \in Minted' <=> p \in Minted)

LEMMA StillNewest ==
  ASSUME NEW l, Still(l), NEW p \in Pairs, line[p] = l, Newest(p)
  PROVE  Newest(p)'
<1>1. \A q \in Minted' : line'[q] = l => q \in Minted /\ line[q] = l
  BY DEF Still, Minted
<1>2. line'[p] = l BY DEF Still
<1> QED BY <1>1, <1>2 DEF Newest

LEMMA StillChain ==
  ASSUME IInv, Aligned, NEW l, Still(l), Chain(l)
  PROVE  Chain(l)'
<1>1. \A p \in Pairs : rot[p] # None => rot[p] \in Pairs /\ line[rot[p]] = line[p]
  BY DEF Aligned, Lined, Minted
<1>2. \A p \in Pairs : line[p] = l /\ Newest(p) => Newest(p)' BY StillNewest
<1>3. \A p \in Pairs : line'[p] = l =>
        /\ line[p] = l /\ (p \in rt' <=> p \in rt) /\ (p \in at' <=> p \in at)
        /\ (p \in refIdx' <=> p \in refIdx) /\ rot'[p] = rot[p] /\ prev'[p] = prev[p]
  BY DEF Still
<1>4. ASSUME NEW p \in Pairs, line'[p] = l
      PROVE  /\ p \in rt' => Newest(p)' /\ p \in at'
             /\ Usable(p)' => p \in refIdx'
  BY <1>2, <1>3, <1>4 DEF Chain, Usable
<1>5. ASSUME NEW p \in Pairs, line'[p] = l, NEW m \in Pairs, m = rot'[p]
      PROVE  Newest(m)' /\ (m \in rt' => prev'[m] = p)
  <2>1. m = rot[p] /\ line[p] = l /\ m # None BY <1>3, <1>5 DEF Pairs, None
  <2>2. line[m] = l /\ Newest(m) /\ (m \in rt => prev[m] = p) BY <1>1, <2>1 DEF Chain
  <2>3. line'[m] = l BY <2>2 DEF Still
  <2> QED BY <1>2, <1>3, <2>2, <2>3
<1>6. \A p \in Pairs : line'[p] = l /\ rot'[p] # None => rot'[p] \in Pairs
  BY <1>1, <1>3
<1>7. \A p, q \in Pairs : line'[p] = l /\ line'[q] = l /\ rot'[p] # None /\ rot'[q] # None => p = q
  BY <1>3 DEF Chain
<1>8. \A p \in Pairs : line'[p] = l /\ rot'[p] # None =>
        \A q \in Minted' : line'[q] = line'[rot'[p]] => q <= rot'[p]
  BY <1>5, <1>6 DEF Newest
<1>9. \A p \in Pairs : line'[p] = l /\ rot'[p] # None /\ rot'[p] \in rt' => prev'[rot'[p]] = p
  BY <1>5, <1>6
<1> QED BY <1>4, <1>7, <1>8, <1>9 DEF Chain, Newest, Usable

\* What held of a request that is far from the step's line holds still.
LEMMA StillBound ==
  ASSUME IInv, Aligned, NEW l, Still(l),
         NEW q \in ReqType, ReqOK(q), ReqLine(q), Bound(q, l)
  PROVE  Bound(q, l)'
<1>1. /\ \A p \in Pairs : line'[p] = l <=> line[p] = l
      /\ \A p \in Pairs : line[p] = l =>
           /\ (p \in rt' <=> p \in rt) /\ (p \in refIdx' <=> p \in refIdx)
           /\ rot'[p] = rot[p] /\ prev'[p] = prev[p]
           /\ (Newest(p) => Newest(p)')
  BY StillNewest DEF Still
<1>2. /\ q.op = "refresh" => q.tok \in Pairs
      /\ q.pc \in Storing => q.new \in Pairs
      /\ q.pc \in Revokes \cup {"unlink"} => q.mate \in Pairs
  BY DEF ReqOK, Storing, ReqLine, Minted
<1>3. ASSUME q.op = "refresh", line'[q.tok] = l PROVE Exchanges(q, l)'
  <2>1. line[q.tok] = l /\ Exchanges(q, l) BY <1>1, <1>2, <1>3 DEF Bound
  <2>2. q.pc \in Revokes \cup {"unlink"} => line[q.mate] = l BY <1>3, <2>1 DEF ReqLine
  <2>3. q.pc \in Storing => line[q.new] = l BY <1>3, <2>1 DEF ReqLine
  <2>4. (Silent(l) => Silent(l)') /\ (Settled(l) => Settled(l)')
    BY <1>1 DEF Silent, Settled
  <2> QED BY <1>1, <1>2, <1>3, <2>1, <2>2, <2>3, <2>4 DEF Exchanges, Revokes
<1>4. ASSUME q.pc \in Storing, line'[q.new] = l
      PROVE  Newest(q.new)' /\ (q.pc # "create" => q.new \in rt')
  BY <1>1, <1>2, <1>4 DEF Bound
<1>5. /\ q.pc = "del" /\ line'[q.mate] = l => rot'[q.mate] = None
      /\ q.pc \in {"drop", "settle"} /\ line'[q.mate] = l => q.mate \notin rt'
  BY <1>1, <1>2 DEF Bound, Revokes
<1>6. q.pc \in {"devices", "wipe"} => \A p \in Pairs : line'[p] = l /\ Usable(p)' => p \in q.refs
  BY <1>1 DEF Bound, Usable
<1> QED BY <1>3, <1>4, <1>5, <1>6 DEF Bound

LEMMA StillFar ==
  ASSUME IInv, Aligned, NEW l, Still(l), NEW q \in ReqType, ReqOK(q), ReqLine(q), Far(q, l)
  PROVE  Far(q, l)'
<1>1. /\ q.op = "refresh" => q.tok \in Pairs
      /\ q.pc \in Storing => q.new \in Pairs
      /\ q.pc \in Revokes \cup {"unlink"} => q.mate \in Pairs
  BY DEF ReqOK, Storing, ReqLine, Minted
<1> QED BY <1>1 DEF Far, Still, Storing, Revokes

LEMMA StillPendings ==
  ASSUME IInv, Aligned, NEW l, Still(l), NEW r \in Slots, NEW q, h' = [h EXCEPT ![r] = q],
         Far(h[r], l), l \in torn => l \in torn', Pendings(l)
  PROVE  Pendings(l)'
<1>1. h'[r] = q /\ \A s \in Slots : s # r => h'[s] = h[s] BY OtherSlots
<1>2. \A p \in Pairs : line'[p] = l <=> line[p] = l BY DEF Still
<1>3. ASSUME NEW p \in Pairs, line[p] = l, NEW m \in Pairs, rot[p] = m, l \notin torn
      PROVE  rot'[p] \in rt' \/ Dropping(p)'
  <2>1. line[m] = l /\ m # None BY <1>3 DEF Aligned, Lined, Pairs, None
  <2>2. rot'[p] = m /\ prev'[m] = prev[m] /\ (m \in rt' <=> m \in rt) BY <1>3, <2>1 DEF Still
  <2>3. CASE m \in rt BY <2>2, <2>3
  <2>4. CASE m \notin rt
    <3>1. PICK s \in Slots :
            \/ h[s].op = "refresh" /\ h[s].pc = "create" /\ h[s].new = m
            \/ h[s].pc = "drop" /\ h[s].mate = m /\ prev[m] = p
            \/ h[s].pc = "settle" /\ h[s].mate = m /\ h[s].old = p
      BY <1>3, <2>1, <2>4 DEF Pendings, Dropping
    <3>2. s # r BY <2>1, <3>1 DEF Far, Storing
    <3> QED BY <1>1, <2>2, <3>1, <3>2 DEF Dropping
  <2> QED BY <2>3, <2>4
<1>4. \A p \in Pairs : rot[p] # None => rot[p] \in Pairs BY DEF Aligned, Lined, Minted
<1>5. \A p \in Pairs : line[p] = l => rot'[p] = rot[p] BY DEF Still
<1> QED BY <1>2, <1>3, <1>4, <1>5 DEF Pendings

\* The lines a step of r does not touch stay in order.
LEMMA StillInOrder ==
  ASSUME IInv, Aligned, NEW l, Still(l), NEW r \in Slots, NEW q, h' = [h EXCEPT ![r] = q],
         Far(h[r], l), Far(q, l)', l \in torn => l \in torn', InOrder(l)
  PROVE  InOrder(l)'
<1>1. h'[r] = q /\ \A s \in Slots : s # r => h'[s] = h[s] BY OtherSlots
<1>2. Chain(l)' BY StillChain DEF InOrder
<1>3. Pendings(l)' BY StillPendings DEF InOrder
<1>4. ASSUME NEW s \in Slots, s # r PROVE Bound(h[s], l)'
  <2>1. h[s] \in ReqType /\ ReqOK(h[s]) /\ ReqLine(h[s]) /\ Bound(h[s], l)
    BY Known DEF InOrder
  <2>2. \A u \in ReqType : ReqOK(u) /\ ReqLine(u) /\ Bound(u, l) => Bound(u, l)' BY StillBound
  <2>3. h'[s] = h[s] BY <1>1, <1>4
  <2> QED BY <2>1, <2>2, <2>3
<1>5. Bound(q, l)'
  BY DEF Far, Bound
<1>6. \A s \in Slots : Bound(h[s], l)' BY <1>1, <1>4, <1>5
<1> QED BY <1>2, <1>3, <1>6 DEF InOrder

\* On the line of a request that mints: it alone has something to do there.
LEMMA AloneInOrder ==
  ASSUME IInv, NEW l, NEW r \in Slots, NEW q, h' = [h EXCEPT ![r] = q],
         \A s \in Slots : s # r => Far(h[s], l)', Chain(l)', Pendings(l)', Bound(q, l)'
  PROVE  InOrder(l)'
<1>1. h'[r] = q BY OtherSlots
<1>2. \A s \in Slots : s # r => Bound(h[s], l)'
  <2>1. \A s \in Slots : Far(h[s], l)' => Bound(h[s], l)' BY DEF Far, Bound
  <2> QED BY <2>1
<1>3. Bound(h[r], l)' BY <1>1
<1> QED BY <1>2, <1>3 DEF InOrder

LEMMA OwnInOrder ==
  ASSUME IInv, Aligned, NEW r \in Slots, NEW q, h' = [h EXCEPT ![r] = q],
         NEW l \in Roots \ stirred, l \in Touched(h[r]), h[r].op \in Creators, UNCHANGED line,
         Chain(l)', Pendings(l)', Bound(q, l)'
  PROVE  InOrder(l)'
<1>1. \A s \in Slots : s # r => Far(h[s], l) /\ h'[s] = h[s] BY MintsAlone, OtherSlots
<1>2. \A s \in Slots : s # r => Far(h[s], l)' BY <1>1 DEF Far
<1> QED BY <1>2, AloneInOrder

-----------------------------------------------------------------------------
(* The steps that leave every pair and its links alone.                    *)

\* What a request at u may be dropping, it goes on dropping as q, or it leaves
\* the line torn.
GoesOnDropping(u, q) ==
  /\ u.op = "refresh" /\ u.pc = "create" =>
       line[u.new] \in torn' \/ (q.op = u.op /\ q.pc = u.pc /\ q.new = u.new)
  /\ u.pc \in {"drop", "settle"} =>
       line[u.mate] \in torn' \/ (q.pc = u.pc /\ q.mate = u.mate /\ q.old = u.old)

LEMMA QuietOrderly ==
  ASSUME IInv, Aligned, Orderly, NEW r \in Slots, NEW q, h' = [h EXCEPT ![r] = q],
         UNCHANGED <<rt, at, rot, prev, refIdx, line, next>>,
         stirred \subseteq stirred', torn \subseteq torn', GoesOnDropping(h[r], q),
         \A l \in Roots \ stirred : Bound(q, l)
  PROVE  Orderly'
<1>1. h'[r] = q /\ \A s \in Slots : s # r => h'[s] = h[s] BY OtherSlots
<1>2. Minted' = Minted /\ Roots' = Roots BY DEF Minted, Roots
<1> SUFFICES ASSUME NEW l \in Roots \ stirred PROVE InOrder(l)'
  BY <1>2 DEF Orderly
<1>3. InOrder(l) BY DEF Orderly
<1>4. \A p : (Newest(p) <=> Newest(p)') /\ (Usable(p) <=> Usable(p)')
  BY <1>2 DEF Newest, Usable
<1>5. Chain(l)'
  <2>1. \A p \in Pairs : rot'[p] = rot[p] /\ (Newest(rot[p]) => Newest(rot[p])')
    BY <1>2 DEF Newest
  <2> QED BY <1>3, <1>4, <2>1 DEF InOrder, Chain
<1>6. \A u : Bound(u, l) => Bound(u, l)'
  BY <1>4 DEF Bound, Exchanges, Silent, Settled
<1>7. \A s \in Slots : Bound(h[s], l)' BY <1>1, <1>3, <1>6 DEF InOrder
<1>8. Pendings(l)'
  <2> SUFFICES ASSUME l \notin torn', NEW p \in Pairs, line[p] = l, rot[p] # None
               PROVE  rot[p] \in rt \/ Dropping(p)'
    BY DEF Pendings
  <2>1. CASE rot[p] \in rt BY <2>1
  <2>2. CASE rot[p] \notin rt
    <3>1. PICK s \in Slots :
            \/ h[s].op = "refresh" /\ h[s].pc = "create" /\ h[s].new = rot[p]
            \/ h[s].pc = "drop" /\ h[s].mate = rot[p] /\ prev[rot[p]] = p
            \/ h[s].pc = "settle" /\ h[s].mate = rot[p] /\ h[s].old = p
      BY <1>3, <2>2 DEF InOrder, Pendings, Dropping
    <3>2. line[rot[p]] = l BY DEF Aligned, Lined
    <3>3. s = r => line[h[r].new] = l \/ h[r].pc # "create" BY <3>1, <3>2
    <3>4. s = r => line[h[r].mate] = l \/ h[r].pc \notin {"drop", "settle"} BY <3>1, <3>2
    <3> QED BY <1>1, <3>1, <3>3, <3>4 DEF Dropping, GoesOnDropping
  <2> QED BY <2>1, <2>2
<1> QED BY <1>5, <1>7, <1>8 DEF InOrder

\* A step that leaves the request with nothing to keep in order.
Plain(q) ==
  /\ q.op = "refresh" => q.pc \in {"look", "claim", "replay"}
  /\ q.pc \notin Storing \cup {"del", "drop", "settle", "devices", "wipe"}

Plainly(r) ==
  /\ \E q : h' = [h EXCEPT ![r] = q] /\ Plain(q)
  /\ UNCHANGED <<rt, at, rot, prev, refIdx, line, next>>
  /\ stirred \subseteq stirred' /\ torn \subseteq torn'
  /\ h[r].pc \notin {"create", "drop", "settle"}

LEMMA PlainlyOrderly == ASSUME IInv, Aligned, Orderly, NEW r \in Slots, Plainly(r) PROVE Orderly'
<1>1. PICK q : h' = [h EXCEPT ![r] = q] /\ Plain(q) BY DEF Plainly
<1>2. \A l : Bound(q, l) BY <1>1 DEF Plain, Bound, Exchanges, Exchange, Storing
<1>3. GoesOnDropping(h[r], q) BY DEF Plainly, GoesOnDropping
<1> QED BY <1>1, <1>2, <1>3, QuietOrderly DEF Plainly

LEMMA IdlePlain == Plain(IdleReq)
BY DEF Plain, IdleReq, Storing

LEMMA LookPlain == ASSUME IInv, Aligned, NEW r \in Slots, Look(r) PROVE Plainly(r)
<1> DEFINE q == [h[r] EXCEPT !.pc = IF h[r].tok \in rt THEN "claim" ELSE "replay"]
<1>1. h[r] \in ReqType BY Known
<1>2. h' = [h EXCEPT ![r] = q] /\ h[r].pc = "look" BY DEF Look, Goto
<1>3. Plain(q) BY <1>1 DEF ReqType, Plain, Storing
<1> HIDE DEF q
<1> QED BY <1>2, <1>3 DEF Plainly, Look, redis, notes

LEMMA WhoPlain == ASSUME IInv, Aligned, NEW r \in Slots, Who(r) PROVE Plainly(r)
<1> DEFINE q == [h[r] EXCEPT !.pc = "val", !.mate = h[r].tok,
                             !.id = IF h[r].tok \in at THEN sid[h[r].tok] ELSE None]
<1>1. h[r] \in ReqType /\ Runs(h[r]) BY Known
<1>2. h' = [h EXCEPT ![r] = q] /\ h[r].pc = "who" BY DEF Who
<1>3. Plain(q) BY <1>1, <1>2 DEF ReqType, Runs, Plain, Storing
<1> HIDE DEF q
<1> QED BY <1>2, <1>3 DEF Plainly, Who, redis, notes

LEMMA IdsPlain == ASSUME IInv, Aligned, NEW r \in Slots, Ids(r) PROVE Plainly(r)
<1> DEFINE q == [h[r] EXCEPT !.pc = "visit", !.ids = devs]
<1>1. h[r] \in ReqType /\ Runs(h[r]) BY Known
<1>2. h' = [h EXCEPT ![r] = q] /\ h[r].pc = "ids" BY DEF Ids
<1>3. Plain(q) BY <1>1, <1>2 DEF ReqType, Runs, Plain, Storing
<1> HIDE DEF q
<1> QED BY <1>2, <1>3 DEF Plainly, Ids, redis, notes

LEMMA ExistsPlain == ASSUME IInv, Aligned, NEW r \in Slots, Exists(r) PROVE Plainly(r)
<1> DEFINE q == IF Usable(h[r].mate)
                THEN [h[r] EXCEPT !.pc = "visit", !.ids = @ \ {h[r].id},
                                  !.kept = @ \cup {h[r].id}, !.id = None, !.mate = None]
                ELSE [h[r] EXCEPT !.pc = "forget"]
<1>1. h[r] \in ReqType /\ Runs(h[r]) BY Known
<1>2. h' = [h EXCEPT ![r] = q] /\ h[r].pc = "exists" BY DEF Exists
<1>3. Plain(q) BY <1>1, <1>2 DEF ReqType, Runs, Plain, Storing
<1> HIDE DEF q
<1> QED BY <1>2, <1>3 DEF Plainly, Exists, redis, notes

LEMMA ForgetPlain == ASSUME IInv, Aligned, NEW r \in Slots, Forget(r) PROVE Plainly(r)
<1> DEFINE q == [h[r] EXCEPT !.pc = "visit", !.ids = @ \ {h[r].id}, !.id = None, !.mate = None]
<1>1. h[r] \in ReqType /\ Runs(h[r]) BY Known
<1>2. h' = [h EXCEPT ![r] = q] /\ h[r].pc = "forget" BY DEF Forget
<1>3. Plain(q) BY <1>1, <1>2 DEF ReqType, Runs, Plain, Storing
<1> HIDE DEF q
<1> QED BY <1>2, <1>3 DEF Plainly, Forget, redis, notes

LEMMA CurrentPlain == ASSUME IInv, Aligned, NEW r \in Slots, Current(r) PROVE Plainly(r)
<1>0. PICK cur : cur = IF h[r].tok \in at THEN sid[h[r].tok] ELSE None OBVIOUS
<1> DEFINE q == [h[r] EXCEPT !.pc = "pick", !.cur = cur, !.kept = @ \ {cur}]
<1>1. h[r] \in ReqType /\ Runs(h[r]) BY Known
<1>2. h' = [h EXCEPT ![r] = q] /\ h[r].pc = "current" BY <1>0 DEF Current
<1>3. Plain(q) BY <1>1, <1>2 DEF ReqType, Runs, Plain, Storing
<1> HIDE DEF q
<1> QED BY <1>2, <1>3 DEF Plainly, Current, redis, notes

LEMMA ValPlain == ASSUME IInv, Aligned, NEW r \in Slots, Val(r) PROVE Plainly(r)
<1> DEFINE q == [h[r] EXCEPT !.pc = "get"]
<1>1. h[r] \in ReqType /\ Runs(h[r]) BY Known
<1>2. /\ h' = [h EXCEPT ![r] = q] \/ h' = [h EXCEPT ![r] = IdleReq]
      /\ h[r].pc = "val"
  BY DEF Val, Goto, Refused, Answer
<1>3. Plain(q) BY <1>1, <1>2 DEF ReqType, Runs, Plain, Storing
<1> HIDE DEF q
<1> QED BY <1>2, <1>3, IdlePlain DEF Plainly, Val, redis, notes

LEMMA VisitPlain == ASSUME IInv, Aligned, NEW r \in Slots, Visit(r) PROVE Plainly(r)
<1>1. h[r] \in ReqType /\ Runs(h[r]) /\ h[r].pc = "visit" BY Known DEF Visit
<1>2. \E q : h' = [h EXCEPT ![r] = q] /\ Plain(q)
  <2>1. CASE h' = [h EXCEPT ![r] = IdleReq] BY <2>1, IdlePlain
  <2>2. CASE h' = [h EXCEPT ![r].pc = "current"]
    <3>1. Plain([h[r] EXCEPT !.pc = "current"]) BY <1>1 DEF ReqType, Runs, Plain, Storing
    <3> QED BY <2>2, <3>1
  <2>3. ASSUME NEW d, NEW m, NEW pc \in {"forget", "exists"},
               h' = [h EXCEPT ![r].pc = pc, ![r].id = d, ![r].mate = m]
        PROVE  \E q : h' = [h EXCEPT ![r] = q] /\ Plain(q)
    <3>1. Plain([h[r] EXCEPT !.pc = pc, !.id = d, !.mate = m])
      BY <1>1 DEF ReqType, Runs, Plain, Storing
    <3> QED BY <2>3, <3>1
  <2> QED BY <2>1, <2>2, <2>3 DEF Visit, Goto, Refused, Answer
<1> QED BY <1>1, <1>2 DEF Plainly, Visit, redis, notes

LEMMA PickPlain == ASSUME IInv, Aligned, NEW r \in Slots, Pick(r) PROVE Plainly(r)
<1>1. h[r] \in ReqType /\ Runs(h[r]) /\ h[r].pc = "pick" BY Known DEF Pick
<1>2. \E q : h' = [h EXCEPT ![r] = q] /\ Plain(q)
  <2>1. CASE h' = [h EXCEPT ![r] = IdleReq] BY <2>1, IdlePlain
  <2>2. ASSUME NEW d, h' = [h EXCEPT ![r].kept = @ \ {d}]
        PROVE  \E q : h' = [h EXCEPT ![r] = q] /\ Plain(q)
    <3>1. Plain([h[r] EXCEPT !.kept = @ \ {d}]) BY <1>1 DEF ReqType, Runs, Plain, Storing
    <3> QED BY <2>2, <3>1
  <2>3. ASSUME NEW d, NEW m, h' = [h EXCEPT ![r].pc = "get", ![r].id = d, ![r].mate = m]
        PROVE  \E q : h' = [h EXCEPT ![r] = q] /\ Plain(q)
    <3>1. Plain([h[r] EXCEPT !.pc = "get", !.id = d, !.mate = m])
      BY <1>1 DEF ReqType, Runs, Plain, Storing
    <3> QED BY <2>3, <3>1
  <2> QED BY <2>1, <2>2, <2>3 DEF Pick, Refused, Answer
<1> QED BY <1>1, <1>2 DEF Plainly, Pick, redis, notes

LEMMA OthersDonePlain == ASSUME IInv, Aligned, NEW r \in Slots, OthersDone(r) PROVE Plainly(r)
BY IdlePlain DEF Plainly, OthersDone, Refused, Answer, redis

LEMMA ErasePlain == ASSUME IInv, Aligned, NEW r \in Slots, Erase(r) PROVE Plainly(r)
BY IdlePlain DEF Plainly, Erase, Answer, redis, notes

LEMMA EndSessionPlain == ASSUME IInv, Aligned, NEW r \in Slots, EndSession(r) PROVE Plainly(r)
<1>1. h[r] \in ReqType /\ Runs(h[r]) /\ h[r].pc = "end" BY Known DEF EndSession
<1>2. \E q : h' = [h EXCEPT ![r] = q] /\ Plain(q)
  <2>1. CASE h[r].op = "others"
    <3>1. Plain([h[r] EXCEPT !.pc = "pick", !.kept = @ \ {h[r].id}, !.id = None, !.mate = None])
      BY <1>1 DEF ReqType, Runs, Plain, Storing
    <3> QED BY <2>1, <3>1 DEF EndSession
  <2>2. CASE h[r].op # "others"
    <3>1. h' = [h EXCEPT ![r] = IdleReq] BY <2>2 DEF EndSession, Refused, Answer
    <3> QED BY <3>1, IdlePlain
  <2> QED BY <2>1, <2>2
<1> QED BY <1>1, <1>2 DEF Plainly, EndSession

\* A request that arrives, but for a login.
LEMMA ArrivesPlainly ==
  ASSUME IInv, Aligned, NEW r \in Slots, NEW q, Arrive(r, q), Plain(q), UNCHANGED <<next, line>>
  PROVE  Plainly(r)
BY DEF Plainly, Arrive, redis

LEMMA ArrivalPlain ==
  ASSUME IInv, Aligned, NEW r \in Slots, NEW c \in Clients,
         \/ Refresh(r, c) \/ Logout(r, c) \/ ListSessions(r, c) \/ RevokeOtherSessions(r, c)
         \/ RevokeSession(r, c) \/ UpdatePassword(r, c) \/ DeleteAccount(r, c)
  PROVE  Plainly(r)
<1>1. \A p : /\ Plain(Req("refresh", c, "look", p)) /\ Plain(Req("logout", c, "who", p))
             /\ Plain(Req("list", c, "ids", p)) /\ Plain(Req("others", c, "ids", p))
             /\ Plain(Req("password", c, "members", p)) /\ Plain(Req("delete", c, "members", p))
             /\ \A d : Plain([Req("revoke", c, "pick", p) EXCEPT !.kept = {d}])
  BY DEF Plain, Req, IdleReq, Storing
<1> QED BY <1>1, ArrivesPlainly
        DEF Refresh, Logout, ListSessions, RevokeOtherSessions, RevokeSession, UpdatePassword,
            DeleteAccount

LEMMA AbandonOrderly ==
  ASSUME IInv, Aligned, Orderly, NEW r \in Slots, Abandon(r)
  PROVE  Orderly'
<1> DEFINE q == [h[r] EXCEPT !.heard = FALSE]
<1>1. h[r] \in ReqType BY Known
<1>2. h' = [h EXCEPT ![r] = q] /\ UNCHANGED <<rt, at, rot, prev, refIdx, line, next, stirred, torn>>
  BY DEF Abandon, redis, notes
<1>3. /\ q.op = h[r].op /\ q.pc = h[r].pc /\ q.new = h[r].new /\ q.mate = h[r].mate
      /\ q.old = h[r].old /\ q.tok = h[r].tok /\ q.refs = h[r].refs
  BY <1>1 DEF ReqType
<1> HIDE DEF q
<1>4. GoesOnDropping(h[r], q) BY <1>3 DEF GoesOnDropping
<1>5. \A l \in Roots \ stirred : Bound(q, l) BY <1>3 DEF Orderly, InOrder, Bound, Exchanges
<1> QED BY <1>2, <1>4, <1>5, QuietOrderly

LEMMA FailOrderly == ASSUME IInv, Aligned, Orderly, NEW r \in Slots, Fail(r) PROVE Orderly'
<1>1. /\ h' = [h EXCEPT ![r] = IdleReq]
      /\ UNCHANGED <<rt, at, rot, prev, refIdx, line, next, stirred>>
  BY DEF Fail, redis
<1>2. torn \subseteq torn' BY DEF Fail
<1>3. GoesOnDropping(h[r], IdleReq)
  <2>1. h[r].pc = "create" /\ h[r].op = "refresh" => line[h[r].new] \in torn' BY DEF Fail
  <2>2. h[r].pc \in {"drop", "settle"} => line[h[r].mate] \in torn' BY DEF Fail
  <2> QED BY <2>1, <2>2 DEF GoesOnDropping
<1>4. \A l : Bound(IdleReq, l) BY DEF IdleReq, Bound, Storing
<1> QED BY <1>1, <1>2, <1>3, <1>4, QuietOrderly

LEMMA CarrySessionOrderly ==
  ASSUME IInv, Aligned, Orderly, NEW r \in Slots, CarrySession(r)
  PROVE  Orderly'
<1> DEFINE q == [h[r] EXCEPT !.pc = "write",
                             !.id = IF sid[h[r].tok] = None THEN h[r].new ELSE sid[h[r].tok]]
<1>1. h[r] \in ReqType BY Known
<1>2. /\ h' = [h EXCEPT ![r] = q] /\ h[r].pc = "carry"
      /\ UNCHANGED <<rt, at, rot, prev, refIdx, line, next, stirred, torn>>
  BY DEF CarrySession, redis, notes
<1>3. q.op = h[r].op /\ q.pc = "write" /\ q.new = h[r].new /\ q.tok = h[r].tok
  BY <1>1 DEF ReqType
<1> HIDE DEF q
<1>4. GoesOnDropping(h[r], q) BY <1>2 DEF GoesOnDropping
<1>5. \A l \in Roots \ stirred : Bound(q, l)
  BY <1>2, <1>3 DEF Orderly, InOrder, Bound, Exchanges, Storing, Exchange
<1> QED BY <1>2, <1>4, <1>5, QuietOrderly

\* The newest pair gone, the line has no live one.
LEMMA NewestOnly ==
  ASSUME IInv, Aligned, NEW l, Chain(l), NEW m \in Minted, line[m] = l, Newest(m), m \notin rt
  PROVE  Silent(l)
<1> SUFFICES ASSUME NEW p \in Pairs, line[p] = l, p \in rt PROVE FALSE
  BY DEF Silent
<1>1. Newest(p) BY DEF Chain
<1>2. p \in Minted BY LinesAreRoots DEF IInv, Store
<1>3. p <= m /\ m <= p BY <1>1, <1>2 DEF Newest
<1> QED BY <1>2, <1>3 DEF Minted, Pairs

LEMMA GetPairOrderly ==
  ASSUME IInv, Aligned, Orderly, NEW r \in Slots, GetPair(r)
  PROVE  Orderly'
<1>0. PICK q, mate : q = [h[r] EXCEPT !.pc = IF h[r].mate \in (IF h[r].op = "logout" THEN at ELSE rt)
                                    THEN "del" ELSE AfterRevoke(h[r])]
                     /\ mate = h[r].mate OBVIOUS
<1>1. h[r] \in ReqType /\ Runs(h[r]) /\ ReqLine(h[r]) /\ Store BY Known
<1>2. /\ h' = [h EXCEPT ![r] = q] /\ h[r].pc = "get"
      /\ UNCHANGED <<rt, at, rot, prev, refIdx, line, next, stirred, torn>>
  BY <1>0 DEF GetPair, Goto, redis, notes
<1>3. /\ q.op = h[r].op /\ q.mate = mate /\ q.tok = h[r].tok
      /\ q.pc \in {"del", "record", "end"}
      /\ q.pc = "del" => mate \in rt
      /\ q.pc = "record" => q.op = "refresh" /\ mate \notin rt
  BY <1>0, <1>1 DEF ReqType, AfterRevoke, Store
<1>4. GoesOnDropping(h[r], q) BY <1>2 DEF GoesOnDropping
<1>5. mate \in Minted /\ (q.op = "refresh" => line[mate] = line[q.tok])
  BY <1>0, <1>1, <1>2, <1>3 DEF ReqLine, Revokes
<1>6. ASSUME NEW l \in Roots \ stirred PROVE Bound(q, l)
  <2>1. InOrder(l) BY DEF Orderly
  <2>2. ASSUME q.op = "refresh", line[q.tok] = l PROVE Exchanges(q, l)
    <3>1. Exchanges(h[r], l) BY <1>3, <2>1, <2>2 DEF InOrder, Bound
    <3>2. /\ q.tok \in refIdx /\ Newest(mate) /\ Settled(l) /\ prev[mate] = None
      BY <1>0, <1>2, <1>3, <3>1 DEF Exchanges, Exchange
    <3>3. q.pc = "record" => Silent(l) BY <1>3, <1>5, <2>1, <2>2, <3>2, NewestOnly DEF InOrder
    <3> QED BY <1>3, <2>2, <3>2, <3>3 DEF Exchanges, Exchange, Storing
  <2>3. q.pc = "del" => rot[mate] = None BY <1>1, <1>3, <1>5 DEF Store, Minted
  <2> QED BY <1>3, <2>2, <2>3 DEF Bound, Storing
<1> QED BY <1>2, <1>4, <1>6, QuietOrderly

LEMMA MembersOrderly ==
  ASSUME IInv, Aligned, Orderly, NEW r \in Slots, Members(r)
  PROVE  Orderly'
<1> DEFINE q == [h[r] EXCEPT !.pc = "devices", !.accs = accIdx, !.refs = refIdx]
<1>1. h[r] \in ReqType /\ Runs(h[r]) BY Known
<1>2. /\ h' = [h EXCEPT ![r] = q] /\ h[r].pc = "members"
      /\ UNCHANGED <<rt, at, rot, prev, refIdx, line, next, stirred, torn>>
  BY DEF Members, redis, notes
<1>3. q.op # "refresh" /\ q.pc = "devices" /\ q.refs = refIdx
  BY <1>1, <1>2 DEF ReqType, Runs
<1> HIDE DEF q
<1>4. GoesOnDropping(h[r], q) BY <1>2 DEF GoesOnDropping
<1>5. \A l \in Roots \ stirred : Bound(q, l)
  BY <1>3 DEF Orderly, InOrder, Chain, Bound, Storing
<1> QED BY <1>2, <1>4, <1>5, QuietOrderly

LEMMA DevicesOrderly ==
  ASSUME IInv, Aligned, Orderly, NEW r \in Slots, Devices(r)
  PROVE  Orderly'
<1> DEFINE q == [h[r] EXCEPT !.pc = "wipe", !.ids = devs]
<1>1. h[r] \in ReqType /\ Runs(h[r]) BY Known
<1>2. /\ h' = [h EXCEPT ![r] = q] /\ h[r].pc = "devices"
      /\ UNCHANGED <<rt, at, rot, prev, refIdx, line, next, stirred, torn>>
  BY DEF Devices, redis, notes
<1>3. q.op # "refresh" /\ q.pc = "wipe" /\ q.refs = h[r].refs
  BY <1>1, <1>2 DEF ReqType, Runs
<1> HIDE DEF q
<1>4. GoesOnDropping(h[r], q) BY <1>2 DEF GoesOnDropping
<1>5. \A l \in Roots \ stirred : Bound(q, l)
  BY <1>2, <1>3 DEF Orderly, InOrder, Bound, Storing
<1> QED BY <1>2, <1>4, <1>5, QuietOrderly

-----------------------------------------------------------------------------
(* The steps that take pairs and links away, on one line.                  *)

Shrinks ==
  /\ UNCHANGED line
  /\ rt' \subseteq rt
  /\ \A p \in Pairs : rot'[p] \in {rot[p], None}

LEMMA ShrinkBound ==
  ASSUME NEW q, NEW l, Bound(q, l), q.op \in Creators => Far(q, l),
         q.pc \in Storing => q.op \in Creators,
         q.pc \in {"del", "drop", "settle"} => q.mate \in Pairs, Shrinks
  PROVE  Bound(q, l)'
<1>1. CASE q.op \in Creators BY <1>1 DEF Far, Bound, Shrinks
<1>2. CASE q.op \notin Creators
  <2>1. q.op # "refresh" /\ q.pc \notin Storing BY <1>2 DEF Creators
  <2>2. q.pc = "del" /\ line'[q.mate] = l => rot'[q.mate] = None BY DEF Bound, Shrinks
  <2>3. q.pc \in {"drop", "settle"} /\ line'[q.mate] = l => q.mate \notin rt' BY DEF Bound, Shrinks
  <2>4. \A p \in Pairs : Usable(p)' => Usable(p) BY DEF Shrinks, Usable
  <2>5. q.pc \in {"devices", "wipe"} => \A p \in Pairs : line'[p] = l /\ Usable(p)' => p \in q.refs
    BY <2>4 DEF Bound, Shrinks
  <2> QED BY <2>1, <2>2, <2>3, <2>5 DEF Bound
<1> QED BY <1>1, <1>2

LEMMA ShrinkInOrder ==
  ASSUME IInv, Aligned, Orderly, NEW r \in Slots, NEW q, h' = [h EXCEPT ![r] = q], Shrinks,
         NEW l \in Roots \ stirred, l \in Touched(h[r]), h[r].pc # "idle",
         Chain(l)', Pendings(l)', Bound(q, l)'
  PROVE  InOrder(l)'
<1>1. h'[r] = q /\ \A s \in Slots : s # r => h'[s] = h[s] BY OtherSlots
<1>2. ASSUME NEW s \in Slots, s # r PROVE Bound(h[s], l)'
  <2>0. PICK u : u = h[s] OBVIOUS
  <2>1. h'[s] = u BY <1>1, <1>2, <2>0
  <2>2. Bound(u, l) BY <2>0 DEF Orderly, InOrder
  <2>3. u.op \in Creators => Far(u, l) BY <1>2, <2>0, NoneMints
  <2>4. /\ u.pc \in Storing => u.op \in Creators
        /\ u.pc \in {"del", "drop", "settle"} => u.mate \in Pairs
    BY <2>0, Known DEF Runs, ReqOK
  <2>5. Bound(u, l)' BY <2>2, <2>3, <2>4, ShrinkBound
  <2> QED BY <2>1, <2>5
<1>3. \A s \in Slots : Bound(h[s], l)' BY <1>1, <1>2
<1> QED BY <1>3 DEF InOrder

\* The keys of the pairs of other lines are as before.
Beside(own) ==
  /\ UNCHANGED <<line, next>>
  /\ \A p \in Pairs : line[p] # own =>
       /\ (p \in rt' <=> p \in rt) /\ (p \in at' <=> p \in at) /\ (p \in refIdx' <=> p \in refIdx)
       /\ rot'[p] = rot[p] /\ prev'[p] = prev[p] /\ sid'[p] = sid[p]

\* A step that works on one line, and leaves that in order.
LEMMA OthersInOrder ==
  ASSUME IInv, Aligned, Orderly, NEW r \in Slots, NEW q, h' = [h EXCEPT ![r] = q],
         NEW own, Beside(own), stirred \subseteq stirred',
         \A l \in Roots : l # own => Far(h[r], l) /\ Far(q, l) /\ (l \in torn => l \in torn'),
         own \in Roots \ stirred => InOrder(own)'
  PROVE  Orderly'
<1>1. Roots' = Roots /\ Minted' = Minted BY DEF Roots, Minted, Beside
<1>2. ASSUME NEW l \in Roots \ stirred, l # own PROVE InOrder(l)'
  <2>1. Still(l) BY <1>1, <1>2 DEF Still, Beside
  <2>2. Far(h[r], l) /\ (l \in torn => l \in torn') /\ InOrder(l) BY <1>2 DEF Orderly
  <2>3. Far(q, l)' BY <1>2 DEF Far, Beside
  <2> QED BY <2>1, <2>2, <2>3, StillInOrder
<1>3. \A l \in Roots' \ stirred' : l \in Roots \ stirred BY <1>1
<1> QED BY <1>2, <1>3 DEF Orderly

LEMMA RefreshFar ==
  ASSUME NEW q, q.op = "refresh", ReqOK(q), q.pc \in Storing => line[q.new] = line[q.tok],
         q.pc \in {"del", "drop", "settle"} => line[q.mate] = line[q.tok],
         NEW l, l # line[q.tok]
  PROVE  Far(q, l)
BY DEF Far, ReqOK, Exchanging, Exchange, Storing

\* A request that revokes works on the line of the pair.
LEMMA MateTouches ==
  ASSUME IInv, Aligned, NEW r \in Slots, h[r].pc \in {"del", "drop", "settle"}
  PROVE  /\ h[r].mate \in Minted /\ line[h[r].mate] \in Roots
         /\ line[h[r].mate] \in Touched(h[r]) /\ h[r].pc # "idle"
         /\ \A l : l # line[h[r].mate] => Far(h[r], l)
<1>1. h[r].mate \in Minted /\ ReqLine(h[r]) /\ Runs(h[r]) BY Known DEF ReqLine, Revokes
<1>2. line[h[r].mate] \in Roots BY <1>1, Known DEF Lined
<1>3. ~Far(h[r], line[h[r].mate]) BY DEF Far
<1>4. line[h[r].mate] \in Touched(h[r]) BY <1>2, <1>3, FarUnlessTouched
<1>5. \A l : l # line[h[r].mate] => Far(h[r], l)
  BY <1>1 DEF Far, ReqLine, Revokes, Storing
<1> QED BY <1>1, <1>2, <1>4, <1>5

LEMMA ShrinkChain ==
  ASSUME NEW l, Chain(l), Shrinks, UNCHANGED next,
         \A p \in Pairs : line[p] = l /\ p \in rt' => p \in at',
         \A p \in Pairs : line[p] = l /\ rot[p] # None /\ rot'[p] # None /\ rot[p] \in rt'
           => prev'[rot[p]] = prev[rot[p]],
         \A p \in Pairs : line[p] = l /\ (p \in rt' \/ rot'[p] # None) => p \in refIdx'
  PROVE  Chain(l)'
<1>1. Minted' = Minted BY DEF Minted
<1>2. \A p : Newest(p) => Newest(p)' BY <1>1 DEF Newest, Shrinks
<1>3. ASSUME NEW p \in Pairs, line'[p] = l
      PROVE  /\ p \in rt' => Newest(p)' /\ p \in at'
             /\ Usable(p)' => p \in refIdx'
  BY <1>2, <1>3 DEF Chain, Shrinks, Usable
<1>4. ASSUME NEW p \in Pairs, line'[p] = l, NEW m, m = rot'[p], m # None
      PROVE  Newest(m)' /\ m = rot[p] /\ (m \in rt' => prev'[m] = p)
  <2>1. m = rot[p] /\ rot[p] # None /\ line[p] = l BY <1>4 DEF Shrinks
  <2>2. Newest(m) /\ (m \in rt => prev[m] = p) BY <2>1 DEF Chain
  <2>3. Newest(m)' BY <1>2, <2>2
  <2> QED BY <1>4, <2>1, <2>2, <2>3 DEF Shrinks
<1>5. \A p, q \in Pairs : line'[p] = l /\ line'[q] = l /\ rot'[p] # None /\ rot'[q] # None => p = q
  <2>1. \A p \in Pairs : line'[p] = l /\ rot'[p] # None => line[p] = l /\ rot[p] # None
    BY DEF Shrinks
  <2> QED BY <2>1 DEF Chain
<1>6. \A p \in Pairs : line'[p] = l /\ rot'[p] # None =>
        /\ \A q \in Minted' : line'[q] = line'[rot'[p]] => q <= rot'[p]
        /\ rot'[p] \in rt' => prev'[rot'[p]] = p
  BY <1>4 DEF Newest
<1> QED BY <1>3, <1>5, <1>6 DEF Chain, Newest, Usable

\* Two pairs of a line that are both the newest are one.
LEMMA OneNewest ==
  ASSUME NEW p \in Minted, NEW q \in Minted, line[p] = line[q], Newest(p), Newest(q)
  PROVE  p = q
BY DEF Newest, Minted, Pairs

LEMMA PlainBound == ASSUME NEW q, Plain(q) PROVE \A l : Bound(q, l)'
BY DEF Plain, Bound, Exchanges, Exchange, Storing

\* The token claimed was the newest of its line, which is silent now.
LEMMA ClaimOrderly == ASSUME IInv, Aligned, Orderly, NEW r \in Slots, Claim(r) PROVE Orderly'
<1>0. PICK tok, q, own :
        /\ tok = h[r].tok /\ own = line[h[r].tok]
        /\ q = IF h[r].tok \in rt THEN [h[r] EXCEPT !.pc = "drop", !.mate = h[r].tok] ELSE IdleReq
  OBVIOUS
<1>1. /\ h[r] \in ReqType /\ ReqOK(h[r]) /\ Runs(h[r]) /\ ReqLine(h[r]) /\ Store /\ Lined
      /\ h[r].pc = "claim" /\ h[r].op = "refresh"
  BY Known DEF Claim, ReqOK
<1>2. /\ h' = [h EXCEPT ![r] = q] /\ rt' = rt \ {tok} /\ at' = at \ {tok}
      /\ UNCHANGED <<rot, prev, sid, refIdx, line, next, stirred, torn>>
  BY <1>0 DEF Claim, Answer, notes
<1>3. /\ tok \in Minted /\ own \in Roots /\ own \in Touched(h[r]) /\ h[r].pc # "idle"
  BY <1>0, <1>1, RefreshTouches, LinesAreRoots
<1>4. Beside(own) BY <1>0, <1>2 DEF Beside
<1>5. /\ tok \in rt => q.op = "refresh" /\ q.pc = "drop" /\ q.mate = tok /\ q.tok = tok
      /\ tok \notin rt => Plain(q)
  BY <1>0, <1>1, IdlePlain DEF ReqType
<1>6. \A l : l # own => Far(h[r], l) /\ Far(q, l)
  <2>1. \A l : l # own => Far(h[r], l) BY <1>0, <1>1 DEF Far, Storing
  <2>2. \A l : l # own => Far(q, l)
    <3>1. CASE tok \notin rt BY <1>0, <3>1 DEF Far, IdleReq, Storing
    <3>2. CASE tok \in rt BY <1>0, <1>5, <3>2 DEF Far, Storing
    <3> QED BY <3>1, <3>2
  <2> QED BY <2>1, <2>2
<1>7. ASSUME own \in Roots \ stirred PROVE InOrder(own)'
  <2>1. InOrder(own) BY <1>7 DEF Orderly
  <2>2. Shrinks BY <1>2 DEF Shrinks
  <2>3. Chain(own)'
    <3>1. \A p \in Pairs : line[p] = own /\ p \in rt' => p \in at' BY <1>2, <2>1 DEF InOrder, Chain
    <3>2. \A p \in Pairs : line[p] = own /\ (p \in rt' \/ rot'[p] # None) => p \in refIdx'
      BY <1>2, <2>1 DEF InOrder, Chain, Usable
    <3> QED BY <1>2, <2>1, <2>2, <3>1, <3>2, ShrinkChain DEF InOrder
  <2>4. Pendings(own)'
    <3>0. h'[r] = q /\ \A s \in Slots : s # r => h'[s] = h[s] BY <1>2, OtherSlots
    <3> SUFFICES ASSUME own \notin torn, NEW p \in Pairs, line[p] = own, rot[p] # None
                 PROVE  rot[p] \in rt' \/ Dropping(p)'
      BY <1>2 DEF Pendings
    <3>1. CASE rot[p] \in rt
      <4>1. prev[rot[p]] = p BY <2>1, <3>1 DEF InOrder, Chain
      <4> QED BY <1>2, <1>5, <3>0, <3>1, <4>1 DEF Dropping
    <3>2. CASE rot[p] \notin rt
      <4>1. Dropping(p) BY <2>1, <3>2 DEF InOrder, Pendings
      <4> QED BY <1>1, <1>2, <3>0, <4>1 DEF Dropping
    <3> QED BY <3>1, <3>2
  <2>5. Bound(q, own)'
    <3>1. CASE tok \notin rt BY <1>5, <3>1, PlainBound
    <3>2. CASE tok \in rt
      <4>1. Newest(tok) /\ tok \in refIdx BY <1>0, <1>3, <2>1, <3>2 DEF InOrder, Chain, Usable, Minted
      <4>2. \A p \in Pairs : line[p] = own => p \notin rt'
        <5>1. \A p \in Pairs : line[p] = own /\ p \in rt => p \in Minted /\ Newest(p)
          BY <1>1, <2>1, LinesAreRoots DEF InOrder, Chain, Store
        <5> QED BY <1>0, <1>2, <1>3, <4>1, <5>1, OneNewest
      <4>3. \A p \in Pairs : line[p] = own /\ rot[p] # None => p = prev[tok]
        <5>1. \A p \in Pairs : line[p] = own /\ rot[p] # None =>
                /\ rot[p] \in Minted /\ line[rot[p]] = own /\ Newest(rot[p])
                /\ rot[p] \in rt => prev[rot[p]] = p
          BY <1>1, <2>1 DEF InOrder, Chain, Lined
        <5> QED BY <1>0, <1>3, <3>2, <4>1, <5>1, OneNewest
      <4>4. Exchanges(q, own)'
        BY <1>2, <1>5, <3>2, <4>1, <4>2, <4>3 DEF Exchanges, Silent, Exchange, Storing
      <4> QED BY <1>2, <1>5, <3>2, <4>4 DEF Bound, Storing
    <3> QED BY <3>1, <3>2
  <2> QED BY <1>2, <1>3, <1>7, <2>2, <2>3, <2>4, <2>5, ShrinkInOrder
<1> QED BY <1>2, <1>4, <1>6, <1>7, OthersInOrder

\* The replay finds the pair last handed out; no other rotation is pending.
LEMMA ReplayOrderly == ASSUME IInv, Aligned, Orderly, NEW r \in Slots, Replay(r) PROVE Orderly'
<1>0. PICK tok, mate, own : tok = h[r].tok /\ mate = rot[h[r].tok] /\ own = line[h[r].tok]
  OBVIOUS
<1>1. /\ h[r] \in ReqType /\ ReqOK(h[r]) /\ Runs(h[r]) /\ ReqLine(h[r]) /\ Store /\ Lined
      /\ rot \in Links /\ h[r].pc = "replay" /\ h[r].op = "refresh"
  BY Known DEF Replay, ReqOK, TypeOK
<1>2. /\ rot' = [rot EXCEPT ![tok] = None]
      /\ UNCHANGED <<rt, at, prev, sid, refIdx, line, next, stirred, torn>>
  BY <1>0 DEF Replay, notes
<1>3. /\ tok \in Minted /\ own \in Roots /\ own \in Touched(h[r]) /\ h[r].pc # "idle"
  BY <1>0, <1>1, RefreshTouches, LinesAreRoots
<1>4. CASE mate = None
  <2>1. rot' = rot BY <1>0, <1>1, <1>2, <1>4 DEF Links
  <2>2. h' = [h EXCEPT ![r] = IdleReq] BY <1>0, <1>4 DEF Replay, Answer
  <2>3. Plainly(r) BY <1>1, <1>2, <2>1, <2>2, IdlePlain DEF Plainly
  <2> QED BY <2>3, PlainlyOrderly
<1>5. CASE mate # None
  <2>0. PICK q : q = [h[r] EXCEPT !.pc = "unlink", !.mate = mate] OBVIOUS
  <2>1. h' = [h EXCEPT ![r] = q] BY <1>0, <1>5, <2>0 DEF Replay
  <2>2. q.op = "refresh" /\ q.pc = "unlink" /\ q.mate = mate /\ q.tok = tok
    BY <1>0, <1>1, <2>0 DEF ReqType
  <2>3. Beside(own) BY <1>0, <1>1, <1>2 DEF Beside, Links
  <2>4. \A l : l # own => Far(h[r], l) /\ Far(q, l)
    BY <1>0, <1>1, <2>2 DEF Far, Storing
  <2>5. ASSUME own \in Roots \ stirred PROVE InOrder(own)'
    <3>1. InOrder(own) BY <2>5 DEF Orderly
    <3>2. Shrinks BY <1>1, <1>2 DEF Shrinks, Links
    <3>3. Newest(mate) /\ mate \in Minted /\ line[mate] = own /\ tok \in refIdx
      BY <1>0, <1>1, <1>3, <1>5, <3>1 DEF InOrder, Chain, Lined, Usable, Minted
    <3>4. \A p \in Pairs : line[p] = own => rot'[p] = None
      BY <1>0, <1>1, <1>2, <1>3, <1>5, <3>1 DEF InOrder, Chain, Links, Minted
    <3>5. Chain(own)'
      BY <1>2, <3>1, <3>2, <3>4, ShrinkChain DEF InOrder, Chain, Usable
    <3>6. Pendings(own)' BY <1>2, <3>4 DEF Pendings
    <3>7. Newest(mate)' BY <1>2, <3>3 DEF Newest, Minted
    <3>8. Exchanges(q, own)'
      BY <1>2, <2>2, <3>3, <3>4, <3>7 DEF Exchanges, Settled, Exchange, Storing
    <3>9. Bound(q, own)' BY <2>2, <3>8 DEF Bound, Storing
    <3> QED BY <1>3, <2>1, <2>5, <3>2, <3>5, <3>6, <3>9, ShrinkInOrder
  <2> QED BY <1>2, <2>1, <2>3, <2>4, <2>5, OthersInOrder
<1> QED BY <1>4, <1>5

LEMMA UnlinkOrderly == ASSUME IInv, Aligned, Orderly, NEW r \in Slots, Unlink(r) PROVE Orderly'
<1>0. PICK q, tok, mate, own :
        /\ tok = h[r].tok /\ mate = h[r].mate /\ own = line[h[r].tok]
        /\ q = [h[r] EXCEPT !.pc = "get"]
  OBVIOUS
<1>1. /\ h[r] \in ReqType /\ ReqOK(h[r]) /\ Runs(h[r]) /\ ReqLine(h[r]) /\ Store /\ Lined
      /\ prev \in Links /\ h[r].pc = "unlink" /\ h[r].op = "refresh"
  BY Known DEF Unlink, ReqOK, TypeOK
<1>2. /\ h' = [h EXCEPT ![r] = q] /\ prev' = [prev EXCEPT ![mate] = None]
      /\ UNCHANGED <<rt, at, rot, sid, refIdx, line, next, stirred, torn>>
  BY <1>0 DEF Unlink, Goto, notes
<1>3. /\ tok \in Minted /\ own \in Roots /\ own \in Touched(h[r]) /\ h[r].pc # "idle"
      /\ mate \in Minted /\ line[mate] = own
  BY <1>0, <1>1, RefreshTouches, LinesAreRoots DEF ReqLine
<1>4. Beside(own) BY <1>1, <1>2, <1>3 DEF Beside, Links
<1>5. q.op = "refresh" /\ q.pc = "get" /\ q.mate = mate /\ q.tok = tok
  BY <1>0, <1>1 DEF ReqType
<1>6. \A l : l # own => Far(h[r], l) /\ Far(q, l)
  BY <1>0, <1>1, <1>5 DEF Far, Storing
<1>7. ASSUME own \in Roots \ stirred PROVE InOrder(own)'
  <2>1. InOrder(own) BY <1>7 DEF Orderly
  <2>2. Shrinks BY <1>2 DEF Shrinks
  <2>3. Exchanges(h[r], own) BY <1>0, <1>1, <2>1 DEF InOrder, Bound
  <2>4. Newest(mate) /\ Settled(own) /\ tok \in refIdx
    BY <1>0, <1>1, <2>3 DEF Exchanges, Exchange
  <2>5. Chain(own)'
    BY <1>2, <2>1, <2>2, <2>4, ShrinkChain DEF InOrder, Chain, Usable, Settled
  <2>6. Pendings(own)' BY <1>2, <2>4 DEF Pendings, Settled
  <2>7. Newest(mate)' BY <1>2, <2>4 DEF Newest, Minted
  <2>8. prev'[mate] = None BY <1>1, <1>2, <1>3 DEF Links, Minted
  <2>9. Exchanges(q, own)'
    BY <1>2, <1>5, <2>4, <2>7, <2>8 DEF Exchanges, Settled, Exchange, Storing
  <2>10. Bound(q, own)' BY <1>5, <2>9 DEF Bound, Storing
  <2> QED BY <1>2, <1>3, <1>7, <2>2, <2>5, <2>6, <2>10, ShrinkInOrder
<1> QED BY <1>2, <1>4, <1>6, <1>7, OthersInOrder

\* A pair deleted was the live one of its line; a rotation that led to it is
\* dropped next.
LEMMA DelPairOrderly == ASSUME IInv, Aligned, Orderly, NEW r \in Slots, DelPair(r) PROVE Orderly'
<1>0. PICK q, tok, mate, own :
        /\ tok = h[r].tok /\ mate = h[r].mate /\ own = line[h[r].mate]
        /\ q = [h[r] EXCEPT !.pc = "drop", !.ok = h[r].op = "logout" /\ h[r].mate \in at \cup rt]
  OBVIOUS
<1>1. /\ h[r] \in ReqType /\ ReqOK(h[r]) /\ Runs(h[r]) /\ ReqLine(h[r]) /\ Store /\ Lined
      /\ h[r].pc = "del"
  BY Known DEF DelPair
<1>2. /\ h' = [h EXCEPT ![r] = q]
      /\ rt' = rt \ {mate} /\ at' = at \ {mate} /\ refIdx' = refIdx \ {mate}
      /\ sid' = [sid EXCEPT ![mate] = None]
      /\ UNCHANGED <<rot, prev, line, next, stirred, torn>>
  BY <1>0 DEF DelPair
<1>3. /\ mate \in Minted /\ own \in Roots /\ own \in Touched(h[r]) /\ h[r].pc # "idle"
      /\ \A l : l # own => Far(h[r], l)
  BY <1>0, <1>1, MateTouches
<1>4. Beside(own)
  <2>1. sid \in Links BY Known DEF TypeOK
  <2> QED BY <1>0, <1>2, <2>1 DEF Beside, Links
<1>5. q.op = h[r].op /\ q.pc = "drop" /\ q.mate = mate /\ q.tok = tok
  BY <1>0, <1>1 DEF ReqType
<1>6. \A l : l # own => Far(q, l)
  BY <1>0, <1>1, <1>3, <1>5 DEF Far, Storing
<1>7. ASSUME own \in Roots \ stirred PROVE InOrder(own)'
  <2>0. h'[r] = q /\ \A s \in Slots : s # r => h'[s] = h[s] BY <1>2, OtherSlots
  <2>1. InOrder(own) BY <1>7 DEF Orderly
  <2>2. Shrinks BY <1>2 DEF Shrinks
  <2>3. rot[mate] = None BY <1>0, <1>1, <2>1 DEF InOrder, Bound
  <2>4. Chain(own)'
    <3>1. \A p \in Pairs : line[p] = own /\ p \in rt' => p \in at' BY <1>2, <2>1 DEF InOrder, Chain
    <3>2. \A p \in Pairs : line[p] = own /\ (p \in rt' \/ rot'[p] # None) => p \in refIdx'
      BY <1>2, <2>1, <2>3 DEF InOrder, Chain, Usable
    <3> QED BY <1>2, <2>1, <2>2, <3>1, <3>2, ShrinkChain DEF InOrder
  <2>5. Pendings(own)'
    <3> SUFFICES ASSUME own \notin torn, NEW p \in Pairs, line[p] = own, rot[p] # None
                 PROVE  rot[p] \in rt' \/ Dropping(p)'
      BY <1>2 DEF Pendings
    <3>1. CASE rot[p] \in rt
      <4>1. prev[rot[p]] = p BY <2>1, <3>1 DEF InOrder, Chain
      <4> QED BY <1>2, <1>5, <2>0, <3>1, <4>1 DEF Dropping
    <3>2. CASE rot[p] \notin rt
      <4>1. Dropping(p) BY <2>1, <3>2 DEF InOrder, Pendings
      <4> QED BY <1>1, <1>2, <2>0, <4>1 DEF Dropping
    <3> QED BY <3>1, <3>2
  <2>6. Bound(q, own)'
    <3>1. mate \notin rt' BY <1>2
    <3>2. ASSUME q.op = "refresh", line[q.tok] = own PROVE Exchanges(q, own)'
      <4>1. /\ tok \in refIdx /\ Newest(mate) /\ Settled(own) /\ prev[mate] = None
        <5>1. Exchanges(h[r], own) BY <1>0, <1>5, <2>1, <3>2 DEF InOrder, Bound
        <5> QED BY <1>0, <1>1, <5>1 DEF Exchanges, Exchange
      <4>2. tok < mate BY <1>0, <1>1, <1>5, <3>2 DEF ReqLine
      <4>3. tok \in refIdx' BY <1>2, <1>3, <4>1, <4>2 DEF Minted, Pairs
      <4>4. \A p \in Pairs : line[p] = own => p \notin rt'
        <5>1. \A p \in Pairs : line[p] = own /\ p \in rt => p \in Minted /\ Newest(p)
          BY <1>1, <2>1, LinesAreRoots DEF InOrder, Chain, Store
        <5> QED BY <1>0, <1>2, <1>3, <4>1, <5>1, OneNewest
      <4> QED BY <1>2, <1>5, <4>1, <4>3, <4>4
              DEF Exchanges, Silent, Settled, Exchange, Storing
    <3> QED BY <1>2, <1>5, <3>1, <3>2 DEF Bound, Storing
  <2> QED BY <1>2, <1>3, <1>7, <2>2, <2>4, <2>5, <2>6, ShrinkInOrder
<1> QED BY <1>2, <1>3, <1>4, <1>6, <1>7, OthersInOrder

\* The link back is read: the rotation it names is dropped next, if there is one.
LEMMA DropLinkOrderly == ASSUME IInv, Aligned, Orderly, NEW r \in Slots, DropLink(r) PROVE Orderly'
<1>0. PICK q, tok, mate, own, previous :
        /\ tok = h[r].tok /\ mate = h[r].mate /\ own = line[h[r].mate]
        /\ previous = prev[h[r].mate]
        /\ q = [h[r] EXCEPT !.pc = IF prev[h[r].mate] = None THEN AfterRevoke(h[r]) ELSE "settle",
                            !.old = prev[h[r].mate]]
  OBVIOUS
<1>1. /\ h[r] \in ReqType /\ ReqOK(h[r]) /\ Runs(h[r]) /\ ReqLine(h[r]) /\ Store /\ Lined
      /\ prev \in Links /\ h[r].pc = "drop"
  BY Known DEF DropLink, TypeOK
<1>2. /\ h' = [h EXCEPT ![r] = q] /\ prev' = [prev EXCEPT ![mate] = None]
      /\ UNCHANGED <<rt, at, rot, sid, refIdx, line, next, stirred, torn>>
  BY <1>0 DEF DropLink, notes
<1>3. /\ mate \in Minted /\ own \in Roots /\ own \in Touched(h[r]) /\ h[r].pc # "idle"
      /\ \A l : l # own => Far(h[r], l)
  BY <1>0, <1>1, MateTouches
<1>4. Beside(own) BY <1>0, <1>1, <1>2 DEF Beside, Links
<1>5. /\ q.op = h[r].op /\ q.mate = mate /\ q.tok = tok
      /\ previous # None => q.pc = "settle" /\ q.old = previous
      /\ previous = None => q.pc = IF q.op = "refresh" THEN "record" ELSE "end"
  <2>1. h[r].mate \in Pairs BY <1>0, <1>3 DEF Minted
  <2>2. prev[h[r].mate] \in 0..MaxPairs BY <2>1, Known, LinkTypes
  <2> QED BY <1>0, <1>1, <2>2 DEF ReqType, AfterRevoke
<1>6. \A l : l # own => Far(q, l)
  BY <1>0, <1>1, <1>3, <1>5 DEF Far, Storing
<1>7. ASSUME own \in Roots \ stirred PROVE InOrder(own)'
  <2>0. h'[r] = q /\ \A s \in Slots : s # r => h'[s] = h[s] BY <1>2, OtherSlots
  <2>1. InOrder(own) BY <1>7 DEF Orderly
  <2>2. Shrinks BY <1>2 DEF Shrinks
  <2>3. mate \notin rt BY <1>0, <1>1, <2>1 DEF InOrder, Bound
  <2>4. Chain(own)'
    <3>1. \A p \in Pairs : rot[p] \in rt => prev'[rot[p]] = prev[rot[p]] BY <1>1, <1>2, <2>3 DEF Links
    <3> QED BY <1>2, <2>1, <2>2, <3>1, ShrinkChain DEF InOrder, Chain, Usable
  <2>5. Pendings(own)'
    <3> SUFFICES ASSUME own \notin torn, NEW p \in Pairs, line[p] = own, rot[p] # None,
                        rot[p] \notin rt
                 PROVE  Dropping(p)'
      BY <1>2 DEF Pendings
    <3>1. PICK s \in Slots :
            \/ h[s].op = "refresh" /\ h[s].pc = "create" /\ h[s].new = rot[p]
            \/ h[s].pc = "drop" /\ h[s].mate = rot[p] /\ prev[rot[p]] = p
            \/ h[s].pc = "settle" /\ h[s].mate = rot[p] /\ h[s].old = p
      BY <2>1 DEF InOrder, Pendings, Dropping
    <3>2. CASE rot[p] = mate /\ prev[mate] = p
      <4>1. q.pc = "settle" /\ q.mate = mate /\ q.old = p
        BY <1>0, <1>5, <3>2 DEF Pairs, None
      <4> QED BY <1>2, <2>0, <3>2, <4>1 DEF Dropping
    <3>3. CASE h[s].pc = "drop" /\ h[s].mate = rot[p] /\ prev[rot[p]] = p /\ rot[p] # mate
      <4>1. s # r BY <1>0, <3>3
      <4> QED BY <1>1, <1>2, <2>0, <3>3, <4>1 DEF Dropping, Links
    <3>4. CASE h[s].pc \in {"create", "settle"}
      <4>1. s # r BY <1>1, <3>4
      <4> QED BY <1>2, <2>0, <3>1, <3>4, <4>1 DEF Dropping
    <3> QED BY <3>1, <3>2, <3>3, <3>4
  <2>6. Bound(q, own)'
    <3>1. mate \notin rt' BY <1>2, <2>3
    <3>2. ASSUME q.op = "refresh", line[q.tok] = own PROVE Exchanges(q, own)'
      <4>1. /\ tok \in refIdx /\ Silent(own)
            /\ \A p \in Pairs : line[p] = own /\ rot[p] # None => p = previous
            /\ mate = tok \/ previous = None
        <5>1. Exchanges(h[r], own) BY <1>0, <1>5, <2>1, <3>2 DEF InOrder, Bound
        <5> QED BY <1>0, <1>1, <5>1 DEF Exchanges, Exchange
      <4>2. CASE previous # None
        BY <1>2, <1>5, <3>2, <4>1, <4>2 DEF Exchanges, Silent, Settled, Exchange, Storing
      <4>3. CASE previous = None
        <5>1. \A p \in Pairs : line[p] = own => rot[p] = None BY <4>1, <4>3 DEF Pairs, None
        <5> QED BY <1>2, <1>5, <3>2, <4>1, <4>3, <5>1
                DEF Exchanges, Silent, Settled, Exchange, Storing
      <4> QED BY <4>2, <4>3
    <3>3. q.pc \in {"settle", "record", "end"} BY <1>5
    <3> QED BY <1>2, <1>5, <3>1, <3>2, <3>3 DEF Bound, Storing
  <2> QED BY <1>2, <1>3, <1>7, <2>2, <2>4, <2>5, <2>6, ShrinkInOrder
<1> QED BY <1>2, <1>3, <1>4, <1>6, <1>7, OthersInOrder

\* What the rotation replaced is no longer the newest: it was not live.
LEMMA DropPredecessorOrderly ==
  ASSUME IInv, Aligned, Orderly, NEW r \in Slots, DropPredecessor(r)
  PROVE  Orderly'
<1>0. PICK q, tok, mate, own, old :
        /\ tok = h[r].tok /\ mate = h[r].mate /\ own = line[h[r].mate] /\ old = h[r].old
        /\ q = [h[r] EXCEPT !.pc = AfterRevoke(h[r]), !.old = None]
  OBVIOUS
<1>1. /\ h[r] \in ReqType /\ ReqOK(h[r]) /\ Runs(h[r]) /\ ReqLine(h[r]) /\ Store /\ Lined
      /\ rot \in Links /\ sid \in Links /\ h[r].pc = "settle"
  BY Known DEF DropPredecessor, TypeOK
<1>2. /\ h' = [h EXCEPT ![r] = q] /\ rot' = [rot EXCEPT ![old] = None]
      /\ sid' = [sid EXCEPT ![old] = None] /\ refIdx' = refIdx \ {old}
      /\ UNCHANGED <<rt, at, prev, line, next, stirred, torn>>
  BY <1>0 DEF DropPredecessor, notes
<1>3. /\ mate \in Minted /\ own \in Roots /\ own \in Touched(h[r]) /\ h[r].pc # "idle"
      /\ \A l : l # own => Far(h[r], l)
      /\ old \in Pairs /\ old < mate /\ line[old] = own
  BY <1>0, <1>1, MateTouches DEF ReqLine
<1>4. Beside(own) BY <1>1, <1>2, <1>3 DEF Beside, Links
<1>5. /\ q.op = h[r].op /\ q.mate = mate /\ q.tok = tok
      /\ q.pc = IF q.op = "refresh" THEN "record" ELSE "end"
  BY <1>0, <1>1 DEF ReqType, AfterRevoke
<1>6. \A l : l # own => Far(q, l)
  BY <1>0, <1>1, <1>3, <1>5 DEF Far, Storing
<1>7. ASSUME own \in Roots \ stirred PROVE InOrder(own)'
  <2>0. h'[r] = q /\ \A s \in Slots : s # r => h'[s] = h[s] BY <1>2, OtherSlots
  <2>1. InOrder(own) BY <1>7 DEF Orderly
  <2>2. Shrinks BY <1>1, <1>2 DEF Shrinks, Links
  <2>3. old \notin rt
    <3>1. old \in rt => Newest(old) BY <1>3, <2>1 DEF InOrder, Chain
    <3> QED BY <1>0, <1>3, <3>1 DEF Newest, Minted, Pairs
  <2>4. Chain(own)'
    <3>1. \A p \in Pairs : line[p] = own /\ p \in rt' => p \in at' BY <1>2, <2>1 DEF InOrder, Chain
    <3>2. \A p \in Pairs : line[p] = own /\ (p \in rt' \/ rot'[p] # None) => p \in refIdx'
      BY <1>1, <1>2, <2>1, <2>3 DEF InOrder, Chain, Usable, Links
    <3> QED BY <1>2, <2>1, <2>2, <3>1, <3>2, ShrinkChain DEF InOrder
  <2>5. Pendings(own)'
    <3> SUFFICES ASSUME own \notin torn, NEW p \in Pairs, line[p] = own, p # old,
                        rot[p] # None, rot[p] \notin rt
                 PROVE  Dropping(p)'
      BY <1>1, <1>2 DEF Pendings, Links
    <3>1. PICK s \in Slots :
            \/ h[s].op = "refresh" /\ h[s].pc = "create" /\ h[s].new = rot[p]
            \/ h[s].pc = "drop" /\ h[s].mate = rot[p] /\ prev[rot[p]] = p
            \/ h[s].pc = "settle" /\ h[s].mate = rot[p] /\ h[s].old = p
      BY <2>1 DEF InOrder, Pendings, Dropping
    <3>2. s # r BY <1>0, <1>1, <3>1
    <3>3. rot'[p] = rot[p] BY <1>1, <1>2 DEF Links
    <3> QED BY <1>2, <2>0, <3>1, <3>2, <3>3 DEF Dropping
  <2>6. Bound(q, own)'
    <3>2. ASSUME q.op = "refresh", line[q.tok] = own PROVE Exchanges(q, own)'
      <4>1. /\ tok \in refIdx /\ Silent(own)
            /\ \A p \in Pairs : line[p] = own /\ rot[p] # None => p = old
            /\ mate = tok
        <5>1. Exchanges(h[r], own) BY <1>0, <1>5, <2>1, <3>2 DEF InOrder, Bound
        <5> QED BY <1>0, <1>1, <5>1 DEF Exchanges, Exchange
      <4>2. tok \in refIdx' BY <1>2, <1>3, <4>1 DEF Minted, Pairs
      <4>3. \A p \in Pairs : line[p] = own => rot'[p] = None BY <1>1, <1>2, <4>1 DEF Links
      <4> QED BY <1>2, <1>5, <3>2, <4>1, <4>2, <4>3
              DEF Exchanges, Silent, Settled, Exchange, Storing
    <3> QED BY <1>2, <1>5, <3>2 DEF Bound, Storing
  <2> QED BY <1>2, <1>3, <1>7, <2>2, <2>4, <2>5, <2>6, ShrinkInOrder
<1> QED BY <1>2, <1>3, <1>4, <1>6, <1>7, OthersInOrder

\* The line is whole again: the pair stored is its newest, and a rotation still
\* pending leads to it.
LEMMA WriteSessionOrderly ==
  ASSUME IInv, Aligned, Orderly, NEW r \in Slots, WriteSession(r)
  PROVE  Orderly'
<1>0. PICK new, own : new = h[r].new /\ own = line[h[r].new] OBVIOUS
<1>1. /\ h[r] \in ReqType /\ ReqOK(h[r]) /\ Runs(h[r]) /\ ReqLine(h[r]) /\ Store /\ Lined
      /\ sid \in Links /\ h[r].pc = "write"
  BY Known DEF WriteSession, TypeOK
<1>2. /\ h' = [h EXCEPT ![r] = IdleReq] /\ torn' = torn \ ({own} \ out)
      /\ \E id : sid' = [sid EXCEPT ![new] = id]
      /\ UNCHANGED <<rt, at, rot, prev, refIdx, line, next, stirred>>
  BY <1>0 DEF WriteSession, Answer
<1>3. /\ new \in Minted /\ own \in Roots /\ own \in Touched(h[r]) /\ h[r].pc # "idle"
  BY <1>0, <1>1, StorerTouches DEF Storing
<1>4. Beside(own) BY <1>0, <1>1, <1>2 DEF Beside, Links
<1>5. h[r].op = "refresh" => line[h[r].tok] = own BY <1>0, <1>1 DEF ReqLine, Storing
<1>6. \A l : l # own => Far(h[r], l) /\ Far(IdleReq, l)
  BY <1>0, <1>1, <1>5 DEF Far, Storing, IdleReq
<1>7. ASSUME own \in Roots \ stirred PROVE InOrder(own)'
  <2>1. InOrder(own) BY <1>7 DEF Orderly
  <2>2. Shrinks BY <1>2 DEF Shrinks
  <2>3. Newest(new) /\ new \in rt
    BY <1>0, <1>1, <2>1 DEF InOrder, Bound, Storing
  <2>4. Chain(own)' BY <1>2, <2>1, <2>2, ShrinkChain DEF InOrder, Chain, Usable
  <2>5. Pendings(own)'
    <3>1. \A p \in Pairs : line[p] = own /\ rot[p] # None =>
            rot[p] \in Minted /\ line[rot[p]] = own /\ Newest(rot[p])
      BY <1>1, <2>1 DEF InOrder, Chain, Lined
    <3>2. \A p \in Pairs : line[p] = own /\ rot[p] # None => rot[p] \in rt
      BY <1>0, <1>3, <2>3, <3>1, OneNewest
    <3> QED BY <1>2, <3>2 DEF Pendings
  <2>6. Bound(IdleReq, own)' BY IdlePlain, PlainBound
  <2> QED BY <1>2, <1>3, <1>7, <2>2, <2>4, <2>5, <2>6, ShrinkInOrder
<1> QED BY <1>2, <1>3, <1>4, <1>6, <1>7, OthersInOrder

\* The pair stored is the newest of its line, and the only live one.
LEMMA CreateAuthOrderly ==
  ASSUME IInv, Aligned, Orderly, NEW r \in Slots, CreateAuth(r)
  PROVE  Orderly'
<1>0. PICK q, new, tok, own :
        /\ new = h[r].new /\ tok = h[r].tok /\ own = line[h[r].new]
        /\ q = IF h[r].op = "refresh" THEN [h[r] EXCEPT !.pc = "carry"]
               ELSE [h[r] EXCEPT !.pc = "write", !.id = new]
  OBVIOUS
<1>1. /\ h[r] \in ReqType /\ ReqOK(h[r]) /\ Runs(h[r]) /\ ReqLine(h[r]) /\ Store /\ Lined
      /\ SlotOK(h[r]) /\ h[r].pc = "create"
  BY Known DEF CreateAuth
<1>2. /\ h' = [h EXCEPT ![r] = q]
      /\ rt' = rt \cup {new} /\ at' = at \cup {new} /\ refIdx' = refIdx \cup {new}
      /\ UNCHANGED <<rot, prev, sid, line, next, stirred, torn>>
  BY <1>0 DEF CreateAuth
<1>3. /\ new \in Minted /\ own \in Roots /\ own \in Touched(h[r]) /\ h[r].pc # "idle"
      /\ h[r].op \in Creators
  BY <1>0, <1>1, StorerTouches DEF Storing
<1>4. Beside(own) BY <1>0, <1>2 DEF Beside
<1>5. /\ q.op = h[r].op /\ q.new = new /\ q.tok = tok
      /\ q.pc = IF q.op = "refresh" THEN "carry" ELSE "write"
      /\ q.op = "refresh" => line[tok] = own
      /\ q.op # "refresh" => own = new
      /\ new \notin issued
  BY <1>0, <1>1 DEF ReqType, ReqLine, Storing, SlotOK
<1>6. \A l : l # own => Far(h[r], l) /\ Far(q, l)
  BY <1>0, <1>1, <1>5 DEF Far, Storing
<1>7. ASSUME own \in Roots \ stirred PROVE InOrder(own)'
  <2>0. h'[r] = q /\ \A s \in Slots : s # r => h'[s] = h[s] BY <1>2, OtherSlots
  <2>1. InOrder(own) BY <1>7 DEF Orderly
  <2>2. Newest(new) BY <1>0, <1>1, <2>1 DEF InOrder, Bound, Storing
  <2>3. \A p \in Pairs : line[p] = own => p \notin rt
    <3>1. \A p \in Pairs : line[p] = own /\ p \in rt => p \in Minted /\ Newest(p) /\ p \in issued
      BY <1>1, <2>1, LinesAreRoots DEF InOrder, Chain, Store
    <3> QED BY <1>0, <1>3, <1>5, <2>2, <3>1, OneNewest
  <2>4. \A p \in Pairs : line[p] = own /\ rot[p] # None =>
          /\ rot[p] = new /\ q.op = "refresh" /\ p = tok /\ prev[new] = p
    <3>1. \A p \in Pairs : line[p] = own /\ rot[p] # None => rot[p] = new
      <4>1. \A p \in Pairs : line[p] = own /\ rot[p] # None =>
              rot[p] \in Minted /\ line[rot[p]] = own /\ Newest(rot[p])
        BY <1>1, <2>1 DEF InOrder, Chain, Lined
      <4> QED BY <1>0, <1>3, <2>2, <4>1, OneNewest
    <3>2. CASE q.op = "refresh"
      <4>1. Exchanges(h[r], own) BY <1>0, <1>5, <2>1, <3>2 DEF InOrder, Bound
      <4>2. rot[tok] = new /\ prev[new] = tok BY <1>0, <1>1, <4>1 DEF Exchanges, Storing
      <4>3. tok \in Pairs /\ line[tok] = own /\ new # None
        BY <1>0, <1>1, <1>3, <1>5, <3>2 DEF ReqOK, Minted, Pairs, None
      <4> QED BY <2>1, <3>1, <3>2, <4>2, <4>3 DEF InOrder, Chain
    <3>3. CASE q.op # "refresh"
      <4>1. \A p \in Pairs : line[p] = own /\ rot[p] # None => p \in issued
        BY <1>1 DEF Store
      <4>2. \A p \in issued : line[p] \in issued BY <1>1 DEF Lined
      <4> QED BY <1>5, <3>3, <4>1, <4>2
    <3> QED BY <3>2, <3>3
  <2>5. rot[new] = None BY <1>1, <1>3, <1>5 DEF Store, Minted
  <2>6. Newest(new)' BY <1>2, <2>2 DEF Newest, Minted
  <2>7. Chain(own)'
    <3>1. ASSUME NEW p \in Pairs, line'[p] = own
          PROVE  /\ p \in rt' => Newest(p)' /\ p \in at'
                 /\ Usable(p)' => p \in refIdx'
      <4>1. p \in rt' => p = new BY <1>2, <2>3, <3>1
      <4>2. Usable(p)' => p = new \/ Usable(p) BY <1>2, <4>1 DEF Usable
      <4>3. Usable(p) => p \in refIdx BY <1>2, <2>1, <3>1 DEF InOrder, Chain
      <4>4. p \in rt' => Newest(p)' BY <2>6, <4>1 DEF Newest
      <4> QED BY <1>2, <4>1, <4>2, <4>3, <4>4
    <3>2. ASSUME NEW p \in Pairs, line'[p] = own, rot'[p] # None
          PROVE  rot'[p] = new /\ p = tok /\ prev'[new] = p
      BY <1>2, <2>4, <3>2
    <3>3. \A p \in Pairs : line'[p] = own /\ rot'[p] # None =>
            \A u \in Minted' : line'[u] = line'[rot'[p]] => u <= rot'[p]
      BY <2>6, <3>2 DEF Newest
    <3> QED BY <3>1, <3>2, <3>3 DEF Chain, Newest, Usable
  <2>8. Pendings(own)'
    BY <1>2, <2>4 DEF Pendings
  <2>9. Bound(q, own)'
    <3>1. ASSUME q.op = "refresh" PROVE rot[q.tok] = q.new /\ prev[q.new] = q.tok
      <4>1. Exchanges(h[r], own) BY <1>0, <1>5, <2>1, <3>1 DEF InOrder, Bound
      <4> QED BY <1>0, <1>1, <1>5, <4>1 DEF Exchanges, Storing
    <3>2. new \in rt' BY <1>2
    <3> QED BY <1>2, <1>5, <2>6, <3>1, <3>2 DEF Bound, Exchanges, Exchange, Storing
  <2> QED BY <1>2, <1>3, <1>7, <2>7, <2>8, <2>9, OwnInOrder
<1> QED BY <1>2, <1>3, <1>4, <1>6, <1>7, OthersInOrder

-----------------------------------------------------------------------------
(* The steps that mint a pair.                                             *)

LEMMA FarGrows ==
  ASSUME issued \subseteq Minted, \A p \in Minted : line'[p] = line[p],
         NEW q, ReqLine(q), NEW l, Far(q, l)
  PROVE  Far(q, l)'
BY DEF Far, ReqLine, Storing, Revokes

\* A request that mints is alone on its line, with the pair it mints.
LEMMA MintsAlonePrimed ==
  ASSUME IInv, Aligned, NEW r \in Slots, NEW q, h' = [h EXCEPT ![r] = q],
         issued \subseteq Minted, \A p \in Minted : line'[p] = line[p],
         NEW l \in Roots \ stirred, l \in Touched(h[r]), h[r].op \in Creators
  PROVE  \A s \in Slots : s # r => Far(h[s], l)'
<1> SUFFICES ASSUME NEW s \in Slots, s # r PROVE Far(h[s], l)'
  OBVIOUS
<1>0. PICK u : u = h[s] OBVIOUS
<1>1. h'[s] = u BY <1>0, OtherSlots
<1>2. Far(u, l) /\ ReqLine(u) BY <1>0, MintsAlone, Known
<1>3. Far(u, l)' BY <1>2, FarGrows
<1> QED BY <1>1, <1>3

\* The lines there were, but for the one the pair is minted for.
LEMMA StillGrows ==
  ASSUME IInv, Aligned, next \in Pairs, next' = next + 1,
         NEW own \in Roots \cup {next}, line' = [line EXCEPT ![next] = own],
         NEW l \in Roots, l # own,
         \A p \in Pairs : line[p] = l =>
           /\ (p \in rt' <=> p \in rt) /\ (p \in at' <=> p \in at) /\ (p \in refIdx' <=> p \in refIdx)
           /\ rot'[p] = rot[p] /\ prev'[p] = prev[p] /\ sid'[p] = sid[p]
  PROVE  Still(l)
<1>1. TypeOK /\ Store /\ Lined BY DEF IInv, Aligned
<1>2. /\ Minted' = Minted \cup {next} /\ next \notin Minted /\ line'[next] = own
      /\ \A p \in Pairs : p # next => line'[p] = line[p]
  BY <1>1, Grows
<1>3. line[next] = None /\ l # None BY <1>1, <1>2 DEF Lined, Roots, Minted, Pairs, None
<1> QED BY <1>2, <1>3 DEF Still

\* The rotation is on record; it leads to the pair about to be stored.
LEMMA RecordOrderly == ASSUME IInv, Aligned, Orderly, NEW r \in Slots, Record(r) PROVE Orderly'
<1>0. PICK q, tok, own, new :
        /\ tok = h[r].tok /\ own = line[h[r].tok] /\ new = next
        /\ q = [h[r] EXCEPT !.pc = "create", !.new = next, !.mate = None]
  OBVIOUS
<1>1. /\ h[r] \in ReqType /\ ReqOK(h[r]) /\ Runs(h[r]) /\ ReqLine(h[r]) /\ TypeOK /\ Store /\ Lined
      /\ h[r].pc = "record" /\ h[r].op = "refresh"
  BY Known DEF Record, ReqOK
<1>2. /\ h' = [h EXCEPT ![r] = q] /\ next' = next + 1
      /\ rot' = [rot EXCEPT ![tok] = next] /\ prev' = [prev EXCEPT ![next] = tok]
      /\ line' = [line EXCEPT ![next] = own]
      /\ UNCHANGED <<rt, at, sid, refIdx, stirred, torn>>
  BY <1>0 DEF Record
<1>3. /\ tok \in Minted /\ own \in Roots /\ own \in Touched(h[r]) /\ h[r].op \in Creators
      /\ tok \in issued /\ issued \subseteq Minted
  BY <1>0, <1>1, RefreshTouches, LinesAreRoots
<1>4. next \in Pairs BY <1>1, SessionsAssumption DEF Record, TypeOK, Pairs
<1>5. /\ Minted' = Minted \cup {next} /\ next \notin Minted
      /\ line'[next] = own /\ Roots' = Roots
      /\ \A p \in Minted : line'[p] = line[p]
      /\ \A p \in Pairs : p # next => line'[p] = line[p]
  <2>1. own # next BY <1>3, <1>4 DEF Roots, Minted, Pairs
  <2> QED BY <1>1, <1>2, <1>3, <1>4, <2>1, Grows
<1>6. q.op = "refresh" /\ q.pc = "create" /\ q.new = new /\ q.tok = tok
  BY <1>0, <1>1 DEF ReqType
<1>7. ASSUME NEW l \in Roots \ stirred, l # own PROVE InOrder(l)'
  <2>1. \A p \in Pairs : line[p] = l => p # tok /\ p # next
    <3>1. line[next] = None BY <1>1, <1>4, <1>5 DEF Lined
    <3> QED BY <1>0, <1>7, <3>1 DEF Roots, Minted, Pairs, None
  <2>2. Still(l) BY <1>1, <1>2, <1>3, <1>4, <1>7, <2>1, StillGrows DEF TypeOK, Links
  <2>3. Far(h[r], l) BY <1>0, <1>1, <1>7 DEF Far, Storing
  <2>4. Far(q, l)' BY <1>0, <1>3, <1>5, <1>6, <1>7 DEF Far, Storing
  <2>5. InOrder(l) BY <1>7 DEF Orderly
  <2> QED BY <1>2, <2>2, <2>3, <2>4, <2>5, StillInOrder
<1>8. ASSUME own \in Roots \ stirred PROVE InOrder(own)'
  <2>1. InOrder(own) BY <1>8 DEF Orderly
  <2>2. Silent(own) /\ Settled(own) /\ tok \in refIdx
    <3>1. Exchanges(h[r], own) BY <1>0, <1>1, <2>1 DEF InOrder, Bound
    <3> QED BY <1>0, <1>1, <3>1 DEF Exchanges, Exchange
  <2>3. /\ \A p \in Pairs : line'[p] = own => line[p] = own \/ p = new
        /\ new \notin rt /\ rot[new] = None /\ tok # new /\ new \in Pairs
    BY <1>0, <1>1, <1>3, <1>4, <1>5 DEF Store
  <2>4. /\ rot'[tok] = new /\ prev'[new] = tok
        /\ \A p \in Pairs : p # tok => rot'[p] = rot[p]
    BY <1>0, <1>1, <1>2, <1>3, <1>4 DEF TypeOK, Links, Minted
  <2>5. \A p \in Pairs : line'[p] = own => p \notin rt /\ (rot'[p] # None => p = tok)
    BY <2>2, <2>3, <2>4 DEF Silent, Settled
  <2>6. Newest(new)'
    <3>1. \A u \in Minted' : u <= new BY <1>0, <1>4, <1>5 DEF Minted, Pairs
    <3> QED BY <3>1 DEF Newest
  <2>7. Chain(own)'
    <3>1. \A p \in Pairs : line'[p] = own =>
            \A u \in Minted' : rot'[p] # None /\ line'[u] = line'[rot'[p]] => u <= rot'[p]
      BY <2>4, <2>5, <2>6 DEF Newest
    <3> QED BY <1>2, <2>2, <2>4, <2>5, <3>1 DEF Chain, Newest, Usable
  <2>8. Pendings(own)'
    <3>1. h'[r] = q BY <1>2, OtherSlots
    <3>2. Dropping(tok)' BY <1>6, <2>4, <3>1 DEF Dropping
    <3> QED BY <2>5, <3>2 DEF Pendings
  <2>9. Bound(q, own)'
    BY <1>6, <2>4, <2>6 DEF Bound, Exchanges, Exchange, Storing
  <2>10. \A s \in Slots : s # r => Far(h[s], own)'
    BY <1>2, <1>3, <1>5, <1>8, MintsAlonePrimed
  <2> QED BY <1>2, <2>7, <2>8, <2>9, <2>10, AloneInOrder
<1> QED BY <1>2, <1>5, <1>7, <1>8 DEF Orderly

\* No request works on a line of which it takes no snapshot before the line is.
LEMMA NewFar ==
  ASSUME Lined, issued \subseteq Minted, \A p \in Minted : line'[p] = line[p],
         NEW l, l \notin Minted,
         NEW q, ReqLine(q), q.pc \notin {"devices", "wipe"}
  PROVE  Far(q, l)'
<1>1. \A p \in Minted : line'[p] # l BY DEF Lined, Roots
<1> QED BY <1>1 DEF Far, ReqLine, Storing, Revokes

\* A line just opened: nothing is stored of it yet, and its one pair is the newest.
LEMMA OpenedInOrder ==
  ASSUME IInv, Aligned, NEW new \in Pairs, new = next, next' = next + 1,
         line' = [line EXCEPT ![next] = next],
         rt' \subseteq rt, \A p \in Pairs : rot'[p] \in {rot[p], None},
         NEW r \in Slots, NEW q, h' = [h EXCEPT ![r] = q],
         q.pc = "create" /\ q.op # "refresh" /\ q.new = new,
         \A s \in Slots : s # r => Far(h[s], new)'
  PROVE  InOrder(new)'
<1>1. TypeOK /\ Store /\ Lined BY DEF IInv, Aligned
<1>2. /\ Minted' = Minted \cup {new} /\ new \notin Minted /\ line'[new] = new
      /\ issued \subseteq Minted
      /\ \A p \in Pairs : p # new => line'[p] = line[p]
  BY <1>1, Grows
<1>3. new \notin rt' /\ rot'[new] = None BY <1>1, <1>2 DEF Store
<1>4. \A p \in Pairs : line'[p] = new => p = new
  BY <1>1, <1>2 DEF Lined, Roots, Pairs, None
<1>5. Chain(new)' BY <1>3, <1>4 DEF Chain, Usable
<1>6. Pendings(new)' BY <1>3, <1>4 DEF Pendings
<1>7. Newest(new)'
  <2>1. \A u \in Minted' : u <= new BY <1>2 DEF Minted, Pairs
  <2> QED BY <2>1 DEF Newest
<1>8. Bound(q, new)' BY <1>7 DEF Bound, Storing
<1> QED BY <1>5, <1>6, <1>8, AloneInOrder

LEMMA LoginOrderly ==
  ASSUME IInv, Aligned, Orderly, NEW r \in Slots, NEW c \in Clients, Login(r, c)
  PROVE  Orderly'
<1>1. PICK q, new : /\ q = [Req("login", c, "create", None) EXCEPT !.new = next]
                    /\ new = next
  OBVIOUS
<1>2. q.op = "login" /\ q.cl = c /\ q.pc = "create" /\ q.new = new
  BY <1>1 DEF Req, IdleReq
<1>3. /\ Arrive(r, q) /\ h' = [h EXCEPT ![r] = q] /\ h[r].pc = "idle" /\ Spare
      /\ UNCHANGED <<rt, at, rot, prev, sid, refIdx, torn>>
      /\ next' = next + 1 /\ line' = [line EXCEPT ![next] = next]
      /\ stirred' = stirred \cup Overlap(q, InFlight)
  BY <1>1, <1>2 DEF Login, Arrive, redis, Creators
<1>4. TypeOK /\ Store /\ Lined BY DEF IInv, Aligned
<1>5. next \in Pairs BY <1>3, <1>4, SpareLeavesOne
<1>6. /\ Minted' = Minted \cup {next} /\ next \notin Minted /\ issued \subseteq Minted
      /\ line'[next] = next /\ \A p \in Minted : line'[p] = line[p]
      /\ Roots' = Roots \cup {next}
  BY <1>3, <1>4, <1>5, Grows
<1>7. ASSUME NEW l \in Roots \ stirred PROVE InOrder(l)'
  <2>1. l # next BY <1>6, <1>7 DEF Roots
  <2>2. Still(l) BY <1>3, <1>5, <1>7, <2>1, StillGrows
  <2>3. Far(h[r], l) BY <1>3, <1>7, FarUnlessTouched
  <2>4. Far(q, l)' BY <1>1, <1>2, <1>6, <2>1 DEF Far, Storing
  <2>5. InOrder(l) BY <1>7 DEF Orderly
  <2> QED BY <1>3, <2>2, <2>3, <2>4, <2>5, StillInOrder
<1>8. ASSUME new \notin stirred' PROVE InOrder(new)'
  <2>1. ASSUME NEW s \in Slots, s # r PROVE Far(h[s], new)'
    <3>0. PICK u : u = h[s] OBVIOUS
    <3>1. u.pc \notin {"devices", "wipe"}
      <4> SUFFICES ASSUME u.pc \in {"devices", "wipe"} PROVE FALSE
        OBVIOUS
      <4>1. u.op \in {"password", "delete"} BY <3>0, Known DEF Runs
      <4>2. new \in Touched(u) \cap Touched(q) BY <1>1, <1>2, <1>5, <4>1 DEF Touched
      <4>3. s \in InFlight /\ q.op \in Creators /\ next \in 1..next
        BY <1>2, <1>5, <3>0 DEF InFlight, Creators, Pairs
      <4>4. new \in Overlap(q, InFlight) BY <1>1, <1>5, <3>0, <4>2, <4>3 DEF Overlap
      <4> QED BY <1>3, <1>8, <4>4
    <3>2. ReqLine(u) BY <3>0, Known
    <3>3. Far(u, new)' BY <1>1, <1>4, <1>6, <3>1, <3>2, NewFar
    <3>4. h'[s] = u BY <1>3, <2>1, <3>0, OtherSlots
    <3> QED BY <3>3, <3>4
  <2> QED BY <1>1, <1>2, <1>3, <1>5, <2>1, OpenedInOrder
<1> QED BY <1>1, <1>3, <1>6, <1>7, <1>8 DEF Orderly

\* Every usable pair was in the snapshot, so the lines there were end.
LEMMA RevokeAllSessionsOrderly ==
  ASSUME IInv, Aligned, Orderly, NEW r \in Slots, RevokeAllSessions(r)
  PROVE  Orderly'
<1>0. PICK refs : refs = h[r].refs OBVIOUS
<1>1. /\ h[r] \in ReqType /\ ReqOK(h[r]) /\ Runs(h[r]) /\ ReqLine(h[r])
      /\ TypeOK /\ Store /\ Lined /\ h[r].pc = "wipe" /\ h[r].op \in {"password", "delete"}
  BY Known DEF RevokeAllSessions, Runs
<1>2. /\ rt' = rt \ refs /\ rot' = [p \in Pairs |-> IF p \in refs THEN None ELSE rot[p]]
      /\ torn' = torn
  BY <1>0 DEF RevokeAllSessions, Wiped
<1>3. ASSUME NEW l \in Roots \ stirred
      PROVE  \A p \in Pairs : line[p] = l => p \notin rt' /\ rot'[p] = None
  <2>1. Bound(h[r], l) BY <1>3 DEF Orderly, InOrder
  <2>2. \A p \in Pairs : line[p] = l /\ Usable(p) => p \in refs
    BY <1>0, <1>1, <2>1 DEF Bound
  <2> QED BY <1>2, <2>2 DEF Usable
<1>4. \A l \in Roots : l \in Touched(h[r])
  BY <1>1 DEF Touched, Roots, Minted
<1>5. CASE h[r].op = "password"
  <2>0. PICK q, new : q = [h[r] EXCEPT !.pc = "create", !.new = next] /\ new = next OBVIOUS
  <2>1. /\ h' = [h EXCEPT ![r] = q] /\ next' = next + 1 /\ line' = [line EXCEPT ![next] = next]
        /\ stirred' = stirred \cup (IF InFlight \ {r} # {} THEN {next} ELSE {})
    BY <1>5, <2>0 DEF RevokeAllSessions
  <2>2. next \in Pairs BY <1>1, <1>5, SessionsAssumption DEF RevokeAllSessions, TypeOK, Pairs
  <2>3. /\ Minted' = Minted \cup {next} /\ next \notin Minted /\ issued \subseteq Minted
        /\ line'[next] = next /\ Roots' = Roots \cup {next}
        /\ \A p \in Minted : line'[p] = line[p]
        /\ \A p \in Pairs : p # next => line'[p] = line[p]
    BY <1>1, <2>1, <2>2, Grows
  <2>4. q.pc = "create" /\ q.op = "password" /\ q.new = new
    BY <1>1, <1>5, <2>0 DEF ReqType
  <2>5. ASSUME NEW l \in Roots \ stirred PROVE InOrder(l)'
    <3>1. l # next BY <2>3, <2>5 DEF Roots
    <3>2. \A p \in Pairs : line'[p] = l => p \notin rt' /\ rot'[p] = None
      BY <1>3, <2>3, <2>5, <3>1
    <3>3. Chain(l)' BY <3>2 DEF Chain, Usable
    <3>4. Pendings(l)' BY <3>2 DEF Pendings
    <3>5. Bound(q, l)' BY <2>0, <2>3, <2>4, <3>1 DEF Bound, Storing
    <3>6. h[r].op \in Creators BY <1>5 DEF Creators
    <3>7. \A s \in Slots : s # r => Far(h[s], l)'
      BY <1>4, <2>1, <2>3, <2>5, <3>6, MintsAlonePrimed
    <3> QED BY <2>1, <3>3, <3>4, <3>5, <3>7, AloneInOrder
  <2>6. ASSUME new \notin stirred' PROVE InOrder(new)'
    <3>1. ASSUME NEW s \in Slots, s # r PROVE Far(h[s], new)'
      <4>0. PICK u : u = h[s] OBVIOUS
      <4>1. u.pc = "idle" BY <2>0, <2>1, <2>6, <3>1, <4>0 DEF InFlight
      <4>2. ReqLine(u) BY <4>0, Known
      <4>3. Far(u, new)' BY <1>1, <2>0, <2>3, <4>1, <4>2, NewFar
      <4>4. h'[s] = u BY <2>1, <3>1, <4>0, OtherSlots
      <4> QED BY <4>3, <4>4
    <3>2. \A p \in Pairs : rot'[p] \in {rot[p], None} BY <1>2
    <3> QED BY <1>2, <2>0, <2>1, <2>2, <2>4, <3>1, <3>2, OpenedInOrder
  <2>7. stirred \subseteq stirred' BY <2>1
  <2> QED BY <2>0, <2>3, <2>5, <2>6, <2>7 DEF Orderly
<1>6. CASE h[r].op # "password"
  <2>0. PICK q : q = [h[r] EXCEPT !.pc = "erase"] OBVIOUS
  <2>1. h' = [h EXCEPT ![r] = q] /\ UNCHANGED <<next, line, stirred>>
    BY <1>6, <2>0 DEF RevokeAllSessions
  <2>2. Roots' = Roots BY <2>1 DEF Roots, Minted
  <2>3. Plain(q) BY <1>1, <1>6, <2>0 DEF ReqType, Plain, Storing
  <2>4. Shrinks BY <1>2, <2>1 DEF Shrinks
  <2>5. ASSUME NEW l \in Roots \ stirred PROVE InOrder(l)'
    <3>1. \A p \in Pairs : line'[p] = l => p \notin rt' /\ rot'[p] = None
      BY <1>3, <2>1, <2>5
    <3>2. Chain(l)' BY <3>1 DEF Chain, Usable
    <3>3. Pendings(l)' BY <3>1 DEF Pendings
    <3>4. Bound(q, l)' BY <2>3, PlainBound
    <3> QED BY <1>1, <1>4, <2>1, <2>4, <2>5, <3>2, <3>3, <3>4, ShrinkInOrder
  <2> QED BY <2>1, <2>2, <2>5 DEF Orderly
<1> QED BY <1>5, <1>6

LEMMA OrderlyStep ==
  ASSUME IInv, Aligned, Orderly, NEW r \in Slots, Step(r)
  PROVE  Orderly'
<1>1. CASE RotationStep(r)
  BY <1>1, PlainlyOrderly, LookPlain, ClaimOrderly, ReplayOrderly, UnlinkOrderly, RecordOrderly
  DEF RotationStep
<1>2. CASE CreationStep(r)
  BY <1>2, CreateAuthOrderly, CarrySessionOrderly, WriteSessionOrderly DEF CreationStep
<1>3. CASE RevocationStep(r)
  BY <1>3, PlainlyOrderly, GetPairOrderly, DelPairOrderly, DropLinkOrderly,
     DropPredecessorOrderly, EndSessionPlain, WhoPlain, ValPlain DEF RevocationStep
<1>4. CASE ListStep(r)
  BY <1>4, PlainlyOrderly, IdsPlain, VisitPlain, ExistsPlain, ForgetPlain, CurrentPlain,
     PickPlain, OthersDonePlain DEF ListStep
<1>5. CASE WipeStep(r)
  BY <1>5, PlainlyOrderly, MembersOrderly, DevicesOrderly, RevokeAllSessionsOrderly, ErasePlain
  DEF WipeStep
<1> QED BY <1>1, <1>2, <1>3, <1>4, <1>5 DEF Step

LEMMA OrderlyNext == IInv /\ Aligned /\ Orderly /\ [Next]_vars => Orderly'
<1> SUFFICES ASSUME IInv, Aligned, Orderly, [Next]_vars PROVE Orderly'
  OBVIOUS
<1>1. CASE UNCHANGED vars
  <2>1. UNCHANGED <<rt, at, rot, prev, refIdx, line, next, stirred, torn, h>>
    BY <1>1 DEF vars, redis, notes
  <2>2. Roots' = Roots /\ Minted' = Minted BY <2>1 DEF Roots, Minted
  <2>3. ASSUME NEW l, InOrder(l) PROVE InOrder(l)'
    <3>1. Chain(l)' BY <2>1, <2>2, <2>3 DEF InOrder, Chain, Newest, Usable
    <3>2. Pendings(l)' BY <2>1, <2>3 DEF InOrder, Pendings, Dropping
    <3>3. \A s \in Slots : Bound(h[s], l)'
      BY <2>1, <2>2, <2>3
      DEF InOrder, Bound, Exchanges, Newest, Silent, Settled, Usable
    <3> QED BY <3>1, <3>2, <3>3 DEF InOrder
  <2> QED BY <2>1, <2>2, <2>3 DEF Orderly
<1>2. ASSUME NEW r \in Slots, Step(r) PROVE Orderly' BY <1>2, OrderlyStep
<1>3. ASSUME NEW r \in Slots, Abandon(r) PROVE Orderly' BY <1>3, AbandonOrderly
<1>4. ASSUME NEW r \in Slots, Fail(r) PROVE Orderly' BY <1>4, FailOrderly
<1>5. ASSUME NEW r \in Slots, NEW c \in Clients, Arrival(r, c) PROVE Orderly'
  BY <1>5, LoginOrderly, ArrivalPlain, PlainlyOrderly DEF Arrival
<1> QED BY <1>1, <1>2, <1>3, <1>4, <1>5 DEF Next

LEMMA OrderlyInit == Init => Orderly
BY DEF Init, Orderly, Roots, Minted, Pairs

LEMMA OrderlyAlways == Spec => [](IInv /\ Aligned /\ Orderly)
<1>1. Init => IInv /\ Aligned /\ Orderly BY InvInit, AlignedInit, OrderlyInit
<1>2. IInv /\ Aligned /\ Orderly /\ [Next]_vars => (IInv /\ Aligned /\ Orderly)'
  BY InvNext, AlignedNext, OrderlyNext
<1> QED BY <1>1, <1>2, PTL DEF Spec

\* Between requests, a line that no two requests stirred and no failure left
\* half written has one live pair at most, and a rotation still pending leads
\* to that pair and back.
THEOREM PendingsLead == Spec => []PendingLeadsToLive
<1>1. ASSUME IInv, Aligned, Orderly PROVE PendingLeadsToLive
  <2>1. issued \subseteq Minted /\ Store /\ Lined BY <1>1, LinesAreRoots DEF IInv, Aligned
  <2>2. \A p \in issued : line[p] \in Roots BY <2>1 DEF Lined
  <2>3. ASSUME NEW p \in rt, NEW q \in rt, line[p] = line[q], line[p] \notin stirred
        PROVE  p = q
    <3>1. /\ p \in issued /\ q \in issued /\ p \in Minted /\ q \in Minted
      BY <2>1 DEF Store
    <3>2. InOrder(line[p]) BY <1>1, <2>2, <2>3, <3>1 DEF Orderly
    <3>3. Newest(p) /\ Newest(q) BY <2>3, <3>1, <3>2 DEF InOrder, Chain, Minted
    <3> QED BY <2>3, <3>1, <3>3, OneNewest
  <2>4. ASSUME NEW p \in Pairs, rot[p] # None, ~Busy(line[p]), line[p] \notin stirred \cup torn
        PROVE  rot[p] \in rt /\ prev[rot[p]] = p
    <3>1. p \in issued /\ p \in Minted BY <2>1, <2>4 DEF Store
    <3>2. InOrder(line[p]) BY <1>1, <2>2, <2>4, <3>1 DEF Orderly
    <3>3. line[rot[p]] = line[p] BY <2>1, <2>4 DEF Lined
    <3>4. ~Dropping(p)
      <4> SUFFICES ASSUME NEW s \in Slots,
                          \/ h[s].pc = "create" /\ h[s].new = rot[p]
                          \/ h[s].pc \in {"drop", "settle"} /\ h[s].mate = rot[p]
                   PROVE  FALSE
        BY DEF Dropping
      <4>1. line[p] \in Touched(h[s]) /\ h[s].pc # "idle"
        BY <1>1, <3>3, StorerTouches, MateTouches DEF Storing
      <4> QED BY <2>4, <4>1 DEF Busy, InFlight
    <3>5. rot[p] \in rt BY <2>4, <3>2, <3>4 DEF InOrder, Pendings
    <3> QED BY <2>4, <3>2, <3>5 DEF InOrder, Chain
  <2> QED BY <2>3, <2>4 DEF PendingLeadsToLive
<1> QED BY <1>1, OrderlyAlways, PTL

-----------------------------------------------------------------------------
(* What the list shows and what is signed out.  On a line nothing stirred  *)
(* the live pair is the one the list shows, but while it is being stored   *)
(* or after a failure; a request that signs devices out has every live     *)
(* line before it, and leaves those behind it without a live pair.         *)

StoringOn(l) == \E r \in Slots : h[r].pc \in Storing /\ line[h[r].new] = l
Only(l, m)   == \A p \in Pairs : line[p] = l /\ p \in rt => p = m

Listed(l) ==
  l \notin torn /\ ~StoringOn(l) =>
    \A p \in Pairs : line[p] = l /\ p \in rt => dev[l] = p /\ l \in devs

Carried(l) ==
  \A c \in Clients : hold[c] # None /\ line[hold[c]] = l /\ Usable(hold[c]) => sid[hold[c]] = l

Gone(l) == l \in out \ torn => Silent(l) /\ ~StoringOn(l) /\ ~ClaimingOn(l)

\* A refresh carries the device session of its line to the pair it stores.
Carries(q, l) ==
  /\ q.op = "refresh" /\ line[q.tok] = l /\ (Usable(q.tok) \/ q.pc \in Exchange \cup Storing)
       => sid[q.tok] = l
  /\ q.pc = "write" /\ line[q.new] = l => q.id = l

\* What a request that signs out has done to line l so far.
Ends(q, l) ==
  /\ q.op = "logout" /\ q.id = l => line[q.tok] = l
  /\ q.op = "logout" /\ line[q.tok] = l =>
       /\ q.pc \in {"get", "del"} => Only(l, q.tok)
       /\ q.pc \in {"drop", "settle", "end"} => Silent(l)
  /\ q.op \in {"list", "revoke", "others"} /\ q.id = l /\ l \notin torn =>
       /\ q.pc \in {"get", "del", "exists"} => Only(l, q.mate)
       /\ q.pc \in {"drop", "settle", "end", "forget"} => Silent(l)
  /\ q.op = "others" /\ l \notin torn /\ ~Silent(l) =>
       /\ q.pc \in {"visit", "exists", "forget"} => l \in q.ids \cup q.kept
       /\ q.pc = "current" => l \in q.kept
       /\ q.pc \in Revokes \cup {"pick", "end"} => l \in q.kept \cup {q.cur}

Shown(l) ==
  /\ Listed(l) /\ Carried(l) /\ Gone(l)
  /\ \A s \in Slots : Carries(h[s], l) /\ Ends(h[s], l)
Tidy == \A l \in Roots \ stirred : Shown(l)

-----------------------------------------------------------------------------
(* A step that only takes away from a line.                                *)

\* q stores a pair on line l, or has claimed one of it.
At(q, l) ==
  \/ q.pc \in Storing /\ line[q.new] = l
  \/ Claiming(q) /\ line[q.tok] = l

LEMMA AtLine ==
  /\ \A l : StoringOn(l) \/ ClaimingOn(l) <=> \E s \in Slots : At(h[s], l)
  /\ \A q, l : Far(q, l) => ~At(q, l)
BY DEF StoringOn, ClaimingOn, At, Far, Claiming

\* r works on line l.
On(r, l) == l \in Touched(h[r]) /\ h[r].pc # "idle"

\* The step of r that leaves it as q takes pairs of line l, their links and what
\* the list shows of it away, if anything.
Takes(r, q, l) ==
  /\ \A p \in Pairs : line'[p] = l <=> line[p] = l
  /\ \A p \in Pairs : line[p] = l =>
       /\ p \in rt' => p \in rt
       /\ Usable(p)' => Usable(p) /\ sid'[p] = sid[p]
  /\ (\A p \in Pairs : line[p] = l => sid'[p] = sid[p]) \/ On(r, l)
  /\ (dev'[l] = dev[l] /\ (l \in devs => l \in devs')) \/ Silent(l)' \/ l \in torn'
  /\ l \in torn => l \in torn'
  /\ l \in out' \ torn' => \/ l \in out /\ (At(q, l)' => At(h[r], l))
                           \/ Silent(l)' /\ ~At(q, l)' /\ On(r, l)
  /\ \A c \in Clients : hold'[c] \in {hold[c], None} \/ line'[hold'[c]] # l
  /\ h[r].pc \in Storing /\ line[h[r].new] = l =>
       (q.pc \in Storing /\ q.new = h[r].new) \/ l \in torn' \/ Silent(l)'
  /\ Carries(q, l)' /\ Ends(q, l)'

LEMMA TakesEnds ==
  ASSUME NEW l, NEW q, Ends(q, l), ReqOK(q),
         \A p \in Pairs : line'[p] = l <=> line[p] = l,
         \A p \in Pairs : line[p] = l => (p \in rt' => p \in rt),
         l \in torn => l \in torn'
  PROVE  Ends(q, l)'
<1>1. /\ Silent(l) => Silent(l)'
      /\ \A m : Only(l, m) => Only(l, m)'
  BY DEF Silent, Only
<1>2. q.op = "logout" => q.tok \in Pairs BY DEF ReqOK
<1> QED BY <1>1, <1>2 DEF Ends

LEMMA TakesCarries ==
  ASSUME NEW l, NEW q, Carries(q, l), ReqOK(q),
         \A p \in Pairs : line'[p] = l <=> line[p] = l,
         \A p \in Pairs : line[p] = l => sid'[p] = sid[p] /\ (Usable(p)' => Usable(p))
  PROVE  Carries(q, l)'
<1>1. /\ q.op = "refresh" => q.tok \in Pairs
      /\ q.pc = "write" => q.new \in Pairs
  BY DEF ReqOK
<1> QED BY <1>1 DEF Carries, Usable

LEMMA TakesShown ==
  ASSUME IInv, Aligned, NEW r \in Slots, NEW q, h' = [h EXCEPT ![r] = q],
         NEW l \in Roots \ stirred, Shown(l), Takes(r, q, l)
  PROVE  Shown(l)'
<1>1. h'[r] = q /\ \A s \in Slots : s # r => h'[s] = h[s] BY OtherSlots
<1>2. /\ \A p \in Pairs : line'[p] = l <=> line[p] = l
      /\ \A p \in Pairs : line[p] = l => (p \in rt' => p \in rt) /\ (Usable(p)' => Usable(p))
      /\ l \in torn => l \in torn'
  BY DEF Takes
<1>3. \A s \in Slots : ReqOK(h[s]) /\ ReqLine(h[s]) BY Known
<1>4. On(r, l) => \A s \in Slots : s # r /\ h[s].op \in Creators => Far(h[s], l)
  BY NoneMints DEF On
<1>5. \A s \in Slots : At(h[s], l) => h[s].op \in Creators /\ ~Far(h[s], l)
  BY Known DEF At, Claiming, Creators, Far, Runs
<1>6. \A s \in Slots : s # r => (At(h[s], l)' <=> At(h[s], l))
  <2>1. ASSUME NEW s \in Slots, s # r PROVE At(h[s], l)' <=> At(h[s], l)
    <3>0. PICK u : u = h[s] OBVIOUS
    <3>1. /\ u.pc \in Storing => u.new \in Pairs
          /\ Claiming(u) => u.tok \in Pairs
      BY <1>3, <3>0 DEF ReqOK, Storing, Claiming
    <3>2. At(u, l)' <=> At(u, l) BY <1>2, <3>1 DEF At, Claiming
    <3>3. h'[s] = u BY <1>1, <2>1, <3>0
    <3> QED BY <3>0, <3>2, <3>3
  <2> QED BY <2>1
<1>7. Listed(l)'
  <2> SUFFICES ASSUME l \notin torn', ~StoringOn(l)', NEW p \in Pairs, line'[p] = l, p \in rt'
               PROVE  dev'[l] = p /\ l \in devs'
    BY DEF Listed
  <2>1. ~Silent(l)' BY DEF Silent
  <2>2. ~StoringOn(l)
    <3> SUFFICES ASSUME NEW s \in Slots, h[s].pc \in Storing, line[h[s].new] = l PROVE FALSE
      BY DEF StoringOn
    <3>1. h[s].new \in Pairs BY <1>3 DEF ReqOK, Storing
    <3>2. CASE s = r BY <1>1, <1>2, <2>1, <3>1, <3>2 DEF Takes, StoringOn
    <3>3. CASE s # r BY <1>1, <1>2, <3>1, <3>3 DEF StoringOn
    <3> QED BY <3>2, <3>3
  <2>3. dev[l] = p /\ l \in devs BY <1>2, <2>2 DEF Shown, Listed
  <2> QED BY <2>1, <2>3 DEF Takes
<1>8. Carried(l)'
  <2> SUFFICES ASSUME NEW c \in Clients, hold'[c] # None, line'[hold'[c]] = l,
                      NEW p, p = hold'[c], Usable(p)'
               PROVE  sid'[p] = l
    BY DEF Carried, Usable
  <2>1. p = hold[c] /\ p \in Pairs BY HeldIssued, LinesAreRoots DEF Takes, Minted
  <2>2. line[p] = l /\ Usable(p) /\ sid'[p] = sid[p] BY <2>1 DEF Takes
  <2> QED BY <2>1, <2>2 DEF Shown, Carried
<1>9. Gone(l)'
  <2> SUFFICES ASSUME l \in out' \ torn' PROVE Silent(l)' /\ ~StoringOn(l)' /\ ~ClaimingOn(l)'
    BY DEF Gone
  <2>1. Silent(l)' /\ \A s \in Slots : ~At(h[s], l)'
    <3>1. CASE l \in out /\ (At(q, l)' => At(h[r], l))
      <4>1. Silent(l) /\ \A s \in Slots : ~At(h[s], l) BY <1>2, <3>1, AtLine DEF Shown, Gone
      <4>2. Silent(l)' BY <1>2, <4>1 DEF Silent
      <4>3. ~At(h[r], l)'
        <5>1. ~At(q, l)' BY <3>1, <4>1
        <5> QED BY <1>1, <5>1
      <4> QED BY <1>6, <4>1, <4>2, <4>3
    <3>2. CASE Silent(l)' /\ ~At(q, l)' /\ On(r, l)
      <4>1. \A s \in Slots : s # r => ~At(h[s], l) BY <1>4, <1>5, <3>2
      <4>2. ~At(h[r], l)' BY <1>1, <3>2
      <4> QED BY <1>6, <3>2, <4>1, <4>2
    <3> QED BY <3>1, <3>2 DEF Takes
  <2>2. ~StoringOn(l)' /\ ~ClaimingOn(l)' BY <2>1 DEF StoringOn, ClaimingOn, At
  <2> QED BY <2>1, <2>2
<1>10. ASSUME NEW s \in Slots PROVE Carries(h[s], l)' /\ Ends(h[s], l)'
  <2>1. CASE s = r
    <3>1. Carries(q, l)' /\ Ends(q, l)' BY DEF Takes
    <3> QED BY <1>1, <2>1, <3>1
  <2>2. CASE s # r
    <3>0. PICK u : u = h[s] OBVIOUS
    <3>1. ReqOK(u) /\ Carries(u, l) /\ Ends(u, l) BY <1>3, <3>0 DEF Shown
    <3>2. Ends(u, l)' BY <1>2, <3>1, TakesEnds
    <3>3. Carries(u, l)'
      <4>1. CASE \A p \in Pairs : line[p] = l => sid'[p] = sid[p]
        BY <1>2, <3>1, <4>1, TakesCarries
      <4>2. CASE On(r, l) /\ u.op \in Creators
        <5>1. Far(u, l) BY <1>4, <2>2, <3>0, <4>2
        <5>2. u.op = "refresh" => u.tok \in Pairs BY <3>1 DEF ReqOK
        <5>3. u.pc = "write" => u.new \in Pairs BY <3>1 DEF ReqOK
        <5> QED BY <1>2, <5>1, <5>2, <5>3 DEF Far, Carries, Storing
      <4>3. CASE u.op \notin Creators
        <5>1. u.op # "refresh" /\ u.pc # "write"
          BY <3>0, <4>3, Known DEF Creators, Runs, Storing
        <5> QED BY <5>1 DEF Carries
      <4> QED BY <4>1, <4>2, <4>3 DEF Takes
    <3>4. h'[s] = u BY <1>1, <2>2, <3>0
    <3> QED BY <3>2, <3>3, <3>4
  <2> QED BY <2>1, <2>2
<1> QED BY <1>7, <1>8, <1>9, <1>10 DEF Shown

LEMMA TakesTidy ==
  ASSUME IInv, Aligned, Tidy, NEW r \in Slots, NEW q, h' = [h EXCEPT ![r] = q],
         UNCHANGED <<line, next>>, stirred \subseteq stirred',
         \A l \in Roots \ stirred : Takes(r, q, l)
  PROVE  Tidy'
<1>1. Roots' = Roots BY DEF Roots, Minted
<1>2. \A l \in Roots \ stirred : Shown(l)' BY TakesShown DEF Tidy
<1> QED BY <1>1, <1>2 DEF Tidy

-----------------------------------------------------------------------------
(* The steps that leave the pairs, their links and the list alone.         *)

Leaves(r, q) ==
  /\ h' = [h EXCEPT ![r] = q]
  /\ UNCHANGED <<rt, rot, sid, dev, devs, line, next, out, torn>>
  /\ stirred \subseteq stirred'
  /\ \A c \in Clients : hold'[c] \in {hold[c], None}
  /\ h[r].pc \in Storing => q.pc \in Storing /\ q.new = h[r].new
  /\ \A l : At(q, l) => At(h[r], l)

LEMMA LeavesTidy ==
  ASSUME IInv, Aligned, Tidy, NEW r \in Slots, NEW q, Leaves(r, q),
         \A l \in Roots \ stirred : Carries(q, l) /\ Ends(q, l)
  PROVE  Tidy'
<1>1. ASSUME NEW l \in Roots \ stirred PROVE Takes(r, q, l)
  <2>1. /\ Carries(q, l)' /\ Ends(q, l)' /\ (At(q, l)' => At(h[r], l))
        /\ \A p : Usable(p)' <=> Usable(p)
    BY <1>1 DEF Leaves, Carries, Ends, At, Usable, Silent, Only
  <2> QED BY <2>1 DEF Leaves, Takes
<1> QED BY <1>1, TakesTidy DEF Leaves

LEMMA NothingToEnd ==
  ASSUME NEW q, q.op \notin {"logout", "list", "revoke", "others"} PROVE \A l : Ends(q, l)
BY DEF Ends

LEMMA NothingCarried ==
  ASSUME NEW q, q.op # "refresh", q.pc # "write" PROVE \A l : Carries(q, l)
BY DEF Carries

LEMMA NotAt ==
  ASSUME NEW q, q.op # "refresh", q.pc \notin Storing PROVE \A l : ~At(q, l)
BY DEF At, Claiming

LEMMA IdleEnds == \A l : Ends(IdleReq, l) /\ Carries(IdleReq, l) /\ ~At(IdleReq, l)
BY NothingToEnd, NothingCarried, NotAt DEF IdleReq, Storing

\* Where a request that stores nothing works, the list shows the live pair.
LEMMA ListShowsIt ==
  ASSUME IInv, Aligned, NEW r \in Slots, NEW l \in Roots \ stirred, Shown(l), On(r, l),
         h[r].pc \notin Storing, l \notin torn
  PROVE  /\ \A p \in Pairs : line[p] = l /\ p \in rt => dev[l] = p /\ l \in devs
         /\ dev[l] = None \/ l \notin devs => Silent(l)
         /\ Only(l, dev[l])
<1>1. ~StoringOn(l)
  <2> SUFFICES ASSUME NEW s \in Slots, h[s].pc \in Storing, line[h[s].new] = l PROVE FALSE
    BY DEF StoringOn
  <2>1. s # r /\ h[s].op \in Creators /\ ~Far(h[s], l) BY Known DEF Runs, Far
  <2> QED BY <2>1, NoneMints DEF On
<1>2. \A p \in Pairs : line[p] = l /\ p \in rt => dev[l] = p /\ l \in devs
  BY <1>1 DEF Shown, Listed
<1> QED BY <1>2 DEF Silent, Only, Pairs, None

\* A request on a list works on every line.
LEMMA OnAll ==
  ASSUME IInv, NEW r \in Slots, h[r].op \in {"list", "others", "password", "delete"},
         h[r].pc # "idle", NEW l \in Roots
  PROVE  On(r, l)
BY DEF On, Touched, Roots, Minted

\* A request ends, at most taking the device's token.
LEMMA EndsTidy ==
  ASSUME IInv, Aligned, Tidy, NEW r \in Slots, Answer(r, None) \/ Refused(r),
         h[r].pc \notin Storing,
         UNCHANGED <<rt, rot, sid, dev, devs, line, next, out, torn>>, stirred \subseteq stirred'
  PROVE  Tidy'
<1>1. h' = [h EXCEPT ![r] = IdleReq] BY DEF Refused, Answer
<1>2. \A c \in Clients : hold'[c] \in {hold[c], None}
  BY DEF Refused, Answer, IInv, TypeOK
<1>3. Leaves(r, IdleReq) BY <1>1, <1>2, IdleEnds DEF Leaves
<1> QED BY <1>3, IdleEnds, LeavesTidy

LEMMA LookTidy == ASSUME IInv, Aligned, Tidy, NEW r \in Slots, Look(r) PROVE Tidy'
<1>0. PICK q : q = [h[r] EXCEPT !.pc = IF h[r].tok \in rt THEN "claim" ELSE "replay"] OBVIOUS
<1>1. h[r] \in ReqType /\ ReqOK(h[r]) /\ h[r].pc = "look" /\ h[r].op = "refresh"
  BY Known DEF Look, ReqOK
<1>2. q.op = "refresh" /\ q.tok = h[r].tok /\ q.pc \in {"claim", "replay"}
  BY <1>0, <1>1 DEF ReqType
<1>3. \A l : ~At(q, l) BY <1>2 DEF At, Claiming, Storing, Exchange
<1>4. Leaves(r, q)
  BY <1>0, <1>1, <1>3 DEF Leaves, Look, Goto, redis, notes, Storing
<1>5. \A l \in Roots \ stirred : Carries(q, l)
  BY <1>1, <1>2 DEF Tidy, Shown, Carries, Storing, Exchange
<1> QED BY <1>2, <1>4, <1>5, NothingToEnd, LeavesTidy

LEMMA UnlinkTidy == ASSUME IInv, Aligned, Tidy, NEW r \in Slots, Unlink(r) PROVE Tidy'
<1>0. PICK q : q = [h[r] EXCEPT !.pc = "get"] OBVIOUS
<1>1. h[r] \in ReqType /\ ReqOK(h[r]) /\ h[r].pc = "unlink" /\ h[r].op = "refresh"
  BY Known DEF Unlink, ReqOK
<1>2. q.op = "refresh" /\ q.tok = h[r].tok /\ q.pc = "get" BY <1>0, <1>1 DEF ReqType
<1>3. \A l : At(q, l) => At(h[r], l) BY <1>1, <1>2 DEF At, Claiming, Storing, Exchange
<1>4. Leaves(r, q)
  BY <1>0, <1>1, <1>3 DEF Leaves, Unlink, Goto, redis, notes, Storing
<1>5. \A l \in Roots \ stirred : Carries(q, l)
  BY <1>1, <1>2 DEF Tidy, Shown, Carries, Storing, Exchange
<1> QED BY <1>2, <1>4, <1>5, NothingToEnd, LeavesTidy

\* The device session found is the one the token carried.
LEMMA CarrySessionTidy ==
  ASSUME IInv, Aligned, Tidy, NEW r \in Slots, CarrySession(r)
  PROVE  Tidy'
<1>0. PICK q, found : /\ found = sid[h[r].tok]
                      /\ q = [h[r] EXCEPT !.pc = "write",
                              !.id = IF found = None THEN h[r].new ELSE found]
  OBVIOUS
<1>1. /\ h[r] \in ReqType /\ ReqOK(h[r]) /\ ReqLine(h[r]) /\ h[r].pc = "carry"
      /\ h[r].op = "refresh"
  BY Known DEF CarrySession, ReqOK
<1>2. /\ q.op = "refresh" /\ q.tok = h[r].tok /\ q.pc = "write" /\ q.new = h[r].new
      /\ q.id = IF found = None THEN h[r].new ELSE found
  BY <1>0, <1>1 DEF ReqType
<1>3. \A l : At(q, l) => At(h[r], l) BY <1>1, <1>2 DEF At, Claiming, Storing, Exchange
<1>4. Leaves(r, q)
  BY <1>0, <1>1, <1>2, <1>3 DEF Leaves, CarrySession, redis, notes, Storing
<1>5. ASSUME NEW l \in Roots \ stirred PROVE Carries(q, l)
  <2>1. line[q.tok] = l => sid[q.tok] = l
    BY <1>1, <1>2, <1>5 DEF Tidy, Shown, Carries, Storing
  <2>2. line[q.new] = line[q.tok] BY <1>1, <1>2 DEF ReqLine, Storing
  <2>3. l # None BY <1>5 DEF Roots, Minted, Pairs, None
  <2> QED BY <1>0, <1>2, <2>1, <2>2, <2>3 DEF Carries
<1> QED BY <1>2, <1>4, <1>5, NothingToEnd, LeavesTidy

LEMMA WhoTidy == ASSUME IInv, Aligned, Tidy, NEW r \in Slots, Who(r) PROVE Tidy'
<1>0. PICK q, tok, id : /\ tok = h[r].tok /\ id = IF tok \in at THEN sid[tok] ELSE None
                        /\ q = [h[r] EXCEPT !.pc = "val", !.mate = tok, !.id = id]
  OBVIOUS
<1>1. /\ h[r] \in ReqType /\ ReqOK(h[r]) /\ Runs(h[r]) /\ ReqLine(h[r]) /\ Lined
      /\ h[r].pc = "who" /\ h[r].op = "logout"
  BY Known DEF Who, Runs
<1>2. q.op = "logout" /\ q.tok = tok /\ q.pc = "val" /\ q.id = id
  BY <1>0, <1>1 DEF ReqType
<1>3. \A l : ~At(q, l) BY <1>2, NotAt DEF Storing
<1>4. Leaves(r, q)
  BY <1>0, <1>1, <1>3 DEF Leaves, Who, redis, notes, Storing
<1>5. ASSUME NEW l \in Roots \ stirred PROVE Ends(q, l)
  <2>1. tok \in Pairs BY <1>0, <1>1 DEF ReqOK
  <2>2. l # None /\ line[l] = l BY <1>5 DEF Roots, Minted, Pairs, None
  <2>3. id = l => line[tok] = l BY <1>0, <1>1, <2>1, <2>2 DEF Lined
  <2> QED BY <1>2, <2>3 DEF Ends
<1>6. \A l : Carries(q, l) BY <1>2, NothingCarried
<1> QED BY <1>4, <1>5, <1>6, LeavesTidy

\* A live access token is half of the newest pair, the one live pair of its line.
LEMMA LiveAccess ==
  ASSUME IInv, Aligned, Orderly, NEW l \in Roots \ stirred, NEW tok \in Minted, line[tok] = l
  PROVE  /\ tok \in rt => Only(l, tok)
         /\ Only(l, tok) /\ tok \notin at => Silent(l)
<1>1. InOrder(l) /\ Store BY DEF Orderly, IInv
<1>2. \A p \in Pairs : line[p] = l /\ p \in rt => p \in Minted /\ p \in at /\ Newest(p)
  BY <1>1, LinesAreRoots DEF InOrder, Chain, Store
<1>3. tok \in rt => Only(l, tok) BY <1>2, OneNewest DEF Only, Minted
<1>4. Only(l, tok) /\ tok \notin at => Silent(l) BY <1>2 DEF Only, Silent
<1> QED BY <1>3, <1>4

LEMMA ValTidy == ASSUME IInv, Aligned, Orderly, Tidy, NEW r \in Slots, Val(r) PROVE Tidy'
<1>0. PICK q, tok : tok = h[r].tok /\ q = [h[r] EXCEPT !.pc = "get"] OBVIOUS
<1>1. /\ h[r] \in ReqType /\ ReqOK(h[r]) /\ Runs(h[r]) /\ ReqLine(h[r]) /\ Store
      /\ h[r].pc = "val" /\ h[r].op = "logout"
  BY Known DEF Val, Runs
<1>2. CASE tok \in at
  <2>1. q.op = "logout" /\ q.tok = tok /\ q.pc = "get" /\ q.id = h[r].id
    BY <1>0, <1>1 DEF ReqType
  <2>2. \A l : ~At(q, l) BY <2>1, NotAt DEF Storing
  <2>3. Leaves(r, q)
    BY <1>0, <1>1, <1>2, <2>2 DEF Leaves, Val, Goto, redis, notes, Storing
  <2>4. ASSUME NEW l \in Roots \ stirred PROVE Ends(q, l)
    <3>1. tok \in Minted /\ tok \in rt BY <1>0, <1>1, <1>2, LinesAreRoots DEF ReqLine, Store
    <3>2. line[tok] = l => Only(l, tok)
      <4>1. CASE line[tok] = l BY <2>4, <3>1, <4>1, LiveAccess
      <4> QED BY <4>1
    <3>3. q.id = l => line[tok] = l BY <1>0, <1>1, <2>1, <2>4 DEF Tidy, Shown, Ends
    <3> QED BY <2>1, <3>2, <3>3 DEF Ends
  <2>5. \A l : Carries(q, l) BY <2>1, NothingCarried
  <2> QED BY <2>3, <2>4, <2>5, LeavesTidy
<1>3. CASE tok \notin at
  <2>1. Refused(r) /\ h[r].pc \notin Storing /\ UNCHANGED <<redis, next, notes>>
    BY <1>0, <1>1, <1>3 DEF Val, Storing
  <2> QED BY <2>1, EndsTidy DEF redis, notes
<1> QED BY <1>2, <1>3

LEMMA IdsTidy == ASSUME IInv, Aligned, Tidy, NEW r \in Slots, Ids(r) PROVE Tidy'
<1>0. PICK q : q = [h[r] EXCEPT !.pc = "visit", !.ids = devs] OBVIOUS
<1>1. h[r] \in ReqType /\ Runs(h[r]) /\ h[r].pc = "ids" /\ h[r].op \in {"list", "others"}
  BY Known DEF Ids, Runs
<1>2. q.op = h[r].op /\ q.pc = "visit" /\ q.ids = devs /\ q.id = h[r].id
  BY <1>0, <1>1 DEF ReqType
<1>3. \A l : ~At(q, l) BY <1>1, <1>2, NotAt DEF Storing
<1>4. Leaves(r, q)
  BY <1>0, <1>1, <1>3 DEF Leaves, Ids, redis, notes, Storing
<1>5. ASSUME NEW l \in Roots \ stirred PROVE Ends(q, l)
  <2>1. Shown(l) /\ On(r, l) /\ h[r].pc \notin Storing
    BY <1>1, <1>5, OnAll DEF Tidy, Storing
  <2>2. l \notin torn /\ ~Silent(l) => l \in devs BY <1>5, <2>1, ListShowsIt
  <2> QED BY <1>1, <1>2, <2>2 DEF Ends, Revokes
<1>6. \A l : Carries(q, l) BY <1>1, <1>2, NothingCarried
<1> QED BY <1>4, <1>5, <1>6, LeavesTidy

LEMMA VisitTidy == ASSUME IInv, Aligned, Tidy, NEW r \in Slots, Visit(r) PROVE Tidy'
<1>1. h[r] \in ReqType /\ Runs(h[r]) /\ h[r].pc = "visit" /\ h[r].op \in {"list", "others"}
  BY Known DEF Visit, Runs
<1>2. UNCHANGED <<redis, account, next, faults, notes>> BY DEF Visit
<1>3. CASE h[r].ids = {} /\ h[r].op = "list" /\ Refused(r)
  <2>1. h[r].pc \notin Storing BY <1>1 DEF Storing
  <2> QED BY <1>2, <1>3, <2>1, EndsTidy DEF redis, notes
<1>4. CASE h[r].ids = {} /\ h[r].op # "list" /\ Goto(r, "current")
  <2>0. PICK q : q = [h[r] EXCEPT !.pc = "current"] OBVIOUS
  <2>1. q.op = "others" /\ q.pc = "current" /\ q.kept = h[r].kept
    BY <1>1, <1>4, <2>0 DEF ReqType
  <2>2. \A l : ~At(q, l) BY <2>1, NotAt DEF Storing
  <2>3. Leaves(r, q)
    BY <1>1, <1>2, <1>4, <2>0, <2>2 DEF Leaves, Goto, redis, notes, Storing
  <2>4. ASSUME NEW l \in Roots \ stirred PROVE Ends(q, l)
    <3>1. Ends(h[r], l) BY <2>4 DEF Tidy, Shown
    <3>2. l \notin torn /\ ~Silent(l) => l \in q.kept BY <1>1, <1>4, <2>1, <3>1 DEF Ends
    <3> QED BY <2>1, <3>2 DEF Ends, Revokes
  <2>5. \A l : Carries(q, l) BY <2>1, NothingCarried
  <2> QED BY <2>3, <2>4, <2>5, LeavesTidy
<1>5. ASSUME NEW d \in h[r].ids,
             h' = [h EXCEPT ![r].pc = IF dev[d] = None THEN "forget" ELSE "exists",
                            ![r].id = d, ![r].mate = dev[d]],
             UNCHANGED hold
      PROVE  Tidy'
  <2>0. PICK q, m : /\ m = dev[d]
                    /\ q = [h[r] EXCEPT !.pc = IF m = None THEN "forget" ELSE "exists",
                                        !.id = d, !.mate = m]
    OBVIOUS
  <2>1. /\ q.op = h[r].op /\ q.pc = (IF m = None THEN "forget" ELSE "exists") /\ q.id = d
        /\ q.mate = m /\ q.ids = h[r].ids /\ q.kept = h[r].kept
    BY <1>1, <2>0 DEF ReqType
  <2>2. \A l : ~At(q, l) BY <1>1, <2>1, NotAt DEF Storing
  <2>3. Leaves(r, q)
    BY <1>1, <1>2, <1>5, <2>0, <2>2 DEF Leaves, redis, notes, Storing
  <2>4. ASSUME NEW l \in Roots \ stirred PROVE Ends(q, l)
    <3>1. Shown(l) /\ On(r, l) /\ h[r].pc \notin Storing /\ Ends(h[r], l)
      BY <1>1, <2>4, OnAll DEF Tidy, Shown, Storing
    <3>2. l \notin torn => Only(l, dev[l]) /\ (dev[l] = None => Silent(l))
      BY <2>4, <3>1, ListShowsIt
    <3>3. q.op = "others" /\ l \notin torn /\ ~Silent(l) => l \in q.ids \cup q.kept
      BY <1>1, <2>1, <3>1 DEF Ends
    <3>4. d = l /\ l \notin torn => Only(l, m) /\ (m = None => Silent(l)) BY <2>0, <3>2
    <3> QED BY <1>1, <2>1, <3>3, <3>4 DEF Ends, Revokes
  <2>5. \A l : Carries(q, l) BY <1>1, <2>1, NothingCarried
  <2> QED BY <2>3, <2>4, <2>5, LeavesTidy
<1> QED BY <1>3, <1>4, <1>5 DEF Visit

LEMMA ExistsTidy == ASSUME IInv, Aligned, Tidy, NEW r \in Slots, Exists(r) PROVE Tidy'
<1>0. PICK q, d, m :
        /\ d = h[r].id /\ m = h[r].mate
        /\ q = IF Usable(m)
               THEN [h[r] EXCEPT !.pc = "visit", !.ids = @ \ {d}, !.kept = @ \cup {d},
                                 !.id = None, !.mate = None]
               ELSE [h[r] EXCEPT !.pc = "forget"]
  OBVIOUS
<1>1. h[r] \in ReqType /\ Runs(h[r]) /\ h[r].pc = "exists" /\ h[r].op \in {"list", "others"}
  BY Known DEF Exists, Runs
<1>2. /\ q.op = h[r].op
      /\ Usable(m) => /\ q.pc = "visit" /\ q.id = None /\ q.ids = h[r].ids \ {d}
                      /\ q.kept = h[r].kept \cup {d}
      /\ ~Usable(m) => /\ q.pc = "forget" /\ q.id = d /\ q.ids = h[r].ids
                       /\ q.kept = h[r].kept
  BY <1>0, <1>1 DEF ReqType
<1>3. \A l : ~At(q, l) BY <1>1, <1>2, NotAt DEF Storing
<1>4. Leaves(r, q)
  BY <1>0, <1>1, <1>3 DEF Leaves, Exists, redis, notes, Storing
<1>5. ASSUME NEW l \in Roots \ stirred PROVE Ends(q, l)
  <2>1. Ends(h[r], l) /\ l # None BY <1>5 DEF Tidy, Shown, Roots, Minted, Pairs, None
  <2>2. d = l /\ l \notin torn => Only(l, m) BY <1>0, <1>1, <2>1 DEF Ends
  <2>3. h[r].op = "others" /\ l \notin torn /\ ~Silent(l) => l \in h[r].ids \cup h[r].kept
    BY <1>1, <2>1 DEF Ends
  <2>4. CASE Usable(m) BY <1>1, <1>2, <2>1, <2>3, <2>4 DEF Ends, Revokes
  <2>5. CASE ~Usable(m)
    <3>1. Only(l, m) => Silent(l) BY <2>5 DEF Only, Silent, Usable
    <3> QED BY <1>1, <1>2, <2>2, <2>3, <2>5, <3>1 DEF Ends, Revokes
  <2> QED BY <2>4, <2>5
<1>6. \A l : Carries(q, l) BY <1>1, <1>2, NothingCarried
<1> QED BY <1>4, <1>5, <1>6, LeavesTidy

LEMMA CurrentTidy == ASSUME IInv, Aligned, Tidy, NEW r \in Slots, Current(r) PROVE Tidy'
<1>0. PICK q, cur : /\ cur = IF h[r].tok \in at THEN sid[h[r].tok] ELSE None
                    /\ q = [h[r] EXCEPT !.pc = "pick", !.cur = cur, !.kept = @ \ {cur}]
  OBVIOUS
<1>1. h[r] \in ReqType /\ Runs(h[r]) /\ h[r].pc = "current" /\ h[r].op = "others"
  BY Known DEF Current, Runs
<1>2. q.op = "others" /\ q.pc = "pick" /\ q.cur = cur /\ q.kept = h[r].kept \ {cur}
  BY <1>0, <1>1 DEF ReqType
<1>3. \A l : ~At(q, l) BY <1>2, NotAt DEF Storing
<1>4. Leaves(r, q)
  BY <1>0, <1>1, <1>3 DEF Leaves, Current, redis, notes, Storing
<1>5. ASSUME NEW l \in Roots \ stirred PROVE Ends(q, l)
  <2>1. Ends(h[r], l) BY <1>5 DEF Tidy, Shown
  <2>2. l \notin torn /\ ~Silent(l) => l \in h[r].kept BY <1>1, <2>1 DEF Ends
  <2> QED BY <1>2, <2>2 DEF Ends, Revokes
<1>6. \A l : Carries(q, l) BY <1>2, NothingCarried
<1> QED BY <1>4, <1>5, <1>6, LeavesTidy

LEMMA PickTidy == ASSUME IInv, Aligned, Tidy, NEW r \in Slots, Pick(r) PROVE Tidy'
<1>1. /\ h[r] \in ReqType /\ Runs(h[r]) /\ h[r].pc = "pick" /\ h[r].op \in {"revoke", "others"}
      /\ h[r].pc \notin Storing
  BY Known DEF Pick, Runs, Storing
<1>2. UNCHANGED <<redis, account, next, faults, notes>> BY DEF Pick
<1>3. PICK d \in h[r].kept :
        IF dev[d] # None
        THEN /\ h' = [h EXCEPT ![r].pc = "get", ![r].id = d, ![r].mate = dev[d]]
             /\ UNCHANGED hold
        ELSE IF h[r].op = "revoke" THEN Refused(r)
        ELSE h' = [h EXCEPT ![r].kept = @ \ {d}] /\ UNCHANGED hold
  BY DEF Pick
<1>4. \A l \in Roots \ stirred : h[r].op = "others" \/ d = l => On(r, l)
  BY <1>1, <1>3, OnAll DEF On, Touched
<1>5. \A l \in Roots \ stirred : l \notin torn /\ On(r, l) =>
        Only(l, dev[l]) /\ (dev[l] = None => Silent(l))
  BY <1>1, ListShowsIt DEF Tidy
<1>6. \A l \in Roots \ stirred : h[r].op = "others" /\ l \notin torn /\ ~Silent(l) =>
        l \in h[r].kept \cup {h[r].cur}
  BY <1>1 DEF Tidy, Shown, Ends
<1>7. CASE dev[d] # None
  <2>0. PICK q, m : m = dev[d] /\ q = [h[r] EXCEPT !.pc = "get", !.id = d, !.mate = m]
    OBVIOUS
  <2>1. /\ q.op = h[r].op /\ q.pc = "get" /\ q.id = d /\ q.mate = m /\ q.kept = h[r].kept
        /\ q.cur = h[r].cur
    BY <1>1, <2>0 DEF ReqType
  <2>2. \A l : ~At(q, l) BY <1>1, <2>1, NotAt DEF Storing
  <2>3. Leaves(r, q)
    BY <1>1, <1>2, <1>3, <1>7, <2>0, <2>2 DEF Leaves, redis, notes
  <2>4. \A l \in Roots \ stirred : d = l /\ l \notin torn => Only(l, m)
    BY <1>4, <1>5, <2>0
  <2>5. ASSUME NEW l \in Roots \ stirred PROVE Ends(q, l)
    BY <1>1, <1>6, <2>1, <2>4, <2>5 DEF Ends, Revokes
  <2>6. \A l : Carries(q, l) BY <1>1, <2>1, NothingCarried
  <2> QED BY <2>3, <2>5, <2>6, LeavesTidy
<1>8. CASE dev[d] = None /\ h[r].op = "revoke"
  BY <1>1, <1>2, <1>3, <1>8, EndsTidy DEF redis, notes
<1>9. CASE dev[d] = None /\ h[r].op = "others"
  <2>0. PICK q : q = [h[r] EXCEPT !.kept = @ \ {d}] OBVIOUS
  <2>1. /\ q.op = "others" /\ q.pc = "pick" /\ q.kept = h[r].kept \ {d} /\ q.cur = h[r].cur
    BY <1>1, <1>9, <2>0 DEF ReqType
  <2>2. \A l : ~At(q, l) BY <2>1, NotAt DEF Storing
  <2>3. Leaves(r, q)
    BY <1>1, <1>2, <1>3, <1>9, <2>0, <2>2 DEF Leaves, redis, notes
  <2>4. \A l \in Roots \ stirred : d = l /\ l \notin torn => Silent(l)
    BY <1>4, <1>5, <1>9
  <2>5. ASSUME NEW l \in Roots \ stirred PROVE Ends(q, l)
    BY <1>6, <1>9, <2>1, <2>4, <2>5 DEF Ends, Revokes
  <2>6. \A l : Carries(q, l) BY <2>1, NothingCarried
  <2> QED BY <2>3, <2>5, <2>6, LeavesTidy
<1> QED BY <1>1, <1>7, <1>8, <1>9

LEMMA GetPairTidy == ASSUME IInv, Aligned, Orderly, Tidy, NEW r \in Slots, GetPair(r) PROVE Tidy'
<1>0. PICK q, mate, tok :
        /\ mate = h[r].mate /\ tok = h[r].tok
        /\ q = [h[r] EXCEPT !.pc = IF mate \in (IF h[r].op = "logout" THEN at ELSE rt)
                                   THEN "del" ELSE AfterRevoke(h[r])]
  OBVIOUS
<1>1. /\ h[r] \in ReqType /\ ReqOK(h[r]) /\ Runs(h[r]) /\ ReqLine(h[r]) /\ h[r].pc = "get"
      /\ h[r].op \in {"refresh", "logout", "revoke", "others"}
  BY Known DEF GetPair, Runs, Revokes
<1>2. /\ q.op = h[r].op /\ q.tok = tok /\ q.new = h[r].new /\ q.id = h[r].id /\ q.mate = mate
      /\ q.kept = h[r].kept /\ q.cur = h[r].cur
      /\ q.pc = IF mate \in (IF h[r].op = "logout" THEN at ELSE rt) THEN "del"
                ELSE IF h[r].op = "refresh" THEN "record" ELSE "end"
  BY <1>0, <1>1 DEF ReqType, AfterRevoke
<1>3. \A l : At(q, l) => At(h[r], l) BY <1>0, <1>1, <1>2 DEF At, Claiming, Storing, Exchange
<1>4. Leaves(r, q)
  BY <1>0, <1>1, <1>3 DEF Leaves, GetPair, Goto, redis, notes, Storing
<1>5. ASSUME NEW l \in Roots \ stirred PROVE Carries(q, l) /\ Ends(q, l)
  <2>1. Carries(h[r], l) /\ Ends(h[r], l) BY <1>5 DEF Tidy, Shown
  <2>2. CASE h[r].op = "refresh"
    <3>1. q.pc \in {"del", "record"} BY <1>2, <2>2
    <3>2. Carries(q, l) BY <1>0, <1>1, <1>2, <2>1, <2>2, <3>1 DEF Carries, Exchange
    <3> QED BY <1>2, <2>2, <3>2, NothingToEnd
  <2>3. CASE h[r].op = "logout"
    <3>1. mate = tok /\ tok \in Minted
      BY <1>0, <1>1, <2>3, LinesAreRoots DEF ReqLine, Revokes
    <3>2. q.id = l => line[tok] = l BY <1>0, <1>2, <2>1, <2>3 DEF Ends
    <3>3. ASSUME line[tok] = l PROVE Only(l, tok) /\ (tok \notin at => Silent(l))
      <4>1. Only(l, tok) BY <1>0, <1>1, <2>1, <2>3, <3>3 DEF Ends
      <4> QED BY <1>5, <3>1, <3>3, <4>1, LiveAccess
    <3>4. Ends(q, l) BY <1>2, <2>3, <3>1, <3>2, <3>3 DEF Ends
    <3> QED BY <1>2, <2>3, <3>4, NothingCarried
  <2>4. CASE h[r].op \in {"revoke", "others"}
    <3>1. h[r].id = l /\ l \notin torn => Only(l, mate) BY <1>0, <1>1, <2>1, <2>4 DEF Ends
    <3>2. mate \notin rt => (Only(l, mate) => Silent(l)) BY DEF Only, Silent
    <3>3. h[r].op = "others" /\ l \notin torn /\ ~Silent(l) => l \in q.kept \cup {q.cur}
      BY <1>1, <1>2, <2>1 DEF Ends, Revokes
    <3>4. Ends(q, l) BY <1>2, <2>4, <3>1, <3>2, <3>3 DEF Ends, Revokes
    <3> QED BY <1>2, <2>4, <3>4, NothingCarried
  <2> QED BY <1>1, <2>2, <2>3, <2>4
<1> QED BY <1>4, <1>5, LeavesTidy

LEMMA DropLinkTidy == ASSUME IInv, Aligned, Tidy, NEW r \in Slots, DropLink(r) PROVE Tidy'
<1>0. PICK q, previous :
        /\ previous = prev[h[r].mate]
        /\ q = [h[r] EXCEPT !.pc = IF previous = None THEN AfterRevoke(h[r]) ELSE "settle",
                            !.old = previous]
  OBVIOUS
<1>1. /\ h[r] \in ReqType /\ ReqOK(h[r]) /\ Runs(h[r]) /\ h[r].pc = "drop"
      /\ h[r].op \in {"refresh", "logout", "revoke", "others"}
  BY Known DEF DropLink, Runs, Revokes
<1>2. previous \in 0..MaxPairs
  <2>1. h[r].mate \in Pairs BY <1>1 DEF ReqOK
  <2> QED BY <1>0, <2>1, Known, LinkTypes
<1>3. /\ q.op = h[r].op /\ q.tok = h[r].tok /\ q.new = h[r].new /\ q.id = h[r].id
      /\ q.kept = h[r].kept /\ q.cur = h[r].cur
      /\ q.pc = IF previous # None THEN "settle"
                ELSE IF h[r].op = "refresh" THEN "record" ELSE "end"
  BY <1>0, <1>1, <1>2 DEF ReqType, AfterRevoke
<1>4. \A l : At(q, l) => At(h[r], l) BY <1>1, <1>3 DEF At, Claiming, Storing, Exchange
<1>5. Leaves(r, q)
  BY <1>0, <1>1, <1>4 DEF Leaves, DropLink, redis, notes, Storing
<1>6. ASSUME NEW l \in Roots \ stirred PROVE Carries(q, l) /\ Ends(q, l)
  <2>1. Carries(h[r], l) /\ Ends(h[r], l) BY <1>6 DEF Tidy, Shown
  <2>2. CASE h[r].op = "refresh"
    <3>1. q.pc \in {"settle", "record"} BY <1>3, <2>2
    <3>2. Carries(q, l) BY <1>1, <1>3, <2>1, <2>2, <3>1 DEF Carries, Exchange
    <3> QED BY <1>3, <2>2, <3>2, NothingToEnd
  <2>3. CASE h[r].op # "refresh"
    <3>1. q.pc \in {"settle", "end"} BY <1>3, <2>3
    <3>2. Ends(q, l) BY <1>1, <1>3, <2>1, <3>1 DEF Ends, Revokes
    <3> QED BY <1>3, <2>3, <3>1, <3>2, NothingCarried
  <2> QED BY <2>2, <2>3
<1> QED BY <1>5, <1>6, LeavesTidy

\* A request of a kind that neither stores nor signs one device out goes on.
LEMMA OtherTidy ==
  ASSUME IInv, Aligned, Tidy, NEW r \in Slots, NEW q, h' = [h EXCEPT ![r] = q],
         q.op \in {"password", "delete"}, q.pc \notin Storing, h[r].pc \notin Storing,
         UNCHANGED <<rt, rot, sid, dev, devs, line, next, out, torn, hold>>,
         stirred \subseteq stirred'
  PROVE  Tidy'
<1>1. \A l : Ends(q, l) BY NothingToEnd
<1>2. \A l : Carries(q, l) BY NothingCarried DEF Storing
<1>3. \A l : ~At(q, l) BY NotAt
<1>4. Leaves(r, q) BY <1>3 DEF Leaves
<1> QED BY <1>1, <1>2, <1>4, LeavesTidy

LEMMA MembersTidy == ASSUME IInv, Aligned, Tidy, NEW r \in Slots, Members(r) PROVE Tidy'
<1>0. PICK q : q = [h[r] EXCEPT !.pc = "devices", !.accs = accIdx, !.refs = refIdx] OBVIOUS
<1>1. h[r] \in ReqType /\ Runs(h[r]) /\ h[r].pc = "members" BY Known DEF Members
<1>2. q.op \in {"password", "delete"} /\ q.pc = "devices" BY <1>0, <1>1 DEF ReqType, Runs
<1> QED BY <1>0, <1>1, <1>2, OtherTidy DEF Members, redis, notes, Storing

LEMMA DevicesTidy == ASSUME IInv, Aligned, Tidy, NEW r \in Slots, Devices(r) PROVE Tidy'
<1>0. PICK q : q = [h[r] EXCEPT !.pc = "wipe", !.ids = devs] OBVIOUS
<1>1. h[r] \in ReqType /\ Runs(h[r]) /\ h[r].pc = "devices" BY Known DEF Devices
<1>2. q.op \in {"password", "delete"} /\ q.pc = "wipe" BY <1>0, <1>1 DEF ReqType, Runs
<1> QED BY <1>0, <1>1, <1>2, OtherTidy DEF Devices, redis, notes, Storing

LEMMA EraseTidy == ASSUME IInv, Aligned, Tidy, NEW r \in Slots, Erase(r) PROVE Tidy'
BY EndsTidy DEF Erase, redis, notes, Storing

LEMMA AbandonTidy == ASSUME IInv, Aligned, Tidy, NEW r \in Slots, Abandon(r) PROVE Tidy'
<1>0. PICK q : q = [h[r] EXCEPT !.heard = FALSE] OBVIOUS
<1>1. h[r] \in ReqType BY Known
<1>2. /\ q.op = h[r].op /\ q.pc = h[r].pc /\ q.tok = h[r].tok /\ q.new = h[r].new
      /\ q.mate = h[r].mate /\ q.id = h[r].id /\ q.ids = h[r].ids /\ q.kept = h[r].kept
      /\ q.cur = h[r].cur
  BY <1>0, <1>1 DEF ReqType
<1>3. \A l : At(q, l) => At(h[r], l) BY <1>2 DEF At, Claiming
<1>4. Leaves(r, q) BY <1>0, <1>2, <1>3 DEF Leaves, Abandon, redis, notes
<1>5. \A l \in Roots \ stirred : Carries(q, l) /\ Ends(q, l)
  BY <1>2 DEF Tidy, Shown, Carries, Ends
<1> QED BY <1>4, <1>5, LeavesTidy

\* A request that arrives, but for a login.
LEMMA ArrivesTidy ==
  ASSUME IInv, Aligned, Tidy, NEW r \in Slots, NEW q, Arrive(r, q), UNCHANGED <<next, line>>,
         \A l : ~At(q, l), \A l \in Roots \ stirred : Carries(q, l) /\ Ends(q, l)
  PROVE  Tidy'
<1>1. Leaves(r, q) BY DEF Leaves, Arrive, redis, Storing
<1> QED BY <1>1, LeavesTidy

LEMMA RefreshTidy ==
  ASSUME IInv, Aligned, Tidy, NEW r \in Slots, NEW c \in Clients, Refresh(r, c)
  PROVE  Tidy'
<1>0. PICK q : q = Req("refresh", c, "look", hold[c]) OBVIOUS
<1>1. q.op = "refresh" /\ q.pc = "look" /\ q.tok = hold[c] /\ hold[c] # None
  BY <1>0 DEF Refresh, Req, IdleReq
<1>2. \A l : ~At(q, l) BY <1>1 DEF At, Claiming, Exchange, Storing
<1>3. \A l \in Roots \ stirred : Carries(q, l)
  BY <1>1 DEF Tidy, Shown, Carried, Carries, Exchange, Storing
<1>4. \A l : Ends(q, l) BY <1>1, NothingToEnd
<1> QED BY <1>0, <1>2, <1>3, <1>4, ArrivesTidy DEF Refresh

\* One that is no refresh has done nothing to any line yet.
LEMMA BeginsTidy ==
  ASSUME IInv, Aligned, Tidy, NEW r \in Slots, NEW q, Arrive(r, q), UNCHANGED <<next, line>>,
         q.id = None,
         q.op \in {"logout", "list", "others", "revoke", "password", "delete"},
         q.pc \in {"who", "ids", "pick", "members"}, q.op = "others" => q.pc = "ids"
  PROVE  Tidy'
<1>1. \A l : ~At(q, l) BY NotAt DEF Storing
<1>2. \A l : Carries(q, l) BY NothingCarried
<1>3. \A l \in Roots : Ends(q, l) BY DEF Ends, Revokes, Roots, Minted, Pairs, None
<1> QED BY <1>1, <1>2, <1>3, ArrivesTidy

LEMMA ArrivalTidy ==
  ASSUME IInv, Aligned, Tidy, NEW r \in Slots, NEW c \in Clients,
         \/ Refresh(r, c) \/ Logout(r, c) \/ ListSessions(r, c) \/ RevokeOtherSessions(r, c)
         \/ RevokeSession(r, c) \/ UpdatePassword(r, c) \/ DeleteAccount(r, c)
  PROVE  Tidy'
<1>1. \A op, pc, p : LET q == Req(op, c, pc, p) IN q.op = op /\ q.pc = pc /\ q.id = None
  BY DEF Req, IdleReq
<1>2. CASE Refresh(r, c) BY <1>2, RefreshTidy
<1>3. CASE Logout(r, c) BY <1>1, <1>3, BeginsTidy DEF Logout
<1>4. CASE ListSessions(r, c) BY <1>1, <1>4, BeginsTidy DEF ListSessions
<1>5. CASE RevokeOtherSessions(r, c) BY <1>1, <1>5, BeginsTidy DEF RevokeOtherSessions
<1>6. CASE RevokeSession(r, c)
  <2>1. PICK d, q : q = [Req("revoke", c, "pick", hold[c]) EXCEPT !.kept = {d}] /\ Arrive(r, q)
    BY <1>6 DEF RevokeSession
  <2>2. q.op = "revoke" /\ q.pc = "pick" /\ q.id = None BY <2>1 DEF Req, IdleReq
  <2>3. UNCHANGED <<next, line>> BY <1>6 DEF RevokeSession
  <2> QED BY <2>1, <2>2, <2>3, BeginsTidy
<1>7. CASE UpdatePassword(r, c) BY <1>1, <1>7, BeginsTidy DEF UpdatePassword
<1>8. CASE DeleteAccount(r, c) BY <1>1, <1>8, BeginsTidy DEF DeleteAccount
<1> QED BY <1>2, <1>3, <1>4, <1>5, <1>6, <1>7, <1>8

-----------------------------------------------------------------------------
(* The steps that take a device off the list, or sign it out.              *)

LEMMA ForgetsTidy ==
  ASSUME IInv, Aligned, Tidy, NEW r \in Slots, NEW q, h' = [h EXCEPT ![r] = q],
         UNCHANGED <<rt, rot, sid, line, next, torn>>, stirred \subseteq stirred',
         \A c \in Clients : hold'[c] \in {hold[c], None},
         h[r].pc \notin Storing, \A l : ~At(q, l),
         \A l \in Roots \ stirred :
           /\ Carries(q, l) /\ Ends(q, l)
           /\ \/ dev'[l] = dev[l] /\ (l \in devs => l \in devs')
              \/ l \in torn \/ Silent(l)
           /\ l \in out' \ torn => l \in out \/ (Silent(l) /\ On(r, l))
  PROVE  Tidy'
<1>1. ASSUME NEW l \in Roots \ stirred PROVE Takes(r, q, l)
  <2>1. /\ Carries(q, l)' /\ Ends(q, l)' /\ ~At(q, l)' /\ (Silent(l) => Silent(l)')
        /\ \A p : Usable(p)' <=> Usable(p)
    BY <1>1 DEF Carries, Ends, At, Usable, Silent, Only
  <2> QED BY <1>1, <2>1 DEF Takes
<1> QED BY <1>1, TakesTidy

LEMMA ForgetTidy == ASSUME IInv, Aligned, Tidy, NEW r \in Slots, Forget(r) PROVE Tidy'
<1>0. PICK q, d : /\ d = h[r].id
                  /\ q = [h[r] EXCEPT !.pc = "visit", !.ids = @ \ {d}, !.id = None, !.mate = None]
  OBVIOUS
<1>1. /\ h[r] \in ReqType /\ Runs(h[r]) /\ h[r].pc = "forget" /\ h[r].op \in {"list", "others"}
      /\ dev \in Links
  BY Known DEF Forget, Runs, TypeOK
<1>2. /\ h' = [h EXCEPT ![r] = q] /\ dev' = [dev EXCEPT ![d] = None] /\ devs' = devs \ {d}
      /\ UNCHANGED <<rt, rot, sid, line, next, torn, out, stirred, hold>>
  BY <1>0 DEF Forget, notes
<1>3. q.op = h[r].op /\ q.pc = "visit" /\ q.ids = h[r].ids \ {d} /\ q.kept = h[r].kept /\ q.id = None
  BY <1>0, <1>1 DEF ReqType
<1>4. \A l : ~At(q, l) /\ Carries(q, l) BY <1>1, <1>3, NotAt, NothingCarried DEF Storing
<1>5. ASSUME NEW l \in Roots \ stirred
      PROVE  /\ Ends(q, l)
             /\ (dev'[l] = dev[l] /\ (l \in devs => l \in devs')) \/ l \in torn \/ Silent(l)
  <2>1. Ends(h[r], l) /\ l \in Pairs BY <1>5 DEF Tidy, Shown, Roots, Minted
  <2>2. d = l /\ l \notin torn => Silent(l) BY <1>0, <1>1, <2>1 DEF Ends
  <2>3. d # l => dev'[l] = dev[l] /\ (l \in devs => l \in devs') BY <1>1, <1>2, <2>1 DEF Links
  <2>4. h[r].op = "others" /\ l \notin torn /\ ~Silent(l) => l \in q.ids \cup q.kept
    BY <1>1, <1>3, <2>1, <2>2 DEF Ends
  <2>5. l # None BY <2>1 DEF Pairs, None
  <2> QED BY <1>1, <1>3, <2>2, <2>3, <2>4, <2>5 DEF Ends, Revokes
<1>6. \A c \in Clients : hold'[c] = hold[c] BY <1>2
<1> QED BY <1>1, <1>2, <1>4, <1>5, <1>6, ForgetsTidy DEF Storing

\* The device signed out has no live pair any more.
LEMMA EndSessionTidy == ASSUME IInv, Aligned, Tidy, NEW r \in Slots, EndSession(r) PROVE Tidy'
<1>0. PICK d, tok : d = h[r].id /\ tok = h[r].tok OBVIOUS
<1>1. /\ h[r] \in ReqType /\ Runs(h[r]) /\ ReqLine(h[r]) /\ h[r].pc = "end"
      /\ h[r].op \in {"logout", "revoke", "others"} /\ dev \in Links
  BY Known DEF EndSession, Runs, TypeOK
<1>2. /\ dev' = (IF d = None THEN dev ELSE [dev EXCEPT ![d] = None]) /\ devs' = devs \ {d}
      /\ UNCHANGED <<rt, rot, sid, line, next, torn, stirred>>
      /\ out' \subseteq out \cup (IF h[r].op = "revoke" THEN {d}
                                  ELSE IF h[r].op = "logout" THEN {line[tok]} ELSE {})
  BY <1>0 DEF EndSession
<1>3. ASSUME NEW l \in Roots \ stirred
      PROVE  /\ d = l /\ l \notin torn => Silent(l)
             /\ (dev'[l] = dev[l] /\ (l \in devs => l \in devs')) \/ l \in torn \/ Silent(l)
             /\ l \in out' \ torn => l \in out \/ (Silent(l) /\ On(r, l))
  <2>1. Ends(h[r], l) /\ l \in Pairs BY <1>3 DEF Tidy, Shown, Roots, Minted
  <2>2. d = l /\ l \notin torn => Silent(l)
    BY <1>0, <1>1, <2>1 DEF Ends
  <2>3. d # l => dev'[l] = dev[l] /\ (l \in devs => l \in devs') BY <1>1, <1>2, <2>1 DEF Links
  <2>4. h[r].op = "logout" /\ line[tok] = l => Silent(l) /\ On(r, l)
    BY <1>0, <1>1, <2>1 DEF Ends, On, Touched
  <2>5. h[r].op = "revoke" /\ d = l => On(r, l)
    BY <1>0, <1>1 DEF ReqLine, On, Touched
  <2> QED BY <1>2, <2>2, <2>3, <2>4, <2>5
<1>4. \A c \in Clients : hold'[c] \in {hold[c], None}
  BY <1>1 DEF EndSession, Answer, Refused, IInv, TypeOK
<1>5. CASE h[r].op = "others"
  <2>0. PICK q : q = [h[r] EXCEPT !.pc = "pick", !.kept = @ \ {d}, !.id = None, !.mate = None]
    OBVIOUS
  <2>1. h' = [h EXCEPT ![r] = q] BY <1>0, <1>5, <2>0 DEF EndSession
  <2>2. q.op = "others" /\ q.pc = "pick" /\ q.kept = h[r].kept \ {d} /\ q.cur = h[r].cur
        /\ q.id = None
    BY <1>1, <1>5, <2>0 DEF ReqType
  <2>3. \A l : ~At(q, l) /\ Carries(q, l) BY <2>2, NotAt, NothingCarried DEF Storing
  <2>4. ASSUME NEW l \in Roots \ stirred PROVE Ends(q, l)
    <3>1. Ends(h[r], l) /\ l # None
      BY <2>4 DEF Tidy, Shown, Roots, Minted, Pairs, None
    <3>2. l \notin torn /\ ~Silent(l) => l \in q.kept \cup {q.cur}
      BY <1>1, <1>3, <1>5, <2>2, <2>4, <3>1 DEF Ends
    <3> QED BY <2>2, <3>1, <3>2 DEF Ends, Revokes
  <2> QED BY <1>1, <1>2, <1>3, <1>4, <2>1, <2>3, <2>4, ForgetsTidy DEF Storing
<1>6. CASE h[r].op # "others"
  <2>1. h' = [h EXCEPT ![r] = IdleReq] BY <1>6 DEF EndSession, Refused, Answer
  <2> QED BY <1>1, <1>2, <1>3, <1>4, <2>1, IdleEnds, ForgetsTidy DEF Storing
<1> QED BY <1>5, <1>6

\* Every device it had to sign out is behind it.
LEMMA OthersDoneTidy == ASSUME IInv, Aligned, Tidy, NEW r \in Slots, OthersDone(r) PROVE Tidy'
<1>1. /\ Runs(h[r]) /\ h[r].pc = "pick" /\ h[r].kept = {} /\ h[r].op = "others"
  BY Known DEF OthersDone, Runs
<1>2. /\ h' = [h EXCEPT ![r] = IdleReq] /\ out' = out \cup (Lines \ {h[r].cur})
      /\ UNCHANGED <<rt, rot, sid, dev, devs, line, next, torn, stirred>>
  BY DEF OthersDone, Refused, Answer, redis
<1>3. \A c \in Clients : hold'[c] \in {hold[c], None}
  BY DEF OthersDone, Refused, Answer, IInv, TypeOK
<1>4. ASSUME NEW l \in Roots \ stirred, l \in out' \ torn
      PROVE  l \in out \/ (Silent(l) /\ On(r, l))
  <2>1. Ends(h[r], l) BY <1>4 DEF Tidy, Shown
  <2>2. On(r, l) BY <1>1, <1>4, OnAll
  <2> QED BY <1>1, <1>2, <1>4, <2>1, <2>2 DEF Ends
<1> QED BY <1>1, <1>2, <1>3, <1>4, IdleEnds, ForgetsTidy DEF Storing

-----------------------------------------------------------------------------
(* The steps that take pairs and links away, on one line.                  *)

LEMMA BesideTidy ==
  ASSUME IInv, Aligned, Tidy, NEW r \in Slots, NEW q, h' = [h EXCEPT ![r] = q],
         NEW own, Beside(own), UNCHANGED <<dev, devs, out, torn>>, stirred \subseteq stirred',
         \A c \in Clients : hold'[c] \in {hold[c], None},
         h[r].pc \notin Storing,
         own \in Roots \ stirred =>
           /\ On(r, own)
           /\ \A p \in Pairs : line[p] = own =>
                (p \in rt' => p \in rt) /\ (Usable(p)' => Usable(p) /\ sid'[p] = sid[p]),
         \A l \in Roots \ stirred :
           /\ Carries(q, l)' /\ Ends(q, l)'
           /\ l \in out \ torn => (At(q, l)' => At(h[r], l))
  PROVE  Tidy'
<1>1. ASSUME NEW l \in Roots \ stirred PROVE Takes(r, q, l)
  <2>1. CASE l = own BY <1>1, <2>1 DEF Takes, Beside
  <2>2. CASE l # own
    <3>1. \A p \in Pairs : line[p] = l =>
            /\ (p \in rt' <=> p \in rt) /\ rot'[p] = rot[p] /\ sid'[p] = sid[p]
      BY <2>2 DEF Beside
    <3> QED BY <1>1, <3>1 DEF Takes, Usable, Beside
  <2> QED BY <2>1, <2>2
<1> QED BY <1>1, TakesTidy DEF Beside

\* A line signed out has no token left to claim.
LEMMA ClaimTidy == ASSUME IInv, Aligned, Tidy, NEW r \in Slots, Claim(r) PROVE Tidy'
<1>0. PICK tok, own, q :
        /\ tok = h[r].tok /\ own = line[h[r].tok]
        /\ q = [h[r] EXCEPT !.pc = "drop", !.mate = h[r].tok]
  OBVIOUS
<1>1. /\ h[r] \in ReqType /\ ReqOK(h[r]) /\ h[r].pc = "claim" /\ h[r].op = "refresh"
      /\ tok \in Pairs
  BY <1>0, Known DEF Claim, ReqOK
<1>2. /\ rt' = rt \ {tok} /\ UNCHANGED <<rot, prev, sid, refIdx, dev, devs, line, next, out, torn, stirred>>
  BY <1>0 DEF Claim, notes
<1>3. CASE tok \notin rt
  <2>1. Answer(r, None) /\ rt' = rt /\ h[r].pc \notin Storing
    BY <1>0, <1>1, <1>2, <1>3 DEF Claim, Storing
  <2> QED BY <1>2, <2>1, EndsTidy
<1>4. CASE tok \in rt
  <2>1. h' = [h EXCEPT ![r] = q] /\ hold' = hold BY <1>0, <1>4 DEF Claim
  <2>2. q.op = "refresh" /\ q.pc = "drop" /\ q.tok = tok BY <1>0, <1>1 DEF ReqType
  <2>3. Beside(own) BY <1>0, <1>2 DEF Beside, Claim
  <2>4. On(r, own) BY <1>0, <1>1, RefreshTouches DEF On
  <2>5. \A p \in Pairs : Usable(p)' => Usable(p) BY <1>2 DEF Usable
  <2>6. ASSUME NEW l \in Roots \ stirred
        PROVE  Carries(q, l)' /\ Ends(q, l)' /\ (l \in out \ torn => (At(q, l)' => At(h[r], l)))
    <3>1. Shown(l) /\ Carries(h[r], l) /\ Gone(l) BY <2>6 DEF Tidy, Shown
    <3>2. Carries(q, l)' BY <1>0, <1>1, <1>2, <1>4, <2>2, <3>1 DEF Carries, Usable
    <3>3. Ends(q, l)' BY <2>2 DEF Ends
    <3>4. At(q, l)' => line[tok] = l BY <1>2, <2>2 DEF At, Claiming, Storing
    <3>5. line[tok] = l => l \notin out \ torn BY <1>1, <1>4, <3>1 DEF Gone, Silent
    <3> QED BY <3>2, <3>3, <3>4, <3>5
  <2> QED BY <1>1, <1>2, <2>1, <2>3, <2>4, <2>5, <2>6, BesideTidy DEF Storing
<1> QED BY <1>3, <1>4

\* Nor one whose rotation is pending.
LEMMA ReplayTidy == ASSUME IInv, Aligned, Orderly, Tidy, NEW r \in Slots, Replay(r) PROVE Tidy'
<1>0. PICK tok, mate, own, q :
        /\ tok = h[r].tok /\ mate = rot[h[r].tok] /\ own = line[h[r].tok]
        /\ q = [h[r] EXCEPT !.pc = "unlink", !.mate = rot[h[r].tok]]
  OBVIOUS
<1>1. /\ h[r] \in ReqType /\ ReqOK(h[r]) /\ h[r].pc = "replay" /\ h[r].op = "refresh"
      /\ tok \in Pairs /\ rot \in Links /\ Lined
  BY <1>0, Known DEF Replay, ReqOK, TypeOK
<1>2. /\ rot' = [rot EXCEPT ![tok] = None]
      /\ UNCHANGED <<rt, at, prev, sid, refIdx, dev, devs, line, next, out, torn, stirred>>
  BY <1>0 DEF Replay, notes
<1>3. CASE mate = None
  <2>1. Answer(r, None) /\ rot' = rot /\ h[r].pc \notin Storing
    BY <1>0, <1>1, <1>2, <1>3 DEF Replay, Storing, Links
  <2> QED BY <1>2, <2>1, EndsTidy
<1>4. CASE mate # None
  <2>1. h' = [h EXCEPT ![r] = q] /\ hold' = hold BY <1>0, <1>4 DEF Replay
  <2>2. q.op = "refresh" /\ q.pc = "unlink" /\ q.tok = tok BY <1>0, <1>1 DEF ReqType
  <2>3. Beside(own) BY <1>0, <1>1, <1>2 DEF Beside, Links
  <2>4. On(r, own) /\ h[r].op \in Creators BY <1>0, <1>1, RefreshTouches DEF On
  <2>5. \A p \in Pairs : Usable(p)' => Usable(p) BY <1>1, <1>2 DEF Usable, Links
  <2>6. ASSUME NEW l \in Roots \ stirred
        PROVE  Carries(q, l)' /\ Ends(q, l)' /\ (l \in out \ torn => (At(q, l)' => At(h[r], l)))
    <3>1. Carries(h[r], l) /\ Gone(l) /\ InOrder(l) BY <2>6 DEF Tidy, Shown, Orderly
    <3>2. Carries(q, l)' BY <1>0, <1>1, <1>2, <1>4, <2>2, <3>1 DEF Carries, Usable
    <3>3. Ends(q, l)' BY <2>2 DEF Ends
    <3>4. At(q, l)' => line[tok] = l BY <1>2, <2>2 DEF At, Claiming, Storing
    <3>5. ASSUME line[tok] = l, l \in out \ torn PROVE FALSE
      <4>1. line[mate] = l /\ mate \in Pairs BY <1>0, <1>1, <1>4, <3>5 DEF Lined, Minted
      <4>2. mate \notin rt /\ ~StoringOn(l) BY <3>1, <3>5, <4>1 DEF Gone, Silent
      <4>3. PICK s \in Slots :
              \/ h[s].op = "refresh" /\ h[s].pc = "create" /\ h[s].new = mate
              \/ h[s].pc \in {"drop", "settle"} /\ h[s].mate = mate
        BY <1>0, <1>1, <1>4, <3>1, <3>5, <4>2 DEF InOrder, Pendings, Dropping
      <4>4. h[s].pc \in {"drop", "settle"} /\ line[h[s].mate] = l
        BY <4>1, <4>2, <4>3 DEF StoringOn, Storing
      <4>5. s # r /\ ~Far(h[s], l) BY <1>1, <4>4 DEF Far
      <4> QED BY <1>0, <2>4, <2>6, <3>5, <4>5, MintsAlone DEF On
    <3> QED BY <3>2, <3>3, <3>4, <3>5
  <2> QED BY <1>1, <1>2, <2>1, <2>3, <2>4, <2>5, <2>6, BesideTidy DEF Storing
<1> QED BY <1>3, <1>4

LEMMA FailTidy == ASSUME IInv, Aligned, Tidy, NEW r \in Slots, Fail(r) PROVE Tidy'
<1>1. /\ h' = [h EXCEPT ![r] = IdleReq] /\ torn \subseteq torn'
      /\ UNCHANGED <<rt, rot, sid, dev, devs, line, next, out, hold, stirred>>
  BY DEF Fail, redis
<1>2. ASSUME NEW l \in Roots \ stirred PROVE Takes(r, IdleReq, l)
  <2>1. ASSUME h[r].pc \in Storing, line[h[r].new] = l, l \notin torn' PROVE Silent(l)
    <3>1. h[r].pc = "create" /\ h[r].op # "refresh" BY <2>1 DEF Fail, Storing
    <3>2. l = h[r].new /\ l \notin issued
      BY <2>1, <3>1, Known DEF ReqLine, SlotOK, Storing, IInv
    <3>3. \A p \in rt : line[p] \in issued BY Known DEF Store, Lined
    <3> QED BY <3>2, <3>3 DEF Silent
  <2>2. /\ Silent(l) => Silent(l)'
        /\ \A p : Usable(p)' <=> Usable(p)
    BY <1>1 DEF Silent, Usable
  <2>3. ~At(IdleReq, l)' /\ Carries(IdleReq, l)' /\ Ends(IdleReq, l)'
    BY DEF At, Claiming, Carries, Ends, IdleReq, Storing, Exchange
  <2> QED BY <1>1, <2>1, <2>2, <2>3 DEF Takes
<1> QED BY <1>1, <1>2, TakesTidy

LEMMA DelPairTidy == ASSUME IInv, Aligned, Orderly, Tidy, NEW r \in Slots, DelPair(r) PROVE Tidy'
<1>0. PICK q, tok, mate, own :
        /\ tok = h[r].tok /\ mate = h[r].mate /\ own = line[h[r].mate]
        /\ q = [h[r] EXCEPT !.pc = "drop", !.ok = h[r].op = "logout" /\ h[r].mate \in at \cup rt]
  OBVIOUS
<1>1. /\ h[r] \in ReqType /\ ReqOK(h[r]) /\ Runs(h[r]) /\ ReqLine(h[r]) /\ h[r].pc = "del"
      /\ h[r].op \in {"refresh", "logout", "revoke", "others"} /\ sid \in Links
  BY Known DEF DelPair, Runs, Revokes, TypeOK
<1>2. /\ h' = [h EXCEPT ![r] = q] /\ rt' = rt \ {mate}
      /\ sid' = [sid EXCEPT ![mate] = None]
      /\ at' = at \ {mate} /\ refIdx' = refIdx \ {mate}
      /\ UNCHANGED <<rot, prev, dev, devs, line, next, out, stirred, torn, hold>>
  BY <1>0 DEF DelPair
<1>3. mate \in Pairs /\ own \in Roots /\ On(r, own)
  BY <1>0, <1>1, MateTouches DEF On, Minted
<1>4. Beside(own) BY <1>0, <1>1, <1>2 DEF Beside, Links
<1>5. /\ q.op = h[r].op /\ q.pc = "drop" /\ q.tok = tok /\ q.id = h[r].id
      /\ q.kept = h[r].kept /\ q.cur = h[r].cur
  BY <1>0, <1>1 DEF ReqType
<1>6. ASSUME own \in Roots \ stirred, NEW p \in Pairs, line[p] = own
      PROVE  (p \in rt' => p \in rt) /\ (Usable(p)' => Usable(p) /\ sid'[p] = sid[p])
  <2>1. rot[mate] = None BY <1>0, <1>1, <1>6 DEF Orderly, InOrder, Bound
  <2>2. Usable(p)' => p # mate BY <1>2, <2>1 DEF Usable
  <2> QED BY <1>1, <1>2, <2>2 DEF Usable, Links
<1>7. ASSUME NEW l \in Roots \ stirred
      PROVE  Carries(q, l)' /\ Ends(q, l)' /\ (l \in out \ torn => (At(q, l)' => At(h[r], l)))
  <2>1. Carries(h[r], l) /\ Ends(h[r], l) BY <1>7 DEF Tidy, Shown
  <2>2. /\ Silent(l) => Silent(l)'
        /\ Only(l, mate) => Silent(l)'
    BY <1>2 DEF Silent, Only
  <2>3. Carries(q, l)'
    <3>1. ASSUME q.op = "refresh", line[tok] = l PROVE sid'[tok] = l
      <4>1. sid[tok] = l BY <1>0, <1>1, <1>5, <2>1, <3>1 DEF Carries, Exchange
      <4>2. tok < mate /\ tok \in Pairs BY <1>0, <1>1, <1>5, <3>1 DEF ReqLine, ReqOK
      <4>3. tok # mate BY <4>2 DEF Pairs
      <4> QED BY <1>1, <1>2, <4>1, <4>2, <4>3 DEF Links
    <3> QED BY <1>2, <1>5, <3>1 DEF Carries
  <2>4. Ends(q, l)'
    <3>1. CASE q.op = "refresh" BY <3>1 DEF Ends
    <3>2. CASE q.op = "logout"
      <4>1. mate = tok BY <1>0, <1>1, <1>5, <3>2 DEF ReqLine, Revokes
      <4>2. q.id = l => line[tok] = l BY <1>0, <1>5, <2>1, <3>2 DEF Ends
      <4>3. line[tok] = l => Silent(l)'
        BY <1>0, <1>1, <1>5, <2>1, <2>2, <3>2, <4>1 DEF Ends
      <4> QED BY <1>2, <1>5, <3>2, <4>2, <4>3 DEF Ends
    <3>3. CASE q.op \in {"revoke", "others"}
      <4>1. q.id = l /\ l \notin torn => Silent(l)'
        BY <1>0, <1>1, <1>5, <2>1, <2>2, <3>3 DEF Ends
      <4>2. q.op = "others" /\ l \notin torn /\ ~Silent(l)' => l \in q.kept \cup {q.cur}
        BY <1>1, <1>5, <2>1, <2>2 DEF Ends, Revokes
      <4> QED BY <1>2, <1>5, <3>3, <4>1, <4>2 DEF Ends, Revokes
    <3> QED BY <1>1, <1>5, <3>1, <3>2, <3>3
  <2>5. At(q, l)' => At(h[r], l)
    BY <1>0, <1>1, <1>2, <1>5 DEF At, Claiming, Exchange, Storing
  <2> QED BY <2>3, <2>4, <2>5
<1>8. \A c \in Clients : hold'[c] \in {hold[c], None} BY <1>2
<1> QED BY <1>1, <1>2, <1>3, <1>4, <1>6, <1>7, <1>8, BesideTidy DEF Storing

\* The predecessor was not live, and its rotation is no longer pending.
LEMMA DropPredecessorTidy ==
  ASSUME IInv, Aligned, Orderly, Tidy, NEW r \in Slots, DropPredecessor(r)
  PROVE  Tidy'
<1>0. PICK q, tok, mate, own, old :
        /\ tok = h[r].tok /\ mate = h[r].mate /\ own = line[h[r].mate] /\ old = h[r].old
        /\ q = [h[r] EXCEPT !.pc = AfterRevoke(h[r]), !.old = None]
  OBVIOUS
<1>1. /\ h[r] \in ReqType /\ ReqOK(h[r]) /\ Runs(h[r]) /\ ReqLine(h[r]) /\ h[r].pc = "settle"
      /\ h[r].op \in {"refresh", "logout", "revoke", "others"} /\ rot \in Links /\ sid \in Links
  BY Known DEF DropPredecessor, Runs, Revokes, TypeOK
<1>2. /\ h' = [h EXCEPT ![r] = q] /\ rot' = [rot EXCEPT ![old] = None]
      /\ sid' = [sid EXCEPT ![old] = None] /\ refIdx' = refIdx \ {old}
      /\ UNCHANGED <<rt, at, prev, dev, devs, line, next, out, stirred, torn, hold>>
  BY <1>0 DEF DropPredecessor, notes
<1>3. /\ mate \in Minted /\ own \in Roots /\ On(r, own)
      /\ old \in Pairs /\ old < mate /\ line[old] = own
  BY <1>0, <1>1, MateTouches DEF ReqLine, On
<1>4. Beside(own) BY <1>1, <1>2, <1>3 DEF Beside, Links
<1>5. /\ q.op = h[r].op /\ q.tok = tok /\ q.id = h[r].id
      /\ q.kept = h[r].kept /\ q.cur = h[r].cur
      /\ q.pc = IF q.op = "refresh" THEN "record" ELSE "end"
  BY <1>0, <1>1 DEF ReqType, AfterRevoke
<1>6. ASSUME own \in Roots \ stirred, NEW p \in Pairs, line[p] = own
      PROVE  (p \in rt' => p \in rt) /\ (Usable(p)' => Usable(p) /\ sid'[p] = sid[p])
  <2>1. old \notin rt
    <3>1. old \in rt => Newest(old) BY <1>3, <1>6 DEF Orderly, InOrder, Chain
    <3> QED BY <1>0, <1>3, <3>1 DEF Newest, Minted, Pairs
  <2>2. Usable(p)' => p # old BY <1>1, <1>2, <1>3, <2>1 DEF Usable, Links
  <2> QED BY <1>1, <1>2, <2>2 DEF Usable, Links
<1>7. ASSUME NEW l \in Roots \ stirred
      PROVE  Carries(q, l)' /\ Ends(q, l)' /\ (l \in out \ torn => (At(q, l)' => At(h[r], l)))
  <2>1. Carries(h[r], l) /\ Ends(h[r], l) /\ InOrder(l) BY <1>7 DEF Tidy, Shown, Orderly
  <2>2. Silent(l) <=> Silent(l)' BY <1>2 DEF Silent
  <2>3. Carries(q, l)'
    <3>1. ASSUME q.op = "refresh", line[tok] = l PROVE sid'[tok] = l
      <4>1. sid[tok] = l BY <1>0, <1>1, <1>5, <2>1, <3>1 DEF Carries, Exchange
      <4>2. Exchanges(h[r], l) BY <1>0, <1>5, <2>1, <3>1 DEF InOrder, Bound
      <4>3. mate = tok BY <1>0, <1>1, <4>2 DEF Exchanges
      <4>4. tok # old /\ tok \in Pairs BY <1>3, <4>3 DEF Minted, Pairs
      <4> QED BY <1>1, <1>2, <4>1, <4>4 DEF Links
    <3> QED BY <1>2, <1>5, <3>1 DEF Carries
  <2>4. Ends(q, l)'
    <3>1. CASE q.op = "refresh" BY <3>1 DEF Ends
    <3>2. CASE q.op = "logout"
      <4>1. q.id = l => line[tok] = l BY <1>0, <1>5, <2>1, <3>2 DEF Ends
      <4>2. line[tok] = l => Silent(l)'
        BY <1>0, <1>1, <1>5, <2>1, <2>2, <3>2 DEF Ends
      <4> QED BY <1>2, <1>5, <3>2, <4>1, <4>2 DEF Ends
    <3>3. CASE q.op \in {"revoke", "others"}
      <4>1. q.id = l /\ l \notin torn => Silent(l)'
        BY <1>0, <1>1, <1>5, <2>1, <2>2, <3>3 DEF Ends
      <4>2. q.op = "others" /\ l \notin torn /\ ~Silent(l)' => l \in q.kept \cup {q.cur}
        BY <1>1, <1>5, <2>1, <2>2 DEF Ends, Revokes
      <4> QED BY <1>2, <1>5, <3>3, <4>1, <4>2 DEF Ends, Revokes
    <3> QED BY <1>1, <1>5, <3>1, <3>2, <3>3
  <2>5. At(q, l)' => At(h[r], l)
    BY <1>0, <1>1, <1>2, <1>5 DEF At, Claiming, Exchange, Storing
  <2> QED BY <2>3, <2>4, <2>5
<1>8. \A c \in Clients : hold'[c] \in {hold[c], None} BY <1>2
<1> QED BY <1>1, <1>2, <1>3, <1>4, <1>6, <1>7, <1>8, BesideTidy DEF Storing

-----------------------------------------------------------------------------
(* The steps that mint a pair, store it or hand it out.                    *)

\* The lines such a step does not work on.
LEMMA BesideShown ==
  ASSUME IInv, Aligned, NEW r \in Slots, NEW q, h' = [h EXCEPT ![r] = q],
         NEW l \in Roots \ stirred, Shown(l), Still(l), Far(h[r], l), Far(q, l)', Ends(q, l)',
         dev'[l] = dev[l], l \in devs => l \in devs', l \in torn => l \in torn',
         l \in out' => l \in out,
         \A c \in Clients : hold'[c] \in {hold[c], None} \/ line'[hold'[c]] # l
  PROVE  Shown(l)'
<1>1. \A p \in Pairs : line[p] = l =>
        (p \in rt' <=> p \in rt) /\ rot'[p] = rot[p] /\ sid'[p] = sid[p]
  BY DEF Still
<1>2. Carries(q, l)' /\ ~At(q, l)'
  BY DEF Far, Carries, At, Claiming, Storing
<1>3. ~(h[r].pc \in Storing /\ line[h[r].new] = l) BY DEF Far
<1>4. \A p \in Pairs : line'[p] = l <=> line[p] = l BY DEF Still
<1>5. Takes(r, q, l) BY <1>1, <1>2, <1>3, <1>4 DEF Takes, Usable
<1> QED BY <1>5, TakesShown

\* On the line such a request works on nobody else does.
LEMMA OthersAway ==
  ASSUME IInv, Aligned, NEW r \in Slots, NEW q, h' = [h EXCEPT ![r] = q],
         \A p \in Minted : line'[p] = line[p],
         NEW l \in Roots \ stirred, Shown(l), l \in Touched(h[r]), h[r].op \in Creators
  PROVE  \A s \in Slots : s # r => Carries(h[s], l)' /\ Ends(h[s], l)' /\ ~At(h[s], l)'
<1> SUFFICES ASSUME NEW s \in Slots, s # r
             PROVE  Carries(h[s], l)' /\ Ends(h[s], l)' /\ ~At(h[s], l)'
  OBVIOUS
<1>0. PICK u : u = h[s] OBVIOUS
<1>1. h'[s] = u BY <1>0, OtherSlots
<1>2. issued \subseteq Minted BY LinesAreRoots
<1>3. Far(h[s], l)' BY <1>2, MintsAlonePrimed
<1>4. Far(u, l)' BY <1>1, <1>3 DEF Far
<1>5. Carries(u, l)' /\ ~At(u, l)' BY <1>4 DEF Far, Carries, At, Claiming, Storing
<1>6. l \notin Touched(u) \/ u.pc = "idle" BY <1>0 DEF Aligned, Meets
<1>7. Runs(u) /\ ReqLine(u) /\ Ends(u, l) /\ l \in Pairs
  BY <1>0, Known DEF Shown, Roots, Minted
<1>8. Ends(u, l)'
  <2>1. u.op \notin {"list", "others"} BY <1>6, <1>7 DEF Touched, Runs
  <2>2. u.op = "logout" => line'[u.tok] # l /\ u.id # l
    BY <1>2, <1>6, <1>7 DEF Touched, Runs, ReqLine, Ends
  <2>3. u.op = "revoke" /\ u.pc \in {"get", "del", "drop", "settle", "end"} => u.id # l
    BY <1>6, <1>7 DEF Touched, Runs, ReqLine, Revokes
  <2>4. u.op = "revoke" => u.pc \notin {"exists", "forget"} BY <1>7 DEF Runs
  <2> QED BY <2>1, <2>2, <2>3, <2>4 DEF Ends
<1> QED BY <1>1, <1>5, <1>8

LEMMA OwnShown ==
  ASSUME IInv, Aligned, NEW r \in Slots, NEW q, h' = [h EXCEPT ![r] = q],
         \A p \in Minted : line'[p] = line[p],
         NEW l \in Roots \ stirred, Shown(l), l \in Touched(h[r]), h[r].op \in Creators,
         Listed(l)', Carried(l)', l \notin out' \ torn', Carries(q, l)', Ends(q, l)'
  PROVE  Shown(l)'
<1>1. \A s \in Slots : s # r => Carries(h[s], l)' /\ Ends(h[s], l)' BY OthersAway
<1>2. Carries(h[r], l)' /\ Ends(h[r], l)'
  <2>1. h'[r] = q BY OtherSlots
  <2> QED BY <2>1
<1>3. Gone(l)' BY DEF Gone
<1> QED BY <1>1, <1>2, <1>3 DEF Shown

\* A line signed out is not exchanged, nor is anything stored of it.
LEMMA NotGone ==
  ASSUME IInv, NEW r \in Slots, NEW l, Gone(l), At(h[r], l)
  PROVE  l \notin out \ torn
BY AtLine DEF Gone

\* The device holds the token exchanged, and that has its device session.
LEMMA RecordTidy == ASSUME IInv, Aligned, Tidy, NEW r \in Slots, Record(r) PROVE Tidy'
<1>0. PICK q, tok, own, new :
        /\ tok = h[r].tok /\ own = line[h[r].tok] /\ new = next
        /\ q = [h[r] EXCEPT !.pc = "create", !.new = next, !.mate = None]
  OBVIOUS
<1>1. /\ h[r] \in ReqType /\ ReqLine(h[r]) /\ TypeOK /\ Store /\ Lined
      /\ h[r].pc = "record" /\ h[r].op = "refresh"
  BY Known DEF Record, ReqOK
<1>2. /\ h' = [h EXCEPT ![r] = q] /\ rot' = [rot EXCEPT ![tok] = next]
      /\ next' = next + 1 /\ line' = [line EXCEPT ![next] = own]
      /\ prev' = [prev EXCEPT ![next] = tok]
      /\ UNCHANGED <<rt, at, sid, refIdx, dev, devs, out, stirred, torn, hold>>
  BY <1>0 DEF Record
<1>3. /\ tok \in Minted /\ own \in Roots /\ own \in Touched(h[r]) /\ h[r].op \in Creators
      /\ tok \in issued /\ issued \subseteq Minted
  BY <1>0, <1>1, RefreshTouches, LinesAreRoots
<1>4. next \in Pairs BY <1>1, SessionsAssumption DEF Record, TypeOK, Pairs
<1>5. /\ Minted' = Minted \cup {next} /\ next \notin Minted
      /\ line'[next] = own /\ Roots' = Roots
      /\ \A p \in Minted : line'[p] = line[p]
  <2>1. own # next BY <1>3, <1>4 DEF Roots, Minted, Pairs
  <2> QED BY <1>1, <1>2, <1>3, <1>4, <2>1, Grows
<1>6. q.op = "refresh" /\ q.pc = "create" /\ q.new = new /\ q.tok = tok
  BY <1>0, <1>1 DEF ReqType
<1>7. \A l : Ends(q, l)' BY <1>6 DEF Ends
<1>8. ASSUME NEW l \in Roots \ stirred, l # own PROVE Shown(l)'
  <2>1. \A p \in Pairs : line[p] = l => p # tok /\ p # next
    <3>1. line[next] = None BY <1>1, <1>4, <1>5 DEF Lined
    <3> QED BY <1>0, <1>8, <3>1 DEF Roots, Minted, Pairs, None
  <2>2. Still(l) BY <1>1, <1>2, <1>3, <1>4, <1>8, <2>1, StillGrows DEF TypeOK, Links
  <2>3. Far(h[r], l) BY <1>0, <1>1, <1>8 DEF Far, Storing
  <2>4. Far(q, l)' BY <1>0, <1>3, <1>5, <1>6, <1>8 DEF Far, Storing
  <2>5. Shown(l) BY <1>8 DEF Tidy
  <2>6. \A c \in Clients : hold'[c] \in {hold[c], None} \/ line'[hold'[c]] # l BY <1>2
  <2> QED BY <1>2, <1>7, <2>2, <2>3, <2>4, <2>5, <2>6, BesideShown
<1>9. ASSUME own \in Roots \ stirred PROVE Shown(own)'
  <2>1. Shown(own) BY <1>9 DEF Tidy
  <2>2. sid[tok] = own BY <1>0, <1>1, <2>1 DEF Shown, Carries, Exchange
  <2>3. h'[r] = q BY <1>2, OtherSlots
  <2>4. Listed(own)'
    <3>1. StoringOn(own)' BY <1>0, <1>5, <1>6, <2>3 DEF StoringOn, Storing
    <3> QED BY <3>1 DEF Listed
  <2>5. Carried(own)'
    <3>1. ASSUME NEW c \in Clients, hold[c] # None, line'[hold[c]] = own
          PROVE  sid[hold[c]] = own
      <4>1. line[hold[c]] = own BY <1>3, <1>5, <3>1, HeldIssued
      <4>2. hold[c] = tok BY <1>0, <1>1, <1>9, <3>1, <4>1 DEF Aligned, Holders
      <4> QED BY <2>2, <4>2
    <3> QED BY <1>2, <3>1 DEF Carried, Usable
  <2>6. own \notin out' \ torn'
    <3>1. At(h[r], own) BY <1>0, <1>1 DEF At, Claiming, Exchange
    <3> QED BY <1>2, <2>1, <3>1, NotGone DEF Shown
  <2>7. Carries(q, own)' BY <1>2, <1>6, <2>2 DEF Carries
  <2> QED BY <1>2, <1>3, <1>5, <1>7, <1>9, <2>1, <2>4, <2>5, <2>6, <2>7, OwnShown
<1> QED BY <1>2, <1>5, <1>8, <1>9 DEF Tidy

LEMMA CreateAuthTidy == ASSUME IInv, Aligned, Tidy, NEW r \in Slots, CreateAuth(r) PROVE Tidy'
<1>0. PICK q, new, tok, own :
        /\ new = h[r].new /\ tok = h[r].tok /\ own = line[h[r].new]
        /\ q = IF h[r].op = "refresh" THEN [h[r] EXCEPT !.pc = "carry"]
               ELSE [h[r] EXCEPT !.pc = "write", !.id = new]
  OBVIOUS
<1>1. /\ h[r] \in ReqType /\ Runs(h[r]) /\ ReqLine(h[r]) /\ SlotOK(h[r]) /\ h[r].pc = "create"
  BY Known DEF CreateAuth
<1>2. /\ h' = [h EXCEPT ![r] = q]
      /\ rt' = rt \cup {new} /\ at' = at \cup {new} /\ refIdx' = refIdx \cup {new}
      /\ UNCHANGED <<rot, prev, sid, dev, devs, line, next, out, stirred, torn, hold>>
  BY <1>0 DEF CreateAuth
<1>3. /\ new \in Minted /\ own \in Roots /\ own \in Touched(h[r]) /\ h[r].op \in Creators
  BY <1>0, <1>1, StorerTouches DEF Storing
<1>4. /\ q.op = h[r].op /\ q.new = new /\ q.tok = tok
      /\ q.pc = IF q.op = "refresh" THEN "carry" ELSE "write"
      /\ q.op # "refresh" => q.id = new
      /\ q.op = "refresh" => line[tok] = own
      /\ q.op # "refresh" => own = new
      /\ new \notin issued
  BY <1>0, <1>1 DEF ReqType, ReqLine, Storing, SlotOK
<1>5. Minted' = Minted /\ Roots' = Roots BY <1>2 DEF Minted, Roots
<1>6. \A l : Ends(q, l)' BY <1>3, <1>4 DEF Ends, Creators
<1>7. ASSUME NEW l \in Roots \ stirred, l # own PROVE Shown(l)'
  <2>1. Still(l) BY <1>0, <1>2, <1>5, <1>7 DEF Still
  <2>2. Far(h[r], l) BY <1>0, <1>1, <1>4, <1>7 DEF Far, Storing
  <2>3. Far(q, l)' BY <1>0, <1>2, <1>4, <1>7 DEF Far, Storing
  <2>4. Shown(l) BY <1>7 DEF Tidy
  <2>5. \A c \in Clients : hold'[c] \in {hold[c], None} \/ line'[hold'[c]] # l BY <1>2
  <2> QED BY <1>2, <1>6, <1>7, <2>1, <2>2, <2>3, <2>4, <2>5, BesideShown
<1>8. ASSUME own \in Roots \ stirred PROVE Shown(own)'
  <2>1. Shown(own) BY <1>8 DEF Tidy
  <2>2. h'[r] = q BY <1>2, OtherSlots
  <2>3. Listed(own)'
    <3>1. StoringOn(own)' BY <1>0, <1>2, <1>4, <2>2 DEF StoringOn, Storing
    <3> QED BY <3>1 DEF Listed
  <2>4. Carried(own)'
    <3>1. \A c \in Clients : hold[c] # None => hold[c] # new BY <1>4, HeldIssued
    <3> QED BY <1>2, <2>1, <3>1 DEF Shown, Carried, Usable
  <2>5. own \notin out' \ torn'
    <3>1. At(h[r], own) BY <1>0, <1>1 DEF At, Storing
    <3> QED BY <1>2, <2>1, <3>1, NotGone DEF Shown
  <2>6. Carries(q, own)'
    <3>1. q.op = "refresh" => sid[tok] = own
      BY <1>0, <1>1, <1>4, <2>1 DEF Shown, Carries, Storing
    <3> QED BY <1>2, <1>4, <3>1 DEF Carries
  <2> QED BY <1>2, <1>3, <1>6, <1>8, <2>1, <2>3, <2>4, <2>5, <2>6, OwnShown
<1> QED BY <1>2, <1>5, <1>7, <1>8 DEF Tidy

\* The list shows the pair the device is answered, the one live pair of its line.
LEMMA WriteSessionTidy ==
  ASSUME IInv, Aligned, Orderly, Tidy, NEW r \in Slots, WriteSession(r)
  PROVE  Tidy'
<1>0. PICK new, own, id : new = h[r].new /\ own = line[h[r].new] /\ id = h[r].id OBVIOUS
<1>1. /\ h[r] \in ReqType /\ ReqOK(h[r]) /\ Runs(h[r]) /\ ReqLine(h[r]) /\ Store /\ TypeOK
      /\ h[r].pc = "write"
  BY Known DEF WriteSession
<1>2. /\ h' = [h EXCEPT ![r] = IdleReq] /\ torn' = torn \ ({own} \ out)
      /\ sid' = [sid EXCEPT ![new] = id] /\ dev' = [dev EXCEPT ![id] = new]
      /\ devs' = devs \cup {id}
      /\ UNCHANGED <<rt, at, rot, prev, refIdx, line, next, stirred, out>>
  BY <1>0 DEF WriteSession, Answer
<1>3. /\ new \in Minted /\ own \in Roots /\ own \in Touched(h[r]) /\ h[r].op \in Creators
      /\ id \in Minted /\ line[id] = own
  BY <1>0, <1>1, StorerTouches DEF Storing, ReqLine
<1>4. \A c \in Clients : hold'[c] = hold[c] \/ hold'[c] = new
  BY <1>0, <1>1 DEF WriteSession, Answer, TypeOK
<1>5. Minted' = Minted /\ Roots' = Roots BY <1>2 DEF Minted, Roots
<1>6. \A l : Ends(IdleReq, l)' /\ Carries(IdleReq, l)'
  BY DEF Ends, Carries, IdleReq
<1>7. ASSUME NEW l \in Roots \ stirred, l # own PROVE Shown(l)'
  <2>1. \A p \in Pairs : line[p] = l => p # new BY <1>0, <1>7
  <2>2. Still(l) BY <1>1, <1>2, <1>5, <2>1 DEF Still, TypeOK, Links
  <2>3. Far(h[r], l)
    <3>1. h[r].op = "refresh" => line[h[r].tok] = own BY <1>0, <1>1 DEF ReqLine, Storing
    <3> QED BY <1>0, <1>1, <1>7, <3>1 DEF Far, Storing
  <2>4. Far(IdleReq, l)' BY DEF Far, IdleReq, Storing
  <2>5. Shown(l) /\ l \in Pairs BY <1>7 DEF Tidy, Roots, Minted
  <2>6. id # l BY <1>3, <1>7 DEF Roots
  <2>7. dev'[l] = dev[l] /\ (l \in devs => l \in devs') /\ (l \in torn => l \in torn')
    BY <1>1, <1>2, <1>7, <2>5, <2>6 DEF TypeOK, Links
  <2>8. \A c \in Clients : hold'[c] \in {hold[c], None} \/ line'[hold'[c]] # l
    BY <1>0, <1>2, <1>4, <1>7
  <2> QED BY <1>2, <1>6, <1>7, <2>2, <2>3, <2>4, <2>5, <2>7, <2>8, BesideShown
<1>8. ASSUME own \in Roots \ stirred PROVE Shown(own)'
  <2>1. Shown(own) /\ InOrder(own) BY <1>8 DEF Tidy, Orderly
  <2>2. id = own BY <1>0, <1>1, <2>1 DEF Shown, Carries
  <2>3. Listed(own)'
    <3>1. Newest(new) /\ new \in rt BY <1>0, <1>1, <2>1 DEF InOrder, Bound, Storing
    <3>2. \A p \in Pairs : line[p] = own /\ p \in rt => p = new
      <4>1. \A p \in Pairs : line[p] = own /\ p \in rt => p \in Minted /\ Newest(p)
        BY <1>1, <2>1, LinesAreRoots DEF InOrder, Chain, Store
      <4> QED BY <1>0, <1>3, <3>1, <4>1, OneNewest
    <3>3. dev'[own] = new /\ own \in devs' BY <1>1, <1>2, <1>3, <2>2 DEF TypeOK, Links, Minted
    <3> QED BY <1>2, <3>2, <3>3 DEF Listed
  <2>4. Carried(own)'
    <3>1. sid'[new] = own BY <1>1, <1>2, <1>3, <2>2 DEF TypeOK, Links, Minted
    <3>2. ASSUME NEW c \in Clients, NEW p, p = hold[c], p # None, line[p] = own, Usable(p), p # new
          PROVE  sid'[p] = own
      <4>1. sid[p] = own BY <2>1, <3>2 DEF Shown, Carried
      <4>2. p \in Pairs BY <3>2, HeldIssued, LinesAreRoots DEF Minted
      <4> QED BY <1>1, <1>2, <3>2, <4>1, <4>2 DEF TypeOK, Links
    <3>3. ASSUME NEW c \in Clients, NEW p, p = hold'[c], p # None, line'[p] = own, Usable(p)'
          PROVE  sid'[p] = own
      <4>1. line[p] = own /\ Usable(p) BY <1>2, <3>3 DEF Usable
      <4> QED BY <1>4, <3>1, <3>2, <3>3, <4>1
    <3> QED BY <3>3 DEF Carried, Usable
  <2>5. own \notin out' \ torn'
    <3>1. At(h[r], own) BY <1>0, <1>1 DEF At, Storing
    <3>2. own \notin out \ torn BY <2>1, <3>1, NotGone DEF Shown
    <3> QED BY <1>2, <3>2
  <2> QED BY <1>2, <1>3, <1>6, <1>8, <2>1, <2>3, <2>4, <2>5, OwnShown
<1> QED BY <1>2, <1>5, <1>7, <1>8 DEF Tidy

-----------------------------------------------------------------------------
(* The steps that open a line.                                             *)

\* A line of which nothing is left.
LEMMA SilentShown ==
  ASSUME IInv, Aligned, NEW r \in Slots, NEW q, h' = [h EXCEPT ![r] = q],
         \A p \in Minted : line'[p] = line[p],
         NEW l \in Roots \ stirred, Shown(l), l \in Touched(h[r]), h[r].pc # "idle",
         \A p \in Pairs : line'[p] = l => p \notin rt' /\ rot'[p] = None,
         hold' = hold, torn' = torn, Far(q, l)', q.op # "logout"
  PROVE  Shown(l)'
<1>1. h'[r] = q /\ \A s \in Slots : s # r => h'[s] = h[s] BY OtherSlots
<1>2. issued \subseteq Minted BY LinesAreRoots
<1>3. Silent(l)' /\ \A m : Only(l, m)' BY DEF Silent, Only
<1>4. Carries(q, l)' /\ ~At(q, l)' BY DEF Far, Carries, At, Claiming, Storing
<1>5. Ends(q, l)' BY <1>3 DEF Ends
<1>6. ASSUME NEW s \in Slots, s # r
      PROVE  Carries(h[s], l)' /\ Ends(h[s], l)' /\ ~At(h[s], l)'
  <2>0. PICK u : u = h[s] OBVIOUS
  <2>1. Runs(u) /\ ReqLine(u) /\ Ends(u, l) /\ h'[s] = u
    BY <1>1, <1>6, <2>0, Known DEF Shown
  <2>2. CASE u.op \in Creators
    <3>1. Far(u, l) BY <1>6, <2>0, <2>2, NoneMints
    <3>2. Far(u, l)' BY <1>2, <2>1, <3>1, FarGrows
    <3> QED BY <2>1, <2>2, <3>2 DEF Far, Carries, At, Claiming, Storing, Ends, Creators
  <2>3. CASE u.op \notin Creators
    <3>1. u.op # "refresh" /\ u.pc \notin Storing BY <2>1, <2>3 DEF Runs, Creators
    <3>2. u.op = "logout" => line'[u.tok] = line[u.tok] BY <1>2, <2>1 DEF ReqLine
    <3>3. Ends(u, l)' BY <1>3, <2>1, <3>2 DEF Ends
    <3> QED BY <2>1, <3>1, <3>3 DEF Carries, At, Claiming, Storing
  <2> QED BY <2>2, <2>3
<1>7. Listed(l)' BY DEF Listed
<1>8. Carried(l)'
  <2>1. \A c \in Clients : hold[c] # None => hold[c] \in Pairs
    BY <1>2, HeldIssued DEF Minted
  <2> QED BY <2>1 DEF Carried, Usable
<1>9. \A s \in Slots : Carries(h[s], l)' /\ Ends(h[s], l)' /\ ~At(h[s], l)'
  BY <1>1, <1>4, <1>5, <1>6
<1>10. Gone(l)' BY <1>3, <1>9 DEF Gone, StoringOn, ClaimingOn, At
<1> QED BY <1>7, <1>8, <1>9, <1>10 DEF Shown

\* A line just opened.
LEMMA OpenedShown ==
  ASSUME IInv, Aligned, NEW new \in Pairs, new = next, next' = next + 1,
         line' = [line EXCEPT ![next] = next], rt' \subseteq rt, hold' = hold,
         out' \subseteq out \cup Lines,
         NEW r \in Slots, NEW q, h' = [h EXCEPT ![r] = q],
         q.pc = "create" /\ q.op \in {"login", "password"} /\ q.new = new,
         \A s \in Slots : s # r => Far(h[s], new)'
  PROVE  Shown(new)'
<1>1. TypeOK /\ Store /\ Lined BY DEF IInv, Aligned
<1>2. /\ Minted' = Minted \cup {new} /\ new \notin Minted /\ line'[new] = new
      /\ issued \subseteq Minted /\ Lines \subseteq Roots
      /\ \A p \in Minted : line'[p] = line[p]
  BY <1>1, Grows, LinesAreRoots
<1>3. h'[r] = q /\ \A s \in Slots : s # r => h'[s] = h[s] BY OtherSlots
<1>4. \A p \in Minted : line'[p] # new BY <1>1, <1>2 DEF Lined, Roots
<1>5. Silent(new)' /\ \A m : Only(new, m)'
  <2>1. \A p \in rt' : p \in Minted BY <1>1, <1>2 DEF Store
  <2> QED BY <1>4, <2>1 DEF Silent, Only
<1>6. Listed(new)' BY <1>5 DEF Listed, Silent
<1>7. Carried(new)'
  <2>1. \A c \in Clients : hold[c] # None => hold[c] \in Minted BY <1>2, HeldIssued
  <2> QED BY <1>4, <2>1 DEF Carried
<1>8. Gone(new)'
  <2>1. new \notin out' BY <1>1, <1>2 DEF Lined, Roots
  <2> QED BY <2>1 DEF Gone
<1>9. ASSUME NEW s \in Slots, s # r PROVE Carries(h[s], new)' /\ Ends(h[s], new)'
  <2>0. PICK u : u = h[s] OBVIOUS
  <2>1. h'[s] = u /\ ReqLine(u) BY <1>3, <1>9, <2>0, Known
  <2>2. Far(h[s], new)' BY <1>9
  <2>3. Far(u, new)' BY <2>1, <2>2 DEF Far
  <2>4. Carries(u, new)' BY <2>3 DEF Far, Carries, Storing
  <2>5. u.op = "logout" => u.id # new /\ line'[u.tok] # new
    <3>1. new # None BY DEF Pairs, None
    <3> QED BY <1>2, <1>4, <2>1, <3>1 DEF ReqLine
  <2>6. Ends(u, new)' BY <1>5, <2>5 DEF Ends
  <2> QED BY <2>1, <2>4, <2>6
<1>10. Carries(h[r], new)' /\ Ends(h[r], new)'
  <2>1. Carries(q, new)' /\ Ends(q, new)' BY DEF Carries, Ends
  <2> QED BY <1>3, <2>1
<1> QED BY <1>6, <1>7, <1>8, <1>9, <1>10 DEF Shown

LEMMA LoginTidy ==
  ASSUME IInv, Aligned, Tidy, NEW r \in Slots, NEW c \in Clients, Login(r, c)
  PROVE  Tidy'
<1>1. PICK q, new : /\ q = [Req("login", c, "create", None) EXCEPT !.new = next]
                    /\ new = next
  OBVIOUS
<1>2. q.op = "login" /\ q.cl = c /\ q.pc = "create" /\ q.new = new
  BY <1>1 DEF Req, IdleReq
<1>3. /\ Arrive(r, q) /\ h' = [h EXCEPT ![r] = q] /\ h[r].pc = "idle" /\ Spare
      /\ UNCHANGED <<rt, at, rot, prev, sid, refIdx, dev, devs, out, torn, hold>>
      /\ next' = next + 1 /\ line' = [line EXCEPT ![next] = next]
      /\ stirred' = stirred \cup Overlap(q, InFlight)
  BY <1>1, <1>2 DEF Login, Arrive, redis, Creators
<1>4. TypeOK /\ Store /\ Lined BY DEF IInv, Aligned
<1>5. next \in Pairs BY <1>3, <1>4, SpareLeavesOne
<1>6. /\ Minted' = Minted \cup {next} /\ next \notin Minted /\ issued \subseteq Minted
      /\ line'[next] = next /\ \A p \in Minted : line'[p] = line[p]
      /\ Roots' = Roots \cup {next}
  BY <1>3, <1>4, <1>5, Grows
<1>7. ASSUME NEW l \in Roots \ stirred PROVE Shown(l)'
  <2>1. l # next BY <1>6, <1>7 DEF Roots
  <2>2. Still(l) BY <1>3, <1>5, <1>7, <2>1, StillGrows
  <2>3. Far(h[r], l) BY <1>3, <1>7, FarUnlessTouched
  <2>4. Far(q, l)' BY <1>1, <1>2, <1>6, <2>1 DEF Far, Storing
  <2>5. Shown(l) BY <1>7 DEF Tidy
  <2>6. Ends(q, l)' BY <1>2 DEF Ends
  <2>7. \A d \in Clients : hold'[d] \in {hold[d], None} \/ line'[hold'[d]] # l BY <1>3
  <2> QED BY <1>3, <1>7, <2>2, <2>3, <2>4, <2>5, <2>6, <2>7, BesideShown
<1>8. ASSUME new \notin stirred' PROVE Shown(new)'
  <2>1. ASSUME NEW s \in Slots, s # r PROVE Far(h[s], new)'
    <3>0. PICK u : u = h[s] OBVIOUS
    <3>1. u.pc \notin {"devices", "wipe"}
      <4> SUFFICES ASSUME u.pc \in {"devices", "wipe"} PROVE FALSE
        OBVIOUS
      <4>1. u.op \in {"password", "delete"} BY <3>0, Known DEF Runs
      <4>2. new \in Touched(u) \cap Touched(q) BY <1>1, <1>2, <1>5, <4>1 DEF Touched
      <4>3. s \in InFlight /\ q.op \in Creators /\ next \in 1..next
        BY <1>2, <1>5, <3>0 DEF InFlight, Creators, Pairs
      <4>4. new \in Overlap(q, InFlight) BY <1>1, <1>5, <3>0, <4>2, <4>3 DEF Overlap
      <4> QED BY <1>3, <1>8, <4>4
    <3>2. ReqLine(u) BY <3>0, Known
    <3>3. Far(u, new)' BY <1>1, <1>4, <1>6, <3>1, <3>2, NewFar
    <3>4. h'[s] = u BY <1>3, <2>1, <3>0, OtherSlots
    <3> QED BY <3>3, <3>4
  <2> QED BY <1>1, <1>2, <1>3, <1>5, <2>1, OpenedShown
<1> QED BY <1>1, <1>3, <1>6, <1>7, <1>8 DEF Tidy

\* Of the lines there were nothing is left.
LEMMA RevokeAllSessionsTidy ==
  ASSUME IInv, Aligned, Orderly, Tidy, NEW r \in Slots, RevokeAllSessions(r)
  PROVE  Tidy'
<1>0. PICK refs : refs = h[r].refs OBVIOUS
<1>1. /\ h[r] \in ReqType /\ ReqOK(h[r]) /\ Runs(h[r]) /\ ReqLine(h[r])
      /\ TypeOK /\ Store /\ Lined /\ h[r].pc = "wipe" /\ h[r].op \in {"password", "delete"}
  BY Known DEF RevokeAllSessions, Runs
<1>2. /\ rt' = rt \ refs /\ rot' = [p \in Pairs |-> IF p \in refs THEN None ELSE rot[p]]
      /\ torn' = torn /\ hold' = hold /\ out' = out \cup Lines
  BY <1>0 DEF RevokeAllSessions, Wiped
<1>3. ASSUME NEW l \in Roots \ stirred
      PROVE  \A p \in Pairs : line[p] = l => p \notin rt' /\ rot'[p] = None
  <2>1. Bound(h[r], l) BY <1>3 DEF Orderly, InOrder
  <2>2. \A p \in Pairs : line[p] = l /\ Usable(p) => p \in refs
    BY <1>0, <1>1, <2>1 DEF Bound
  <2> QED BY <1>2, <2>2 DEF Usable
<1>4. \A l \in Roots : l \in Touched(h[r])
  BY <1>1 DEF Touched, Roots, Minted
<1>5. CASE h[r].op = "password"
  <2>0. PICK q, new : q = [h[r] EXCEPT !.pc = "create", !.new = next] /\ new = next OBVIOUS
  <2>1. /\ h' = [h EXCEPT ![r] = q] /\ next' = next + 1 /\ line' = [line EXCEPT ![next] = next]
        /\ stirred' = stirred \cup (IF InFlight \ {r} # {} THEN {next} ELSE {})
    BY <1>5, <2>0 DEF RevokeAllSessions
  <2>2. next \in Pairs BY <1>1, <1>5, SessionsAssumption DEF RevokeAllSessions, TypeOK, Pairs
  <2>3. /\ Minted' = Minted \cup {next} /\ next \notin Minted /\ issued \subseteq Minted
        /\ line'[next] = next /\ Roots' = Roots \cup {next}
        /\ \A p \in Minted : line'[p] = line[p]
        /\ \A p \in Pairs : p # next => line'[p] = line[p]
    BY <1>1, <2>1, <2>2, Grows
  <2>4. q.pc = "create" /\ q.op = "password" /\ q.new = new
    BY <1>1, <1>5, <2>0 DEF ReqType
  <2>5. ASSUME NEW l \in Roots \ stirred PROVE Shown(l)'
    <3>1. l # next BY <2>3, <2>5 DEF Roots
    <3>2. \A p \in Pairs : line'[p] = l => p \notin rt' /\ rot'[p] = None
      BY <1>3, <2>3, <2>5, <3>1
    <3>3. Far(q, l)' BY <2>0, <2>3, <2>4, <3>1 DEF Far, Storing
    <3>4. Shown(l) BY <2>5 DEF Tidy
    <3> QED BY <1>1, <1>2, <1>4, <2>1, <2>3, <2>4, <2>5, <3>2, <3>3, <3>4, SilentShown
  <2>6. ASSUME new \notin stirred' PROVE Shown(new)'
    <3>1. ASSUME NEW s \in Slots, s # r PROVE Far(h[s], new)'
      <4>0. PICK u : u = h[s] OBVIOUS
      <4>1. u.pc = "idle" BY <2>0, <2>1, <2>6, <3>1, <4>0 DEF InFlight
      <4>2. ReqLine(u) BY <4>0, Known
      <4>3. Far(u, new)' BY <1>1, <2>0, <2>3, <4>1, <4>2, NewFar
      <4>4. h'[s] = u BY <2>1, <3>1, <4>0, OtherSlots
      <4> QED BY <4>3, <4>4
    <3> QED BY <1>2, <2>0, <2>1, <2>2, <2>4, <3>1, OpenedShown
  <2>7. stirred \subseteq stirred' BY <2>1
  <2> QED BY <2>0, <2>3, <2>5, <2>6, <2>7 DEF Tidy
<1>6. CASE h[r].op # "password"
  <2>0. PICK q : q = [h[r] EXCEPT !.pc = "erase"] OBVIOUS
  <2>1. h' = [h EXCEPT ![r] = q] /\ UNCHANGED <<next, line, stirred>>
    BY <1>6, <2>0 DEF RevokeAllSessions
  <2>2. Roots' = Roots BY <2>1 DEF Roots, Minted
  <2>3. q.pc = "erase" /\ q.op = "delete" BY <1>1, <1>6, <2>0 DEF ReqType
  <2>4. ASSUME NEW l \in Roots \ stirred PROVE Shown(l)'
    <3>1. \A p \in Pairs : line'[p] = l => p \notin rt' /\ rot'[p] = None
      BY <1>3, <2>1, <2>4
    <3>2. Far(q, l)' BY <2>3 DEF Far, Storing
    <3>3. Shown(l) BY <2>4 DEF Tidy
    <3> QED BY <1>1, <1>2, <1>4, <2>1, <2>3, <2>4, <3>1, <3>2, <3>3, SilentShown
  <2> QED BY <2>1, <2>2, <2>4 DEF Tidy
<1> QED BY <1>5, <1>6

LEMMA TidyStep == ASSUME IInv, Aligned, Orderly, Tidy, NEW r \in Slots, Step(r) PROVE Tidy'
<1>1. CASE RotationStep(r)
  BY <1>1, LookTidy, ClaimTidy, ReplayTidy, UnlinkTidy, RecordTidy DEF RotationStep
<1>2. CASE CreationStep(r)
  BY <1>2, CreateAuthTidy, CarrySessionTidy, WriteSessionTidy DEF CreationStep
<1>3. CASE RevocationStep(r)
  BY <1>3, GetPairTidy, DelPairTidy, DropLinkTidy, DropPredecessorTidy, EndSessionTidy,
     WhoTidy, ValTidy DEF RevocationStep
<1>4. CASE ListStep(r)
  BY <1>4, IdsTidy, VisitTidy, ExistsTidy, ForgetTidy, CurrentTidy, PickTidy, OthersDoneTidy
  DEF ListStep
<1>5. CASE WipeStep(r)
  BY <1>5, MembersTidy, DevicesTidy, RevokeAllSessionsTidy, EraseTidy DEF WipeStep
<1> QED BY <1>1, <1>2, <1>3, <1>4, <1>5 DEF Step

LEMMA TidyNext == IInv /\ Aligned /\ Orderly /\ Tidy /\ [Next]_vars => Tidy'
<1> SUFFICES ASSUME IInv, Aligned, Orderly, Tidy, [Next]_vars PROVE Tidy'
  OBVIOUS
<1>1. CASE UNCHANGED vars
  <2>1. UNCHANGED <<rt, rot, sid, dev, devs, line, next, h, hold, out, torn, stirred>>
    BY <1>1 DEF vars, redis, notes
  <2>2. Roots' = Roots BY <2>1 DEF Roots, Minted
  <2>3. ASSUME NEW l, Shown(l) PROVE Shown(l)'
    <3>1. Listed(l)' BY <2>1, <2>3 DEF Shown, Listed, StoringOn
    <3>2. Carried(l)' BY <2>1, <2>3 DEF Shown, Carried, Usable
    <3>3. Gone(l)'
      BY <2>1, <2>3 DEF Shown, Gone, Silent, StoringOn, ClaimingOn, Claiming
    <3>4. \A s \in Slots : Carries(h[s], l)' BY <2>1, <2>3 DEF Shown, Carries, Usable
    <3>5. \A s \in Slots : Ends(h[s], l)' BY <2>1, <2>3 DEF Shown, Ends, Only, Silent
    <3> QED BY <3>1, <3>2, <3>3, <3>4, <3>5 DEF Shown
  <2> QED BY <2>1, <2>2, <2>3 DEF Tidy
<1>2. ASSUME NEW r \in Slots, Step(r) PROVE Tidy' BY <1>2, TidyStep
<1>3. ASSUME NEW r \in Slots, Abandon(r) PROVE Tidy' BY <1>3, AbandonTidy
<1>4. ASSUME NEW r \in Slots, Fail(r) PROVE Tidy' BY <1>4, FailTidy
<1>5. ASSUME NEW r \in Slots, NEW c \in Clients, Arrival(r, c) PROVE Tidy'
  BY <1>5, LoginTidy, ArrivalTidy DEF Arrival
<1> QED BY <1>1, <1>2, <1>3, <1>4, <1>5 DEF Next

LEMMA TidyInit == Init => Tidy
BY DEF Init, Tidy, Roots, Minted, Pairs

LEMMA AllAlways == Spec => [](IInv /\ Aligned /\ Kept /\ Orderly /\ Tidy)
<1>1. Init => IInv /\ Aligned /\ Kept /\ Orderly /\ Tidy
  BY InvInit, AlignedInit, KeptInit, OrderlyInit, TidyInit
<1>2. IInv /\ Aligned /\ Kept /\ Orderly /\ Tidy /\ [Next]_vars
        => (IInv /\ Aligned /\ Kept /\ Orderly /\ Tidy)'
  BY InvNext, AlignedNext, KeptNext, OrderlyNext, TidyNext
<1> QED BY <1>1, <1>2, PTL DEF Spec

\* The list of devices shows every device that holds a token that still
\* refreshes, with a pointer to a token that does, unless its line is being
\* refreshed, was stirred, or was cut, lost or torn by a sign-out or a failure.
THEOREM DevicesStayListed == Spec => []DevicesListed
<1>1. ASSUME IInv, Aligned, Kept, Orderly, Tidy PROVE DevicesListed
  <2> SUFFICES ASSUME NEW c \in Clients, NEW p, p = hold[c], p # None, NEW l, l = line[p],
                      ~Refreshing(l), l \notin cut \cup lost \cup stirred \cup torn
               PROVE  l \in devs /\ dev[l] # None /\ Usable(dev[l])
    BY DEF DevicesListed
  <2>1. p \in issued /\ p \in Pairs /\ l \in Roots \ stirred
    BY <1>1, HeldIssued, LinesAreRoots DEF Aligned, Lined, Minted
  <2>2. InOrder(l) /\ Shown(l) BY <1>1, <2>1 DEF Orderly, Tidy
  <2>3. \A s \in Slots : h[s].op = "refresh" => line[h[s].tok] # l
    BY <1>1, RefreshTouches DEF Refreshing, InFlight
  <2>4. Usable(p)
    <3>1. ~ClaimingOn(l) BY <2>3 DEF ClaimingOn, Claiming
    <3> QED BY <1>1, <3>1 DEF Kept, Works
  <2>5. \A s \in Slots : ReqLine(h[s]) /\ Runs(h[s]) BY <1>1 DEF Aligned
  <2>6. ~StoringOn(l)
    <3> SUFFICES ASSUME NEW s \in Slots, h[s].pc \in Storing, line[h[s].new] = l PROVE FALSE
      BY DEF StoringOn
    <3>1. line[h[s].new] = IF h[s].op = "refresh" THEN line[h[s].tok] ELSE h[s].new
      BY <2>5 DEF ReqLine
    <3>2. h[s].op # "refresh" /\ h[s].new = l BY <2>3, <3>1
    <3> QED BY <1>1, <3>2 DEF Aligned, Holders
  <2>7. \E m \in Pairs : line[m] = l /\ m \in rt
    <3>1. CASE p \in rt BY <2>1, <3>1
    <3>2. CASE rot[p] # None
      <4>0. PICK m : m = rot[p] OBVIOUS
      <4>1. m \in Pairs /\ line[m] = l BY <1>1, <2>1, <3>2, <4>0 DEF Aligned, Lined, Minted
      <4>2. ~Dropping(p)
        <5> SUFFICES ASSUME NEW s \in Slots,
                            \/ h[s].op = "refresh" /\ h[s].pc = "create" /\ h[s].new = m
                            \/ h[s].pc \in {"drop", "settle"} /\ h[s].mate = m
                     PROVE  FALSE
          BY <4>0 DEF Dropping
        <5>1. ~(h[s].pc = "create" /\ h[s].new = m) BY <2>6, <4>1 DEF StoringOn, Storing
        <5>2. h[s].op # "refresh" => line[h[s].mate] \in cut BY <2>5, <5>1 DEF ReqLine
        <5>3. h[s].op = "refresh" => line[h[s].tok] = l
          BY <2>5, <4>1, <5>1 DEF ReqLine, Revokes
        <5> QED BY <2>3, <4>1, <5>1, <5>2, <5>3
      <4>3. m \in rt BY <2>1, <2>2, <3>2, <4>0, <4>2 DEF InOrder, Pendings
      <4> QED BY <4>1, <4>3
    <3> QED BY <2>4, <3>1, <3>2 DEF Usable
  <2> QED BY <2>2, <2>6, <2>7 DEF Shown, Listed, Usable, Pairs, None
<1> QED BY <1>1, AllAlways, PTL

\* A device that was signed out, whichever request did it, has no token that
\* still works, even one whose rotation was pending, unless two requests
\* stirred its line or a failure left it torn.
THEOREM SignedOutStay == Spec => []SignedOutStaysOut
<1>1. ASSUME IInv, Aligned, Orderly, Tidy PROVE SignedOutStaysOut
  <2> SUFFICES ASSUME NEW p \in Pairs, NEW l, l = line[p], l \in out \ (stirred \cup torn),
                      ~Revoking(l)
               PROVE  ~Usable(p) /\ p \notin at
    BY DEF SignedOutStaysOut
  <2>1. Store /\ Lined /\ issued \subseteq Minted BY <1>1, LinesAreRoots DEF IInv, Aligned
  <2>2. CASE p \notin Minted BY <2>1, <2>2 DEF Store, Usable
  <2>3. CASE p \in Minted
    <3>1. l \in Roots \ stirred BY <2>1, <2>3 DEF Lined
    <3>2. InOrder(l) /\ Silent(l) /\ ~StoringOn(l) BY <1>1, <3>1 DEF Orderly, Tidy, Shown, Gone
    <3>3. p \notin rt /\ p \notin at BY <2>1, <3>2 DEF Silent, Store
    <3>4. ASSUME rot[p] # None PROVE FALSE
      <4>0. PICK m : m = rot[p] OBVIOUS
      <4>1. m \in Pairs /\ line[m] = l BY <2>1, <3>4, <4>0 DEF Lined, Minted
      <4>2. Dropping(p) BY <3>2, <3>4, <4>0, <4>1 DEF InOrder, Pendings, Silent
      <4>3. PICK s \in Slots : \/ h[s].pc = "create" /\ h[s].new = m
                               \/ h[s].pc \in {"drop", "settle"} /\ h[s].mate = m
        BY <4>0, <4>2 DEF Dropping
      <4> QED BY <3>2, <4>1, <4>3 DEF StoringOn, Storing, Revoking, InFlight
    <3> QED BY <3>3, <3>4 DEF Usable
  <2> QED BY <2>2, <2>3
<1> QED BY <1>1, AllAlways, PTL
=============================================================================
