---------------------------- MODULE Credentials ----------------------------
(***************************************************************************)
(* The second factor and the reset code of one account (homl-web,          *)
(* application/user.go over persistence/user.go): its row in MySQL with    *)
(* the factor, the pending challenge and the PIN counter, and the keys     *)
(* pwdreset:* in Redis.  A request is one action per SQL statement or      *)
(* Redis command; nothing locks the row between a read and the write that  *)
(* follows it, so requests interleave there, and any may stop half way.    *)
(*                                                                         *)
(* PINs, challenges and codes are numbers: the secret itself does not      *)
(* matter, only which one is compared with which.  The keys and sessions   *)
(* of a refresh that passes are Sessions'.                                 *)
(***************************************************************************)
EXTENDS Integers, FiniteSets

CONSTANTS
  Workers,         \* bound: requests handled at the same time
  Pins,            \* PINs the user may choose or type
  MaxPinTries,     \* user.MaxPinTries
  MaxCodeAttempts, \* resetCodeMaxAttempts
  MaxChallenges,   \* bound: challenges handed out
  MaxCodes,        \* bound: reset codes generated
  Mixes            \* bound: the kinds of request one behaviour sends, a set of sets

None == 0

AllKinds == {"login", "refresh", "challenge", "secure", "logout", "reset", "confirm", "delete"}

ASSUME CredentialsAssumption ==
  /\ IsFiniteSet(Workers) /\ Pins \subseteq Nat \ {0}
  /\ MaxPinTries \in Nat \ {0} /\ MaxCodeAttempts \in Nat \ {0}
  /\ MaxChallenges \in Nat /\ MaxCodes \in Nat
  /\ Mixes \subseteq SUBSET AllKinds

VARIABLES
  row,        \* the account's row in Users
  code,       \* pwdreset:code, or None
  attempts,   \* pwdreset:attempts, or -1 without the key
  ttl,        \* whose time to live that key has: the "code"'s, an "older" code's or "none"
  cooldown,   \* pwdreset:cooldown exists
  w,          \* worker -> the request it runs
  challenges, \* challenges generated so far
  codes,      \* codes generated so far
  kinds,      \* the mix of this behaviour
  \* what happened, for the properties
  guesses,    \* comparisons with the code since it, or its budget, was stored
  used,       \* challenges consumed by the refresh that read them
  redeemed,   \* codes deleted by the confirmation that had them right
  mailed,     \* the code in the user's mailbox that must work, or None
  stray       \* a reset or a confirmation ran while the account was deleted

notes == <<guesses, used, redeemed, mailed, stray>>
vars  == <<row, code, attempts, ttl, cooldown, w, challenges, codes, kinds, notes>>

Idle == [pc |-> "idle", op |-> "none", pin |-> None, sig |-> None,
         read |-> None, born |-> {}, clean |-> FALSE]

Running(op) == {r \in Workers : w[r].op = op}
Min2(a, b) == IF a < b THEN a ELSE b

\* Registration has inserted the row, without a factor.
Init ==
  /\ row = [here |-> TRUE, fp |-> FALSE, pinOn |-> FALSE, pin |-> None, pkey |-> FALSE,
            challenge |-> None, counter |-> 0]
  /\ code = None /\ attempts = -1 /\ ttl = "none" /\ cooldown = FALSE
  /\ w = [r \in Workers |-> Idle]
  /\ challenges = 0 /\ codes = 0 /\ kinds \in Mixes
  /\ guesses = 0 /\ used = {} /\ redeemed = {}
  /\ mailed = None /\ stray = FALSE

\* A request starts.  A confirmation, a deletion or another request for a code
\* spoils what the code being stored promises.
Start(r, q) ==
  /\ w[r].pc = "idle" /\ q.op \in kinds
  /\ w' = [s \in Workers |->
             IF s = r THEN q
             ELSE IF q.op \in {"confirm", "reset", "delete"} THEN [w[s] EXCEPT !.clean = FALSE]
             ELSE w[s]]
Goto(r, pc) == w' = [w EXCEPT ![r].pc = pc]
End(r) == w' = [w EXCEPT ![r] = Idle]

redisKeys == <<code, attempts, ttl, cooldown>>
resetNotes == <<guesses, redeemed, mailed, stray>>

-----------------------------------------------------------------------------
(* Password login: the counter starts again, for an account with a PIN.    *)

Login(r) ==
  /\ row.here /\ row.pinOn
  /\ Start(r, [Idle EXCEPT !.op = "login", !.pc = "zero"])
  /\ UNCHANGED <<kinds, row, redisKeys, challenges, codes, notes>>

ResetPinCounter(r) ==
  /\ w[r].pc = "zero"
  /\ row' = [row EXCEPT !.counter = 0]
  /\ End(r)
  /\ UNCHANGED <<kinds, redisKeys, challenges, codes, notes>>

-----------------------------------------------------------------------------
(* Refresh with a factor.                                                  *)

\* FindById: a request without the enabled factor is refused, nothing consumed,
\* and one without any goes on to the rotation.  The device signs a challenge it
\* was or sends again what it sent before.
Refresh(r, pin, sig) ==
  /\ row.here
  /\ pin # None \/ ~row.pinOn
  /\ sig \in 1..challenges
  /\ Start(r, [Idle EXCEPT !.op = "refresh", !.pc = "key", !.pin = pin, !.sig = sig])
  /\ UNCHANGED <<kinds, row, redisKeys, challenges, codes, notes>>

\* FindPkeyAndChallengeById.
ReadChallenge(r) ==
  /\ w[r].pc = "key"
  /\ IF row.here /\ row.pkey /\ row.challenge # None
     THEN w' = [w EXCEPT ![r].pc = "consume", ![r].read = row.challenge, ![r].born = used]
     ELSE End(r)
  /\ UNCHANGED <<kinds, row, redisKeys, challenges, codes, notes>>

\* Variant: a challenge is consumed once its signature is right.
ConsumeIfSigned(r) ==
  LET signed == w[r].sig = w[r].read IN
  /\ w[r].pc = "consume"
  /\ row' = IF signed THEN [row EXCEPT !.challenge = None] ELSE row
  /\ used' = used \cup {w[r].read}
  /\ IF signed THEN Goto(r, IF w[r].pin = None THEN "rotate" ELSE "pin") ELSE End(r)
  /\ UNCHANGED <<kinds, redisKeys, challenges, codes, resetNotes>>

\* UpdateChallenge(nil), before the signature is verified.
ConsumeChallenge(r) ==
  /\ w[r].pc = "consume"
  /\ row' = [row EXCEPT !.challenge = None]
  /\ used' = used \cup {w[r].read}
  /\ IF w[r].sig = w[r].read
     THEN Goto(r, IF w[r].pin = None THEN "rotate" ELSE "pin")
     ELSE End(r)
  /\ UNCHANGED <<kinds, redisKeys, challenges, codes, resetNotes>>

\* Variant: the lock is left to the answer.
CheckPinUnlocked(r) ==
  LET q == w[r] IN
  /\ q.pc = "pin"
  /\ IF ~row.here \/ row.pin = None
     THEN End(r)
     ELSE Goto(r, IF row.pin # q.pin THEN "bump" ELSE "clear")
  /\ UNCHANGED <<kinds, row, redisKeys, challenges, codes, notes>>

\* CheckPin: the PIN and the counter are read, and the PIN is compared.
CheckPin(r) ==
  LET q == w[r]  locked == row.counter >= MaxPinTries IN
  /\ q.pc = "pin"
  /\ IF ~row.here \/ locked \/ row.pin = None
     THEN End(r)
     ELSE Goto(r, IF row.pin # q.pin THEN "bump" ELSE "clear")
  /\ UNCHANGED <<kinds, row, redisKeys, challenges, codes, notes>>

\* Variant: the tries left are counted down.
CountTriesLeft(r) ==
  /\ w[r].pc = "bump"
  /\ row' = [row EXCEPT !.counter = IF row.here THEN @ - 1 ELSE @]
  /\ End(r)
  /\ UNCHANGED <<kinds, redisKeys, challenges, codes, notes>>

\* A wrong PIN is counted; the answer tells the tries left.
CountWrongPin(r) ==
  /\ w[r].pc = "bump"
  /\ row' = [row EXCEPT !.counter = IF row.here THEN @ + 1 ELSE @]
  /\ End(r)
  /\ UNCHANGED <<kinds, redisKeys, challenges, codes, notes>>

\* A right one sets the counter to 0.
ClearPinCounter(r) ==
  /\ w[r].pc = "clear"
  /\ row' = [row EXCEPT !.counter = 0]
  /\ Goto(r, "rotate")
  /\ UNCHANGED <<kinds, redisKeys, challenges, codes, notes>>

\* The factors were right: on to the rotation.
Accept(r) ==
  /\ w[r].pc = "rotate"
  /\ End(r)
  /\ UNCHANGED <<kinds, row, redisKeys, challenges, codes, notes>>

-----------------------------------------------------------------------------
(* A challenge for a live refresh token, stored then answered.             *)

Challenge(r) ==
  /\ challenges < MaxChallenges
  /\ Start(r, [Idle EXCEPT !.op = "challenge", !.pc = "store", !.read = challenges + 1])
  /\ challenges' = challenges + 1
  /\ UNCHANGED <<kinds, row, redisKeys, codes, notes>>

StoreChallenge(r) ==
  /\ w[r].pc = "store"
  /\ IF row.here
     THEN row' = [row EXCEPT !.challenge = w[r].read]
     ELSE UNCHANGED row
  /\ End(r)
  /\ UNCHANGED <<kinds, redisKeys, challenges, codes, notes>>

\* A logout clears the pending challenge; its tokens are Sessions'.
Logout ==
  /\ "logout" \in kinds /\ row.challenge # None
  /\ row' = [row EXCEPT !.challenge = None]
  /\ UNCHANGED <<kinds, redisKeys, w, challenges, codes, notes>>

-----------------------------------------------------------------------------
(* The factor is chosen.                                                   *)

\* What SecureAuth lets through of the four fields it is sent.
Valid(fp, pinOn, pin, pkey) ==
  /\ ~(fp /\ pinOn)
  /\ ~(fp /\ pin # None)
  /\ ~(~pinOn /\ pin # None)
  /\ pin # None => pkey
  /\ pkey => fp \/ pinOn

\* UpdatePinAndFingerprint, one statement: without a PIN factor the hash goes,
\* without any factor the key and the challenge too.
SecureAuth(fp, pinOn, pin, pkey) ==
  /\ "secure" \in kinds /\ row.here
  /\ Valid(fp, pinOn, pin, pkey)
  /\ row' = [row EXCEPT
               !.fp = fp, !.pinOn = pinOn,
               !.pkey = IF ~fp /\ ~pinOn THEN FALSE ELSE pkey \/ @,
               !.pin = IF ~pinOn THEN None ELSE IF pin # None THEN pin ELSE @,
               !.challenge = IF ~fp /\ ~pinOn THEN None ELSE @]
  /\ UNCHANGED <<kinds, redisKeys, w, challenges, codes, notes>>

-----------------------------------------------------------------------------
(* The code that resets the password.                                      *)

\* FindIdByUsername, then a code is generated.
ResetPassword(r) ==
  /\ row.here /\ codes < MaxCodes
  /\ codes' = codes + 1
  /\ Start(r, [Idle EXCEPT !.op = "reset", !.pc = "cool", !.read = codes + 1])
  /\ stray' = (stray \/ Running("delete") # {})
  /\ UNCHANGED <<kinds, row, redisKeys, challenges, guesses, used, redeemed, mailed>>

\* SETNX of the cooldown: a code asked for too soon is not sent.
TakeCooldown(r) ==
  /\ w[r].pc = "cool"
  /\ cooldown' = TRUE
  /\ IF cooldown THEN End(r) ELSE Goto(r, "code")
  /\ UNCHANGED <<kinds, row, code, attempts, ttl, challenges, codes, notes>>

\* SET of the code: the one before it is replaced.  Its attempts stay until the
\* next SET, with the time to live they had.
StoreCode(r) ==
  /\ w[r].pc = "code"
  /\ code' = w[r].read
  /\ ttl' = IF ttl = "code" THEN "older" ELSE ttl
  /\ mailed' = None
  /\ guesses' = 0
  /\ w' = [w EXCEPT ![r].pc = "budget",
                    ![r].clean = /\ Running("confirm") \cup Running("delete") = {}
                                 /\ Running("reset") = {r}]
  /\ UNCHANGED <<kinds, row, attempts, cooldown, challenges, codes, used, redeemed, stray>>

\* Variant: the attempts at the code before it go on counting.
BudgetKept(r) ==
  /\ w[r].pc = "budget"
  /\ mailed' = IF w[r].clean THEN w[r].read ELSE None
  /\ guesses' = 0
  /\ End(r)
  /\ UNCHANGED <<kinds, row, redisKeys, challenges, codes, used, redeemed, stray>>

\* SET of the attempts, and the mail.
StoreBudget(r) ==
  /\ w[r].pc = "budget"
  /\ attempts' = 0 /\ ttl' = "code"
  /\ guesses' = 0
  /\ mailed' = IF w[r].clean THEN w[r].read ELSE None
  /\ End(r)
  /\ UNCHANGED <<kinds, row, code, cooldown, challenges, codes, used, redeemed, stray>>

\* ConfirmResetPassword with a code typed, the mailed one or another.
ConfirmResetPassword(r, guess) ==
  /\ row.here
  /\ guess \in 0..codes
  /\ Start(r, [Idle EXCEPT !.op = "confirm", !.pc = "count", !.read = guess])
  /\ stray' = (stray \/ Running("delete") # {})
  /\ UNCHANGED <<kinds, row, redisKeys, challenges, codes, guesses, used, redeemed, mailed>>

\* Variant: the budget is read and not counted.
ReadAttempts(r) ==
  /\ w[r].pc = "count"
  /\ Goto(r, IF attempts > MaxCodeAttempts THEN "burn" ELSE "get")
  /\ UNCHANGED <<kinds, row, redisKeys, challenges, codes, notes>>

\* INCR before anything is compared; a key it creates never expires.
CountAttempt(r) ==
  LET n == (IF attempts = -1 THEN 0 ELSE attempts) + 1 IN
  /\ w[r].pc = "count"
  /\ attempts' = Min2(n, MaxCodeAttempts + 1)
  /\ Goto(r, IF n > MaxCodeAttempts THEN "burn" ELSE "get")
  /\ mailed' = IF n > MaxCodeAttempts THEN None ELSE mailed
  /\ UNCHANGED <<kinds, row, code, ttl, cooldown, challenges, codes, guesses, used, redeemed,
                 stray>>

\* Over the budget: the code goes.
BurnCode(r) ==
  /\ w[r].pc = "burn"
  /\ code' = None /\ attempts' = -1 /\ ttl' = "none"
  /\ End(r)
  /\ UNCHANGED <<kinds, row, cooldown, challenges, codes, notes>>

\* GET of the code, and the comparison.
CompareCode(r) ==
  /\ w[r].pc = "get"
  /\ guesses' = IF code = None THEN guesses ELSE guesses + 1
  /\ IF code # None /\ code = w[r].read
     THEN w' = [w EXCEPT ![r].pc = "redeem", ![r].born = redeemed]
     ELSE End(r)
  /\ UNCHANGED <<kinds, row, redisKeys, challenges, codes, used, redeemed, mailed, stray>>

\* Variant: only the attempts go.
RedeemKept(r) ==
  /\ w[r].pc = "redeem"
  /\ attempts' = -1 /\ ttl' = "none"
  /\ redeemed' = redeemed \cup {w[r].read}
  /\ mailed' = None
  /\ Goto(r, "password")
  /\ UNCHANGED <<kinds, row, code, cooldown, challenges, codes, guesses, used, stray>>

\* DEL of the code: the password may be changed.
RedeemCode(r) ==
  /\ w[r].pc = "redeem"
  /\ code' = None /\ attempts' = -1 /\ ttl' = "none"
  /\ redeemed' = redeemed \cup {w[r].read}
  /\ mailed' = None
  /\ Goto(r, "password")
  /\ UNCHANGED <<kinds, row, cooldown, challenges, codes, guesses, used, stray>>

\* UpdatePassword; the sessions are Sessions'.
ChangePassword(r) ==
  /\ w[r].pc = "password"
  /\ End(r)
  /\ UNCHANGED <<kinds, row, redisKeys, challenges, codes, notes>>

\* The keys' time to live, far longer than a request.  The attempts go after the
\* code they were stored with, and those of an older code at any time.
Expire ==
  /\ "reset" \in kinds
  /\ \/ cooldown /\ cooldown' = FALSE /\ UNCHANGED <<code, attempts, ttl, mailed>>
     \/ /\ code # None /\ \A r \in Workers : w[r].pc # "budget"
        /\ code' = None /\ mailed' = None /\ UNCHANGED <<attempts, ttl, cooldown>>
     \/ /\ ttl = "older" \/ (ttl = "code" /\ code = None)
        /\ attempts' = -1 /\ ttl' = "none" /\ UNCHANGED <<code, cooldown, mailed>>
  /\ UNCHANGED <<kinds, row, w, challenges, codes, guesses, used, redeemed, stray>>

-----------------------------------------------------------------------------
(* The account goes: Redis first, the row last.                            *)

DeleteAccount(r) ==
  /\ row.here
  /\ Start(r, [Idle EXCEPT !.op = "delete", !.pc = "keys"])
  /\ stray' = (stray \/ Running("reset") \cup Running("confirm") # {})
  /\ UNCHANGED <<kinds, row, redisKeys, challenges, codes, guesses, used, redeemed, mailed>>

\* Variant: the cooldown stays.
DeleteCodesOnly(r) ==
  /\ w[r].pc = "keys"
  /\ code' = None /\ attempts' = -1 /\ ttl' = "none"
  /\ mailed' = None
  /\ Goto(r, "row")
  /\ UNCHANGED <<kinds, row, cooldown, challenges, codes, guesses, used, redeemed, stray>>

DeleteResetCodes(r) ==
  /\ w[r].pc = "keys"
  /\ code' = None /\ attempts' = -1 /\ ttl' = "none" /\ cooldown' = FALSE
  /\ mailed' = None
  /\ Goto(r, "row")
  /\ UNCHANGED <<kinds, row, challenges, codes, guesses, used, redeemed, stray>>

DeleteRow(r) ==
  /\ w[r].pc = "row"
  /\ row' = [row EXCEPT !.here = FALSE, !.fp = FALSE, !.pinOn = FALSE, !.pin = None,
                        !.pkey = FALSE, !.challenge = None, !.counter = 0]
  /\ End(r)
  /\ UNCHANGED <<kinds, redisKeys, challenges, codes, notes>>

\* A request stops between two of its steps: an error, the timeout, a crash.
Stop(r) ==
  /\ w[r].pc # "idle"
  /\ End(r)
  /\ UNCHANGED <<kinds, row, redisKeys, challenges, codes, notes>>

-----------------------------------------------------------------------------
FactorStep(r) == ReadChallenge(r) \/ ConsumeChallenge(r) \/ CheckPin(r) \/ CountWrongPin(r)
                 \/ ClearPinCounter(r) \/ Accept(r) \/ StoreChallenge(r) \/ ResetPinCounter(r)
CodeStep(r) == TakeCooldown(r) \/ StoreCode(r) \/ StoreBudget(r) \/ CountAttempt(r) \/ BurnCode(r)
               \/ CompareCode(r) \/ RedeemCode(r) \/ ChangePassword(r)
DeletionStep(r) == DeleteResetCodes(r) \/ DeleteRow(r)

Arrival(r) ==
  \/ Login(r) \/ ResetPassword(r) \/ DeleteAccount(r)
  \/ \E guess \in 0..codes : ConfirmResetPassword(r, guess)
  \/ Challenge(r)
  \/ \E pin \in Pins \cup {None}, sig \in 1..challenges : Refresh(r, pin, sig)

Next ==
  \/ \E r \in Workers : Arrival(r) \/ FactorStep(r) \/ CodeStep(r) \/ DeletionStep(r) \/ Stop(r)
  \/ \E fp, pinOn, pkey \in BOOLEAN, pin \in Pins \cup {None} : SecureAuth(fp, pinOn, pin, pkey)
  \/ Logout
  \/ Expire

Spec == Init /\ [][Next]_vars

-----------------------------------------------------------------------------
(* Properties.                                                             *)

ReqType ==
  [pc : {"idle", "zero", "key", "consume", "pin", "bump", "clear", "rotate", "store", "cool",
         "code", "budget", "count", "burn", "get", "redeem", "password", "keys", "row"},
   op : AllKinds \cup {"none"}, pin : Pins \cup {None}, sig : 0..MaxChallenges,
   read : Nat, born : SUBSET Nat, clean : BOOLEAN]

\* The steps of each kind of request.
Fits(q) ==
  /\ q.op = "none"      <=> q.pc = "idle"
  /\ q.op = "login"     <=> q.pc = "zero"
  /\ q.op = "refresh"   <=> q.pc \in {"key", "consume", "pin", "bump", "clear", "rotate"}
  /\ q.op = "challenge" <=> q.pc = "store"
  /\ q.op = "reset"     <=> q.pc \in {"cool", "code", "budget"}
  /\ q.op = "confirm"   <=> q.pc \in {"count", "burn", "get", "redeem", "password"}
  /\ q.op = "delete"    <=> q.pc \in {"keys", "row"}

PastChallenge(q) == q.pc \in {"pin", "bump", "clear", "rotate"}
PastCode(q) == q.pc \in {"redeem", "password"}

\* The variables keep their types, and each request is at a step of its kind.
TypeOK ==
  /\ row \in [here : BOOLEAN, fp : BOOLEAN, pinOn : BOOLEAN, pin : Pins \cup {None},
              pkey : BOOLEAN, challenge : 0..MaxChallenges, counter : Nat]
  /\ code \in 0..MaxCodes /\ attempts \in -1..(MaxCodeAttempts + 1) /\ cooldown \in BOOLEAN
  /\ ttl \in {"code", "older", "none"}
  /\ kinds \in Mixes /\ w \in [Workers -> ReqType]
  /\ \A r \in Workers : w[r].op \in kinds \cup {"none"} /\ Fits(w[r])
  /\ challenges \in 0..MaxChallenges /\ codes \in 0..MaxCodes /\ guesses \in Nat
  /\ used \subseteq 1..MaxChallenges /\ redeemed \subseteq 1..MaxCodes
  /\ mailed \in 0..MaxCodes /\ stray \in BOOLEAN

\* The lock holds although the counter is read and written apart: the wrong
\* PINs counted never pass the limit by more than the requests that were past
\* the check when it was reached (CheckPin).
LockHolds == row.counter <= MaxPinTries + Cardinality(Workers) - 1

\* A challenge that was consumed passes no refresh that reads it afterwards,
\* whatever became of the one that consumed it.
SpentChallengeRefused ==
  \A r \in Workers : PastChallenge(w[r]) => w[r].sig \notin w[r].born

\* A challenge is used at most once, as the comment in Refresh says.
ChallengeUsedOnce ==
  \A r, s \in Workers :
    r # s /\ PastChallenge(w[r]) /\ PastChallenge(w[s]) => w[r].sig # w[s].sig

\* A code that a confirmation had right and deleted passes none that reads it
\* afterwards.
CodeRedeemedOnce ==
  \A r \in Workers : PastCode(w[r]) => w[r].read \notin w[r].born

\* A code changes the password at most once, as the comment in ConsumeResetCode
\* says: no two confirmations are let through with it.
CodeNeverTwice ==
  \A r, s \in Workers :
    r # s /\ w[r].pc = "password" /\ w[s].pc = "password" => w[r].read # w[s].read

\* A code whose attempts were stored meets at most its budget of guesses, and
\* those that were counted before; one whose store stopped half way meets at
\* most a second budget, when the counter it inherited expires.
GuessesBounded ==
  guesses <= (IF ttl = "none" THEN 2 ELSE 1) * MaxCodeAttempts + Cardinality(Workers) - 1

\* A code meets at most five guesses, as the documentation says: those of the
\* other requests in flight, counted before it was stored, aside.
OneBudget == guesses <= MaxCodeAttempts + Cardinality(Workers) - 1

\* The code in the mailbox works until it is used, guessed at too often,
\* replaced or expired, unless another request for the account ran while it
\* was being stored.
MailedCodeWorks == mailed # None => code = mailed /\ attempts \in 0..MaxCodeAttempts

\* No key of a reset outlives the account, unless a reset ran during its deletion.
NothingLeftBehind ==
  ~row.here /\ ~stray => code = None /\ attempts = -1 /\ ~cooldown
=============================================================================
