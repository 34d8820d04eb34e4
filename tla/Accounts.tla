------------------------------ MODULE Accounts ------------------------------
(***************************************************************************)
(* Accounts: internal/api/handler/auth.go and user.go over the users table *)
(* (internal/infra/postgres/user_repo.go) and the Redis keys of a password *)
(* reset.                                                                  *)
(*                                                                         *)
(* Every call to PostgreSQL or Redis is a step, and requests interleave    *)
(* between them.  A password stands for its hash; what distinguishes two   *)
(* hashes here is the format, old ("legacy") or bcrypt.  Reset codes are   *)
(* numbered in the order they are drawn.                                   *)
(***************************************************************************)
EXTENDS Naturals, Sequences

CONSTANTS
    Ids,                \* an initial segment of the positive numbers
    Names, Emails, Passwords,
    InitialUsers,       \* the tables of accounts made before
    maxResetAttempts,
    MaxCodes,           \* bound on the codes drawn
    Handlers,           \* concurrent requests
    MaxCalls,           \* bound on requests
    MaxFaults           \* calls to PostgreSQL, Redis or the mail server that may fail

None == 0

User == [name : Names, email : Emails \cup {None}, password : Passwords, legacy : BOOLEAN]

\* The unique keys of the table: usernames, and addresses where there is one.
UniqueKeys(table) ==
    \A i, j \in DOMAIN table :
        i # j => /\ table[i].name # table[j].name
                 /\ table[i].email = None \/ table[i].email # table[j].email

ASSUME AccountsAssumption ==
    /\ Ids \subseteq Nat \ {0}
    /\ None \notin Emails
    /\ \A table \in InitialUsers :
          table \in Seq(User) /\ DOMAIN table \subseteq Ids /\ UniqueKeys(table)
    /\ maxResetAttempts \in Nat \ {0}
    /\ MaxCodes \in Nat /\ MaxCalls \in Nat /\ MaxFaults \in Nat

VARIABLES
    users,      \* the table: users[i] is the row of the i-th account
    code,       \* Redis pwdreset:code, None if absent
    cooldown,   \* Redis pwdreset:cd, present or not
    attempts,   \* Redis pwdreset:attempts: the count, and whether the key outlives the code
    drawn,      \* number of codes drawn
    mailed,     \* mailed[i]: the codes in the user's mailbox
    tokens,     \* users holding a token
    call,       \* call[h]: the request h is handling
    intended,   \* history: the password last set for the account
    raced,      \* history: accounts whose password was set during a rehash
    retired,    \* history: codes that have reset a password or met their last wrong answer
    slipped,    \* history: such codes that no request still means to delete: the call
                \* that used the code up, or the one to delete it, was reported as failed
    calls, budget

redis == <<code, cooldown, attempts>>

history == <<intended, raced, retired, slipped>>

vars == <<users, redis, drawn, mailed, tokens, call, history, calls, budget>>

NoCall == [op |-> "none", i |-> None, name |-> None, email |-> None,
           password |-> None, code |-> None]

Begin(h, request) ==
    /\ call[h] = NoCall
    /\ calls > 0 /\ calls' = calls - 1
    /\ call' = [call EXCEPT ![h] = request]

Continue(h, op) == call' = [call EXCEPT ![h].op = op] /\ UNCHANGED calls

Return(h) == call' = [call EXCEPT ![h] = NoCall] /\ UNCHANGED calls

Works == UNCHANGED budget

Fails == budget > 0 /\ budget' = budget - 1

-----------------------------------------------------------------------------
\* UserRepo.

GetByUsername(name) == {i \in DOMAIN users : users[i].name = name}

GetByEmail(email) == {i \in DOMAIN users : users[i].email = email}

\* A username may be the address of another account: the query then returns either.
GetByLogin(identifier) == GetByUsername(identifier) \cup GetByEmail(identifier)

\* The password of user i becomes p, in the new format.
UpdatePassword(i, p) ==
    users' = [users EXCEPT ![i] = [@ EXCEPT !.password = p, !.legacy = FALSE]]

Rehashing(i) == \E h \in Handlers : call[h].op = "rehash" /\ call[h].i = i

\* The same, and the account's owner means it.
SetPassword(i, p) ==
    /\ UpdatePassword(i, p)
    /\ intended' = [intended EXCEPT ![i] = p]
    /\ raced' = IF Rehashing(i) THEN raced \cup {i} ELSE raced \ {i}

-----------------------------------------------------------------------------
\* Register.

Register(h) ==
    /\ \E name \in Names, email \in Emails \cup {None}, p \in Passwords :
          /\ GetByUsername(name) = {}
          /\ Begin(h, [NoCall EXCEPT !.op = IF email = None THEN "create" ELSE "email",
                                     !.name = name, !.email = email, !.password = p])
    /\ UNCHANGED <<users, redis, drawn, mailed, tokens, history, budget>>

\* The uniqueness check of Register and of bindEmail, which carries an id.
CheckEmail(h) ==
    /\ call[h].op = "email"
    /\ IF GetByEmail(call[h].email) \subseteq {call[h].i}
       THEN Continue(h, IF call[h].i = None THEN "create" ELSE "bind")
       ELSE Return(h)
    /\ UNCHANGED <<users, redis, drawn, mailed, tokens, history, budget>>

NewUser(h) == [name |-> call[h].name, email |-> call[h].email,
               password |-> call[h].password, legacy |-> FALSE]

\* Mutant: relies on the checks made before.
CreateUnchecked(h) ==
    LET i == Len(users) + 1
    IN  /\ call[h].op = "create"
        /\ i \in Ids
        /\ users' = Append(users, NewUser(h))
        /\ intended' = [intended EXCEPT ![i] = call[h].password]
        /\ tokens' = tokens \cup {i}
        /\ Return(h)
        /\ UNCHANGED <<redis, drawn, mailed, raced, retired, slipped, budget>>

\* UserRepo.Create: the unique keys refuse a name or an address taken meanwhile.  An
\* insert that is reported as failed may have been done; nobody gets a token then.
Create(h) ==
    LET i == Len(users) + 1
    IN  /\ call[h].op = "create"
        /\ i \in Ids
        /\ IF GetByUsername(call[h].name) = {} /\ (call[h].email = None \/ GetByEmail(call[h].email) = {})
           THEN /\ users' = Append(users, NewUser(h))
                /\ intended' = [intended EXCEPT ![i] = call[h].password]
                /\ \/ Works /\ tokens' = tokens \cup {i}
                   \/ Fails /\ UNCHANGED tokens
           ELSE UNCHANGED <<users, intended, tokens, budget>>
        /\ Return(h)
        /\ UNCHANGED <<redis, drawn, mailed, raced, retired, slipped>>

-----------------------------------------------------------------------------
\* Login.

\* checkPassword.
checkPassword(i, p) == users[i].password = p

\* Mutant: the upgrade comes before the check.
LoginRehashFirst(h) ==
    /\ \E identifier \in Names \cup Emails, p \in Passwords : \E i \in GetByLogin(identifier) :
          /\ users[i].legacy \/ checkPassword(i, p)
          /\ IF users[i].legacy
             THEN /\ Begin(h, [NoCall EXCEPT !.op = "rehash", !.i = i, !.password = p])
                  /\ UNCHANGED tokens
             ELSE tokens' = tokens \cup {i} /\ UNCHANGED <<call, calls>>
    /\ UNCHANGED <<users, redis, drawn, mailed, history, budget>>

\* The lookup and the check; a password stored in the old format is still to be
\* upgraded.
Login(h) ==
    /\ \E identifier \in Names \cup Emails, p \in Passwords : \E i \in GetByLogin(identifier) :
          /\ checkPassword(i, p)
          /\ IF users[i].legacy
             THEN /\ Begin(h, [NoCall EXCEPT !.op = "rehash", !.i = i, !.password = p])
                  /\ UNCHANGED tokens
             ELSE tokens' = tokens \cup {i} /\ UNCHANGED <<call, calls>>
    /\ UNCHANGED <<users, redis, drawn, mailed, history, budget>>

\* The upgrade; its failure is only logged.
Rehash(h) ==
    LET i == call[h].i
    IN  /\ call[h].op = "rehash"
        /\ \/ Works /\ UpdatePassword(i, call[h].password)
           \/ Fails /\ UNCHANGED users
        /\ tokens' = tokens \cup {i}
        /\ Return(h)
        /\ UNCHANGED <<redis, drawn, mailed, history>>

-----------------------------------------------------------------------------
\* RequestPasswordReset.

RequestPasswordReset(h) ==
    /\ \E identifier \in Names \cup Emails : \E i \in GetByLogin(identifier) :
          /\ users[i].email # None
          /\ Begin(h, [NoCall EXCEPT !.op = "cooldown", !.i = i])
    /\ UNCHANGED <<users, redis, drawn, mailed, tokens, history, budget>>

\* The cooldown; if Redis cannot be asked, the request goes on.
CheckCooldown(h) ==
    /\ call[h].op = "cooldown"
    /\ \/ Works /\ IF cooldown[call[h].i] THEN Return(h) ELSE Continue(h, "store")
       \/ Fails /\ Continue(h, "store")
    /\ UNCHANGED <<users, redis, drawn, mailed, tokens, history>>

\* genVerifyCode and SET; the count kept so far is of an older code.  If SET is
\* reported as failed the code may have been stored, and is mailed to nobody.
StoreCode(h) ==
    LET i == call[h].i
    IN  /\ call[h].op = "store"
        /\ drawn < MaxCodes /\ drawn' = drawn + 1
        /\ code' = [code EXCEPT ![i] = drawn + 1]
        /\ attempts' = [attempts EXCEPT ![i].outlives = FALSE]
        /\ \/ /\ Works
              /\ call' = [call EXCEPT ![h].op = "hold", ![h].code = drawn + 1]
              /\ UNCHANGED calls
           \/ Fails /\ Return(h)
        /\ UNCHANGED <<users, cooldown, mailed, tokens, history>>

SetCooldown(h) ==
    /\ call[h].op = "hold"
    /\ \/ Works /\ cooldown' = [cooldown EXCEPT ![call[h].i] = TRUE]
       \/ Fails /\ UNCHANGED cooldown
    /\ Continue(h, "zero")
    /\ UNCHANGED <<users, code, attempts, drawn, mailed, tokens, history>>

NoAttempts == [n |-> 0, outlives |-> FALSE]

ResetAttempts(h) ==
    /\ call[h].op = "zero"
    /\ \/ Works /\ attempts' = [attempts EXCEPT ![call[h].i] = NoAttempts]
       \/ Fails /\ UNCHANGED attempts
    /\ Continue(h, "send")
    /\ UNCHANGED <<users, code, cooldown, drawn, mailed, tokens, history>>

\* The mail server may have taken the mail although Send reports an error.
Send(h) ==
    /\ call[h].op = "send"
    /\ \E sent \in BOOLEAN :
          /\ mailed' = IF sent THEN [mailed EXCEPT ![call[h].i] = @ \cup {call[h].code}] ELSE mailed
          /\ \/ Works /\ sent /\ Return(h)
             \/ Fails /\ Continue(h, "unsent")
    /\ UNCHANGED <<users, redis, drawn, tokens, history>>

\* Nothing was sent: whatever code the account has is deleted.
Unsend(h) ==
    /\ call[h].op = "unsent"
    /\ \/ /\ Works
          /\ code' = [code EXCEPT ![call[h].i] = None]
          /\ cooldown' = [cooldown EXCEPT ![call[h].i] = FALSE]
       \/ Fails /\ UNCHANGED <<code, cooldown>>
    /\ Return(h)
    /\ UNCHANGED <<users, attempts, drawn, mailed, tokens, history>>

-----------------------------------------------------------------------------
\* ConfirmPasswordReset.

\* The user answers with a code from the mailbox, or mistypes one (None).
ConfirmPasswordReset(h) ==
    /\ \E identifier \in Names \cup Emails, p \in Passwords : \E i \in GetByLogin(identifier) :
          \E answer \in mailed[i] \cup {None} :
             Begin(h, [NoCall EXCEPT !.op = "get", !.i = i, !.password = p, !.code = answer])
    /\ UNCHANGED <<users, redis, drawn, mailed, tokens, history, budget>>

\* GET and the comparison; from here on call[h].code is the code that was stored.
GetCode(h) ==
    LET stored == code[call[h].i]
    IN  /\ call[h].op = "get"
        /\ IF stored = None THEN Return(h)
           ELSE /\ call' = [call EXCEPT ![h].op = IF call[h].code = stored
                                                  THEN "reset" ELSE "count",
                                        ![h].code = stored]
                /\ UNCHANGED calls
        /\ UNCHANGED <<users, redis, drawn, mailed, tokens, history, budget>>

\* The code h holds is used up; h goes on to delete it, or does not know.
Retire(h, knows) ==
    /\ retired' = retired \cup {call[h].code}
    /\ slipped' = IF knows THEN slipped \ {call[h].code} ELSE slipped \cup {call[h].code}

\* Mutant: only the answer that reaches the limit deletes the code.
TooManyExactly(n) == n = maxResetAttempts

TooMany(n) == n >= maxResetAttempts

\* The count of i after INCR and EXPIRE, each of them done or not; a new count that
\* did not get its expiry lasts.
Count(i, incr, expire) ==
    LET n == attempts[i].n + (IF incr THEN 1 ELSE 0)
    IN  [n |-> n,
         outlives |-> IF expire THEN n > 0 ELSE attempts[i].outlives \/ (incr /\ n = 1)]

\* INCR and EXPIRE, whose errors are ignored: without a reply the count reads as 0,
\* whether or not the answer was counted, and a code that it used up stays.
CountWrong(h) ==
    LET i == call[h].i
    IN  /\ call[h].op = "count"
        /\ \E incr, replied, expire \in BOOLEAN :
              LET count == Count(i, incr, expire)
                  usedUp == incr /\ count.n >= maxResetAttempts
              IN  /\ replied => incr
                  /\ IF replied /\ expire THEN Works ELSE Fails
                  /\ attempts' = [attempts EXCEPT ![i] = count]
                  /\ IF replied /\ TooMany(count.n) THEN Continue(h, "drop") ELSE Return(h)
                  /\ IF usedUp THEN Retire(h, replied) ELSE UNCHANGED <<retired, slipped>>
        /\ UNCHANGED <<users, code, cooldown, drawn, mailed, tokens, intended, raced>>

DropCode(h) ==
    LET i == call[h].i
    IN  /\ call[h].op = "drop"
        /\ \/ Works /\ code' = [code EXCEPT ![i] = None] /\ UNCHANGED slipped
           \/ Fails /\ slipped' = slipped \cup {call[h].code} /\ UNCHANGED code
        /\ Return(h)
        /\ UNCHANGED <<users, cooldown, attempts, drawn, mailed, tokens, intended, raced, retired>>

\* An UPDATE that is reported as failed may have been done: 500, and the code stays.
ResetPassword(h) ==
    /\ call[h].op = "reset"
    /\ SetPassword(call[h].i, call[h].password)
    /\ \/ Works /\ Retire(h, TRUE) /\ Continue(h, "clear")
       \/ Fails /\ Retire(h, FALSE) /\ Return(h)
    /\ UNCHANGED <<redis, drawn, mailed, tokens>>

\* The keys of the reset are deleted in one command.
ClearReset(h) ==
    LET i == call[h].i
    IN  /\ call[h].op = "clear"
        /\ \/ /\ Works
              /\ code' = [code EXCEPT ![i] = None]
              /\ attempts' = [attempts EXCEPT ![i] = NoAttempts]
              /\ cooldown' = [cooldown EXCEPT ![i] = FALSE]
              /\ UNCHANGED slipped
           \/ Fails /\ slipped' = slipped \cup {call[h].code} /\ UNCHANGED redis
        /\ Return(h)
        /\ UNCHANGED <<users, drawn, mailed, tokens, intended, raced, retired>>

\* The keys expire: a cooldown before the code it was set with, a count after the
\* code whose wrong answers it counts.
Expire(i) ==
    /\ \/ /\ cooldown[i] /\ cooldown' = [cooldown EXCEPT ![i] = FALSE]
          /\ UNCHANGED <<code, attempts>>
       \/ /\ code[i] # None /\ ~cooldown[i]
          /\ code' = [code EXCEPT ![i] = None]
          /\ UNCHANGED <<cooldown, attempts>>
       \/ /\ attempts[i].n > 0 /\ (code[i] = None \/ ~attempts[i].outlives)
          /\ attempts' = [attempts EXCEPT ![i] = NoAttempts]
          /\ UNCHANGED <<code, cooldown>>
    /\ UNCHANGED <<users, drawn, mailed, tokens, call, history, calls, budget>>

-----------------------------------------------------------------------------
\* UserHandler, behind Auth.

\* ChangePassword: GetByID and the two checks.
ChangePassword(h) ==
    /\ \E i \in tokens, old, new \in Passwords :
          /\ checkPassword(i, old) /\ new # old
          /\ Begin(h, [NoCall EXCEPT !.op = "change", !.i = i, !.password = new])
    /\ UNCHANGED <<users, redis, drawn, mailed, tokens, history, budget>>

\* Done, and reported as done or as failed.
Change(h) ==
    /\ call[h].op = "change"
    /\ SetPassword(call[h].i, call[h].password)
    /\ Works \/ Fails
    /\ Return(h)
    /\ UNCHANGED <<redis, drawn, mailed, tokens, retired, slipped>>

\* UpdateMe with an address: bindEmail looks at the account first.  Without one, or
\* with the one it has, the handler only updates the organization.
UpdateMe(h) ==
    /\ \E i \in tokens, email \in Emails :
          /\ users[i].email = None
          /\ Begin(h, [NoCall EXCEPT !.op = "email", !.i = i, !.email = email])
    /\ UNCHANGED <<users, redis, drawn, mailed, tokens, history, budget>>

\* Mutant: without AND email IS NULL.
BindEmailAny(h) ==
    LET i == call[h].i
    IN  /\ call[h].op = "bind"
        /\ users' = IF GetByEmail(call[h].email) \subseteq {i}
                    THEN [users EXCEPT ![i].email = call[h].email]
                    ELSE users
        /\ Return(h)
        /\ UNCHANGED <<redis, drawn, mailed, tokens, history, budget>>

\* UserRepo.BindEmail: the account must have no address and the address no account.
BindEmail(h) ==
    LET i == call[h].i
    IN  /\ call[h].op = "bind"
        /\ users' = IF users[i].email = None /\ GetByEmail(call[h].email) = {}
                    THEN [users EXCEPT ![i].email = call[h].email]
                    ELSE users
        /\ Works \/ Fails
        /\ Return(h)
        /\ UNCHANGED <<redis, drawn, mailed, tokens, history>>

-----------------------------------------------------------------------------
\* The request ends where it is: the server does, the client goes away, or a call
\* whose error is checked fails without effect.
Abort(h) ==
    /\ call[h] # NoCall
    /\ Fails /\ Return(h)
    /\ slipped' = IF call[h].op \in {"drop", "clear"} THEN slipped \cup {call[h].code} ELSE slipped
    /\ UNCHANGED <<users, redis, drawn, mailed, tokens, intended, raced, retired>>

Init ==
    /\ users \in InitialUsers
    /\ code = [i \in Ids |-> None]
    /\ cooldown = [i \in Ids |-> FALSE]
    /\ attempts = [i \in Ids |-> NoAttempts]
    /\ drawn = 0
    /\ mailed = [i \in Ids |-> {}]
    /\ tokens = {}
    /\ call = [h \in Handlers |-> NoCall]
    /\ intended = [i \in Ids |-> IF i \in DOMAIN users THEN users[i].password ELSE None]
    /\ raced = {} /\ retired = {} /\ slipped = {}
    /\ calls = MaxCalls /\ budget = MaxFaults

Next ==
    \/ \E i \in Ids : Expire(i)
    \/ \E h \in Handlers :
          \/ Register(h) \/ CheckEmail(h) \/ Create(h)
          \/ Login(h) \/ Rehash(h)
          \/ RequestPasswordReset(h) \/ CheckCooldown(h) \/ StoreCode(h) \/ SetCooldown(h)
          \/ ResetAttempts(h) \/ Send(h) \/ Unsend(h)
          \/ ConfirmPasswordReset(h) \/ GetCode(h) \/ CountWrong(h) \/ DropCode(h)
          \/ ResetPassword(h) \/ ClearReset(h)
          \/ ChangePassword(h) \/ Change(h) \/ UpdateMe(h) \/ BindEmail(h)
          \/ Abort(h)

Spec == Init /\ [][Next]_vars

-----------------------------------------------------------------------------
\* Types; no two accounts share a name or an address, whatever two registrations and
\* bindings interleave to (Register, bindEmail and the unique keys).
TypeOK ==
    /\ users \in Seq(User) /\ DOMAIN users \subseteq Ids /\ UniqueKeys(users)
    /\ code \in [Ids -> 0 .. MaxCodes] /\ cooldown \in [Ids -> BOOLEAN]
    /\ attempts \in [Ids -> [n : Nat, outlives : BOOLEAN]]
    /\ drawn \in 0 .. MaxCodes /\ mailed \in [Ids -> SUBSET (1 .. drawn)]
    /\ tokens \subseteq DOMAIN users
    /\ \A h \in Handlers : call[h].i \in DOMAIN users \cup {None}

\* An address, once bound, stays bound: two UpdateMe requests that both saw the
\* account without one bind one of theirs (UserRepo.BindEmail).
BoundOnce ==
    [][\A i \in DOMAIN users : users[i].email # None => users'[i].email = users[i].email]_vars

\* A code that has reset a password, or that was answered wrong too often, is gone
\* once the request that used it up has returned, even if a request before it failed
\* to delete it; it stays only if that request was told nothing of its own effect,
\* or could not delete it (ConfirmPasswordReset).
RetiredIsGone ==
    \A i \in DOMAIN users :
        code[i] \in retired =>
            \/ code[i] \in slipped
            \/ \E h \in Handlers : /\ call[h].op \in {"drop", "clear"}
                                   /\ call[h].i = i /\ call[h].code = code[i]

\* The password that works is the one last set: upgrading the format of the hash at
\* a login keeps it, unless it was set between the login's check and the upgrade
\* (Login, UpdatePassword).
PasswordIsKept ==
    \A i \in DOMAIN users : users[i].password = intended[i] \/ i \in raced
=============================================================================
