--------------------------- MODULE AccountsProofs ---------------------------
(***************************************************************************)
(* Proofs about Accounts for any number of accounts, concurrent requests,  *)
(* codes and faults.                                                       *)
(***************************************************************************)
EXTENDS Accounts, TLAPS

Ops == {"none", "email", "create", "bind", "rehash", "cooldown", "store", "hold",
        "zero", "send", "unsent", "get", "count", "drop", "reset", "clear", "change"}

Call == [op : Ops, i : Ids \cup {None}, name : Names \cup {None},
         email : Emails \cup {None}, password : Passwords \cup {None}, code : Nat]

\* What a request carries at each of its steps, given the ids of the accounts and
\* the number of codes drawn.
Carries(c, ids, n) ==
    /\ c.op \notin {"none", "create", "email"} => c.i \in ids
    /\ c.op \in {"none", "create"} => c.i = None
    /\ c.op = "email" => c.i \in ids \cup {None} /\ c.email \in Emails
    /\ c.op = "create" \/ (c.op = "email" /\ c.i = None)
          => c.name \in Names /\ c.password \in Passwords
    /\ c.op = "bind" => c.email \in Emails
    /\ c.op \in {"rehash", "get", "reset", "change"} => c.password \in Passwords
    /\ c.op \in {"hold", "zero", "send", "count", "drop", "reset", "clear"}
          => c.code \in 1 .. n

CallsOK ==
    /\ call \in [Handlers -> Call]
    /\ \A h \in Handlers : Carries(call[h], DOMAIN users, drawn)

TableOK ==
    /\ users \in Seq(User) /\ DOMAIN users \subseteq Ids /\ UniqueKeys(users)
    /\ tokens \subseteq DOMAIN users
    /\ intended \in [Ids -> Passwords \cup {None}]

Counts == [n : Nat, outlives : BOOLEAN]

KeysOK ==
    /\ drawn \in 0 .. MaxCodes
    /\ code \in [Ids -> 0 .. drawn] /\ cooldown \in [Ids -> BOOLEAN]
    /\ attempts \in [Ids -> Counts]
    /\ mailed \in [Ids -> SUBSET (1 .. drawn)]

TInv == TableOK /\ KeysOK /\ CallsOK

\* An upgrade under way writes the password that was last set, or a setting is
\* known to have raced with it.
RehashKeeps ==
    \A h \in Handlers :
        call[h].op = "rehash" =>
            call[h].password = intended[call[h].i] \/ call[h].i \in raced

Kept == PasswordIsKept /\ RehashKeeps

PInv == TInv /\ Kept

\* A code belongs to one account, also while a request holds it.
OneOwner ==
    /\ retired \subseteq 1 .. drawn
    /\ \A i, j \in Ids : code[i] = code[j] /\ code[i] # None => i = j
    /\ \A h \in Handlers :
          call[h].op \in {"count", "reset"}
              => \A j \in Ids : code[j] = call[h].code => j = call[h].i

\* A request means to delete the code c of account i.
Leaving(i, c) ==
    \E h \in Handlers : /\ call[h].op \in {"drop", "clear"}
                        /\ call[h].i = i /\ call[h].code = c

GoneOrLeaving ==
    \A i \in Ids : code[i] \in retired => code[i] \in slipped \/ Leaving(i, code[i])

Gone == OneOwner /\ GoneOrLeaving

RInv == TInv /\ Gone

-----------------------------------------------------------------------------
\* What the wrong answers of a code may become.
LEMMA CountsFacts ==
    /\ NoAttempts \in Counts
    /\ \A n \in Nat : [n |-> n, outlives |-> TRUE] \in Counts
    /\ \A c \in Counts : c.n \in Nat /\ [c EXCEPT !.outlives = FALSE] \in Counts
  BY DEF NoAttempts, Counts

\* UPDATE users SET password_hash: the row of i has the new password, every other
\* column and row is kept.
LEMMA UpdateFacts ==
    ASSUME users \in Seq(User), NEW i \in DOMAIN users, NEW p \in Passwords,
           UpdatePassword(i, p)
    PROVE  /\ users' \in Seq(User) /\ DOMAIN users' = DOMAIN users
           /\ \A j \in DOMAIN users : users'[j].name = users[j].name
           /\ \A j \in DOMAIN users : users'[j].email = users[j].email
           /\ users'[i].password = p
           /\ \A j \in DOMAIN users \ {i} : users'[j] = users[j]
<1> DEFINE r == [users[i] EXCEPT !.password = p, !.legacy = FALSE]
<1>1. users[i] \in User
  OBVIOUS
<1>2. /\ r \in User /\ r.password = p
      /\ r.name = users[i].name /\ r.email = users[i].email
  BY <1>1 DEF User
<1>3. users' = [users EXCEPT ![i] = r]
  BY DEF UpdatePassword
<1> HIDE DEF r
<1> QED
  BY <1>2, <1>3

\* INSERT INTO users: the table gets one more row, whose id is new.
LEMMA InsertFacts ==
    ASSUME users \in Seq(User), NEW u \in User, users' = Append(users, u)
    PROVE  /\ users' \in Seq(User)
           /\ DOMAIN users' = DOMAIN users \cup {Len(users) + 1}
           /\ Len(users) + 1 \notin DOMAIN users
           /\ \A j \in DOMAIN users : users'[j] = users[j]
           /\ users'[Len(users) + 1] = u
  OBVIOUS

\* UPDATE users SET email: only the address of i changes.
LEMMA BindFacts ==
    ASSUME users \in Seq(User), NEW i \in DOMAIN users, NEW e \in Emails,
           users' = [users EXCEPT ![i].email = e]
    PROVE  /\ users' \in Seq(User) /\ DOMAIN users' = DOMAIN users
           /\ \A j \in DOMAIN users : users'[j].name = users[j].name
           /\ \A j \in DOMAIN users : users'[j].password = users[j].password
           /\ users'[i].email = e
           /\ \A j \in DOMAIN users \ {i} : users'[j] = users[j]
<1>1. users[i] \in User
  OBVIOUS
<1>2. users'[i] = [name |-> users[i].name, email |-> e,
                   password |-> users[i].password, legacy |-> users[i].legacy]
  BY <1>1 DEF User
<1>3. users'[i] \in User
  BY <1>1, <1>2 DEF User
<1>4. DOMAIN users' = DOMAIN users /\ Len(users') = Len(users)
  OBVIOUS
<1>5. \A j \in DOMAIN users \ {i} : users'[j] = users[j]
  OBVIOUS
<1>6. users' \in Seq(User)
  BY <1>3, <1>4, <1>5
<1> QED
  BY <1>2, <1>4, <1>5, <1>6

\* The rows keep their types and the unique keys hold: Create and BindEmail test
\* them in the step that writes.
LEMMA TableStep ==
    TInv /\ [Next]_vars => TableOK'
<1> SUFFICES ASSUME TInv, [Next]_vars PROVE TableOK'
  OBVIOUS
<1> USE DEF redis, history
<1>0. TableOK /\ CallsOK
  BY DEF TInv
<1>1. ASSUME NEW i \in Ids, Expire(i) PROVE TableOK'
  BY <1>1, <1>0 DEF Expire, TableOK
<1>2. ASSUME NEW h \in Handlers, Register(h) PROVE TableOK'
  BY <1>2, <1>0 DEF Register, TableOK
<1>3. ASSUME NEW h \in Handlers, CheckEmail(h) PROVE TableOK'
  BY <1>3, <1>0 DEF CheckEmail, TableOK
<1>4. ASSUME NEW h \in Handlers, Create(h) PROVE TableOK'
  <2>1. CASE UNCHANGED <<users, intended, tokens>>
    BY <1>0, <2>1 DEF TableOK, UniqueKeys
  <2>2. CASE /\ GetByUsername(call[h].name) = {}
             /\ call[h].email = None \/ GetByEmail(call[h].email) = {}
             /\ users' = Append(users, NewUser(h))
             /\ intended' = [intended EXCEPT ![Len(users) + 1] = call[h].password]
             /\ tokens' = tokens \cup {Len(users) + 1} \/ tokens' = tokens
    <3>1. /\ call[h].op = "create" /\ Len(users) + 1 \in Ids
          /\ call[h] \in Call
      BY <1>0, <1>4 DEF Create, CallsOK
    <3>2. call[h].name \in Names /\ call[h].password \in Passwords
      BY <1>0, <3>1 DEF CallsOK, Carries
    <3>3. NewUser(h) \in User
      BY <3>1, <3>2 DEF NewUser, User, Call
    <3>4. /\ users' \in Seq(User)
          /\ DOMAIN users' = DOMAIN users \cup {Len(users) + 1}
          /\ Len(users) + 1 \notin DOMAIN users
          /\ \A j \in DOMAIN users : users'[j] = users[j]
          /\ users'[Len(users) + 1] = NewUser(h)
      BY <1>0, <2>2, <3>3, InsertFacts DEF TableOK
    <3>5. \A j \in DOMAIN users :
              /\ users[j].name # NewUser(h).name
              /\ NewUser(h).email = None \/ users[j].email # NewUser(h).email
      BY <2>2 DEF GetByUsername, GetByEmail, NewUser
    <3>6. UniqueKeys(users')
      BY <1>0, <3>4, <3>5 DEF TableOK, UniqueKeys
    <3>7. intended' \in [Ids -> Passwords \cup {None}]
      BY <1>0, <2>2, <3>2 DEF TableOK
    <3> QED
      BY <1>0, <2>2, <3>1, <3>4, <3>6, <3>7 DEF TableOK
  <2> QED
    BY <1>4, <2>1, <2>2 DEF Create
<1>5. ASSUME NEW h \in Handlers, Login(h) PROVE TableOK'
  BY <1>5, <1>0 DEF Login, TableOK, GetByLogin, GetByUsername, GetByEmail
<1>6. ASSUME NEW h \in Handlers, Rehash(h) PROVE TableOK'
  <2>1. call[h].i \in DOMAIN users /\ call[h].password \in Passwords
    BY <1>0, <1>6 DEF Rehash, CallsOK, Carries
  <2>2. users' \in Seq(User) /\ DOMAIN users' = DOMAIN users /\ UniqueKeys(users')
    <3>1. CASE users' = users
      BY <1>0, <3>1 DEF TableOK
    <3>2. CASE UpdatePassword(call[h].i, call[h].password)
      BY <1>0, <2>1, <3>2, UpdateFacts DEF TableOK, UniqueKeys
    <3> QED
      BY <1>6, <3>1, <3>2 DEF Rehash
  <2> QED
    BY <1>0, <1>6, <2>1, <2>2 DEF Rehash, TableOK
<1>7. ASSUME NEW h \in Handlers, RequestPasswordReset(h) PROVE TableOK'
  BY <1>7, <1>0 DEF RequestPasswordReset, TableOK
<1>8. ASSUME NEW h \in Handlers, CheckCooldown(h) PROVE TableOK'
  BY <1>8, <1>0 DEF CheckCooldown, TableOK
<1>9. ASSUME NEW h \in Handlers, StoreCode(h) PROVE TableOK'
  BY <1>9, <1>0 DEF StoreCode, TableOK
<1>10. ASSUME NEW h \in Handlers, SetCooldown(h) PROVE TableOK'
  BY <1>10, <1>0 DEF SetCooldown, TableOK
<1>11. ASSUME NEW h \in Handlers, ResetAttempts(h) PROVE TableOK'
  BY <1>11, <1>0 DEF ResetAttempts, TableOK
<1>12. ASSUME NEW h \in Handlers, Send(h) PROVE TableOK'
  BY <1>12, <1>0 DEF Send, TableOK
<1>13. ASSUME NEW h \in Handlers, Unsend(h) PROVE TableOK'
  BY <1>13, <1>0 DEF Unsend, TableOK
<1>14. ASSUME NEW h \in Handlers, ConfirmPasswordReset(h) PROVE TableOK'
  BY <1>14, <1>0 DEF ConfirmPasswordReset, TableOK
<1>15. ASSUME NEW h \in Handlers, GetCode(h) PROVE TableOK'
  BY <1>15, <1>0 DEF GetCode, TableOK
<1>16. ASSUME NEW h \in Handlers, CountWrong(h) PROVE TableOK'
  BY <1>16, <1>0 DEF CountWrong, TableOK
<1>17. ASSUME NEW h \in Handlers, DropCode(h) PROVE TableOK'
  BY <1>17, <1>0 DEF DropCode, TableOK
<1>18. ASSUME NEW h \in Handlers, ResetPassword(h) PROVE TableOK'
  <2>1. call[h].i \in DOMAIN users /\ call[h].password \in Passwords
    BY <1>0, <1>18 DEF ResetPassword, CallsOK, Carries
  <2>2. users' \in Seq(User) /\ DOMAIN users' = DOMAIN users /\ UniqueKeys(users')
    BY <1>0, <1>18, <2>1, UpdateFacts DEF ResetPassword, SetPassword, TableOK, UniqueKeys
  <2>3. intended' \in [Ids -> Passwords \cup {None}]
    BY <1>0, <1>18, <2>1 DEF ResetPassword, SetPassword, TableOK
  <2> QED
    BY <1>0, <1>18, <2>2, <2>3 DEF ResetPassword, TableOK
<1>19. ASSUME NEW h \in Handlers, ClearReset(h) PROVE TableOK'
  BY <1>19, <1>0 DEF ClearReset, TableOK
<1>20. ASSUME NEW h \in Handlers, ChangePassword(h) PROVE TableOK'
  BY <1>20, <1>0 DEF ChangePassword, TableOK
<1>21. ASSUME NEW h \in Handlers, Change(h) PROVE TableOK'
  <2>1. call[h].i \in DOMAIN users /\ call[h].password \in Passwords
    BY <1>0, <1>21 DEF Change, CallsOK, Carries
  <2>2. users' \in Seq(User) /\ DOMAIN users' = DOMAIN users /\ UniqueKeys(users')
    BY <1>0, <1>21, <2>1, UpdateFacts DEF Change, SetPassword, TableOK, UniqueKeys
  <2>3. intended' \in [Ids -> Passwords \cup {None}]
    BY <1>0, <1>21, <2>1 DEF Change, SetPassword, TableOK
  <2> QED
    BY <1>0, <1>21, <2>2, <2>3 DEF Change, TableOK
<1>22. ASSUME NEW h \in Handlers, UpdateMe(h) PROVE TableOK'
  BY <1>22, <1>0 DEF UpdateMe, TableOK
<1>23. ASSUME NEW h \in Handlers, BindEmail(h) PROVE TableOK'
  <2>1. call[h].i \in DOMAIN users /\ call[h].email \in Emails
    BY <1>0, <1>23 DEF BindEmail, CallsOK, Carries
  <2>2. users' \in Seq(User) /\ DOMAIN users' = DOMAIN users /\ UniqueKeys(users')
    <3>1. CASE users' = users
      BY <1>0, <3>1 DEF TableOK
    <3>2. CASE /\ GetByEmail(call[h].email) = {}
               /\ users' = [users EXCEPT ![call[h].i].email = call[h].email]
      <4>1. \A j \in DOMAIN users : users[j].email # call[h].email
        BY <3>2 DEF GetByEmail
      <4>2. /\ users' \in Seq(User) /\ DOMAIN users' = DOMAIN users
            /\ \A j \in DOMAIN users : users'[j].name = users[j].name
            /\ users'[call[h].i].email = call[h].email
            /\ \A j \in DOMAIN users \ {call[h].i} : users'[j].email = users[j].email
        BY <1>0, <2>1, <3>2, BindFacts DEF TableOK
      <4>3. UniqueKeys(users')
        BY <1>0, <2>1, <4>1, <4>2 DEF TableOK, UniqueKeys
      <4> QED
        BY <4>2, <4>3
    <3> QED
      BY <1>23, <3>1, <3>2 DEF BindEmail
  <2> QED
    BY <1>0, <1>23, <2>2 DEF BindEmail, TableOK
<1>24. ASSUME NEW h \in Handlers, Abort(h) PROVE TableOK'
  BY <1>24, <1>0 DEF Abort, TableOK
<1>25. CASE UNCHANGED vars
  BY <1>25, <1>0 DEF vars, TableOK
<1> QED
  BY <1>1, <1>2, <1>3, <1>4, <1>5, <1>6, <1>7, <1>8, <1>9, <1>10, <1>11, <1>12, <1>13,
     <1>14, <1>15, <1>16, <1>17, <1>18, <1>19, <1>20, <1>21, <1>22, <1>23, <1>24, <1>25
     DEF Next

\* The Redis keys of the reset keep their types.
LEMMA KeysStep ==
    TInv /\ [Next]_vars => KeysOK'
<1> SUFFICES ASSUME TInv, [Next]_vars PROVE KeysOK'
  OBVIOUS
<1> USE DEF redis, history
<1>0. TableOK /\ KeysOK /\ CallsOK
  BY DEF TInv
<1>c. MaxCodes \in Nat
  BY AccountsAssumption
<1>1. ASSUME NEW i \in Ids, Expire(i) PROVE KeysOK'
  <2>1. code' \in [Ids -> 0 .. drawn]
    BY <1>0, <1>1 DEF Expire, KeysOK, None
  <2>2. cooldown' \in [Ids -> BOOLEAN]
    BY <1>0, <1>1 DEF Expire, KeysOK
  <2>3. attempts' \in [Ids -> Counts]
    BY CountsFacts, <1>0, <1>1 DEF Expire, KeysOK
  <2> QED
    BY <1>0, <1>1, <2>1, <2>2, <2>3 DEF Expire, KeysOK
<1>2. ASSUME NEW h \in Handlers, Register(h) PROVE KeysOK'
  BY <1>2, <1>0 DEF Register, KeysOK
<1>3. ASSUME NEW h \in Handlers, CheckEmail(h) PROVE KeysOK'
  BY <1>3, <1>0 DEF CheckEmail, KeysOK
<1>4. ASSUME NEW h \in Handlers, Create(h) PROVE KeysOK'
  BY <1>4, <1>0 DEF Create, KeysOK
<1>5. ASSUME NEW h \in Handlers, Login(h) PROVE KeysOK'
  BY <1>5, <1>0 DEF Login, KeysOK
<1>6. ASSUME NEW h \in Handlers, Rehash(h) PROVE KeysOK'
  BY <1>6, <1>0 DEF Rehash, KeysOK
<1>7. ASSUME NEW h \in Handlers, RequestPasswordReset(h) PROVE KeysOK'
  BY <1>7, <1>0 DEF RequestPasswordReset, KeysOK
<1>8. ASSUME NEW h \in Handlers, CheckCooldown(h) PROVE KeysOK'
  BY <1>8, <1>0 DEF CheckCooldown, KeysOK
<1>9. ASSUME NEW h \in Handlers, StoreCode(h) PROVE KeysOK'
  <2>1. drawn' \in 0 .. MaxCodes /\ drawn' = drawn + 1
    BY <1>0, <1>c, <1>9 DEF StoreCode, KeysOK
  <2>2. code' \in [Ids -> 0 .. drawn']
    <3>1. ASSUME NEW j \in Ids PROVE code'[j] \in 0 .. drawn'
      BY <1>0, <1>9, <2>1 DEF StoreCode, KeysOK
    <3> QED
      BY <1>0, <1>9, <3>1 DEF StoreCode, KeysOK
  <2>3. attempts' \in [Ids -> Counts]
    BY CountsFacts, <1>0, <1>9 DEF StoreCode, KeysOK
  <2>4. mailed' \in [Ids -> SUBSET (1 .. drawn')]
    BY <1>0, <1>9, <2>1 DEF StoreCode, KeysOK
  <2> QED
    BY <1>0, <1>9, <2>1, <2>2, <2>3, <2>4 DEF StoreCode, KeysOK
<1>10. ASSUME NEW h \in Handlers, SetCooldown(h) PROVE KeysOK'
  <2>1. cooldown' \in [Ids -> BOOLEAN]
    BY <1>0, <1>10 DEF SetCooldown, KeysOK
  <2> QED
    BY <1>0, <1>10, <2>1 DEF SetCooldown, KeysOK
<1>11. ASSUME NEW h \in Handlers, ResetAttempts(h) PROVE KeysOK'
  <2>1. attempts' \in [Ids -> Counts]
    BY CountsFacts, <1>0, <1>11 DEF ResetAttempts, KeysOK
  <2> QED
    BY <1>0, <1>11, <2>1 DEF ResetAttempts, KeysOK
<1>12. ASSUME NEW h \in Handlers, Send(h) PROVE KeysOK'
  <2>1. call[h].code \in 1 .. drawn
    BY <1>0, <1>12 DEF Send, CallsOK, Carries
  <2>2. \/ mailed' = mailed
        \/ mailed' = [mailed EXCEPT ![call[h].i] = @ \cup {call[h].code}]
    BY <1>12 DEF Send
  <2>3. mailed' \in [Ids -> SUBSET (1 .. drawn)]
    BY <1>0, <2>1, <2>2 DEF KeysOK
  <2> QED
    BY <1>0, <1>12, <2>3 DEF Send, KeysOK
<1>13. ASSUME NEW h \in Handlers, Unsend(h) PROVE KeysOK'
  <2>1. code' \in [Ids -> 0 .. drawn]
    BY <1>0, <1>13 DEF Unsend, KeysOK, None
  <2>2. cooldown' \in [Ids -> BOOLEAN]
    BY <1>0, <1>13 DEF Unsend, KeysOK
  <2> QED
    BY <1>0, <1>13, <2>1, <2>2 DEF Unsend, KeysOK
<1>14. ASSUME NEW h \in Handlers, ConfirmPasswordReset(h) PROVE KeysOK'
  BY <1>14, <1>0 DEF ConfirmPasswordReset, KeysOK
<1>15. ASSUME NEW h \in Handlers, GetCode(h) PROVE KeysOK'
  BY <1>15, <1>0 DEF GetCode, KeysOK
<1>16. ASSUME NEW h \in Handlers, CountWrong(h) PROVE KeysOK'
  <2>1. PICK incr \in BOOLEAN, expire \in BOOLEAN :
            attempts' = [attempts EXCEPT ![call[h].i] = Count(call[h].i, incr, expire)]
    BY <1>16 DEF CountWrong
  <2>2. call[h].i \in Ids
    BY <1>0, <1>16 DEF CountWrong, CallsOK, Carries, TableOK
  <2>3. attempts[call[h].i] \in Counts
    BY <1>0, <2>2 DEF KeysOK
  <2>4. Count(call[h].i, incr, expire) \in Counts
    BY <2>3 DEF Count, Counts
  <2>5. attempts' \in [Ids -> Counts]
    BY <1>0, <2>1, <2>4 DEF KeysOK
  <2> QED
    BY <1>0, <1>16, <2>5 DEF CountWrong, KeysOK
<1>17. ASSUME NEW h \in Handlers, DropCode(h) PROVE KeysOK'
  BY <1>17, <1>0 DEF DropCode, KeysOK, None
<1>18. ASSUME NEW h \in Handlers, ResetPassword(h) PROVE KeysOK'
  BY <1>18, <1>0 DEF ResetPassword, KeysOK
<1>19. ASSUME NEW h \in Handlers, ClearReset(h) PROVE KeysOK'
  <2>1. code' \in [Ids -> 0 .. drawn]
    BY <1>0, <1>19 DEF ClearReset, KeysOK, None
  <2>2. cooldown' \in [Ids -> BOOLEAN]
    BY <1>0, <1>19 DEF ClearReset, KeysOK
  <2>3. attempts' \in [Ids -> Counts]
    BY CountsFacts, <1>0, <1>19 DEF ClearReset, KeysOK
  <2> QED
    BY <1>0, <1>19, <2>1, <2>2, <2>3 DEF ClearReset, KeysOK
<1>20. ASSUME NEW h \in Handlers, ChangePassword(h) PROVE KeysOK'
  BY <1>20, <1>0 DEF ChangePassword, KeysOK
<1>21. ASSUME NEW h \in Handlers, Change(h) PROVE KeysOK'
  BY <1>21, <1>0 DEF Change, KeysOK
<1>22. ASSUME NEW h \in Handlers, UpdateMe(h) PROVE KeysOK'
  BY <1>22, <1>0 DEF UpdateMe, KeysOK
<1>23. ASSUME NEW h \in Handlers, BindEmail(h) PROVE KeysOK'
  BY <1>23, <1>0 DEF BindEmail, KeysOK
<1>24. ASSUME NEW h \in Handlers, Abort(h) PROVE KeysOK'
  BY <1>24, <1>0 DEF Abort, KeysOK
<1>25. CASE UNCHANGED vars
  BY <1>25, <1>0 DEF vars, KeysOK
<1> QED
  BY <1>1, <1>2, <1>3, <1>4, <1>5, <1>6, <1>7, <1>8, <1>9, <1>10, <1>11, <1>12, <1>13,
     <1>14, <1>15, <1>16, <1>17, <1>18, <1>19, <1>20, <1>21, <1>22, <1>23, <1>24, <1>25
     DEF Next

\* A step of h only concerns what h carries: accounts and codes are never taken
\* away from the other requests.
LEMMA CarriesFacts ==
    ASSUME TInv, NEW h \in Handlers, NEW r \in Call, call' = [call EXCEPT ![h] = r],
           DOMAIN users \subseteq DOMAIN users', drawn' \in Nat, drawn <= drawn',
           Carries(r, DOMAIN users', drawn')
    PROVE  CallsOK' /\ call'[h] = r
<1>1. call' \in [Handlers -> Call] /\ call'[h] = r
  BY DEF TInv, CallsOK
<1>2. ASSUME NEW g \in Handlers \ {h} PROVE Carries(call'[g], DOMAIN users', drawn')
  <2>1. call'[g] = call[g] /\ Carries(call[g], DOMAIN users, drawn)
    BY DEF TInv, CallsOK
  <2>2. 1 .. drawn \subseteq 1 .. drawn'
    BY DEF TInv, KeysOK
  <2> QED
    BY <2>1, <2>2 DEF Carries
<1> QED
  BY <1>1, <1>2 DEF CallsOK

\* A request that returns carries nothing.
LEMMA ReturnFacts ==
    ASSUME TInv, NEW h \in Handlers, call' = [call EXCEPT ![h] = NoCall],
           DOMAIN users \subseteq DOMAIN users', drawn' = drawn
    PROVE  CallsOK'
<1>1. NoCall \in Call
  BY AccountsAssumption DEF NoCall, Call, Ops, None
<1>2. Carries(NoCall, DOMAIN users', drawn')
  BY DEF Carries, NoCall, None
<1>3. drawn \in Nat /\ drawn <= drawn
  BY DEF TInv, KeysOK
<1> QED
  BY <1>1, <1>2, <1>3, CarriesFacts

\* A request that goes on carries what it carried.
LEMMA ContinueFacts ==
    ASSUME TInv, NEW h \in Handlers, NEW o \in Ops,
           call' = [call EXCEPT ![h].op = o],
           DOMAIN users' = DOMAIN users, drawn' = drawn,
           Carries([call[h] EXCEPT !.op = o], DOMAIN users, drawn)
    PROVE  CallsOK'
<1>1. /\ call[h] \in Call /\ call \in [Handlers -> Call]
      /\ drawn \in Nat /\ drawn <= drawn
  BY DEF TInv, CallsOK, KeysOK
<1>2. [call[h] EXCEPT !.op = o] \in Call
  BY <1>1 DEF Call
<1>3. call' = [call EXCEPT ![h] = [call[h] EXCEPT !.op = o]]
  BY <1>1
<1> QED
  BY <1>1, <1>2, <1>3, CarriesFacts

\* The rows a login identifier finds are rows of the table.
LEMMA LoginFacts ==
    ASSUME NEW identifier, NEW i \in GetByLogin(identifier)
    PROVE  i \in DOMAIN users
  BY DEF GetByLogin, GetByUsername, GetByEmail

\* A request carries, at each of its steps, an account of the table and the data the
\* step needs.
LEMMA CallsStep ==
    TInv /\ [Next]_vars => CallsOK'
<1> SUFFICES ASSUME TInv, [Next]_vars PROVE CallsOK'
  OBVIOUS
<1> USE DEF redis, history
<1>0. TableOK /\ KeysOK /\ CallsOK
  BY DEF TInv
<1>1. ASSUME NEW i \in Ids, Expire(i) PROVE CallsOK'
  BY <1>0, <1>1 DEF Expire, CallsOK, Carries
<1>2. ASSUME NEW h \in Handlers, Register(h) PROVE CallsOK'
  <2>1. PICK name \in Names, email \in Emails \cup {None}, p \in Passwords :
            call' = [call EXCEPT ![h] = [NoCall EXCEPT
                     !.op = IF email = None THEN "create" ELSE "email",
                     !.name = name, !.email = email, !.password = p]]
    BY <1>0, <1>2, LoginFacts DEF Register, Begin, TableOK
  <2> DEFINE r == [NoCall EXCEPT
                     !.op = IF email = None THEN "create" ELSE "email",
                     !.name = name, !.email = email, !.password = p]
  <2>2. /\ r.op = IF email = None THEN "create" ELSE "email"
        /\ r.i = None /\ r.name = name /\ r.email = email /\ r.password = p /\ r.code = None
    BY DEF NoCall
  <2>3. r \in Call
    BY <1>0, <2>1, <2>2 DEF Call, Ops, NoCall, None, TableOK
  <2>4. /\ DOMAIN users' = DOMAIN users /\ drawn' = drawn
        /\ drawn \in Nat /\ drawn <= drawn
    BY <1>0, <1>2 DEF Register, KeysOK
  <2>5. call' = [call EXCEPT ![h] = r]
    BY <2>1
  <2> HIDE DEF r
  <2>6. Carries(r, DOMAIN users, drawn)
    BY <1>0, <2>1, <2>2 DEF Carries, None
  <2> QED
    BY <2>3, <2>4, <2>5, <2>6, CarriesFacts
<1>3. ASSUME NEW h \in Handlers, CheckEmail(h) PROVE CallsOK'
  <2>1. DOMAIN users' = DOMAIN users /\ drawn' = drawn
    BY <1>3 DEF CheckEmail
  <2>2. CASE call' = [call EXCEPT ![h] = NoCall]
    BY <2>1, <2>2, ReturnFacts
  <2>3. CASE call' = [call EXCEPT ![h].op = "create"] /\ call[h].i = None
    <3>1. "create" \in Ops
      BY DEF Ops
    <3>2. Carries([call[h] EXCEPT !.op = "create"], DOMAIN users, drawn)
      <4>1. call[h] \in Call /\ Carries(call[h], DOMAIN users, drawn)
        BY <1>0 DEF CallsOK
      <4> QED
        BY <1>3, <2>3, <4>1 DEF CheckEmail, Call, Carries
    <3> QED
      BY <2>1, <2>3, <3>1, <3>2, ContinueFacts
  <2>4. CASE call' = [call EXCEPT ![h].op = "bind"] /\ call[h].i # None
    <3>1. "bind" \in Ops
      BY DEF Ops
    <3>2. Carries([call[h] EXCEPT !.op = "bind"], DOMAIN users, drawn)
      <4>1. call[h] \in Call /\ Carries(call[h], DOMAIN users, drawn)
        BY <1>0 DEF CallsOK
      <4> QED
        BY <1>3, <2>4, <4>1 DEF CheckEmail, Call, Carries
    <3> QED
      BY <2>1, <2>4, <3>1, <3>2, ContinueFacts
  <2> QED
    BY <1>3, <2>2, <2>3, <2>4 DEF CheckEmail, Return, Continue
<1>4. ASSUME NEW h \in Handlers, Create(h) PROVE CallsOK'
  <2>1. call' = [call EXCEPT ![h] = NoCall] /\ drawn' = drawn
    BY <1>4 DEF Create, Return
  <2>2. DOMAIN users \subseteq DOMAIN users'
    <3>1. users' = users \/ users' = Append(users, NewUser(h))
      BY <1>4 DEF Create
    <3> QED
      BY <1>0, <3>1 DEF TableOK
  <2> QED
    BY <2>1, <2>2, ReturnFacts
<1>5. ASSUME NEW h \in Handlers, Login(h) PROVE CallsOK'
  <2>1. CASE UNCHANGED call
    BY <1>0, <1>5, <2>1 DEF Login, CallsOK, Carries
  <2>2. CASE \E i \in DOMAIN users, p \in Passwords :
                call' = [call EXCEPT ![h] =
                            [NoCall EXCEPT !.op = "rehash", !.i = i, !.password = p]]
    <3>1. PICK i \in DOMAIN users, p \in Passwords :
              /\ TRUE
              /\ call' = [call EXCEPT ![h] = [NoCall EXCEPT !.op = "rehash", !.i = i, !.password = p]]
      BY <2>2
    <3> DEFINE r == [NoCall EXCEPT !.op = "rehash", !.i = i, !.password = p]
    <3>9. /\ r.op = "rehash" /\ r.i = i /\ r.password = p
          /\ r.name = None /\ r.email = None /\ r.code = None
      BY DEF NoCall
    <3>3. r \in Call
      BY <1>0, <3>1, <3>9 DEF Call, Ops, NoCall, None, TableOK
    <3>4. /\ DOMAIN users' = DOMAIN users /\ drawn' = drawn
          /\ drawn \in Nat /\ drawn <= drawn
      BY <1>0, <1>5 DEF Login, KeysOK
    <3>5. call' = [call EXCEPT ![h] = r]
      BY <3>1
    <3> HIDE DEF r
    <3>6. Carries(r, DOMAIN users, drawn)
      BY <1>0, <3>1, <3>9 DEF Carries
    <3> QED
      BY <3>3, <3>4, <3>5, <3>6, CarriesFacts
  <2>3. \/ UNCHANGED call
        \/ \E i \in DOMAIN users, p \in Passwords :
              call' = [call EXCEPT ![h] =
                          [NoCall EXCEPT !.op = "rehash", !.i = i, !.password = p]]
    BY <1>5, LoginFacts DEF Login, Begin
  <2> QED
    BY <2>1, <2>2, <2>3
<1>6. ASSUME NEW h \in Handlers, Rehash(h) PROVE CallsOK'
  <2>1. call' = [call EXCEPT ![h] = NoCall]
    BY <1>6 DEF Rehash, Return
  <2>2. DOMAIN users \subseteq DOMAIN users' /\ drawn' = drawn
    BY <1>0, <1>6 DEF Rehash, TableOK, UpdatePassword
  <2> QED
    BY <2>1, <2>2, ReturnFacts
<1>7. ASSUME NEW h \in Handlers, RequestPasswordReset(h) PROVE CallsOK'
  <2>1. PICK i \in DOMAIN users :
            call' = [call EXCEPT ![h] = [NoCall EXCEPT !.op = "cooldown", !.i = i]]
    BY <1>0, <1>7, LoginFacts DEF RequestPasswordReset, Begin, TableOK
  <2> DEFINE r == [NoCall EXCEPT !.op = "cooldown", !.i = i]
  <2>2. /\ r.op = "cooldown" /\ r.i = i /\ r.password = None
        /\ r.name = None /\ r.email = None /\ r.code = None
    BY DEF NoCall
  <2>3. r \in Call
    BY <1>0, <2>1, <2>2 DEF Call, Ops, NoCall, None, TableOK
  <2>4. /\ DOMAIN users' = DOMAIN users /\ drawn' = drawn
        /\ drawn \in Nat /\ drawn <= drawn
    BY <1>0, <1>7 DEF RequestPasswordReset, KeysOK
  <2>5. call' = [call EXCEPT ![h] = r]
    BY <2>1
  <2> HIDE DEF r
  <2>6. Carries(r, DOMAIN users, drawn)
    BY <1>0, <2>1, <2>2 DEF Carries
  <2> QED
    BY <2>3, <2>4, <2>5, <2>6, CarriesFacts
<1>8. ASSUME NEW h \in Handlers, CheckCooldown(h) PROVE CallsOK'
  <2>1. DOMAIN users' = DOMAIN users /\ drawn' = drawn
    BY <1>0, <1>8 DEF CheckCooldown, TableOK
  <2>2. CASE call' = [call EXCEPT ![h] = NoCall]
    BY <2>1, <2>2, ReturnFacts
  <2>3. CASE call' = [call EXCEPT ![h].op = "store"]
    <3>1. "store" \in Ops
      BY DEF Ops
    <3>2. Carries([call[h] EXCEPT !.op = "store"], DOMAIN users, drawn)
      <4>1. call[h] \in Call /\ Carries(call[h], DOMAIN users, drawn)
        BY <1>0 DEF CallsOK
      <4> QED
        BY <1>8, <2>3, <4>1 DEF CheckCooldown, Call, Carries
    <3> QED
      BY <2>1, <2>3, <3>1, <3>2, ContinueFacts
  <2> QED
    BY <1>8, <2>2, <2>3 DEF CheckCooldown, Return, Continue
<1>9. ASSUME NEW h \in Handlers, StoreCode(h) PROVE CallsOK'
  <2> DEFINE r == [call[h] EXCEPT !.op = "hold", !.code = drawn + 1]
  <2>1. /\ call[h] \in Call /\ Carries(call[h], DOMAIN users, drawn)
        /\ drawn \in Nat /\ drawn <= drawn + 1
    BY <1>0 DEF CallsOK, KeysOK
  <2>2. r \in Call /\ r.op = "hold" /\ r.code = drawn + 1 /\ r.i = call[h].i
    <3> DEFINE q == [call[h] EXCEPT !.op = "hold"]
    <3>1. q \in Call /\ q.op = "hold" /\ q.i = call[h].i
      BY <2>1 DEF Call, Ops
    <3>2. r = [q EXCEPT !.code = drawn + 1]
      OBVIOUS
    <3> HIDE DEF q, r
    <3> QED
      BY <2>1, <3>1, <3>2 DEF Call
  <2>4. /\ users' = users /\ drawn' = drawn + 1
        /\ call' = [call EXCEPT ![h] = r] \/ call' = [call EXCEPT ![h] = NoCall]
    BY <1>0, <1>9 DEF StoreCode, Return, CallsOK
  <2> HIDE DEF r
  <2>3. DOMAIN users' = DOMAIN users /\ drawn' \in Nat /\ drawn <= drawn'
    BY <2>1, <2>4
  <2>5. Carries(r, DOMAIN users, drawn + 1)
    BY <1>9, <2>1, <2>2 DEF StoreCode, Carries
  <2>6. NoCall \in Call /\ Carries(NoCall, DOMAIN users, drawn + 1)
    BY DEF NoCall, Call, Ops, None, Carries
  <2> QED
    BY <2>2, <2>3, <2>4, <2>5, <2>6, CarriesFacts
<1>10. ASSUME NEW h \in Handlers, SetCooldown(h) PROVE CallsOK'
  <2>1. DOMAIN users' = DOMAIN users /\ drawn' = drawn
    BY <1>0, <1>10 DEF SetCooldown, TableOK
  <2>2. call' = [call EXCEPT ![h].op = "zero"]
    BY <1>10 DEF SetCooldown, Continue
  <2>3. "zero" \in Ops
    BY DEF Ops
  <2>4. Carries([call[h] EXCEPT !.op = "zero"], DOMAIN users, drawn)
    <3>1. call[h] \in Call /\ Carries(call[h], DOMAIN users, drawn)
      BY <1>0 DEF CallsOK
    <3> QED
      BY <1>10, <2>2, <3>1 DEF SetCooldown, Call, Carries
  <2> QED
    BY <2>1, <2>2, <2>3, <2>4, ContinueFacts
<1>11. ASSUME NEW h \in Handlers, ResetAttempts(h) PROVE CallsOK'
  <2>1. DOMAIN users' = DOMAIN users /\ drawn' = drawn
    BY <1>0, <1>11 DEF ResetAttempts, TableOK
  <2>2. call' = [call EXCEPT ![h].op = "send"]
    BY <1>11 DEF ResetAttempts, Continue
  <2>3. "send" \in Ops
    BY DEF Ops
  <2>4. Carries([call[h] EXCEPT !.op = "send"], DOMAIN users, drawn)
    <3>1. call[h] \in Call /\ Carries(call[h], DOMAIN users, drawn)
      BY <1>0 DEF CallsOK
    <3> QED
      BY <1>11, <2>2, <3>1 DEF ResetAttempts, Call, Carries
  <2> QED
    BY <2>1, <2>2, <2>3, <2>4, ContinueFacts
<1>12. ASSUME NEW h \in Handlers, Send(h) PROVE CallsOK'
  <2>1. DOMAIN users' = DOMAIN users /\ drawn' = drawn
    BY <1>0, <1>12 DEF Send, TableOK
  <2>2. CASE call' = [call EXCEPT ![h] = NoCall]
    BY <2>1, <2>2, ReturnFacts
  <2>3. CASE call' = [call EXCEPT ![h].op = "unsent"]
    <3>1. "unsent" \in Ops
      BY DEF Ops
    <3>2. Carries([call[h] EXCEPT !.op = "unsent"], DOMAIN users, drawn)
      <4>1. call[h] \in Call /\ Carries(call[h], DOMAIN users, drawn)
        BY <1>0 DEF CallsOK
      <4> QED
        BY <1>12, <2>3, <4>1 DEF Send, Call, Carries
    <3> QED
      BY <2>1, <2>3, <3>1, <3>2, ContinueFacts
  <2> QED
    BY <1>12, <2>2, <2>3 DEF Send, Return, Continue
<1>13. ASSUME NEW h \in Handlers, Unsend(h) PROVE CallsOK'
  <2>1. call' = [call EXCEPT ![h] = NoCall]
    BY <1>13 DEF Unsend, Return
  <2>2. DOMAIN users \subseteq DOMAIN users' /\ drawn' = drawn
    BY <1>0, <1>13 DEF Unsend, TableOK
  <2> QED
    BY <2>1, <2>2, ReturnFacts
<1>14. ASSUME NEW h \in Handlers, ConfirmPasswordReset(h) PROVE CallsOK'
  <2>1. PICK i \in DOMAIN users, p \in Passwords, answer \in Nat :
            call' = [call EXCEPT ![h] = [NoCall EXCEPT !.op = "get", !.i = i, !.password = p, !.code = answer]]
    <3>1. ASSUME NEW i \in DOMAIN users PROVE mailed[i] \cup {None} \subseteq Nat
      BY <1>0 DEF TableOK, KeysOK, None
    <3> QED
      BY <1>14, <3>1, LoginFacts DEF ConfirmPasswordReset, Begin
  <2> DEFINE r == [NoCall EXCEPT !.op = "get", !.i = i, !.password = p, !.code = answer]
  <2>2. /\ r.op = "get" /\ r.i = i /\ r.password = p /\ r.code = answer
        /\ r.name = None /\ r.email = None
    BY DEF NoCall
  <2>3. r \in Call
    BY <1>0, <2>1, <2>2 DEF Call, Ops, NoCall, None, TableOK
  <2>4. /\ DOMAIN users' = DOMAIN users /\ drawn' = drawn
        /\ drawn \in Nat /\ drawn <= drawn
    BY <1>0, <1>14 DEF ConfirmPasswordReset, KeysOK
  <2>5. call' = [call EXCEPT ![h] = r]
    BY <2>1
  <2> HIDE DEF r
  <2>6. Carries(r, DOMAIN users, drawn)
    BY <1>0, <2>1, <2>2 DEF Carries
  <2> QED
    BY <2>3, <2>4, <2>5, <2>6, CarriesFacts
<1>15. ASSUME NEW h \in Handlers, GetCode(h) PROVE CallsOK'
  <2> DEFINE o == IF call[h].code = code[call[h].i] THEN "reset" ELSE "count"
             r == [call[h] EXCEPT !.op = o, !.code = code[call[h].i]]
  <2>1. /\ call[h] \in Call /\ Carries(call[h], DOMAIN users, drawn)
        /\ drawn \in Nat /\ drawn <= drawn
        /\ DOMAIN users' = DOMAIN users /\ drawn' = drawn
    BY <1>0, <1>15 DEF GetCode, CallsOK, KeysOK
  <2>2. CASE call' = [call EXCEPT ![h] = NoCall]
    BY <2>1, <2>2, ReturnFacts
  <2>3. CASE call' = [call EXCEPT ![h] = r] /\ code[call[h].i] # None
    <3>1. call[h].i \in DOMAIN users /\ call[h].i \in Ids /\ call[h].password \in Passwords
      BY <1>0, <1>15, <2>1 DEF GetCode, Carries, TableOK
    <3>2. code[call[h].i] \in 1 .. drawn
      BY <1>0, <2>1, <2>3, <3>1 DEF KeysOK, None
    <3>3. o \in {"reset", "count"}
      OBVIOUS
    <3> HIDE DEF o
    <3>4. o \in Ops /\ code[call[h].i] \in Nat
      BY <3>2, <3>3 DEF Ops
    <3>5. /\ r \in Call /\ r.op = o /\ r.code = code[call[h].i]
          /\ r.i = call[h].i /\ r.password = call[h].password
      <4> DEFINE q == [call[h] EXCEPT !.op = o]
      <4>1. q \in Call /\ q.op = o /\ q.i = call[h].i /\ q.password = call[h].password
        BY <2>1, <3>4 DEF Call
      <4>2. r = [q EXCEPT !.code = code[call[h].i]]
        OBVIOUS
      <4> HIDE DEF q, r
      <4> QED
        BY <3>4, <4>1, <4>2 DEF Call
    <3> HIDE DEF r
    <3>6. Carries(r, DOMAIN users, drawn)
      BY <3>1, <3>2, <3>3, <3>5 DEF Carries
    <3> QED
      BY <2>1, <2>3, <3>5, <3>6, CarriesFacts
  <2>4. \/ call' = [call EXCEPT ![h] = NoCall]
        \/ call' = [call EXCEPT ![h] = r] /\ code[call[h].i] # None
    BY <1>0, <1>15 DEF GetCode, Return, CallsOK
  <2> QED
    BY <2>2, <2>3, <2>4
<1>16. ASSUME NEW h \in Handlers, CountWrong(h) PROVE CallsOK'
  <2>1. DOMAIN users' = DOMAIN users /\ drawn' = drawn
    BY <1>0, <1>16 DEF CountWrong, TableOK
  <2>2. CASE call' = [call EXCEPT ![h] = NoCall]
    BY <2>1, <2>2, ReturnFacts
  <2>3. CASE call' = [call EXCEPT ![h].op = "drop"]
    <3>1. "drop" \in Ops
      BY DEF Ops
    <3>2. Carries([call[h] EXCEPT !.op = "drop"], DOMAIN users, drawn)
      <4>1. call[h] \in Call /\ Carries(call[h], DOMAIN users, drawn)
        BY <1>0 DEF CallsOK
      <4> QED
        BY <1>16, <2>3, <4>1 DEF CountWrong, Call, Carries
    <3> QED
      BY <2>1, <2>3, <3>1, <3>2, ContinueFacts
  <2> QED
    BY <1>16, <2>2, <2>3 DEF CountWrong, Return, Continue
<1>17. ASSUME NEW h \in Handlers, DropCode(h) PROVE CallsOK'
  <2>1. call' = [call EXCEPT ![h] = NoCall]
    BY <1>17 DEF DropCode, Return
  <2>2. DOMAIN users \subseteq DOMAIN users' /\ drawn' = drawn
    BY <1>0, <1>17 DEF DropCode, TableOK
  <2> QED
    BY <2>1, <2>2, ReturnFacts
<1>18. ASSUME NEW h \in Handlers, ResetPassword(h) PROVE CallsOK'
  <2>1. DOMAIN users' = DOMAIN users /\ drawn' = drawn
    BY <1>0, <1>18 DEF ResetPassword, TableOK, SetPassword, UpdatePassword
  <2>2. CASE call' = [call EXCEPT ![h] = NoCall]
    BY <2>1, <2>2, ReturnFacts
  <2>3. CASE call' = [call EXCEPT ![h].op = "clear"]
    <3>1. "clear" \in Ops
      BY DEF Ops
    <3>2. Carries([call[h] EXCEPT !.op = "clear"], DOMAIN users, drawn)
      <4>1. call[h] \in Call /\ Carries(call[h], DOMAIN users, drawn)
        BY <1>0 DEF CallsOK
      <4> QED
        BY <1>18, <2>3, <4>1 DEF ResetPassword, Call, Carries
    <3> QED
      BY <2>1, <2>3, <3>1, <3>2, ContinueFacts
  <2> QED
    BY <1>18, <2>2, <2>3 DEF ResetPassword, Return, Continue
<1>19. ASSUME NEW h \in Handlers, ClearReset(h) PROVE CallsOK'
  <2>1. call' = [call EXCEPT ![h] = NoCall]
    BY <1>19 DEF ClearReset, Return
  <2>2. DOMAIN users \subseteq DOMAIN users' /\ drawn' = drawn
    BY <1>0, <1>19 DEF ClearReset, TableOK
  <2> QED
    BY <2>1, <2>2, ReturnFacts
<1>20. ASSUME NEW h \in Handlers, ChangePassword(h) PROVE CallsOK'
  <2>1. PICK i \in DOMAIN users, p \in Passwords :
            call' = [call EXCEPT ![h] = [NoCall EXCEPT !.op = "change", !.i = i, !.password = p]]
    BY <1>0, <1>20, LoginFacts DEF ChangePassword, Begin, TableOK
  <2> DEFINE r == [NoCall EXCEPT !.op = "change", !.i = i, !.password = p]
  <2>2. /\ r.op = "change" /\ r.i = i /\ r.password = p
        /\ r.name = None /\ r.email = None /\ r.code = None
    BY DEF NoCall
  <2>3. r \in Call
    BY <1>0, <2>1, <2>2 DEF Call, Ops, NoCall, None, TableOK
  <2>4. /\ DOMAIN users' = DOMAIN users /\ drawn' = drawn
        /\ drawn \in Nat /\ drawn <= drawn
    BY <1>0, <1>20 DEF ChangePassword, KeysOK
  <2>5. call' = [call EXCEPT ![h] = r]
    BY <2>1
  <2> HIDE DEF r
  <2>6. Carries(r, DOMAIN users, drawn)
    BY <1>0, <2>1, <2>2 DEF Carries
  <2> QED
    BY <2>3, <2>4, <2>5, <2>6, CarriesFacts
<1>21. ASSUME NEW h \in Handlers, Change(h) PROVE CallsOK'
  <2>1. call' = [call EXCEPT ![h] = NoCall]
    BY <1>21 DEF Change, Return
  <2>2. DOMAIN users \subseteq DOMAIN users' /\ drawn' = drawn
    BY <1>0, <1>21 DEF Change, TableOK, SetPassword, UpdatePassword
  <2> QED
    BY <2>1, <2>2, ReturnFacts
<1>22. ASSUME NEW h \in Handlers, UpdateMe(h) PROVE CallsOK'
  <2>1. PICK i \in DOMAIN users, email \in Emails :
            /\ i # None
            /\ call' = [call EXCEPT ![h] = [NoCall EXCEPT !.op = "email", !.i = i, !.email = email]]
    BY <1>0, <1>22, AccountsAssumption DEF UpdateMe, Begin, TableOK, None
  <2> DEFINE r == [NoCall EXCEPT !.op = "email", !.i = i, !.email = email]
  <2>2. /\ r.op = "email" /\ r.i = i /\ r.email = email
        /\ r.name = None /\ r.password = None /\ r.code = None
    BY DEF NoCall
  <2>3. r \in Call
    BY <1>0, <2>1, <2>2 DEF Call, Ops, NoCall, None, TableOK
  <2>4. /\ DOMAIN users' = DOMAIN users /\ drawn' = drawn
        /\ drawn \in Nat /\ drawn <= drawn
    BY <1>0, <1>22 DEF UpdateMe, KeysOK
  <2>5. call' = [call EXCEPT ![h] = r]
    BY <2>1
  <2> HIDE DEF r
  <2>6. Carries(r, DOMAIN users, drawn)
    BY <1>0, <2>1, <2>2 DEF Carries
  <2> QED
    BY <2>3, <2>4, <2>5, <2>6, CarriesFacts
<1>23. ASSUME NEW h \in Handlers, BindEmail(h) PROVE CallsOK'
  <2>1. call' = [call EXCEPT ![h] = NoCall]
    BY <1>23 DEF BindEmail, Return
  <2>2. DOMAIN users \subseteq DOMAIN users' /\ drawn' = drawn
    BY <1>0, <1>23 DEF BindEmail, TableOK
  <2> QED
    BY <2>1, <2>2, ReturnFacts
<1>24. ASSUME NEW h \in Handlers, Abort(h) PROVE CallsOK'
  <2>1. call' = [call EXCEPT ![h] = NoCall]
    BY <1>24 DEF Abort, Return
  <2>2. DOMAIN users \subseteq DOMAIN users' /\ drawn' = drawn
    BY <1>0, <1>24 DEF Abort, TableOK
  <2> QED
    BY <2>1, <2>2, ReturnFacts
<1>25. CASE UNCHANGED vars
  BY <1>25, <1>0 DEF vars, CallsOK, Carries
<1> QED
  BY <1>1, <1>2, <1>3, <1>4, <1>5, <1>6, <1>7, <1>8, <1>9, <1>10, <1>11, <1>12, <1>13,
     <1>14, <1>15, <1>16, <1>17, <1>18, <1>19, <1>20, <1>21, <1>22, <1>23, <1>24, <1>25
     DEF Next

\* The three parts together are inductive.
LEMMA TInvStep == TInv /\ [Next]_vars => TInv'
  BY TableStep, KeysStep, CallsStep DEF TInv

\* The server starts with the accounts made before and no request.
LEMMA TInvInit == Init => TInv
<1> SUFFICES ASSUME Init PROVE TInv
  OBVIOUS
<1>1. TableOK
  <2>1. users \in Seq(User) /\ DOMAIN users \subseteq Ids /\ UniqueKeys(users)
    BY AccountsAssumption DEF Init
  <2>2. \A i \in DOMAIN users : users[i].password \in Passwords
    <3>1. ASSUME NEW i \in DOMAIN users PROVE users[i] \in User
      BY <2>1
    <3> QED
      BY <3>1 DEF User
  <2>3. intended \in [Ids -> Passwords \cup {None}]
    BY <2>2 DEF Init
  <2> QED
    BY <2>1, <2>3 DEF Init, TableOK
<1>2. KeysOK
  BY AccountsAssumption, CountsFacts DEF Init, KeysOK, None
<1>3. CallsOK
  <2>1. NoCall \in Call
    BY DEF NoCall, Call, Ops, None
  <2>2. Carries(NoCall, DOMAIN users, drawn)
    BY DEF Carries, NoCall, None
  <2> QED
    BY <2>1, <2>2 DEF Init, CallsOK
<1> QED
  BY <1>1, <1>2, <1>3 DEF TInv

-----------------------------------------------------------------------------
\* Every address is kept in the step.
AddressesKept ==
    \A i \in DOMAIN users : users[i].email # None => users'[i].email = users[i].email

\* Only BindEmail writes an address, and only where there is none.
LEMMA BoundStep ==
    TInv /\ [Next]_vars => AddressesKept
<1> SUFFICES ASSUME TInv, [Next]_vars PROVE AddressesKept
  OBVIOUS
<1> USE DEF AddressesKept
<1>0. TableOK /\ CallsOK
  BY DEF TInv
<1>1. ASSUME NEW i \in Ids, Expire(i) PROVE AddressesKept
  BY <1>1 DEF Expire
<1>2. ASSUME NEW h \in Handlers, Register(h) PROVE AddressesKept
  BY <1>2 DEF Register
<1>3. ASSUME NEW h \in Handlers, CheckEmail(h) PROVE AddressesKept
  BY <1>3 DEF CheckEmail
<1>4. ASSUME NEW h \in Handlers, Create(h) PROVE AddressesKept
  <2>1. users' = users \/ users' = Append(users, NewUser(h))
    BY <1>4 DEF Create
  <2> QED
    BY <1>0, <2>1 DEF TableOK
<1>5. ASSUME NEW h \in Handlers, Login(h) PROVE AddressesKept
  BY <1>5 DEF Login
<1>6. ASSUME NEW h \in Handlers, Rehash(h) PROVE AddressesKept
  <2>1. call[h].i \in DOMAIN users /\ call[h].password \in Passwords
    BY <1>0, <1>6 DEF Rehash, CallsOK, Carries
  <2> QED
    BY <1>0, <1>6, <2>1, UpdateFacts DEF Rehash, TableOK
<1>7. ASSUME NEW h \in Handlers, RequestPasswordReset(h) PROVE AddressesKept
  BY <1>7 DEF RequestPasswordReset
<1>8. ASSUME NEW h \in Handlers, CheckCooldown(h) PROVE AddressesKept
  BY <1>8 DEF CheckCooldown
<1>9. ASSUME NEW h \in Handlers, StoreCode(h) PROVE AddressesKept
  BY <1>9 DEF StoreCode
<1>10. ASSUME NEW h \in Handlers, SetCooldown(h) PROVE AddressesKept
  BY <1>10 DEF SetCooldown
<1>11. ASSUME NEW h \in Handlers, ResetAttempts(h) PROVE AddressesKept
  BY <1>11 DEF ResetAttempts
<1>12. ASSUME NEW h \in Handlers, Send(h) PROVE AddressesKept
  BY <1>12 DEF Send
<1>13. ASSUME NEW h \in Handlers, Unsend(h) PROVE AddressesKept
  BY <1>13 DEF Unsend
<1>14. ASSUME NEW h \in Handlers, ConfirmPasswordReset(h) PROVE AddressesKept
  BY <1>14 DEF ConfirmPasswordReset
<1>15. ASSUME NEW h \in Handlers, GetCode(h) PROVE AddressesKept
  BY <1>15 DEF GetCode
<1>16. ASSUME NEW h \in Handlers, CountWrong(h) PROVE AddressesKept
  BY <1>16 DEF CountWrong
<1>17. ASSUME NEW h \in Handlers, DropCode(h) PROVE AddressesKept
  BY <1>17 DEF DropCode
<1>18. ASSUME NEW h \in Handlers, ResetPassword(h) PROVE AddressesKept
  <2>1. call[h].i \in DOMAIN users /\ call[h].password \in Passwords
    BY <1>0, <1>18 DEF ResetPassword, CallsOK, Carries
  <2> QED
    BY <1>0, <1>18, <2>1, UpdateFacts DEF ResetPassword, SetPassword, TableOK
<1>19. ASSUME NEW h \in Handlers, ClearReset(h) PROVE AddressesKept
  BY <1>19 DEF ClearReset
<1>20. ASSUME NEW h \in Handlers, ChangePassword(h) PROVE AddressesKept
  BY <1>20 DEF ChangePassword
<1>21. ASSUME NEW h \in Handlers, Change(h) PROVE AddressesKept
  <2>1. call[h].i \in DOMAIN users /\ call[h].password \in Passwords
    BY <1>0, <1>21 DEF Change, CallsOK, Carries
  <2> QED
    BY <1>0, <1>21, <2>1, UpdateFacts DEF Change, SetPassword, TableOK
<1>22. ASSUME NEW h \in Handlers, UpdateMe(h) PROVE AddressesKept
  BY <1>22 DEF UpdateMe
<1>23. ASSUME NEW h \in Handlers, BindEmail(h) PROVE AddressesKept
  <2>1. call[h].i \in DOMAIN users /\ call[h].email \in Emails
    BY <1>0, <1>23 DEF BindEmail, CallsOK, Carries
  <2>2. CASE users' = users
    BY <2>2
  <2>3. CASE /\ users[call[h].i].email = None
             /\ users' = [users EXCEPT ![call[h].i].email = call[h].email]
    BY <1>0, <2>1, <2>3, BindFacts DEF TableOK
  <2> QED
    BY <1>23, <2>2, <2>3 DEF BindEmail
<1>24. ASSUME NEW h \in Handlers, Abort(h) PROVE AddressesKept
  BY <1>24 DEF Abort
<1>25. CASE UNCHANGED vars
  BY <1>25, <1>0 DEF vars
<1> QED
  BY <1>1, <1>2, <1>3, <1>4, <1>5, <1>6, <1>7, <1>8, <1>9, <1>10, <1>11, <1>12, <1>13,
     <1>14, <1>15, <1>16, <1>17, <1>18, <1>19, <1>20, <1>21, <1>22, <1>23, <1>24, <1>25
     DEF Next

\* A step that sets no password and starts no upgrade keeps the passwords.
LEMMA NoSettingFacts ==
    ASSUME PInv, UNCHANGED <<users, intended, raced>>,
           \A g \in Handlers : call'[g].op = "rehash" => call'[g] = call[g]
    PROVE  Kept'
  BY DEF PInv, Kept, PasswordIsKept, RehashKeeps

\* Setting a password is noticed by every upgrade of the account that is under way.
LEMMA SettingFacts ==
    ASSUME PInv, NEW i \in DOMAIN users, NEW p \in Passwords, i \in Ids,
           SetPassword(i, p),
           \A g \in Handlers : call'[g].op = "rehash" => call'[g] = call[g]
    PROVE  Kept'
<1>1. TableOK /\ Kept
  BY DEF PInv, TInv
<1>2. /\ DOMAIN users' = DOMAIN users /\ users'[i].password = p
      /\ \A j \in DOMAIN users \ {i} : users'[j] = users[j]
  BY <1>1, UpdateFacts DEF SetPassword, TableOK
<1>3. intended'[i] = p /\ \A j \in Ids \ {i} : intended'[j] = intended[j]
  BY <1>1 DEF SetPassword, TableOK
<1>4. \A j \in Ids \ {i} : j \in raced' <=> j \in raced
  BY DEF SetPassword
<1>5. PasswordIsKept'
  BY <1>1, <1>2, <1>3, <1>4 DEF Kept, PasswordIsKept, TableOK
<1>6. ASSUME NEW g \in Handlers, call'[g].op = "rehash"
      PROVE  call'[g].password = intended'[call'[g].i] \/ call'[g].i \in raced'
  <2>1. call'[g] = call[g] /\ call[g].op = "rehash"
    BY <1>6
  <2>2. CASE call[g].i = i
    BY <2>1, <2>2 DEF SetPassword, Rehashing
  <2>3. CASE call[g].i # i
    <3>1. call[g].i \in Ids
      BY <1>1, <2>1 DEF PInv, TInv, CallsOK, Carries, TableOK
    <3> QED
      BY <1>1, <1>3, <1>4, <2>1, <2>3, <3>1 DEF Kept, RehashKeeps
  <2> QED
    BY <2>2, <2>3
<1> QED
  BY <1>5, <1>6 DEF Kept, RehashKeeps

\* The passwords are kept by every step.
LEMMA KeptStep ==
    PInv /\ [Next]_vars => Kept'
<1> SUFFICES ASSUME PInv, [Next]_vars PROVE Kept'
  OBVIOUS
<1> USE DEF redis, history
<1>0. TableOK /\ KeysOK /\ CallsOK /\ Kept
  BY DEF PInv, TInv
<1>1. ASSUME NEW i \in Ids, Expire(i) PROVE Kept'
  BY <1>1, NoSettingFacts DEF Expire
<1>2. ASSUME NEW h \in Handlers, Register(h) PROVE Kept'
  <2>1. \A g \in Handlers : call'[g].op = "rehash" => call'[g] = call[g]
    BY <1>0, <1>2 DEF Register, Begin, Continue, Return, NoCall, CallsOK, Call
  <2> QED
    BY <1>2, <2>1, NoSettingFacts DEF Register
<1>3. ASSUME NEW h \in Handlers, CheckEmail(h) PROVE Kept'
  <2>1. \A g \in Handlers : call'[g].op = "rehash" => call'[g] = call[g]
    BY <1>0, <1>3 DEF CheckEmail, Begin, Continue, Return, NoCall, CallsOK, Call
  <2> QED
    BY <1>3, <2>1, NoSettingFacts DEF CheckEmail
<1>4. ASSUME NEW h \in Handlers, Create(h) PROVE Kept'
  <2>1. \A g \in Handlers : call'[g].op = "rehash" => call'[g] = call[g]
    BY <1>0, <1>4 DEF Create, Return, NoCall, CallsOK, Call
  <2>2. CASE UNCHANGED <<users, intended>>
    BY <1>4, <2>1, <2>2, NoSettingFacts DEF Create
  <2>3. CASE /\ users' = Append(users, NewUser(h))
             /\ intended' = [intended EXCEPT ![Len(users) + 1] = call[h].password]
    <3>1. /\ call[h].op = "create" /\ Len(users) + 1 \in Ids
          /\ call[h] \in Call
      BY <1>0, <1>4 DEF Create, CallsOK
    <3>2. call[h].name \in Names /\ call[h].password \in Passwords
      BY <1>0, <3>1 DEF CallsOK, Carries
    <3>3. NewUser(h) \in User /\ NewUser(h).password = call[h].password
      BY <3>1, <3>2 DEF NewUser, User, Call
    <3>4. /\ DOMAIN users' = DOMAIN users \cup {Len(users) + 1}
          /\ Len(users) + 1 \notin DOMAIN users
          /\ \A j \in DOMAIN users : users'[j] = users[j]
          /\ users'[Len(users) + 1] = NewUser(h)
      BY <1>0, <2>3, <3>3, InsertFacts DEF TableOK
    <3>5. /\ \A j \in DOMAIN users : intended'[j] = intended[j]
          /\ intended'[Len(users) + 1] = call[h].password
      BY <1>0, <2>3, <3>1, <3>4 DEF TableOK
    <3>6. PasswordIsKept'
      BY <1>0, <1>4, <3>3, <3>4, <3>5 DEF Create, Kept, PasswordIsKept
    <3>7. \A g \in Handlers : call[g].op = "rehash" => call[g].i \in DOMAIN users
      BY <1>0 DEF CallsOK, Carries
    <3>8. RehashKeeps'
      BY <1>0, <1>4, <2>1, <3>5, <3>7 DEF Create, Kept, RehashKeeps
    <3> QED
      BY <3>6, <3>8 DEF Kept
  <2> QED
    BY <1>4, <2>2, <2>3 DEF Create
<1>5. ASSUME NEW h \in Handlers, Login(h) PROVE Kept'
  <2>1. CASE UNCHANGED call
    BY <1>5, <2>1, NoSettingFacts DEF Login
  <2>2. CASE \E i \in DOMAIN users, p \in Passwords :
                /\ users[i].password = p
                /\ call' = [call EXCEPT ![h] =
                               [NoCall EXCEPT !.op = "rehash", !.i = i, !.password = p]]
    <3>1. PICK i \in DOMAIN users, p \in Passwords :
             /\ users[i].password = p
             /\ call' = [call EXCEPT ![h] =
                            [NoCall EXCEPT !.op = "rehash", !.i = i, !.password = p]]
      BY <2>2
    <3>2. call'[h].i = i /\ call'[h].password = p
      BY <1>0, <3>1 DEF CallsOK, NoCall
    <3>3. \A g \in Handlers \ {h} : call'[g] = call[g]
      BY <1>0, <3>1 DEF CallsOK
    <3>4. p = intended[i] \/ i \in raced
      BY <1>0, <3>1 DEF Kept, PasswordIsKept
    <3> QED
      BY <1>0, <1>5, <3>2, <3>3, <3>4 DEF Login, Kept, PasswordIsKept, RehashKeeps
  <2>3. \/ UNCHANGED call
        \/ \E i \in DOMAIN users, p \in Passwords :
              /\ users[i].password = p
              /\ call' = [call EXCEPT ![h] =
                             [NoCall EXCEPT !.op = "rehash", !.i = i, !.password = p]]
    BY <1>5, LoginFacts DEF Login, Begin, checkPassword
  <2> QED
    BY <2>1, <2>2, <2>3
<1>6. ASSUME NEW h \in Handlers, Rehash(h) PROVE Kept'
  <2>1. \A g \in Handlers : call'[g].op = "rehash" => call'[g] = call[g]
    BY <1>0, <1>6 DEF Rehash, Return, NoCall, CallsOK
  <2>2. CASE users' = users
    BY <1>6, <2>1, <2>2, NoSettingFacts DEF Rehash
  <2>3. CASE UpdatePassword(call[h].i, call[h].password)
    <3>1. call[h].i \in DOMAIN users /\ call[h].password \in Passwords
      BY <1>0, <1>6 DEF Rehash, CallsOK, Carries
    <3>2. /\ DOMAIN users' = DOMAIN users
          /\ users'[call[h].i].password = call[h].password
          /\ \A j \in DOMAIN users \ {call[h].i} : users'[j] = users[j]
      BY <1>0, <2>3, <3>1, UpdateFacts DEF TableOK
    <3>3. call[h].password = intended[call[h].i] \/ call[h].i \in raced
      BY <1>0, <1>6 DEF Rehash, Kept, RehashKeeps
    <3>4. PasswordIsKept'
      BY <1>0, <1>6, <3>2, <3>3 DEF Rehash, Kept, PasswordIsKept
    <3>5. RehashKeeps'
      BY <1>0, <1>6, <2>1 DEF Rehash, Kept, RehashKeeps
    <3> QED
      BY <3>4, <3>5 DEF Kept
  <2> QED
    BY <1>6, <2>2, <2>3 DEF Rehash
<1>7. ASSUME NEW h \in Handlers, RequestPasswordReset(h) PROVE Kept'
  <2>1. \A g \in Handlers : call'[g].op = "rehash" => call'[g] = call[g]
    BY <1>0, <1>7 DEF RequestPasswordReset, Begin, Continue, Return, NoCall, CallsOK, Call
  <2> QED
    BY <1>7, <2>1, NoSettingFacts DEF RequestPasswordReset
<1>8. ASSUME NEW h \in Handlers, CheckCooldown(h) PROVE Kept'
  <2>1. \A g \in Handlers : call'[g].op = "rehash" => call'[g] = call[g]
    BY <1>0, <1>8 DEF CheckCooldown, Begin, Continue, Return, NoCall, CallsOK, Call
  <2> QED
    BY <1>8, <2>1, NoSettingFacts DEF CheckCooldown
<1>9. ASSUME NEW h \in Handlers, StoreCode(h) PROVE Kept'
  <2>1. \A g \in Handlers : call'[g].op = "rehash" => call'[g] = call[g]
    BY <1>0, <1>9 DEF StoreCode, Begin, Continue, Return, NoCall, CallsOK, Call
  <2> QED
    BY <1>9, <2>1, NoSettingFacts DEF StoreCode
<1>10. ASSUME NEW h \in Handlers, SetCooldown(h) PROVE Kept'
  <2>1. \A g \in Handlers : call'[g].op = "rehash" => call'[g] = call[g]
    BY <1>0, <1>10 DEF SetCooldown, Begin, Continue, Return, NoCall, CallsOK, Call
  <2> QED
    BY <1>10, <2>1, NoSettingFacts DEF SetCooldown
<1>11. ASSUME NEW h \in Handlers, ResetAttempts(h) PROVE Kept'
  <2>1. \A g \in Handlers : call'[g].op = "rehash" => call'[g] = call[g]
    BY <1>0, <1>11 DEF ResetAttempts, Begin, Continue, Return, NoCall, CallsOK, Call
  <2> QED
    BY <1>11, <2>1, NoSettingFacts DEF ResetAttempts
<1>12. ASSUME NEW h \in Handlers, Send(h) PROVE Kept'
  <2>1. \A g \in Handlers : call'[g].op = "rehash" => call'[g] = call[g]
    BY <1>0, <1>12 DEF Send, Begin, Continue, Return, NoCall, CallsOK, Call
  <2> QED
    BY <1>12, <2>1, NoSettingFacts DEF Send
<1>13. ASSUME NEW h \in Handlers, Unsend(h) PROVE Kept'
  <2>1. \A g \in Handlers : call'[g].op = "rehash" => call'[g] = call[g]
    BY <1>0, <1>13 DEF Unsend, Begin, Continue, Return, NoCall, CallsOK, Call
  <2> QED
    BY <1>13, <2>1, NoSettingFacts DEF Unsend
<1>14. ASSUME NEW h \in Handlers, ConfirmPasswordReset(h) PROVE Kept'
  <2>1. \A g \in Handlers : call'[g].op = "rehash" => call'[g] = call[g]
    BY <1>0, <1>14 DEF ConfirmPasswordReset, Begin, Continue, Return, NoCall, CallsOK, Call
  <2> QED
    BY <1>14, <2>1, NoSettingFacts DEF ConfirmPasswordReset
<1>15. ASSUME NEW h \in Handlers, GetCode(h) PROVE Kept'
  <2>1. \A g \in Handlers : call'[g].op = "rehash" => call'[g] = call[g]
    BY <1>0, <1>15 DEF GetCode, Begin, Continue, Return, NoCall, CallsOK, Call
  <2> QED
    BY <1>15, <2>1, NoSettingFacts DEF GetCode
<1>16. ASSUME NEW h \in Handlers, CountWrong(h) PROVE Kept'
  <2>1. \A g \in Handlers : call'[g].op = "rehash" => call'[g] = call[g]
    BY <1>0, <1>16 DEF CountWrong, Begin, Continue, Return, NoCall, CallsOK, Call
  <2> QED
    BY <1>16, <2>1, NoSettingFacts DEF CountWrong
<1>17. ASSUME NEW h \in Handlers, DropCode(h) PROVE Kept'
  <2>1. \A g \in Handlers : call'[g].op = "rehash" => call'[g] = call[g]
    BY <1>0, <1>17 DEF DropCode, Begin, Continue, Return, NoCall, CallsOK, Call
  <2> QED
    BY <1>17, <2>1, NoSettingFacts DEF DropCode
<1>18. ASSUME NEW h \in Handlers, ResetPassword(h) PROVE Kept'
  <2>1. \A g \in Handlers : call'[g].op = "rehash" => call'[g] = call[g]
    <3>1. \/ call' = [call EXCEPT ![h] = NoCall]
          \/ call' = [call EXCEPT ![h].op = "clear"]
      BY <1>18 DEF ResetPassword, Continue, Return
    <3>2. /\ call'[h].op \in {"none", "clear"}
          /\ \A g \in Handlers \ {h} : call'[g] = call[g]
      BY <1>0, <3>1 DEF NoCall, CallsOK, Call
    <3> QED
      BY <3>2
  <2>2. call[h].i \in DOMAIN users /\ call[h].password \in Passwords /\ call[h].i \in Ids
    BY <1>0, <1>18 DEF ResetPassword, CallsOK, Carries, TableOK
  <2> QED
    BY <1>0, <1>18, <2>1, <2>2, SettingFacts DEF ResetPassword
<1>19. ASSUME NEW h \in Handlers, ClearReset(h) PROVE Kept'
  <2>1. \A g \in Handlers : call'[g].op = "rehash" => call'[g] = call[g]
    BY <1>0, <1>19 DEF ClearReset, Begin, Continue, Return, NoCall, CallsOK, Call
  <2> QED
    BY <1>19, <2>1, NoSettingFacts DEF ClearReset
<1>20. ASSUME NEW h \in Handlers, ChangePassword(h) PROVE Kept'
  <2>1. \A g \in Handlers : call'[g].op = "rehash" => call'[g] = call[g]
    BY <1>0, <1>20 DEF ChangePassword, Begin, Continue, Return, NoCall, CallsOK, Call
  <2> QED
    BY <1>20, <2>1, NoSettingFacts DEF ChangePassword
<1>21. ASSUME NEW h \in Handlers, Change(h) PROVE Kept'
  <2>1. \A g \in Handlers : call'[g].op = "rehash" => call'[g] = call[g]
    <3>1. \/ call' = [call EXCEPT ![h] = NoCall]
          \/ call' = [call EXCEPT ![h].op = "clear"]
      BY <1>21 DEF Change, Continue, Return
    <3>2. /\ call'[h].op \in {"none", "clear"}
          /\ \A g \in Handlers \ {h} : call'[g] = call[g]
      BY <1>0, <3>1 DEF NoCall, CallsOK, Call
    <3> QED
      BY <3>2
  <2>2. call[h].i \in DOMAIN users /\ call[h].password \in Passwords /\ call[h].i \in Ids
    BY <1>0, <1>21 DEF Change, CallsOK, Carries, TableOK
  <2> QED
    BY <1>0, <1>21, <2>1, <2>2, SettingFacts DEF Change
<1>22. ASSUME NEW h \in Handlers, UpdateMe(h) PROVE Kept'
  <2>1. \A g \in Handlers : call'[g].op = "rehash" => call'[g] = call[g]
    BY <1>0, <1>22 DEF UpdateMe, Begin, Continue, Return, NoCall, CallsOK, Call
  <2> QED
    BY <1>22, <2>1, NoSettingFacts DEF UpdateMe
<1>23. ASSUME NEW h \in Handlers, BindEmail(h) PROVE Kept'
  <2>1. \A g \in Handlers : call'[g].op = "rehash" => call'[g] = call[g]
    BY <1>0, <1>23 DEF BindEmail, Return, NoCall, CallsOK
  <2>2. call[h].i \in DOMAIN users /\ call[h].email \in Emails
    BY <1>0, <1>23 DEF BindEmail, CallsOK, Carries
  <2>3. /\ DOMAIN users' = DOMAIN users
        /\ \A j \in DOMAIN users : users'[j].password = users[j].password
    <3>1. CASE users' = users
      BY <3>1
    <3>2. CASE users' = [users EXCEPT ![call[h].i].email = call[h].email]
      BY <1>0, <2>2, <3>2, BindFacts DEF TableOK
    <3> QED
      BY <1>23, <3>1, <3>2 DEF BindEmail
  <2>4. UNCHANGED <<intended, raced>>
    BY <1>23 DEF BindEmail
  <2> QED
    BY <1>0, <2>1, <2>3, <2>4 DEF Kept, PasswordIsKept, RehashKeeps
<1>24. ASSUME NEW h \in Handlers, Abort(h) PROVE Kept'
  <2>1. \A g \in Handlers : call'[g].op = "rehash" => call'[g] = call[g]
    BY <1>0, <1>24 DEF Abort, Begin, Continue, Return, NoCall, CallsOK, Call
  <2> QED
    BY <1>24, <2>1, NoSettingFacts DEF Abort
<1>25. CASE UNCHANGED vars
  BY <1>25, <1>0 DEF vars, Kept, PasswordIsKept, RehashKeeps
<1> QED
  BY <1>1, <1>2, <1>3, <1>4, <1>5, <1>6, <1>7, <1>8, <1>9, <1>10, <1>11, <1>12, <1>13,
     <1>14, <1>15, <1>16, <1>17, <1>18, <1>19, <1>20, <1>21, <1>22, <1>23, <1>24, <1>25
     DEF Next

-----------------------------------------------------------------------------
\* A step that draws, stores and retires no code, and no request of which obtains
\* one or stops deleting one, keeps what is known of codes.
LEMMA NoCodeFacts ==
    ASSUME RInv, UNCHANGED <<drawn, retired, slipped>>,
           \A j \in Ids : code'[j] = code[j] \/ code'[j] = None,
           \A g \in Handlers :
              /\ call'[g].op \in {"count", "reset"} => call'[g] = call[g]
              /\ call[g].op \in {"drop", "clear"} => call'[g] = call[g]
    PROVE  Gone'
<1>1. OneOwner /\ GoneOrLeaving /\ KeysOK
  BY DEF RInv, Gone, TInv
<1>2. OneOwner'
  <2>1. \A i, j \in Ids : code'[i] = code'[j] /\ code'[i] # None => i = j
    BY <1>1 DEF OneOwner
  <2>2. ASSUME NEW g \in Handlers, call'[g].op \in {"count", "reset"}, NEW j \in Ids,
               code'[j] = call'[g].code
        PROVE  j = call'[g].i
    <3>1. call'[g] = call[g] /\ call[g].code \in 1 .. drawn
      BY <2>2 DEF RInv, TInv, CallsOK, Carries
    <3>2. code'[j] = code[j]
      BY <2>2, <3>1, <1>1 DEF None, KeysOK
    <3> QED
      BY <1>1, <2>2, <3>1, <3>2 DEF OneOwner
  <2> QED
    BY <1>1, <2>1, <2>2 DEF OneOwner
<1>3. GoneOrLeaving'
  <2>1. ASSUME NEW i \in Ids, code'[i] \in retired PROVE code'[i] = code[i]
    BY <1>1, <2>1 DEF OneOwner, None
  <2>2. \A i \in Ids : code'[i] = code[i] /\ Leaving(i, code[i]) => Leaving(i, code[i])'
    BY DEF Leaving
  <2> QED
    BY <1>1, <2>1, <2>2 DEF GoneOrLeaving
<1> QED
  BY <1>2, <1>3 DEF Gone

\* A code is retired by a request that goes on to delete it, or that does not know.
LEMMA RetireFacts ==
    ASSUME RInv, NEW h \in Handlers, call[h].i \in Ids, call[h].code \in 1 .. drawn,
           call[h].op \in {"count", "reset"}, UNCHANGED <<code, drawn>>,
           NEW knows \in BOOLEAN, Retire(h, knows),
           knows => /\ call'[h].op \in {"drop", "clear"}
                    /\ call'[h].i = call[h].i /\ call'[h].code = call[h].code,
           ~knows => call'[h].op = "none",
           \A g \in Handlers \ {h} : call'[g] = call[g]
    PROVE  Gone'
<1>1. OneOwner /\ GoneOrLeaving
  BY DEF RInv, Gone
<1>2. retired' = retired \cup {call[h].code}
  BY DEF Retire
<1>3. OneOwner'
  <2>1. retired' \subseteq 1 .. drawn'
    BY <1>1, <1>2 DEF OneOwner
  <2>2. \A g \in Handlers : call'[g].op \in {"count", "reset"} => call'[g] = call[g]
    <3>1. call'[h].op \notin {"count", "reset"}
      OBVIOUS
    <3> QED
      BY <3>1
  <2> QED
    BY <1>1, <2>1, <2>2 DEF OneOwner
<1>4. \A i \in Ids : Leaving(i, code[i]) => Leaving(i, code[i])'
  BY DEF Leaving
<1>5. ASSUME NEW i \in Ids, code[i] \in retired'
      PROVE  code[i] \in slipped' \/ Leaving(i, code[i])'
  <2>1. CASE code[i] = call[h].code /\ knows
    <3>1. i = call[h].i
      BY <1>1, <2>1 DEF OneOwner
    <3> QED
      BY <2>1, <3>1 DEF Leaving
  <2>2. CASE code[i] = call[h].code /\ ~knows
    BY <2>2 DEF Retire
  <2>3. CASE code[i] # call[h].code
    BY <1>1, <1>2, <1>4, <1>5, <2>3 DEF GoneOrLeaving, Retire
  <2> QED
    BY <2>1, <2>2, <2>3
<1> QED
  BY <1>3, <1>5 DEF Gone, GoneOrLeaving

\* A request that ends a deletion has deleted the account's code or is known to have
\* failed.
LEMMA DeletedFacts ==
    ASSUME RInv, NEW h \in Handlers, call[h].i \in Ids,
           call' = [call EXCEPT ![h] = NoCall], UNCHANGED <<drawn, retired>>,
           \/ code' = [code EXCEPT ![call[h].i] = None] /\ slipped' = slipped
           \/ code' = code /\ slipped' = slipped \cup {call[h].code}
    PROVE  Gone'
<1>1. OneOwner /\ GoneOrLeaving /\ KeysOK /\ CallsOK
  BY DEF RInv, Gone, TInv
<1>2. /\ call'[h].op = "none" /\ \A g \in Handlers \ {h} : call'[g] = call[g]
      /\ \A g \in Handlers : call[g].op \in {"count", "reset"} => call[g].code \in 1 .. drawn
  BY <1>1 DEF CallsOK, NoCall, Carries
<1>3. \A j \in Ids : code'[j] = code[j] \/ code'[j] = None
  BY <1>1 DEF KeysOK
<1>4. OneOwner'
  <2>1. \A i, j \in Ids : code'[i] = code'[j] /\ code'[i] # None => i = j
    BY <1>1, <1>3 DEF OneOwner
  <2>2. ASSUME NEW g \in Handlers, call'[g].op \in {"count", "reset"}, NEW j \in Ids,
               code'[j] = call'[g].code
        PROVE  j = call'[g].i
    <3>1. call'[g] = call[g] /\ call[g].code \in 1 .. drawn
      BY <1>2, <2>2
    <3>2. code'[j] = code[j]
      BY <1>1, <1>3, <2>2, <3>1 DEF None, KeysOK
    <3> QED
      BY <1>1, <2>2, <3>1, <3>2 DEF OneOwner
  <2> QED
    BY <1>1, <2>1, <2>2 DEF OneOwner
<1>5. \A i \in Ids, c \in retired :
          (i # call[h].i \/ c # call[h].code) /\ Leaving(i, c) => Leaving(i, c)'
  BY <1>2 DEF Leaving
<1>6. ASSUME NEW i \in Ids, code'[i] \in retired
      PROVE  code'[i] \in slipped' \/ Leaving(i, code[i])'
  <2>1. code'[i] = code[i] /\ code[i] # None
    BY <1>1, <1>3, <1>6 DEF OneOwner, None
  <2>2. CASE i = call[h].i /\ code[i] = call[h].code
    BY <1>1, <2>1, <2>2 DEF KeysOK
  <2>3. CASE i # call[h].i \/ code[i] # call[h].code
    BY <1>1, <1>5, <1>6, <2>1, <2>3 DEF GoneOrLeaving
  <2> QED
    BY <2>2, <2>3
<1> QED
  BY <1>4, <1>6 DEF Gone, GoneOrLeaving

\* No code outlives its retirement unnoticed.
LEMMA GoneStep ==
    RInv /\ [Next]_vars => Gone'
<1> SUFFICES ASSUME RInv, [Next]_vars PROVE Gone'
  OBVIOUS
<1> USE DEF redis, history
<1>0. TableOK /\ KeysOK /\ CallsOK /\ Gone
  BY DEF RInv, TInv
<1>1. ASSUME NEW i \in Ids, Expire(i) PROVE Gone'
  BY <1>0, <1>1, NoCodeFacts DEF Expire, KeysOK
<1>2. ASSUME NEW h \in Handlers, Register(h) PROVE Gone'
  <2>1. \A g \in Handlers :
            /\ call'[g].op \in {"count", "reset"} => call'[g] = call[g]
            /\ call[g].op \in {"drop", "clear"} => call'[g] = call[g]
    BY <1>0, <1>2 DEF Register, Begin, Continue, Return, NoCall, CallsOK, Call
  <2> QED
    BY <1>0, <1>2, <2>1, NoCodeFacts DEF Register, KeysOK
<1>3. ASSUME NEW h \in Handlers, CheckEmail(h) PROVE Gone'
  <2>1. \A g \in Handlers :
            /\ call'[g].op \in {"count", "reset"} => call'[g] = call[g]
            /\ call[g].op \in {"drop", "clear"} => call'[g] = call[g]
    BY <1>0, <1>3 DEF CheckEmail, Begin, Continue, Return, NoCall, CallsOK, Call
  <2> QED
    BY <1>0, <1>3, <2>1, NoCodeFacts DEF CheckEmail, KeysOK
<1>4. ASSUME NEW h \in Handlers, Create(h) PROVE Gone'
  <2>1. \A g \in Handlers :
            /\ call'[g].op \in {"count", "reset"} => call'[g] = call[g]
            /\ call[g].op \in {"drop", "clear"} => call'[g] = call[g]
    BY <1>0, <1>4 DEF Create, Begin, Continue, Return, NoCall, CallsOK, Call
  <2> QED
    BY <1>0, <1>4, <2>1, NoCodeFacts DEF Create, KeysOK
<1>5. ASSUME NEW h \in Handlers, Login(h) PROVE Gone'
  <2>1. \/ UNCHANGED call
        \/ \E i, p : /\ call[h] = NoCall
                     /\ call' = [call EXCEPT ![h] =
                             [NoCall EXCEPT !.op = "rehash", !.i = i, !.password = p]]
    BY <1>5 DEF Login, Begin
  <2>2. \A g \in Handlers :
            /\ call'[g].op \in {"count", "reset"} => call'[g] = call[g]
            /\ call[g].op \in {"drop", "clear"} => call'[g] = call[g]
    <3>1. CASE UNCHANGED call
      BY <3>1
    <3>2. ASSUME NEW i, NEW p, call[h] = NoCall,
                 call' = [call EXCEPT ![h] =
                             [NoCall EXCEPT !.op = "rehash", !.i = i, !.password = p]]
          PROVE  /\ call[h].op = "none" /\ call'[h].op = "rehash"
                 /\ \A g \in Handlers \ {h} : call'[g] = call[g]
      BY <1>0, <3>2 DEF NoCall, CallsOK
    <3> QED
      BY <2>1, <3>1, <3>2
  <2> QED
    BY <1>0, <1>5, <2>2, NoCodeFacts DEF Login, KeysOK
<1>6. ASSUME NEW h \in Handlers, Rehash(h) PROVE Gone'
  <2>1. \A g \in Handlers :
            /\ call'[g].op \in {"count", "reset"} => call'[g] = call[g]
            /\ call[g].op \in {"drop", "clear"} => call'[g] = call[g]
    BY <1>0, <1>6 DEF Rehash, Begin, Continue, Return, NoCall, CallsOK, Call
  <2> QED
    BY <1>0, <1>6, <2>1, NoCodeFacts DEF Rehash, KeysOK
<1>7. ASSUME NEW h \in Handlers, RequestPasswordReset(h) PROVE Gone'
  <2>1. \A g \in Handlers :
            /\ call'[g].op \in {"count", "reset"} => call'[g] = call[g]
            /\ call[g].op \in {"drop", "clear"} => call'[g] = call[g]
    BY <1>0, <1>7 DEF RequestPasswordReset, Begin, Continue, Return, NoCall, CallsOK, Call
  <2> QED
    BY <1>0, <1>7, <2>1, NoCodeFacts DEF RequestPasswordReset, KeysOK
<1>8. ASSUME NEW h \in Handlers, CheckCooldown(h) PROVE Gone'
  <2>1. \A g \in Handlers :
            /\ call'[g].op \in {"count", "reset"} => call'[g] = call[g]
            /\ call[g].op \in {"drop", "clear"} => call'[g] = call[g]
    BY <1>0, <1>8 DEF CheckCooldown, Begin, Continue, Return, NoCall, CallsOK, Call
  <2> QED
    BY <1>0, <1>8, <2>1, NoCodeFacts DEF CheckCooldown, KeysOK
<1>9. ASSUME NEW h \in Handlers, StoreCode(h) PROVE Gone'
  <2>1. call[h].i \in Ids /\ drawn \in Nat /\ drawn' = drawn + 1
    BY <1>0, <1>9 DEF StoreCode, CallsOK, Carries, TableOK, KeysOK
  <2>2. /\ code'[call[h].i] = drawn + 1
        /\ \A j \in Ids \ {call[h].i} : code'[j] = code[j]
        /\ \A j \in Ids : code[j] \in 0 .. drawn
    BY <1>0, <1>9, <2>1 DEF StoreCode, KeysOK
  <2>3. /\ call[h].op = "store" /\ call'[h].op \in {"hold", "none"}
        /\ \A g \in Handlers \ {h} : call'[g] = call[g]
    BY <1>0, <1>9 DEF StoreCode, Return, NoCall, CallsOK, Call
  <2>4. \A g \in Handlers : call[g].op \in {"count", "reset"} => call[g].code \in 1 .. drawn
    BY <1>0 DEF CallsOK, Carries
  <2>5. retired' = retired /\ slipped' = slipped /\ retired \subseteq 1 .. drawn
    BY <1>0, <1>9 DEF StoreCode, OneOwner, Gone
  <2>6. OneOwner'
    <3>1. retired' \subseteq 1 .. drawn'
      BY <2>1, <2>5
    <3>2. \A i, j \in Ids : code'[i] = code'[j] /\ code'[i] # None => i = j
      BY <1>0, <2>1, <2>2 DEF OneOwner, Gone
    <3>3. ASSUME NEW g \in Handlers, call'[g].op \in {"count", "reset"}, NEW j \in Ids,
                 code'[j] = call'[g].code
          PROVE  j = call'[g].i
      <4>1. call'[g] = call[g] /\ call[g].code \in 1 .. drawn
        BY <2>3, <2>4, <3>3
      <4>2. code'[j] = code[j]
        BY <2>1, <2>2, <3>3, <4>1
      <4> QED
        BY <1>0, <3>3, <4>1, <4>2 DEF OneOwner, Gone
    <3> QED
      BY <3>1, <3>2, <3>3 DEF OneOwner
  <2>7. \A i \in Ids : code'[i] = code[i] /\ Leaving(i, code[i]) => Leaving(i, code[i])'
    BY <2>3 DEF Leaving
  <2>8. GoneOrLeaving'
    BY <1>0, <2>1, <2>2, <2>5, <2>7 DEF Gone, GoneOrLeaving
  <2> QED
    BY <2>6, <2>8 DEF Gone
<1>10. ASSUME NEW h \in Handlers, SetCooldown(h) PROVE Gone'
  <2>1. \A g \in Handlers :
            /\ call'[g].op \in {"count", "reset"} => call'[g] = call[g]
            /\ call[g].op \in {"drop", "clear"} => call'[g] = call[g]
    BY <1>0, <1>10 DEF SetCooldown, Begin, Continue, Return, NoCall, CallsOK, Call
  <2> QED
    BY <1>0, <1>10, <2>1, NoCodeFacts DEF SetCooldown, KeysOK
<1>11. ASSUME NEW h \in Handlers, ResetAttempts(h) PROVE Gone'
  <2>1. \A g \in Handlers :
            /\ call'[g].op \in {"count", "reset"} => call'[g] = call[g]
            /\ call[g].op \in {"drop", "clear"} => call'[g] = call[g]
    BY <1>0, <1>11 DEF ResetAttempts, Begin, Continue, Return, NoCall, CallsOK, Call
  <2> QED
    BY <1>0, <1>11, <2>1, NoCodeFacts DEF ResetAttempts, KeysOK
<1>12. ASSUME NEW h \in Handlers, Send(h) PROVE Gone'
  <2>1. \A g \in Handlers :
            /\ call'[g].op \in {"count", "reset"} => call'[g] = call[g]
            /\ call[g].op \in {"drop", "clear"} => call'[g] = call[g]
    BY <1>0, <1>12 DEF Send, Begin, Continue, Return, NoCall, CallsOK, Call
  <2> QED
    BY <1>0, <1>12, <2>1, NoCodeFacts DEF Send, KeysOK
<1>13. ASSUME NEW h \in Handlers, Unsend(h) PROVE Gone'
  <2>1. \A g \in Handlers :
            /\ call'[g].op \in {"count", "reset"} => call'[g] = call[g]
            /\ call[g].op \in {"drop", "clear"} => call'[g] = call[g]
    BY <1>0, <1>13 DEF Unsend, Begin, Continue, Return, NoCall, CallsOK, Call
  <2> QED
    BY <1>0, <1>13, <2>1, NoCodeFacts DEF Unsend, KeysOK
<1>14. ASSUME NEW h \in Handlers, ConfirmPasswordReset(h) PROVE Gone'
  <2>1. \A g \in Handlers :
            /\ call'[g].op \in {"count", "reset"} => call'[g] = call[g]
            /\ call[g].op \in {"drop", "clear"} => call'[g] = call[g]
    BY <1>0, <1>14 DEF ConfirmPasswordReset, Begin, Continue, Return, NoCall, CallsOK, Call
  <2> QED
    BY <1>0, <1>14, <2>1, NoCodeFacts DEF ConfirmPasswordReset, KeysOK
<1>15. ASSUME NEW h \in Handlers, GetCode(h) PROVE Gone'
  <2>1. CASE call' = [call EXCEPT ![h] = NoCall]
    <3>1. \A g \in Handlers :
              /\ call'[g].op \in {"count", "reset"} => call'[g] = call[g]
              /\ call[g].op \in {"drop", "clear"} => call'[g] = call[g]
      BY <1>0, <1>15, <2>1 DEF GetCode, NoCall, CallsOK, Call
    <3> QED
      BY <1>0, <1>15, <3>1, NoCodeFacts DEF GetCode, KeysOK
  <2>2. CASE /\ call'[h].i = call[h].i /\ call'[h].code = code[call[h].i]
             /\ \A g \in Handlers \ {h} : call'[g] = call[g]
             /\ code[call[h].i] # None
    <3>1. UNCHANGED <<code, drawn, retired, slipped>> /\ call[h].op = "get"
      BY <1>15 DEF GetCode
    <3>2. call[h].i \in Ids
      BY <1>0, <3>1 DEF CallsOK, Carries, TableOK
    <3>3. OneOwner'
      BY <1>0, <2>2, <3>1, <3>2 DEF OneOwner, Gone
    <3>4. \A i \in Ids : Leaving(i, code[i]) => Leaving(i, code[i])'
      BY <2>2, <3>1 DEF Leaving
    <3> QED
      BY <1>0, <3>1, <3>3, <3>4 DEF Gone, GoneOrLeaving
  <2>3. CASE /\ code[call[h].i] # None
             /\ call' = [call EXCEPT ![h].op = IF call[h].code = code[call[h].i]
                                               THEN "reset" ELSE "count",
                                     ![h].code = code[call[h].i]]
    BY <1>0, <2>2, <2>3 DEF CallsOK, Call
  <2> QED
    BY <1>15, <2>1, <2>3 DEF GetCode, Return
<1>16. ASSUME NEW h \in Handlers, CountWrong(h) PROVE Gone'
  <2>1. /\ call[h].i \in Ids /\ call[h].code \in 1 .. drawn /\ call[h].op = "count"
        /\ code' = code /\ drawn' = drawn
    BY <1>0, <1>16 DEF CountWrong, CallsOK, Carries, TableOK
  <2>2. CASE UNCHANGED <<retired, slipped>> /\ call' = [call EXCEPT ![h] = NoCall]
    <3>1. \A g \in Handlers :
              /\ call'[g].op \in {"count", "reset"} => call'[g] = call[g]
              /\ call[g].op \in {"drop", "clear"} => call'[g] = call[g]
      BY <1>0, <2>1, <2>2 DEF NoCall, CallsOK
    <3> QED
      BY <2>1, <2>2, <3>1, NoCodeFacts
  <2>3. CASE /\ call' = [call EXCEPT ![h].op = "drop"] /\ Retire(h, TRUE)
    <3>1. /\ call'[h].op = "drop" /\ call'[h].i = call[h].i /\ call'[h].code = call[h].code
          /\ \A g \in Handlers \ {h} : call'[g] = call[g]
      BY <1>0, <2>3 DEF CallsOK, Call
    <3> QED
      BY <1>0, <2>1, <2>3, <3>1, RetireFacts
  <2>4. CASE call' = [call EXCEPT ![h] = NoCall] /\ Retire(h, FALSE)
    <3>1. /\ call'[h].op = "none"
          /\ \A g \in Handlers \ {h} : call'[g] = call[g]
      BY <1>0, <2>4 DEF CallsOK, NoCall
    <3> QED
      BY <1>0, <2>1, <2>4, <3>1, RetireFacts
  <2>5. PICK incr \in BOOLEAN, replied \in BOOLEAN, expire \in BOOLEAN :
            LET count == Count(call[h].i, incr, expire)
                usedUp == incr /\ count.n >= maxResetAttempts
            IN  /\ replied => incr
                /\ IF replied /\ count.n >= maxResetAttempts
                   THEN call' = [call EXCEPT ![h].op = "drop"]
                   ELSE call' = [call EXCEPT ![h] = NoCall]
                /\ IF usedUp THEN Retire(h, replied) ELSE UNCHANGED <<retired, slipped>>
    BY <1>16 DEF CountWrong, TooMany, Continue, Return
  <2>6. CASE replied
    BY <2>2, <2>3, <2>5, <2>6
  <2>7. CASE ~replied
    BY <2>2, <2>4, <2>5, <2>7
  <2> QED
    BY <2>6, <2>7
<1>17. ASSUME NEW h \in Handlers, DropCode(h) PROVE Gone'
  <2>1. /\ call[h].i \in Ids /\ call' = [call EXCEPT ![h] = NoCall]
        /\ UNCHANGED <<drawn, retired>>
    BY <1>0, <1>17 DEF DropCode, Return, CallsOK, Carries, TableOK
  <2>2. \/ code' = [code EXCEPT ![call[h].i] = None] /\ slipped' = slipped
        \/ code' = code /\ slipped' = slipped \cup {call[h].code}
    BY <1>17 DEF DropCode
  <2> QED
    BY <1>0, <2>1, <2>2, DeletedFacts
<1>18. ASSUME NEW h \in Handlers, ResetPassword(h) PROVE Gone'
  <2>1. /\ call[h].i \in Ids /\ call[h].code \in 1 .. drawn /\ call[h].op = "reset"
        /\ code' = code /\ drawn' = drawn
    BY <1>0, <1>18 DEF ResetPassword, CallsOK, Carries, TableOK
  <2>2. CASE Retire(h, TRUE) /\ Continue(h, "clear")
    <3>1. /\ call'[h].op = "clear" /\ call'[h].i = call[h].i /\ call'[h].code = call[h].code
          /\ \A g \in Handlers \ {h} : call'[g] = call[g]
      BY <1>0, <2>2 DEF Continue, CallsOK, Call
    <3> QED
      BY <1>0, <2>1, <2>2, <3>1, RetireFacts
  <2>3. CASE Retire(h, FALSE) /\ Return(h)
    <3>1. /\ call'[h].op = "none"
          /\ \A g \in Handlers \ {h} : call'[g] = call[g]
      BY <1>0, <2>3 DEF Return, CallsOK, NoCall
    <3> QED
      BY <1>0, <2>1, <2>3, <3>1, RetireFacts
  <2> QED
    BY <1>18, <2>2, <2>3 DEF ResetPassword
<1>19. ASSUME NEW h \in Handlers, ClearReset(h) PROVE Gone'
  <2>1. /\ call[h].i \in Ids /\ call' = [call EXCEPT ![h] = NoCall]
        /\ UNCHANGED <<drawn, retired>>
    BY <1>0, <1>19 DEF ClearReset, Return, CallsOK, Carries, TableOK
  <2>2. \/ code' = [code EXCEPT ![call[h].i] = None] /\ slipped' = slipped
        \/ code' = code /\ slipped' = slipped \cup {call[h].code}
    BY <1>19 DEF ClearReset
  <2> QED
    BY <1>0, <2>1, <2>2, DeletedFacts
<1>20. ASSUME NEW h \in Handlers, ChangePassword(h) PROVE Gone'
  <2>1. \A g \in Handlers :
            /\ call'[g].op \in {"count", "reset"} => call'[g] = call[g]
            /\ call[g].op \in {"drop", "clear"} => call'[g] = call[g]
    BY <1>0, <1>20 DEF ChangePassword, Begin, Continue, Return, NoCall, CallsOK, Call
  <2> QED
    BY <1>0, <1>20, <2>1, NoCodeFacts DEF ChangePassword, KeysOK
<1>21. ASSUME NEW h \in Handlers, Change(h) PROVE Gone'
  <2>1. \A g \in Handlers :
            /\ call'[g].op \in {"count", "reset"} => call'[g] = call[g]
            /\ call[g].op \in {"drop", "clear"} => call'[g] = call[g]
    BY <1>0, <1>21 DEF Change, Begin, Continue, Return, NoCall, CallsOK, Call
  <2> QED
    BY <1>0, <1>21, <2>1, NoCodeFacts DEF Change, KeysOK
<1>22. ASSUME NEW h \in Handlers, UpdateMe(h) PROVE Gone'
  <2>1. \A g \in Handlers :
            /\ call'[g].op \in {"count", "reset"} => call'[g] = call[g]
            /\ call[g].op \in {"drop", "clear"} => call'[g] = call[g]
    BY <1>0, <1>22 DEF UpdateMe, Begin, Continue, Return, NoCall, CallsOK, Call
  <2> QED
    BY <1>0, <1>22, <2>1, NoCodeFacts DEF UpdateMe, KeysOK
<1>23. ASSUME NEW h \in Handlers, BindEmail(h) PROVE Gone'
  <2>1. \A g \in Handlers :
            /\ call'[g].op \in {"count", "reset"} => call'[g] = call[g]
            /\ call[g].op \in {"drop", "clear"} => call'[g] = call[g]
    BY <1>0, <1>23 DEF BindEmail, Begin, Continue, Return, NoCall, CallsOK, Call
  <2> QED
    BY <1>0, <1>23, <2>1, NoCodeFacts DEF BindEmail, KeysOK
<1>24. ASSUME NEW h \in Handlers, Abort(h) PROVE Gone'
  <2>1. CASE call[h].op \in {"drop", "clear"}
    <3>1. /\ call[h].i \in Ids /\ call' = [call EXCEPT ![h] = NoCall]
          /\ UNCHANGED <<code, drawn, retired>> /\ slipped' = slipped \cup {call[h].code}
      BY <1>0, <1>24, <2>1 DEF Abort, Return, CallsOK, Carries, TableOK
    <3> QED
      BY <1>0, <3>1, DeletedFacts
  <2>2. CASE call[h].op \notin {"drop", "clear"}
    <3>1. \A g \in Handlers :
              /\ call'[g].op \in {"count", "reset"} => call'[g] = call[g]
              /\ call[g].op \in {"drop", "clear"} => call'[g] = call[g]
      BY <1>0, <1>24, <2>2 DEF Abort, Return, NoCall, CallsOK, Call
    <3> QED
      BY <1>0, <1>24, <2>2, <3>1, NoCodeFacts DEF Abort, KeysOK
  <2> QED
    BY <2>1, <2>2
<1>25. CASE UNCHANGED vars
  BY <1>25, <1>0 DEF vars, Gone, OneOwner, GoneOrLeaving, Leaving
<1> QED
  BY <1>1, <1>2, <1>3, <1>4, <1>5, <1>6, <1>7, <1>8, <1>9, <1>10, <1>11, <1>12, <1>13,
     <1>14, <1>15, <1>16, <1>17, <1>18, <1>19, <1>20, <1>21, <1>22, <1>23, <1>24, <1>25
     DEF Next

-----------------------------------------------------------------------------
\* The table keeps its unique keys, and every token and request names an account,
\* whatever registrations, bindings and resets interleave to.
THEOREM TypeCorrect == Spec => []TypeOK
<1>1. TInv => TypeOK
  <2> SUFFICES ASSUME TInv PROVE TypeOK
    OBVIOUS
  <2>1. \A h \in Handlers : call[h].i \in DOMAIN users \cup {None}
    BY DEF TInv, CallsOK, Carries, Call
  <2>2. drawn \in 0 .. MaxCodes /\ MaxCodes \in Nat
    BY AccountsAssumption DEF TInv, KeysOK
  <2>3. code \in [Ids -> 0 .. MaxCodes]
    BY <2>2 DEF TInv, KeysOK
  <2>4. /\ users \in Seq(User) /\ DOMAIN users \subseteq Ids /\ UniqueKeys(users)
        /\ tokens \subseteq DOMAIN users
    BY DEF TInv, TableOK
  <2>5. /\ cooldown \in [Ids -> BOOLEAN]
        /\ attempts \in [Ids -> [n : Nat, outlives : BOOLEAN]]
        /\ mailed \in [Ids -> SUBSET (1 .. drawn)]
    BY DEF TInv, KeysOK, Counts
  <2> QED
    BY <2>1, <2>2, <2>3, <2>4, <2>5 DEF TypeOK
<1> QED
  BY TInvInit, TInvStep, <1>1, PTL DEF Spec

\* No address is ever replaced or taken away.
THEOREM AddressStays == Spec => BoundOnce
<1>1. TInv /\ [Next]_vars =>
          [\A i \in DOMAIN users :
              users[i].email # None => users'[i].email = users[i].email]_vars
  BY BoundStep DEF AddressesKept
<1> QED
  BY TInvInit, TInvStep, <1>1, PTL DEF Spec, BoundOnce

\* A login that upgrades the format of a hash never brings an old password back
\* unless the new one was set while the upgrade was under way.
THEOREM LastPasswordWorks == Spec => []PasswordIsKept
<1>1. Init => PInv
  <2> SUFFICES ASSUME Init PROVE PInv
    OBVIOUS
  <2>1. TInv
    BY TInvInit
  <2>2. PasswordIsKept
    BY <2>1 DEF TInv, TableOK, Init, PasswordIsKept
  <2>3. RehashKeeps
    BY DEF Init, RehashKeeps, NoCall
  <2> QED
    BY <2>1, <2>2, <2>3 DEF PInv, Kept
<1>2. PInv /\ [Next]_vars => PInv'
  BY TInvStep, KeptStep DEF PInv
<1>3. PInv => PasswordIsKept
  BY DEF PInv, Kept
<1> QED
  BY <1>1, <1>2, <1>3, PTL DEF Spec

\* A code that has reset a password or met its last wrong answer is gone once the
\* request that used it up has returned, whatever requests interleave: it is left
\* behind only by a request that was not told what it had done, or could not delete it.
THEOREM RetiredCodesGo == Spec => []RetiredIsGone
<1>1. Init => RInv
  <2> SUFFICES ASSUME Init PROVE RInv
    OBVIOUS
  <2>1. TInv
    BY TInvInit
  <2>2. OneOwner
    BY DEF Init, OneOwner, NoCall, None
  <2>3. GoneOrLeaving
    BY DEF Init, GoneOrLeaving
  <2> QED
    BY <2>1, <2>2, <2>3 DEF RInv, Gone
<1>2. RInv /\ [Next]_vars => RInv'
  BY TInvStep, GoneStep DEF RInv
<1>3. RInv => RetiredIsGone
  BY DEF RInv, Gone, GoneOrLeaving, Leaving, TInv, TableOK, RetiredIsGone
<1> QED
  BY <1>1, <1>2, <1>3, PTL DEF Spec
=============================================================================
