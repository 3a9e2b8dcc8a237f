--------------------------- MODULE SessionsProofs ---------------------------
(***************************************************************************)
(* Proofs about Sessions, for any users, clients, ticks, tokens, lifetimes *)
(* and failures.  The invariant says what the row locks of rotateSession   *)
(* protect: a transaction that has decided still finds its token and its   *)
(* user's sessions as it read them.                                        *)
(***************************************************************************)
EXTENDS Sessions, TLAPS

(* No row is locked twice, and a transaction has the locks of its stage.   *)
LocksExclude ==
    /\ \A q, r \in Ticks : q # r => holds[q] \cap holds[r] = {}
    /\ \A q \in Ticks :
          /\ stage[q] \in {"user", "write", "commit"} => cookie[q] \in holds[q]
          /\ stage[q] \in {"write", "commit"} => User(q) \in holds[q]

Owned(t, u) == t \in DOMAIN rows /\ rows[t].user = u

(* Tokens in jars, requests and answers are the user's own.                *)
TokensOwned ==
    /\ \A c \in Clients : jar[c] # "none" => Owned(jar[c], UserOf[c])
    /\ \A q \in Ticks :
          /\ stage[q] # "idle" => jar[BotOf[q]] # "none"
          /\ InTransaction(q) \/ stage[q] = "answered" => Owned(cookie[q], User(q))
          /\ stage[q] = "answered" /\ reply[q] = "ok" => Owned(work[q].insert, User(q))

RotationReady(q) ==
    /\ work[q].insert \in TokenIds \ DOMAIN rows
    /\ work[q].revoke = {cookie[q]}
    /\ ~rows[cookie[q]].revoked

RevocationReady(q) ==
    /\ ActiveOf(User(q)) \subseteq work[q].revoke
    /\ work[q].revoke \subseteq holds[q]

(* What is about to be committed still fits the table.                     *)
WorkFits ==
    /\ \A q \in Ticks : stage[q] = "commit" =>
          IF work[q].insert = "none" THEN RevocationReady(q) ELSE RotationReady(q)
    /\ \A q, r \in Ticks :
          q # r /\ stage[q] = "commit" /\ stage[r] = "commit" /\ work[q].insert # "none"
              => work[q].insert # work[r].insert

LoginsKnown == \A t \in DOMAIN rows : rows[t].login \in DOMAIN rows

SessionsInv ==
    /\ SessionsTypeOK /\ LocksExclude /\ TokensOwned /\ WorkFits /\ LoginsKnown
    /\ OneActivePerLogin

-----------------------------------------------------------------------------
LEMMA FreshIsNew == ASSUME NEW t \in Fresh PROVE t \in Unissued
  BY DEF Fresh

LEMMA UsersHaveTypes == ASSUME NEW q \in Ticks PROVE BotOf[q] \in Clients /\ User(q) \in Users
  BY SessionsAssumption DEF User

LEMMA NewRowType ==
    ASSUME NEW u \in Users, NEW login \in TokenIds, clock \in Nat
    PROVE  /\ NewRow(u, login) \in [user : Users, login : TokenIds, revoked : BOOLEAN,
                                    expires : Nat, next : TokenOrNone]
           /\ NewRow(u, login).user = u
           /\ NewRow(u, login).login = login
           /\ ~NewRow(u, login).revoked
  BY SessionsAssumption DEF NewRow, TokenOrNone

LEMMA InitInv == Init => SessionsInv
  BY SessionsAssumption
  DEF Init, SessionsInv, SessionsTypeOK, LocksExclude, TokensOwned, WorkFits, LoginsKnown,
      OneActivePerLogin, NoWork, InTransaction, Stages, TokenOrNone

-----------------------------------------------------------------------------
(* The two steps of one row each.                                          *)

LEMMA LogInStep ==
    ASSUME SessionsInv, NEW c \in Clients, LogIn(c)
    PROVE  SessionsInv'
  <1> USE DEF SessionsInv
  <1>1. PICK t \in Fresh :
          /\ rows' = [x \in DOMAIN rows \cup {t} |->
                IF x = t THEN NewRow(UserOf[c], t) ELSE rows[x]]
          /\ jar' = [jar EXCEPT ![c] = t]
    BY DEF LogIn
  <1>2. /\ t \in TokenIds \ DOMAIN rows /\ t # "none"
        /\ \A q \in Ticks : work[q].insert # t
    BY FreshIsNew, SessionsAssumption DEF Unissued
  <1>3. /\ jar[c] = "none" /\ UserOf[c] \in Users
        /\ \A q \in Ticks : UserOf[c] \notin holds[q]
        /\ UNCHANGED <<holds, work, tickVars, clock, historyVars>>
        /\ access' = [access EXCEPT ![c] = clock]
    BY SessionsAssumption DEF LogIn, Unlocked
  <1>4. /\ DOMAIN rows' = DOMAIN rows \cup {t}
        /\ \A x \in DOMAIN rows : rows'[x] = rows[x]
        /\ rows'[t] = NewRow(UserOf[c], t)
    BY <1>1, <1>2
  <1>5. /\ rows'[t].user = UserOf[c] /\ rows'[t].login = t /\ ~rows'[t].revoked
        /\ rows'[t] \in [user : Users, login : TokenIds, revoked : BOOLEAN,
                         expires : Nat, next : TokenOrNone]
    BY <1>2, <1>3, <1>4, NewRowType DEF SessionsTypeOK
  <1>6. SessionsTypeOK'
    BY <1>1, <1>2, <1>3, <1>4, <1>5 DEF SessionsTypeOK, TokenOrNone, tickVars, historyVars
  <1>7. LocksExclude'
    BY <1>3 DEF LocksExclude, tickVars, User
  <1>8. TokensOwned'
    BY <1>1, <1>2, <1>3, <1>4, <1>5, UsersHaveTypes
    DEF TokensOwned, tickVars, Owned, User, InTransaction, SessionsTypeOK
  <1>9. WorkFits'
    <2>1. ASSUME NEW q \in Ticks, stage[q] = "commit", work[q].insert = "none"
          PROVE  RevocationReady(q)'
      <3>1. User(q) # UserOf[c]
        BY <1>3, <2>1 DEF LocksExclude
      <3> QED BY <1>3, <1>4, <1>5, <2>1, <3>1
              DEF WorkFits, RevocationReady, ActiveOf, User, tickVars
    <2>2. ASSUME NEW q \in Ticks, stage[q] = "commit", work[q].insert # "none"
          PROVE  RotationReady(q)'
      BY <1>2, <1>3, <1>4, <2>2 DEF WorkFits, RotationReady, TokensOwned, Owned, InTransaction, tickVars
    <2> QED BY <1>3, <2>1, <2>2 DEF WorkFits, tickVars
  <1>10. LoginsKnown'
    BY <1>4, <1>5 DEF LoginsKnown
  <1>11. OneActivePerLogin'
    BY <1>2, <1>4, <1>5 DEF OneActivePerLogin, LoginsKnown
  <1> QED BY <1>6, <1>7, <1>8, <1>9, <1>10, <1>11

LEMMA LogOutStep ==
    ASSUME SessionsInv, NEW c \in Clients, LogOut(c)
    PROVE  SessionsInv'
  <1> USE DEF SessionsInv
  <1>1. /\ c \notin Bots /\ jar[c] \in DOMAIN rows
        /\ \A q \in Ticks : jar[c] \notin holds[q]
        /\ rows' = [rows EXCEPT ![jar[c]].revoked = TRUE]
        /\ jar' = [jar EXCEPT ![c] = "none"]
        /\ access' = [access EXCEPT ![c] = 0]
        /\ UNCHANGED <<holds, work, tickVars, clock, historyVars>>
    BY DEF LogOut, Unlocked, TokensOwned, Owned
  <1>2. /\ DOMAIN rows' = DOMAIN rows
        /\ \A t \in DOMAIN rows :
              /\ rows'[t].user = rows[t].user /\ rows'[t].login = rows[t].login
              /\ rows'[t] \in [user : Users, login : TokenIds, revoked : BOOLEAN,
                               expires : Nat, next : TokenOrNone]
              /\ ~rows'[t].revoked => ~rows[t].revoked
              /\ t # jar[c] => rows'[t] = rows[t]
    BY <1>1 DEF SessionsTypeOK
  <1>3. SessionsTypeOK'
    BY <1>1, <1>2 DEF SessionsTypeOK, TokenOrNone, tickVars, historyVars
  <1>4. LocksExclude'
    BY <1>1 DEF LocksExclude, tickVars, User
  <1>5. TokensOwned'
    BY <1>1, <1>2, SessionsAssumption DEF TokensOwned, tickVars, Owned, User, InTransaction, SessionsTypeOK
  <1>6. WorkFits'
    <2>1. ASSUME NEW q \in Ticks, stage[q] = "commit", work[q].insert = "none"
          PROVE  RevocationReady(q)'
      BY <1>1, <1>2, <2>1 DEF WorkFits, RevocationReady, ActiveOf, User, tickVars
    <2>2. ASSUME NEW q \in Ticks, stage[q] = "commit", work[q].insert # "none"
          PROVE  RotationReady(q)'
      <3>1. cookie[q] \in DOMAIN rows /\ cookie[q] # jar[c]
        BY <1>1, <2>2 DEF LocksExclude, TokensOwned, Owned, InTransaction
      <3> QED BY <1>1, <1>2, <2>2, <3>1 DEF WorkFits, RotationReady, tickVars
    <2> QED BY <1>1, <2>1, <2>2 DEF WorkFits, tickVars
  <1>7. LoginsKnown' /\ OneActivePerLogin'
    BY <1>2 DEF LoginsKnown, OneActivePerLogin
  <1> QED BY <1>3, <1>4, <1>5, <1>6, <1>7

-----------------------------------------------------------------------------
(* The steps that change no row.                                           *)

(* A step that changes no row and lets no transaction decide.              *)
LEMMA SameWorkFits ==
    ASSUME WorkFits, rows' = rows, NEW q \in Ticks, stage'[q] # "commit",
           \A r \in Ticks \ {q} :
              /\ stage'[r] = stage[r] /\ work'[r] = work[r]
              /\ cookie'[r] = cookie[r] /\ holds[r] \subseteq holds'[r]
    PROVE  WorkFits'
  <1>1. ASSUME NEW r \in Ticks, stage'[r] = "commit"
        PROVE  IF work'[r].insert = "none" THEN RevocationReady(r)' ELSE RotationReady(r)'
    <2>1. r # q /\ stage[r] = "commit"
      BY <1>1
    <2>2. CASE work[r].insert = "none"
      <3>1. RevocationReady(r)
        BY <2>1, <2>2 DEF WorkFits
      <3>2. ActiveOf(User(r))' = ActiveOf(User(r))
        BY DEF ActiveOf, User
      <3> QED BY <2>1, <2>2, <3>1, <3>2 DEF RevocationReady
    <2>3. CASE work[r].insert # "none"
      BY <2>1, <2>3 DEF WorkFits, RotationReady
    <2> QED BY <2>1, <2>2, <2>3
  <1>2. ASSUME NEW r \in Ticks, NEW p \in Ticks, r # p,
               stage'[r] = "commit", stage'[p] = "commit", work'[r].insert # "none"
        PROVE  work'[r].insert # work'[p].insert
    BY <1>2 DEF WorkFits
  <1> QED BY <1>1, <1>2 DEF WorkFits

LEMMA TickStep ==
    ASSUME SessionsInv, NEW q \in Ticks, OrderRefused(q) \/ SendRefresh(q)
    PROVE  SessionsInv'
  <1> USE DEF SessionsInv
  <1>1. /\ UNCHANGED <<txVars, issued, reply, tries, clientVars, clock, historyVars>>
        /\ jar[BotOf[q]] # "none"
        /\ \/ stage[q] = "idle" /\ stage' = [stage EXCEPT ![q] = "refresh"] /\ cookie' = cookie
           \/ /\ stage[q] = "refresh" /\ stage' = [stage EXCEPT ![q] = "token"]
              /\ cookie' = [cookie EXCEPT ![q] = jar[BotOf[q]]]
    BY DEF OrderRefused, SendRefresh, Goes, TokensOwned
  <1>2. SessionsTypeOK'
    BY <1>1, UsersHaveTypes DEF SessionsTypeOK, Stages, TokenOrNone, txVars, clientVars, historyVars
  <1>3. LocksExclude'
    BY <1>1 DEF LocksExclude, SessionsTypeOK, txVars, User
  <1>4. TokensOwned'
    BY <1>1, UsersHaveTypes
    DEF TokensOwned, SessionsTypeOK, Owned, User, InTransaction, txVars, clientVars
  <1>5. WorkFits'
    BY <1>1, SameWorkFits DEF SessionsTypeOK, txVars
  <1>6. LoginsKnown' /\ OneActivePerLogin'
    BY <1>1 DEF LoginsKnown, OneActivePerLogin, txVars
  <1> QED BY <1>2, <1>3, <1>4, <1>5, <1>6

LEMMA LockStep ==
    ASSUME SessionsInv, NEW q \in Ticks, LockToken(q) \/ LockUser(q)
    PROVE  SessionsInv'
  <1> USE DEF SessionsInv
  <1>1. /\ UNCHANGED <<rows, work, cookie, issued, reply, tries, clientVars, clock, historyVars>>
        /\ InTransaction(q) /\ stage[q] # "commit" /\ stage[q] # "answered"
    BY DEF LockToken, LockUser, InTransaction
  <1>2. PICK object \in Users \cup TokenIds :
          /\ \A r \in Ticks \ {q} : object \notin holds[r]
          /\ holds' = [holds EXCEPT ![q] = @ \cup {object}]
          /\ \/ stage' = [stage EXCEPT ![q] = "user"] /\ object = cookie[q]
             \/ /\ stage[q] = "user" /\ object = User(q)
                /\ stage' = [stage EXCEPT ![q] = "write"]
    <2>1. cookie[q] \in TokenIds /\ User(q) \in Users
      BY <1>1, UsersHaveTypes DEF TokensOwned, Owned, SessionsTypeOK
    <2>2. CASE LockToken(q)
      BY <2>1, <2>2 DEF LockToken, LockedByOthers, Lock, Goes
    <2>3. CASE LockUser(q)
      BY <2>1, <2>3 DEF LockUser, LockedByOthers, Lock, Goes
    <2> QED BY <2>2, <2>3
  <1>3. SessionsTypeOK'
    BY <1>1, <1>2 DEF SessionsTypeOK, Stages, clientVars, historyVars
  <1>4. LocksExclude'
    BY <1>1, <1>2 DEF LocksExclude, SessionsTypeOK, User
  <1>5. TokensOwned'
    BY <1>1, <1>2 DEF TokensOwned, SessionsTypeOK, Owned, User, InTransaction, clientVars
  <1>6. WorkFits'
    BY <1>1, <1>2, SameWorkFits DEF SessionsTypeOK
  <1>7. LoginsKnown' /\ OneActivePerLogin'
    BY <1>1 DEF LoginsKnown, OneActivePerLogin
  <1> QED BY <1>3, <1>4, <1>5, <1>6, <1>7

LEMMA RotateStep ==
    ASSUME SessionsInv, NEW q \in Ticks, Rotate(q)
    PROVE  SessionsInv'
  <1> USE DEF SessionsInv
  <1>1. /\ UNCHANGED <<rows, holds, cookie, issued, reply, tries, clientVars, clock, historyVars>>
        /\ stage[q] = "write" /\ ~rows[cookie[q]].revoked
        /\ stage' = [stage EXCEPT ![q] = "commit"]
    BY DEF Rotate, Goes, Usable
  <1>2. PICK t \in Fresh : work' = [work EXCEPT ![q] = [insert |-> t, revoke |-> {cookie[q]}]]
    BY DEF Rotate, Replaces
  <1>3. /\ t \in TokenIds \ DOMAIN rows /\ t # "none"
        /\ \A r \in Ticks : work[r].insert # t
    BY FreshIsNew, SessionsAssumption DEF Unissued
  <1>4. cookie[q] \in TokenIds
    BY <1>1 DEF TokensOwned, Owned, InTransaction, SessionsTypeOK
  <1>5. SessionsTypeOK'
    BY <1>1, <1>2, <1>3, <1>4 DEF SessionsTypeOK, Stages, TokenOrNone, clientVars, historyVars
  <1>6. LocksExclude'
    BY <1>1 DEF LocksExclude, SessionsTypeOK, User
  <1>7. TokensOwned'
    BY <1>1, <1>2 DEF TokensOwned, SessionsTypeOK, Owned, User, InTransaction, clientVars
  <1>8. WorkFits'
    BY <1>1, <1>2, <1>3 DEF WorkFits, SessionsTypeOK, RotationReady, RevocationReady, ActiveOf, User
  <1>9. LoginsKnown' /\ OneActivePerLogin'
    BY <1>1 DEF LoginsKnown, OneActivePerLogin
  <1> QED BY <1>5, <1>6, <1>7, <1>8, <1>9

LEMMA RevokeAllStep ==
    ASSUME SessionsInv, NEW q \in Ticks, RevokeAll(q)
    PROVE  SessionsInv'
  <1> USE DEF SessionsInv
  <1> DEFINE sessions == ActiveOf(User(q))
  <1>1. /\ UNCHANGED <<rows, cookie, issued, reply, tries, clientVars, clock, historyVars>>
        /\ stage[q] = "write"
        /\ stage' = [stage EXCEPT ![q] = "commit"]
        /\ \A r \in Ticks \ {q} : sessions \cap holds[r] = {}
        /\ holds' = [holds EXCEPT ![q] = @ \cup sessions]
        /\ work' = [work EXCEPT ![q] = [insert |-> "none", revoke |-> sessions]]
    BY DEF RevokeAll, Goes, LockedByOthers, Lock
  <1>2. sessions \in SUBSET TokenIds /\ sessions' = sessions
    BY <1>1 DEF ActiveOf, SessionsTypeOK, User
  <1>3. SessionsTypeOK'
    BY <1>1, <1>2 DEF SessionsTypeOK, Stages, TokenOrNone, clientVars, historyVars
  <1>4. LocksExclude'
    BY <1>1 DEF LocksExclude, SessionsTypeOK, User
  <1>5. TokensOwned'
    BY <1>1 DEF TokensOwned, SessionsTypeOK, Owned, User, InTransaction, clientVars
  <1>6. WorkFits'
    <2> HIDE DEF sessions
    <2>1. RevocationReady(q)'
      BY <1>1, <1>2 DEF RevocationReady, SessionsTypeOK, sessions
    <2>2. work'[q].insert = "none" /\ stage'[q] = "commit"
      BY <1>1 DEF SessionsTypeOK
    <2>3. ASSUME NEW r \in Ticks \ {q}, stage'[r] = "commit"
          PROVE  /\ IF work'[r].insert = "none" THEN RevocationReady(r)' ELSE RotationReady(r)'
                 /\ work'[r].insert # "none" => work'[r].insert # work'[q].insert
      <3>1. work'[r] = work[r] /\ stage[r] = "commit" /\ holds'[r] = holds[r]
        BY <1>1, <2>3 DEF SessionsTypeOK
      <3> QED BY <1>1, <2>2, <2>3, <3>1 DEF WorkFits, RotationReady, RevocationReady, ActiveOf, User
    <2>4. ASSUME NEW r \in Ticks \ {q}, NEW p \in Ticks \ {q}, r # p,
                 stage'[r] = "commit", stage'[p] = "commit", work'[r].insert # "none"
          PROVE  work'[r].insert # work'[p].insert
      BY <1>1, <2>4 DEF WorkFits, SessionsTypeOK
    <2> QED BY <2>1, <2>2, <2>3, <2>4 DEF WorkFits
  <1>7. LoginsKnown' /\ OneActivePerLogin'
    BY <1>1 DEF LoginsKnown, OneActivePerLogin
  <1> QED BY <1>3, <1>4, <1>5, <1>6, <1>7

LEMMA AbortFacts ==
    ASSUME SessionsInv, NEW q \in Ticks, Fails(q) \/ BreakDeadlock(q)
    PROVE  /\ UNCHANGED <<rows, cookie, issued, tries, clientVars, clock, reused, stranded>>
           /\ faults' \in 0 .. MaxFaults
           /\ stage[q] # "idle" /\ stage[q] # "answered" /\ InTransaction(q)
           /\ holds' = [holds EXCEPT ![q] = {}]
           /\ work' = [work EXCEPT ![q] = NoWork]
           /\ stage' = [stage EXCEPT ![q] = "answered"]
           /\ \E code \in {"error", "lost"} : reply' = [reply EXCEPT ![q] = code]
  <1> USE DEF SessionsInv
  <1>1. CASE Fails(q)
    <2>1. faults' \in 0 .. MaxFaults
      BY <1>1, SessionsAssumption DEF Fails, Fault, SessionsTypeOK
    <2> QED BY <1>1, <2>1 DEF Fails, Abort, Reply, Goes, InTransaction
  <1>2. CASE BreakDeadlock(q)
    <2>1. stage[q] \in {"token", "user", "write"}
      BY <1>2 DEF BreakDeadlock, WaitsFor, Wants
    <2> QED BY <1>2, <2>1 DEF BreakDeadlock, Abort, Reply, Goes, InTransaction, SessionsTypeOK
  <1> QED BY <1>1, <1>2

LEMMA AbortStep ==
    ASSUME SessionsInv, NEW q \in Ticks, Fails(q) \/ BreakDeadlock(q)
    PROVE  SessionsInv'
  <1> USE DEF SessionsInv
  <1>1. /\ UNCHANGED <<rows, cookie, issued, tries, clientVars, clock, reused, stranded>>
        /\ faults' \in 0 .. MaxFaults
        /\ stage[q] # "idle" /\ stage[q] # "answered" /\ InTransaction(q)
        /\ holds' = [holds EXCEPT ![q] = {}]
        /\ work' = [work EXCEPT ![q] = NoWork]
        /\ stage' = [stage EXCEPT ![q] = "answered"]
        /\ \E code \in {"error", "lost"} : reply' = [reply EXCEPT ![q] = code]
    BY AbortFacts
  <1>2. SessionsTypeOK'
    BY <1>1 DEF SessionsTypeOK, Stages, TokenOrNone, NoWork, clientVars
  <1>3. LocksExclude'
    BY <1>1 DEF LocksExclude, SessionsTypeOK, User
  <1>4. TokensOwned'
    BY <1>1 DEF TokensOwned, SessionsTypeOK, Owned, User, InTransaction, clientVars
  <1>5. WorkFits'
    BY <1>1, SameWorkFits DEF SessionsTypeOK
  <1>6. LoginsKnown' /\ OneActivePerLogin'
    BY <1>1 DEF LoginsKnown, OneActivePerLogin
  <1> QED BY <1>2, <1>3, <1>4, <1>5, <1>6

LEMMA LoseAnswerStep ==
    ASSUME SessionsInv, NEW q \in Ticks, LoseAnswer(q)
    PROVE  SessionsInv'
  <1> USE DEF SessionsInv
  <1>1. /\ UNCHANGED <<txVars, stage, cookie, issued, tries, clientVars, clock, reused>>
        /\ reply' = [reply EXCEPT ![q] = "lost"]
        /\ stage[q] = "answered"
    BY DEF LoseAnswer
  <1>2. stranded' \subseteq Clients /\ faults' \in 0 .. MaxFaults
    BY UsersHaveTypes, SessionsAssumption DEF LoseAnswer, Fault, SessionsTypeOK
  <1>3. SessionsTypeOK'
    BY <1>1, <1>2 DEF SessionsTypeOK, txVars, clientVars
  <1>4. LocksExclude'
    BY <1>1 DEF LocksExclude, txVars, User
  <1>5. TokensOwned'
    BY <1>1 DEF TokensOwned, SessionsTypeOK, Owned, User, InTransaction, txVars, clientVars
  <1>6. WorkFits'
    BY <1>1, SameWorkFits DEF txVars
  <1>7. LoginsKnown' /\ OneActivePerLogin'
    BY <1>1 DEF LoginsKnown, OneActivePerLogin, txVars
  <1> QED BY <1>3, <1>4, <1>5, <1>6, <1>7

LEMMA ReceiveStep ==
    ASSUME SessionsInv, NEW q \in Ticks, Receive(q)
    PROVE  SessionsInv'
  <1> USE DEF SessionsInv
  <1>1. /\ UNCHANGED <<rows, holds, clock, historyVars>>
        /\ stage[q] = "answered"
        /\ work' = [work EXCEPT ![q] = NoWork]
        /\ reply' = [reply EXCEPT ![q] = "none"]
        /\ issued' = [issued EXCEPT ![q] = 0]
    BY DEF Receive
  <1>2. \/ /\ reply[q] = "ok"
           /\ jar' = [jar EXCEPT ![BotOf[q]] = work[q].insert]
           /\ access' = [access EXCEPT ![BotOf[q]] = issued[q]]
        \/ UNCHANGED clientVars
    BY DEF Receive
  <1>3. \/ /\ stage' = [stage EXCEPT ![q] = "token"] /\ cookie' = cookie
           /\ tries[q] < MaxRetries /\ tries' = [tries EXCEPT ![q] = @ + 1]
        \/ /\ stage' = [stage EXCEPT ![q] = "idle"] /\ cookie' = [cookie EXCEPT ![q] = "none"]
           /\ tries' = [tries EXCEPT ![q] = 0]
    BY DEF Receive, Goes, MayRepeat
  <1>4. tries' \in [Ticks -> 0 .. MaxRetries]
    BY <1>3, SessionsAssumption DEF SessionsTypeOK
  <1>5. jar' \in [Clients -> TokenOrNone] /\ access' \in [Clients -> Nat]
    BY <1>2, UsersHaveTypes DEF SessionsTypeOK, clientVars
  <1>6. stage' \in [Ticks -> Stages] /\ cookie' \in [Ticks -> TokenOrNone]
    BY <1>3 DEF SessionsTypeOK, Stages, TokenOrNone
  <1>7. SessionsTypeOK'
    BY <1>1, <1>4, <1>5, <1>6 DEF SessionsTypeOK, TokenOrNone, NoWork, historyVars
  <1>8. LocksExclude'
    BY <1>1, <1>3 DEF LocksExclude, SessionsTypeOK, User
  <1>9. TokensOwned'
    <2>1. \A c \in Clients :
             /\ jar'[c] # "none" => Owned(jar'[c], UserOf[c])
             /\ jar[c] # "none" => jar'[c] # "none"
      <3>1. CASE UNCHANGED clientVars
        BY <3>1 DEF TokensOwned, clientVars
      <3>2. CASE /\ reply[q] = "ok"
                 /\ jar' = [jar EXCEPT ![BotOf[q]] = work[q].insert]
        <4>1. Owned(work[q].insert, UserOf[BotOf[q]]) /\ work[q].insert # "none"
          BY <1>1, <3>2, SessionsAssumption DEF TokensOwned, User, Owned, SessionsTypeOK
        <4> QED BY <3>2, <4>1 DEF TokensOwned, SessionsTypeOK
      <3> QED BY <1>2, <3>1, <3>2
    <2> QED BY <1>1, <1>3, <2>1, UsersHaveTypes
            DEF TokensOwned, SessionsTypeOK, Owned, User, InTransaction
  <1>10. WorkFits'
    BY <1>1, <1>3, SameWorkFits DEF SessionsTypeOK
  <1>11. LoginsKnown' /\ OneActivePerLogin'
    BY <1>1 DEF LoginsKnown, OneActivePerLogin
  <1> QED BY <1>7, <1>8, <1>9, <1>10, <1>11

(* Time passing, and a stuttering step, touch nothing but the clock.       *)
LEMMA TimeStep ==
    ASSUME SessionsInv, UNCHANGED <<txVars, tickVars, clientVars, historyVars>>,
           TimePasses \/ clock' = clock
    PROVE  SessionsInv'
  <1> USE DEF SessionsInv
  <1>1. clock' \in Nat
    BY SessionsAssumption DEF TimePasses, SessionsTypeOK
  <1>2. SessionsTypeOK' /\ LocksExclude'
    BY <1>1 DEF SessionsTypeOK, LocksExclude, txVars, tickVars, clientVars, historyVars, User
  <1>3. TokensOwned'
    BY DEF TokensOwned, txVars, tickVars, clientVars, Owned, User, InTransaction
  <1>4. WorkFits'
    BY DEF WorkFits, RotationReady, RevocationReady, ActiveOf, User, txVars, tickVars
  <1>5. LoginsKnown' /\ OneActivePerLogin'
    BY DEF LoginsKnown, OneActivePerLogin, txVars
  <1> QED BY <1>2, <1>3, <1>4, <1>5

-----------------------------------------------------------------------------
(* The COMMIT of a rotation or a revocation.                               *)

(* What the statements of a transaction leave in the table.                *)
LEMMA WrittenRows ==
    ASSUME SessionsInv, NEW q \in Ticks, stage[q] = "commit", rows' = Written(q)
    PROVE  LET new == work[q].insert
               added == IF new = "none" THEN {} ELSE {new}
           IN  /\ DOMAIN rows' = DOMAIN rows \cup added
               /\ added \cap DOMAIN rows = {}
               /\ \A t \in DOMAIN rows' :
                     rows'[t] \in [user : Users, login : TokenIds, revoked : BOOLEAN,
                                  expires : Nat, next : TokenOrNone]
               /\ \A t \in DOMAIN rows :
                     /\ rows'[t].user = rows[t].user /\ rows'[t].login = rows[t].login
                     /\ rows'[t].expires = rows[t].expires
                     /\ rows'[t].revoked = (rows[t].revoked \/ t \in work[q].revoke)
               /\ new # "none" =>
                     /\ rows'[new].user = User(q)
                     /\ rows'[new].login = rows[cookie[q]].login
                     /\ ~rows'[new].revoked
  <1> USE DEF SessionsInv
  <1> DEFINE new == work[q].insert
             added == IF new = "none" THEN {} ELSE {new}
             row == [user : Users, login : TokenIds, revoked : BOOLEAN,
                     expires : Nat, next : TokenOrNone]
  <1>1. added \cap DOMAIN rows = {} /\ new \in TokenOrNone
    BY DEF WorkFits, RotationReady, SessionsTypeOK
  <1>2. /\ DOMAIN rows' = DOMAIN rows \cup added
        /\ \A t \in DOMAIN rows :
              rows'[t] = [rows[t] EXCEPT !.revoked = @ \/ t \in work[q].revoke,
                                 !.next = IF t = cookie[q] /\ added # {} THEN new ELSE @]
        /\ new # "none" => rows'[new] = NewRow(User(q), rows[cookie[q]].login)
    BY <1>1 DEF Written
  <1>3. ASSUME NEW t \in DOMAIN rows
        PROVE  /\ rows'[t] \in row
               /\ rows'[t].user = rows[t].user /\ rows'[t].login = rows[t].login
               /\ rows'[t].expires = rows[t].expires
               /\ rows'[t].revoked = (rows[t].revoked \/ t \in work[q].revoke)
    <2> DEFINE dead == rows[t].revoked \/ t \in work[q].revoke
               successor == IF t = cookie[q] /\ added # {} THEN new ELSE rows[t].next
    <2>1. rows[t] \in row
      BY DEF SessionsTypeOK
    <2>2. dead \in BOOLEAN /\ successor \in TokenOrNone
      BY <1>1, <2>1
    <2>3. rows'[t] = [rows[t] EXCEPT !.revoked = dead, !.next = successor]
      BY <1>2
    <2> HIDE DEF dead, successor
    <2>4. /\ rows'[t] \in row /\ rows'[t].user = rows[t].user
          /\ rows'[t].login = rows[t].login /\ rows'[t].expires = rows[t].expires
      BY <2>1, <2>2, <2>3
    <2>5. rows'[t].revoked = dead
      BY <2>1, <2>3
    <2> QED BY <2>4, <2>5 DEF dead
  <1>4. ASSUME new # "none"
        PROVE  /\ rows'[new] \in row /\ rows'[new].user = User(q)
               /\ rows'[new].login = rows[cookie[q]].login /\ ~rows'[new].revoked
    <2>1. rows[cookie[q]].login \in TokenIds
      BY DEF TokensOwned, InTransaction, Owned, SessionsTypeOK
    <2>2. clock \in Nat
      BY DEF SessionsTypeOK
    <2> DEFINE successor == NewRow(User(q), rows[cookie[q]].login)
    <2>3. /\ successor \in row /\ successor.user = User(q)
          /\ successor.login = rows[cookie[q]].login /\ ~successor.revoked
      BY <2>1, <2>2, UsersHaveTypes, NewRowType
    <2> QED BY <1>2, <1>4, <2>3
  <1> QED BY <1>1, <1>2, <1>3, <1>4

LEMMA CommitStep ==
    ASSUME SessionsInv, NEW q \in Ticks, Commit(q)
    PROVE  SessionsInv'
  <1> USE DEF SessionsInv
  <1> DEFINE new == work[q].insert
             added == IF new = "none" THEN {} ELSE {new}
  <1>1. /\ stage[q] = "commit" /\ rows' = Written(q)
        /\ holds' = [holds EXCEPT ![q] = {}]
        /\ stage' = [stage EXCEPT ![q] = "answered"]
        /\ reply' = [reply EXCEPT ![q] = IF new # "none" THEN "ok" ELSE "denied"]
        /\ issued' = [issued EXCEPT ![q] = clock]
        /\ reused' \subseteq Users
        /\ UNCHANGED <<work, cookie, tries, clientVars, clock, stranded, faults>>
    BY UsersHaveTypes DEF Commit, Reply, Goes, SessionsTypeOK
  <1>2. /\ DOMAIN rows' = DOMAIN rows \cup added /\ added \cap DOMAIN rows = {}
        /\ \A t \in DOMAIN rows' :
              rows'[t] \in [user : Users, login : TokenIds, revoked : BOOLEAN,
                           expires : Nat, next : TokenOrNone]
        /\ \A t \in DOMAIN rows :
              /\ rows'[t].user = rows[t].user /\ rows'[t].login = rows[t].login
              /\ rows'[t].revoked = (rows[t].revoked \/ t \in work[q].revoke)
        /\ new # "none" =>
              /\ rows'[new].user = User(q) /\ rows'[new].login = rows[cookie[q]].login
              /\ ~rows'[new].revoked
    BY <1>1, WrittenRows
  <1>3. /\ cookie[q] \in DOMAIN rows
        /\ new # "none" => RotationReady(q)
        /\ new = "none" => RevocationReady(q)
        /\ cookie[q] \in holds[q] /\ User(q) \in holds[q]
    BY <1>1 DEF WorkFits, TokensOwned, InTransaction, Owned, LocksExclude
  <1>4. work[q].revoke \subseteq holds[q]
    BY <1>3 DEF RotationReady, RevocationReady
  <1>5. SessionsTypeOK'
    <2>1. DOMAIN rows' \subseteq TokenIds
      BY <1>2 DEF SessionsTypeOK, TokenOrNone
    <2> QED BY <1>1, <1>2, <2>1 DEF SessionsTypeOK, Stages, clientVars
  <1>6. LocksExclude'
    BY <1>1 DEF LocksExclude, SessionsTypeOK, User
  <1>7. TokensOwned'
    <2>1. \A t : \A u : Owned(t, u) => Owned(t, u)'
      BY <1>2 DEF Owned
    <2>2. new # "none" => Owned(work[q].insert, User(q))'
      BY <1>1, <1>2 DEF Owned, User
    <2> QED BY <1>1, <2>1, <2>2
            DEF TokensOwned, SessionsTypeOK, User, InTransaction, clientVars
  <1>8. WorkFits'
    <2>1. ASSUME NEW r \in Ticks, stage'[r] = "commit"
          PROVE  IF work'[r].insert = "none" THEN RevocationReady(r)' ELSE RotationReady(r)'
      <3>1. /\ r # q /\ stage[r] = "commit" /\ work'[r] = work[r]
            /\ holds'[r] = holds[r] /\ cookie'[r] = cookie[r]
            /\ cookie[r] \in holds[r] /\ User(r) \in holds[r] /\ cookie[r] \in DOMAIN rows
        BY <1>1, <2>1 DEF SessionsTypeOK, LocksExclude, TokensOwned, InTransaction, Owned
      <3>2. User(r) # User(q) /\ cookie[r] \notin work[q].revoke
        BY <1>3, <1>4, <3>1 DEF LocksExclude
      <3>3. CASE work[r].insert = "none"
        <4>1. ActiveOf(User(r)) \subseteq work[r].revoke /\ work[r].revoke \subseteq holds[r]
          BY <3>1, <3>3 DEF WorkFits, RevocationReady
        <4>2. ActiveOf(User(r))' \subseteq ActiveOf(User(r))
          BY <1>2, <3>2 DEF ActiveOf, User
        <4> QED BY <3>1, <3>3, <4>1, <4>2 DEF RevocationReady
      <3>4. CASE work[r].insert # "none"
        <4>1. RotationReady(r) /\ work[r].insert # new
          BY <1>1, <3>1, <3>4 DEF WorkFits
        <4>2. work[r].insert \notin DOMAIN rows'
          BY <1>2, <4>1 DEF RotationReady
        <4> QED BY <1>2, <3>1, <3>2, <3>4, <4>1, <4>2 DEF RotationReady
      <3> QED BY <3>1, <3>3, <3>4
    <2>2. ASSUME NEW r \in Ticks, NEW p \in Ticks, r # p,
                 stage'[r] = "commit", stage'[p] = "commit", work'[r].insert # "none"
          PROVE  work'[r].insert # work'[p].insert
      BY <1>1, <2>2 DEF WorkFits, SessionsTypeOK
    <2> QED BY <2>1, <2>2 DEF WorkFits
  <1>9. LoginsKnown'
    BY <1>2, <1>3 DEF LoginsKnown
  <1>10. OneActivePerLogin'
    <2>1. CASE new = "none"
      BY <1>2, <2>1 DEF OneActivePerLogin
    <2>2. CASE new # "none"
      <3>1. \A t \in DOMAIN rows :
               rows[t].login = rows[cookie[q]].login /\ ~rows'[t].revoked => t = cookie[q]
        BY <1>2, <1>3, <2>2 DEF OneActivePerLogin, RotationReady
      <3>2. rows'[cookie[q]].revoked
        BY <1>2, <1>3, <2>2 DEF RotationReady
      <3> QED BY <1>2, <2>2, <3>1, <3>2 DEF OneActivePerLogin
    <2> QED BY <2>1, <2>2
  <1> QED BY <1>5, <1>6, <1>7, <1>8, <1>9, <1>10

-----------------------------------------------------------------------------
LEMMA NextInv == SessionsInv /\ [Next]_vars => SessionsInv'
  <1> SUFFICES ASSUME SessionsInv, [Next]_vars
               PROVE  SessionsInv'
    OBVIOUS
  <1>1. ASSUME NEW c \in Clients, LogIn(c) \/ LogOut(c)
        PROVE  SessionsInv'
    BY <1>1, LogInStep, LogOutStep
  <1>2. ASSUME NEW q \in Ticks, OrderRefused(q) \/ Refresh(q) \/ Fails(q) \/ LoseAnswer(q)
        PROVE  SessionsInv'
    BY <1>2, TickStep, LockStep, RotateStep, RevokeAllStep, CommitStep, AbortStep,
       LoseAnswerStep, ReceiveStep
    DEF Refresh
  <1>3. CASE TimePasses
    BY <1>3, TimeStep DEF TimePasses
  <1>4. CASE UNCHANGED vars
    BY <1>4, TimeStep DEF vars
  <1> QED BY <1>1, <1>2, <1>3, <1>4 DEF Next

(* The inductive invariant: row locks keep what a transaction has decided. *)
THEOREM SessionsInvariant == Spec => []SessionsInv
  <1> QED BY InitInv, NextInv, PTL DEF Spec

(* The table, the transactions, the ticks and the jars have their types.   *)
THEOREM SessionsTypeCorrect == Spec => []SessionsTypeOK
  <1>1. SessionsInv => SessionsTypeOK
    BY DEF SessionsInv
  <1> QED BY <1>1, SessionsInvariant, PTL

(* rotateSession: a login never has two refresh tokens that are not        *)
(* revoked, however many clients and ticks present them at once.           *)
THEOREM OneLiveToken == Spec => []OneActivePerLogin
  <1>1. SessionsInv => OneActivePerLogin
    BY DEF SessionsInv
  <1> QED BY <1>1, SessionsInvariant, PTL

-----------------------------------------------------------------------------
(* A tick has an answer only when it has been answered.                    *)
AnswersLate == \A q \in Ticks : stage[q] # "answered" => reply[q] = "none"

LEMMA AnswersLateNext == SessionsTypeOK /\ AnswersLate /\ [Next]_vars => AnswersLate'
  <1> SUFFICES ASSUME SessionsTypeOK, AnswersLate, [Next]_vars
               PROVE  AnswersLate'
    OBVIOUS
  <1> USE DEF AnswersLate, SessionsTypeOK
  <1>1. ASSUME NEW q \in Ticks, Commit(q) \/ Fails(q) \/ BreakDeadlock(q)
        PROVE  AnswersLate'
    BY <1>1 DEF Commit, Fails, BreakDeadlock, Abort, Reply, Goes
  <1>2. ASSUME NEW q \in Ticks,
               \/ OrderRefused(q) \/ SendRefresh(q) \/ LockToken(q) \/ LockUser(q)
               \/ Rotate(q) \/ RevokeAll(q)
        PROVE  AnswersLate'
    BY <1>2 DEF OrderRefused, SendRefresh, LockToken, LockUser, Rotate, RevokeAll, Goes
  <1>3. ASSUME NEW q \in Ticks, LoseAnswer(q) \/ Receive(q)
        PROVE  AnswersLate'
    BY <1>3 DEF LoseAnswer, Receive, Goes
  <1>4. CASE UNCHANGED tickVars
    BY <1>4 DEF tickVars
  <1> QED BY <1>1, <1>2, <1>3, <1>4
          DEF Next, Refresh, LogIn, LogOut, TimePasses, vars

LEMMA AnswersLateAlways == Spec => []AnswersLate
  <1>1. Init => AnswersLate
    BY DEF Init, AnswersLate
  <1> QED BY <1>1, AnswersLateNext, SessionsTypeCorrect, PTL DEF Spec

(* Only its own COMMIT answers a transaction that is about to commit.      *)
LEMMA OnlyCommitAnswers ==
    ASSUME SessionsTypeOK, AnswersLate, Next, NEW q \in Ticks,
           stage[q] = "commit", reply'[q] = "denied"
    PROVE  Commit(q)
  <1> USE DEF AnswersLate, SessionsTypeOK
  <1>1. reply[q] = "none"
    OBVIOUS
  <1>2. ASSUME NEW r \in Ticks, Commit(r)
        PROVE  r = q
    BY <1>1, <1>2 DEF Commit, Reply
  <1>3. ASSUME NEW r \in Ticks, Fails(r) \/ BreakDeadlock(r) \/ LoseAnswer(r) \/ Receive(r)
        PROVE  FALSE
    BY <1>1, <1>3 DEF Fails, BreakDeadlock, Abort, Reply, LoseAnswer, Receive
  <1>4. reply' # reply
    BY <1>1
  <1> QED BY <1>2, <1>3, <1>4
          DEF Next, Refresh, LogIn, LogOut, TimePasses, tickVars, OrderRefused, SendRefresh,
              LockToken, LockUser, Rotate, RevokeAll

(* rotateSession: once a reuse is answered, no session of the user is      *)
(* left, not even one that was opened or rotated meanwhile.                *)
THEOREM ReuseIsThorough == Spec => ReuseRevokesAll
  <1>1. ASSUME SessionsInv, AnswersLate, Next, NEW q \in Ticks,
               stage[q] = "commit", reply'[q] = "denied"
        PROVE  ActiveOf(User(q))' = {}
    <2>1. Commit(q)
      BY <1>1, OnlyCommitAnswers DEF SessionsInv
    <2>2. work[q].insert = "none"
      BY <1>1, <2>1 DEF Commit, Reply, SessionsInv, SessionsTypeOK
    <2>3. ActiveOf(User(q)) \subseteq work[q].revoke
      BY <1>1, <2>2 DEF SessionsInv, WorkFits, RevocationReady
    <2>4. /\ DOMAIN rows' = DOMAIN rows
          /\ \A t \in DOMAIN rows :
                /\ rows'[t].user = rows[t].user
                /\ rows'[t].revoked = (rows[t].revoked \/ t \in work[q].revoke)
      BY <1>1, <2>1, <2>2, WrittenRows DEF Commit
    <2> QED BY <2>3, <2>4 DEF ActiveOf, User
  <1>2. SessionsInv /\ AnswersLate /\ [Next]_vars =>
          [\A q \in Ticks :
             stage[q] = "commit" /\ reply'[q] = "denied" => ActiveOf(User(q))' = {}]_vars
    BY <1>1
  <1> QED BY <1>2, SessionsInvariant, AnswersLateAlways, PTL DEF Spec, ReuseRevokesAll

-----------------------------------------------------------------------------
(* Why a session breaks.  No two clients have one token, in a jar or on    *)
(* its way, so only a client's own rotation and a reuse revoke its token.  *)

Carries(q) == InTransaction(q) \/ stage[q] = "answered"
Underway(q) == stage[q] = "answered" /\ reply[q] = "ok"

Apart ==
    /\ \A c, d \in Clients : c # d /\ jar[c] # "none" => jar[c] # jar[d]
    /\ \A q \in Ticks : Carries(q) => \A c \in Clients \ {BotOf[q]} : jar[c] # cookie[q]
    /\ \A q \in Ticks : Underway(q) =>
          /\ \A c \in Clients : jar[c] # work[q].insert
          /\ \A r \in Ticks : Carries(r) => cookie[r] # work[q].insert
          /\ \A r \in Ticks \ {q} : Underway(r) => work[r].insert # work[q].insert

RevokesOwn ==
    \A q \in Ticks : stage[q] = "commit" =>
        \A t \in work[q].revoke : t \in DOMAIN rows /\ rows[t].user = User(q)

(* As far as its user's own rotations go, token t is good.                 *)
Sound(t, u) == ~rows[t].revoked \/ Expired(t) \/ u \in reused

JarsSound ==
    \A c \in Clients :
        jar[c] = "none" \/ Sound(jar[c], UserOf[c]) \/ c \in stranded \/ SuccessorUnderway(c)

AnswersSound == \A q \in Ticks : Underway(q) => Sound(work[q].insert, User(q))

BreakInv == Apart /\ RevokesOwn /\ JarsSound /\ AnswersSound

LEMMA OwnedTokens ==
    ASSUME SessionsInv
    PROVE  /\ \A c \in Clients : jar[c] # "none" =>
                 jar[c] \in DOMAIN rows /\ rows[jar[c]].user = UserOf[c]
           /\ \A q \in Ticks : Carries(q) =>
                 cookie[q] \in DOMAIN rows /\ rows[cookie[q]].user = User(q)
           /\ \A q \in Ticks : Underway(q) =>
                 work[q].insert \in DOMAIN rows /\ rows[work[q].insert].user = User(q)
           /\ "none" \notin DOMAIN rows
  BY SessionsAssumption
     DEF SessionsInv, TokensOwned, Owned, Carries, Underway, SessionsTypeOK

(* A step that changes no row, jar or answer under way.                    *)
LEMMA QuietApart ==
    ASSUME SessionsInv, BreakInv, UNCHANGED <<rows, clientVars, reused, stranded>>,
           clock' = clock \/ TimePasses,
           \A r \in Ticks : Underway(r)' => Underway(r),
           \A r \in Ticks : Underway(r) => Underway(r)' /\ work'[r] = work[r],
           \A r \in Ticks : Carries(r)' =>
              \/ Carries(r) /\ cookie'[r] = cookie[r]
              \/ jar[BotOf[r]] # "none" /\ cookie'[r] = jar[BotOf[r]],
           RevokesOwn'
    PROVE  BreakInv'
  <1>1. Apart'
    <2>1. \A c, d \in Clients : c # d /\ jar'[c] # "none" => jar'[c] # jar'[d]
      BY DEF BreakInv, Apart, clientVars
    <2>2. ASSUME NEW q \in Ticks, Carries(q)', NEW c \in Clients \ {BotOf[q]}
          PROVE  jar'[c] # cookie'[q]
      BY <2>2, UsersHaveTypes DEF BreakInv, Apart, clientVars
    <2>3. ASSUME NEW q \in Ticks, Underway(q)'
          PROVE  /\ \A c \in Clients : jar'[c] # work'[q].insert
                 /\ \A r \in Ticks : Carries(r)' => cookie'[r] # work'[q].insert
                 /\ \A r \in Ticks \ {q} : Underway(r)' => work'[r].insert # work'[q].insert
      BY <2>3, UsersHaveTypes DEF BreakInv, Apart, clientVars
    <2> QED BY <2>1, <2>2, <2>3 DEF Apart
  <1>2. \A t \in DOMAIN rows : \A u : Sound(t, u) => Sound(t, u)'
    BY SessionsAssumption
    DEF Sound, Expired, TimePasses, SessionsInv, SessionsTypeOK
  <1>3. JarsSound'
    <2> SUFFICES ASSUME NEW c \in Clients, jar[c] # "none", c \notin stranded,
                        ~SuccessorUnderway(c)'
                 PROVE  Sound(jar[c], UserOf[c])'
      BY DEF JarsSound, clientVars
    <2>1. ~SuccessorUnderway(c)
      BY DEF SuccessorUnderway, Underway
    <2> QED BY <1>2, <2>1, OwnedTokens DEF BreakInv, JarsSound, Sound, Expired, clientVars
  <1>4. AnswersSound'
    <2> SUFFICES ASSUME NEW q \in Ticks, Underway(q)'
                 PROVE  Sound(work[q].insert, User(q))'
      BY DEF AnswersSound
    <2>1. Underway(q) /\ work'[q] = work[q]
      OBVIOUS
    <2>2. Sound(work[q].insert, User(q)) /\ work[q].insert \in DOMAIN rows
      BY <2>1, OwnedTokens DEF BreakInv, AnswersSound
    <2> QED BY <1>2, <2>1, <2>2 DEF Sound, Expired, User
  <1> QED BY <1>1, <1>3, <1>4 DEF BreakInv

LEMMA QuietBreak ==
    ASSUME SessionsInv, BreakInv, NEW q \in Ticks,
           \/ OrderRefused(q) \/ SendRefresh(q) \/ LockToken(q) \/ LockUser(q)
           \/ Rotate(q) \/ RevokeAll(q) \/ Fails(q) \/ BreakDeadlock(q)
    PROVE  BreakInv'
  <1>1. /\ UNCHANGED <<rows, clientVars, clock, reused, stranded>>
        /\ ~Underway(q) /\ stage[q] # "answered"
        /\ \E label : stage' = [stage EXCEPT ![q] = label]
        /\ \A r \in Ticks \ {q} : work'[r] = work[r] /\ cookie'[r] = cookie[r] /\ reply'[r] = reply[r]
    BY AbortFacts
    DEF OrderRefused, SendRefresh, LockToken, LockUser, Rotate, RevokeAll, Goes, Lock, Underway,
        historyVars, txVars, InTransaction, SessionsInv, SessionsTypeOK
  <1>2. ~Underway(q)'
    BY AbortFacts
    DEF OrderRefused, SendRefresh, LockToken, LockUser, Rotate, RevokeAll, Goes, Underway,
        SessionsInv, SessionsTypeOK
  <1>3. \A r \in Ticks \ {q} : stage'[r] = stage[r]
    BY <1>1 DEF SessionsInv, SessionsTypeOK
  <1>4. \A r \in Ticks \ {q} : Underway(r)' = Underway(r) /\ (Carries(r)' = Carries(r))
    BY <1>1, <1>3 DEF Underway, Carries, InTransaction
  <1>5. Carries(q)' =>
           \/ Carries(q) /\ cookie'[q] = cookie[q]
           \/ jar[BotOf[q]] # "none" /\ cookie'[q] = jar[BotOf[q]]
    <2>1. CASE OrderRefused(q)
      BY <2>1 DEF OrderRefused, Goes, Carries, InTransaction, SessionsInv, SessionsTypeOK
    <2>2. CASE SendRefresh(q)
      BY <2>2 DEF SendRefresh, SessionsInv, SessionsTypeOK, TokensOwned
    <2>3. CASE OrderRefused(q) \/ SendRefresh(q) \/ (Carries(q) /\ cookie' = cookie)
      BY <2>1, <2>2, <2>3
    <2> QED BY <2>3, AbortFacts
            DEF LockToken, LockUser, Rotate, RevokeAll, Carries, InTransaction
  <1>6. RevokesOwn'
    <2>1. ASSUME NEW r \in Ticks \ {q}, stage'[r] = "commit", NEW t \in work'[r].revoke
          PROVE  t \in DOMAIN rows /\ rows[t].user = User(r)
      BY <1>1, <1>3, <2>1 DEF BreakInv, RevokesOwn
    <2>2. ASSUME stage'[q] = "commit", NEW t \in work'[q].revoke
          PROVE  t \in DOMAIN rows /\ rows[t].user = User(q)
      <3>1. CASE Rotate(q)
        <4>1. t = cookie[q] /\ Carries(q)
          BY <2>2, <3>1 DEF Rotate, Replaces, Carries, InTransaction, SessionsInv, SessionsTypeOK
        <4> QED BY <4>1, OwnedTokens
      <3>2. CASE RevokeAll(q)
        BY <2>2, <3>2 DEF RevokeAll, ActiveOf, SessionsInv, SessionsTypeOK
      <3>3. Rotate(q) \/ RevokeAll(q)
        BY <2>2, AbortFacts DEF OrderRefused, SendRefresh, LockToken, LockUser, Goes,
                                SessionsInv, SessionsTypeOK
      <3> QED BY <3>1, <3>2, <3>3
    <2> QED BY <1>1, <2>1, <2>2 DEF RevokesOwn, User
  <1> QED BY <1>1, <1>2, <1>4, <1>5, <1>6, QuietApart

LEMMA TimeBreak ==
    ASSUME SessionsInv, BreakInv, UNCHANGED <<txVars, tickVars, clientVars, historyVars>>,
           TimePasses \/ clock' = clock
    PROVE  BreakInv'
  <1>1. \A r \in Ticks : Underway(r)' = Underway(r) /\ (Carries(r)' = Carries(r))
    BY DEF Underway, Carries, InTransaction, tickVars
  <1>2. RevokesOwn'
    BY DEF BreakInv, RevokesOwn, txVars, tickVars, User
  <1> QED BY <1>1, <1>2, QuietApart DEF txVars, tickVars, historyVars

LEMMA LogInBreak ==
    ASSUME SessionsInv, BreakInv, NEW c \in Clients, LogIn(c)
    PROVE  BreakInv'
  <1>1. PICK t \in Fresh :
          /\ rows' = [x \in DOMAIN rows \cup {t} |->
                IF x = t THEN NewRow(UserOf[c], t) ELSE rows[x]]
          /\ jar' = [jar EXCEPT ![c] = t]
    BY DEF LogIn
  <1>2. t \notin DOMAIN rows /\ t \in TokenIds
    BY FreshIsNew DEF Unissued
  <1>3. UNCHANGED <<holds, work, tickVars, clock, historyVars>> /\ jar[c] = "none"
    BY DEF LogIn
  <1>4. \A x \in DOMAIN rows : x \in DOMAIN rows' /\ rows'[x] = rows[x]
    BY <1>1, <1>2
  <1>5. jar'[c] = t /\ \A d \in Clients \ {c} : jar'[d] = jar[d]
    BY <1>1 DEF SessionsInv, SessionsTypeOK
  <1>6. \A q \in Ticks : Underway(q)' = Underway(q) /\ (Carries(q)' = Carries(q))
    BY <1>3 DEF Underway, Carries, InTransaction, tickVars
  <1>7. Apart'
    <2>1. \A d, e \in Clients : d # e /\ jar'[d] # "none" => jar'[d] # jar'[e]
      BY <1>2, <1>5, OwnedTokens DEF BreakInv, Apart
    <2>2. \A q \in Ticks : Carries(q)' => \A d \in Clients \ {BotOf[q]} : jar'[d] # cookie'[q]
      BY <1>2, <1>3, <1>5, <1>6, OwnedTokens DEF BreakInv, Apart, tickVars
    <2>3. \A q \in Ticks : Underway(q)' => \A d \in Clients : jar'[d] # work'[q].insert
      BY <1>2, <1>3, <1>5, <1>6, OwnedTokens DEF BreakInv, Apart
    <2>4. \A q \in Ticks : Underway(q)' =>
             /\ \A r \in Ticks : Carries(r)' => cookie'[r] # work'[q].insert
             /\ \A r \in Ticks \ {q} : Underway(r)' => work'[r].insert # work'[q].insert
      BY <1>3, <1>6 DEF BreakInv, Apart, tickVars
    <2> QED BY <2>1, <2>2, <2>3, <2>4 DEF Apart
  <1>8. RevokesOwn'
    BY <1>3, <1>4 DEF BreakInv, RevokesOwn, tickVars, User
  <1>9. \A x \in DOMAIN rows : \A u : Sound(x, u)' = Sound(x, u)
    BY <1>3, <1>4 DEF Sound, Expired, historyVars
  <1>10. JarsSound'
    <2>1. Sound(t, UserOf[c])'
      BY <1>1 DEF Sound, NewRow
    <2>2. ASSUME NEW d \in Clients \ {c}
          PROVE  \/ jar'[d] = "none" \/ Sound(jar[d], UserOf[d])' \/ d \in stranded'
                 \/ SuccessorUnderway(d)'
      BY <1>3, <1>5, <1>9, OwnedTokens
      DEF BreakInv, JarsSound, SuccessorUnderway, tickVars, historyVars
    <2>3. (\A d \in Clients :
             jar[d] = "none" \/ Sound(jar[d], UserOf[d]) \/ d \in stranded \/ SuccessorUnderway(d))'
      BY <1>5, <2>1, <2>2 DEF Sound, Expired
    <2> QED BY <2>3 DEF JarsSound
  <1>11. AnswersSound'
    BY <1>3, <1>6, <1>9, OwnedTokens DEF BreakInv, AnswersSound, User, Sound, Expired
  <1> QED BY <1>7, <1>8, <1>10, <1>11 DEF BreakInv

LEMMA LogOutBreak ==
    ASSUME SessionsInv, BreakInv, NEW c \in Clients, LogOut(c)
    PROVE  BreakInv'
  <1>1. /\ jar[c] # "none" /\ jar[c] \in DOMAIN rows
        /\ rows' = [rows EXCEPT ![jar[c]].revoked = TRUE]
        /\ jar' = [jar EXCEPT ![c] = "none"]
        /\ UNCHANGED <<holds, work, tickVars, clock, historyVars>>
    BY OwnedTokens DEF LogOut
  <1>2. /\ DOMAIN rows' = DOMAIN rows
        /\ \A t \in DOMAIN rows : rows'[t].user = rows[t].user
        /\ \A t \in DOMAIN rows \ {jar[c]} : rows'[t] = rows[t]
    BY <1>1 DEF SessionsInv, SessionsTypeOK
  <1>3. jar'[c] = "none" /\ \A d \in Clients \ {c} : jar'[d] = jar[d]
    BY <1>1 DEF SessionsInv, SessionsTypeOK
  <1>4. \A q \in Ticks : Underway(q)' = Underway(q) /\ (Carries(q)' = Carries(q))
    BY <1>1 DEF Underway, Carries, InTransaction, tickVars
  <1>5. Apart'
    <2>1. \A d, e \in Clients : d # e /\ jar'[d] # "none" => jar'[d] # jar'[e]
      BY <1>3 DEF BreakInv, Apart
    <2>2. \A q \in Ticks : Carries(q)' => \A d \in Clients \ {BotOf[q]} : jar'[d] # cookie'[q]
      BY <1>1, <1>3, <1>4, OwnedTokens DEF BreakInv, Apart, tickVars
    <2>3. \A q \in Ticks : Underway(q)' => \A d \in Clients : jar'[d] # work'[q].insert
      BY <1>1, <1>3, <1>4, OwnedTokens DEF BreakInv, Apart
    <2>4. \A q \in Ticks : Underway(q)' =>
             /\ \A r \in Ticks : Carries(r)' => cookie'[r] # work'[q].insert
             /\ \A r \in Ticks \ {q} : Underway(r)' => work'[r].insert # work'[q].insert
      BY <1>1, <1>4 DEF BreakInv, Apart, tickVars
    <2> QED BY <2>1, <2>2, <2>3, <2>4 DEF Apart
  <1>6. RevokesOwn'
    BY <1>1, <1>2 DEF BreakInv, RevokesOwn, tickVars, User
  <1>7. \A t \in DOMAIN rows \ {jar[c]} : \A u : Sound(t, u)' = Sound(t, u)
    BY <1>1, <1>2 DEF Sound, Expired, historyVars
  <1>8. JarsSound'
    <2>1. ASSUME NEW d \in Clients \ {c}
          PROVE  \/ jar'[d] = "none" \/ Sound(jar[d], UserOf[d])' \/ d \in stranded'
                 \/ SuccessorUnderway(d)'
      <3>1. jar[d] # jar[c]
        BY <1>1 DEF BreakInv, Apart
      <3> QED BY <1>1, <1>3, <1>7, <3>1, OwnedTokens
              DEF BreakInv, JarsSound, SuccessorUnderway, tickVars, historyVars
    <2>2. (\A d \in Clients :
             jar[d] = "none" \/ Sound(jar[d], UserOf[d]) \/ d \in stranded \/ SuccessorUnderway(d))'
      BY <1>3, <2>1 DEF Sound, Expired
    <2> QED BY <2>2 DEF JarsSound
  <1>9. AnswersSound'
    <2>1. \A q \in Ticks : Underway(q) => work[q].insert # jar[c]
      BY DEF BreakInv, Apart
    <2> QED BY <1>1, <1>4, <1>7, <2>1, OwnedTokens DEF BreakInv, AnswersSound, User, Sound, Expired
  <1> QED BY <1>5, <1>6, <1>8, <1>9 DEF BreakInv

LEMMA LoseAnswerBreak ==
    ASSUME SessionsInv, BreakInv, NEW q \in Ticks, LoseAnswer(q)
    PROVE  BreakInv'
  <1>1. /\ UNCHANGED <<txVars, stage, cookie, clientVars, clock, reused>>
        /\ reply' = [reply EXCEPT ![q] = "lost"]
        /\ stranded \subseteq stranded' /\ (Underway(q) => BotOf[q] \in stranded')
    BY DEF LoseAnswer, Underway
  <1>2. /\ ~Underway(q)'
        /\ \A r \in Ticks \ {q} : Underway(r)' = Underway(r)
        /\ \A r \in Ticks : Carries(r)' = Carries(r)
    BY <1>1 DEF Underway, Carries, InTransaction, SessionsInv, SessionsTypeOK
  <1>3. Apart'
    BY <1>1, <1>2 DEF BreakInv, Apart, txVars, clientVars
  <1>4. RevokesOwn'
    BY <1>1 DEF BreakInv, RevokesOwn, txVars, User
  <1>5. \A t : \A u : Sound(t, u)' = Sound(t, u)
    BY <1>1 DEF Sound, Expired, txVars
  <1>6. JarsSound'
    <2> SUFFICES ASSUME NEW c \in Clients, jar[c] # "none", c \notin stranded',
                        ~SuccessorUnderway(c)'
                 PROVE  Sound(jar[c], UserOf[c])'
      BY <1>1 DEF JarsSound, clientVars
    <2>1. ~SuccessorUnderway(c)
      BY <1>1, <1>2 DEF SuccessorUnderway, Underway
    <2>2. Sound(jar[c], UserOf[c])
      BY <1>1, <2>1 DEF BreakInv, JarsSound
    <2> QED BY <1>1, <2>2 DEF Sound, Expired, txVars, clientVars
  <1>7. AnswersSound'
    BY <1>1, <1>2, <1>5 DEF BreakInv, AnswersSound, User, Sound, Expired, txVars
  <1> QED BY <1>3, <1>4, <1>6, <1>7 DEF BreakInv

LEMMA ReceiveBreak ==
    ASSUME SessionsInv, BreakInv, NEW q \in Ticks, Receive(q)
    PROVE  BreakInv'
  <1> DEFINE b == BotOf[q]
  <1>1. /\ UNCHANGED <<rows, holds, clock, historyVars>>
        /\ stage[q] = "answered" /\ b \in Clients
        /\ work' = [work EXCEPT ![q] = NoWork]
        /\ reply' = [reply EXCEPT ![q] = "none"]
        /\ \/ stage' = [stage EXCEPT ![q] = "token"] /\ cookie' = cookie /\ ~Underway(q)
           \/ stage' = [stage EXCEPT ![q] = "idle"] /\ cookie' = [cookie EXCEPT ![q] = "none"]
    BY UsersHaveTypes DEF Receive, Goes, Underway
  <1>2. \/ Underway(q) /\ jar' = [jar EXCEPT ![b] = work[q].insert]
        \/ ~Underway(q) /\ jar' = jar
    BY DEF Receive, Underway, clientVars
  <1>3. /\ ~Underway(q)'
        /\ \A r \in Ticks \ {q} :
              /\ Underway(r)' = Underway(r) /\ work'[r] = work[r] /\ (Carries(r)' = Carries(r))
              /\ cookie'[r] = cookie[r] /\ stage'[r] = stage[r] /\ reply'[r] = reply[r]
        /\ Carries(q)' => ~Underway(q) /\ Carries(q) /\ cookie'[q] = cookie[q]
    BY <1>1 DEF Underway, Carries, InTransaction, SessionsInv, SessionsTypeOK
  <1>4. /\ \A c \in Clients \ {b} : jar'[c] = jar[c]
        /\ Underway(q) => jar'[b] = work[q].insert
        /\ ~Underway(q) => jar'[b] = jar[b]
    BY <1>1, <1>2 DEF SessionsInv, SessionsTypeOK
  <1>5. Apart'
    <2>1. \A c, d \in Clients : c # d /\ jar'[c] # "none" => jar'[c] # jar'[d]
      BY <1>1, <1>4 DEF BreakInv, Apart
    <2>2. \A r \in Ticks : Carries(r)' => \A c \in Clients \ {BotOf[r]} : jar'[c] # cookie'[r]
      BY <1>1, <1>3, <1>4 DEF BreakInv, Apart
    <2>3. \A r \in Ticks : Underway(r)' => \A c \in Clients : jar'[c] # work'[r].insert
      BY <1>1, <1>3, <1>4 DEF BreakInv, Apart
    <2>4. \A r \in Ticks : Underway(r)' =>
             /\ \A p \in Ticks : Carries(p)' => cookie'[p] # work'[r].insert
             /\ \A p \in Ticks \ {r} : Underway(p)' => work'[p].insert # work'[r].insert
      BY <1>3 DEF BreakInv, Apart
    <2> QED BY <2>1, <2>2, <2>3, <2>4 DEF Apart
  <1>6. RevokesOwn'
    BY <1>1, <1>3 DEF BreakInv, RevokesOwn, User, SessionsInv, SessionsTypeOK
  <1>7. \A t : \A u : Sound(t, u)' = Sound(t, u)
    BY <1>1 DEF Sound, Expired, historyVars
  <1>8. JarsSound'
    <2>1. ASSUME NEW c \in Clients \ {b}
          PROVE  \/ jar'[c] = "none" \/ Sound(jar[c], UserOf[c])' \/ c \in stranded'
                 \/ SuccessorUnderway(c)'
      BY <1>1, <1>3, <1>4, <1>7
      DEF BreakInv, JarsSound, SuccessorUnderway, historyVars
    <2>2. CASE Underway(q)
      <3>1. Sound(work[q].insert, UserOf[b])
        BY <2>2 DEF BreakInv, AnswersSound, User
      <3>2. Sound(jar[b], UserOf[b])'
        BY <1>1, <1>4, <2>2, <3>1 DEF Sound, Expired, historyVars
      <3> QED BY <1>4, <2>1, <3>2 DEF JarsSound, Sound, Expired
    <2>3. CASE ~Underway(q)
      <3>1. SuccessorUnderway(b)' = SuccessorUnderway(b)
        BY <1>3, <2>3 DEF SuccessorUnderway, Underway
      <3>2. (jar[b] = "none" \/ Sound(jar[b], UserOf[b]) \/ b \in stranded \/ SuccessorUnderway(b))'
        BY <1>1, <1>4, <2>3, <3>1 DEF BreakInv, JarsSound, Sound, Expired, historyVars
      <3> QED BY <1>4, <2>1, <3>2 DEF JarsSound, Sound, Expired
    <2> QED BY <2>2, <2>3
  <1>9. AnswersSound'
    BY <1>3, <1>7 DEF BreakInv, AnswersSound, User, Sound, Expired
  <1> QED BY <1>5, <1>6, <1>8, <1>9 DEF BreakInv

(* A COMMIT revokes the token its own client presented, whose successor is *)
(* then on its way, or sessions of a user who reused one.                  *)
LEMMA CommitBreak ==
    ASSUME SessionsInv, BreakInv, NEW q \in Ticks, Commit(q)
    PROVE  BreakInv'
  <1> DEFINE new == work[q].insert
             added == IF new = "none" THEN {} ELSE {new}
  <1>1. /\ stage[q] = "commit" /\ rows' = Written(q)
        /\ stage' = [stage EXCEPT ![q] = "answered"]
        /\ reply' = [reply EXCEPT ![q] = IF new # "none" THEN "ok" ELSE "denied"]
        /\ reused \subseteq reused' /\ (new = "none" => User(q) \in reused')
        /\ UNCHANGED <<work, cookie, clientVars, clock, stranded>>
    BY DEF Commit, Reply, Goes
  <1>2. /\ DOMAIN rows' = DOMAIN rows \cup added /\ added \cap DOMAIN rows = {}
        /\ \A t \in DOMAIN rows :
              /\ rows'[t].user = rows[t].user /\ rows'[t].expires = rows[t].expires
              /\ rows'[t].revoked = (rows[t].revoked \/ t \in work[q].revoke)
        /\ new # "none" => ~rows'[new].revoked
    BY <1>1, WrittenRows
  <1>3. new # "none" => work[q].revoke = {cookie[q]}
    BY <1>1 DEF SessionsInv, WorkFits, RotationReady
  <1>4. /\ Underway(q)' = (new # "none") /\ ~Underway(q) /\ Carries(q) /\ Carries(q)'
        /\ \A r \in Ticks \ {q} :
              /\ stage'[r] = stage[r]
              /\ Underway(r)' = Underway(r) /\ (Carries(r)' = Carries(r))
    BY <1>1 DEF Underway, Carries, InTransaction, SessionsInv, SessionsTypeOK
  <1>5. Apart'
    <2>1. \A c, d \in Clients : c # d /\ jar'[c] # "none" => jar'[c] # jar'[d]
      BY <1>1 DEF BreakInv, Apart, clientVars
    <2>2. \A r \in Ticks : Carries(r)' => \A c \in Clients \ {BotOf[r]} : jar'[c] # cookie'[r]
      BY <1>1, <1>4 DEF BreakInv, Apart, clientVars
    <2>3. new # "none" =>
             /\ \A c \in Clients : jar[c] # new
             /\ \A r \in Ticks : Carries(r) => cookie[r] # new
             /\ \A r \in Ticks : Underway(r) => work[r].insert # new
      BY <1>2, OwnedTokens
    <2>4. ASSUME NEW r \in Ticks, Underway(r)'
          PROVE  /\ \A c \in Clients : jar'[c] # work'[r].insert
                 /\ \A p \in Ticks : Carries(p)' => cookie'[p] # work'[r].insert
                 /\ \A p \in Ticks \ {r} : Underway(p)' => work'[p].insert # work'[r].insert
      <3>1. CASE r = q
        BY <1>1, <1>4, <2>3, <2>4, <3>1 DEF clientVars
      <3>2. CASE r # q
        <4>1. Underway(r)
          BY <1>4, <2>4, <3>2
        <4> QED BY <1>1, <1>4, <2>3, <3>2, <4>1 DEF BreakInv, Apart, clientVars
      <3> QED BY <3>1, <3>2
    <2> QED BY <2>1, <2>2, <2>4 DEF Apart
  <1>6. RevokesOwn'
    BY <1>1, <1>2, <1>4 DEF BreakInv, RevokesOwn, User, SessionsInv, SessionsTypeOK
  <1>7. \A t \in DOMAIN rows \ work[q].revoke : \A u : Sound(t, u) => Sound(t, u)'
    BY <1>1, <1>2 DEF Sound, Expired
  <1>8. \A t \in work[q].revoke : t \in DOMAIN rows /\ rows[t].user = User(q)
    BY <1>1 DEF BreakInv, RevokesOwn
  <1>9. JarsSound'
    <2> SUFFICES ASSUME NEW c \in Clients, jar[c] # "none", c \notin stranded,
                        ~SuccessorUnderway(c)'
                 PROVE  Sound(jar[c], UserOf[c])'
      BY <1>1 DEF JarsSound, clientVars
    <2>1. ~SuccessorUnderway(c)
      BY <1>4 DEF SuccessorUnderway, Underway
    <2>2. Sound(jar[c], UserOf[c])
      BY <2>1 DEF BreakInv, JarsSound
    <2>3. CASE jar[c] \notin work[q].revoke
      BY <1>1, <1>2, <2>2, <2>3, OwnedTokens DEF Sound, Expired, clientVars
    <2>4. CASE jar[c] \in work[q].revoke /\ new = "none"
      BY <1>1, <1>8, <2>4, OwnedTokens DEF Sound
    <2>5. CASE jar[c] \in work[q].revoke /\ new # "none"
      <3>1. jar[c] = cookie[q]
        BY <1>3, <2>5
      <3>2. c = BotOf[q]
        BY <1>4, <3>1 DEF BreakInv, Apart
      <3> QED BY <1>4, <2>5, <3>2 DEF SuccessorUnderway, Underway
    <2> QED BY <2>3, <2>4, <2>5
  <1>10. AnswersSound'
    <2> SUFFICES ASSUME NEW r \in Ticks, Underway(r)'
                 PROVE  Sound(work[r].insert, User(r))'
      BY DEF AnswersSound
    <2>1. CASE r = q
      BY <1>1, <1>2, <1>4, <2>1 DEF Sound
    <2>2. CASE r # q
      <3>1. Underway(r)
        BY <1>4, <2>2
      <3>2. Sound(work[r].insert, User(r)) /\ work[r].insert \in DOMAIN rows
        BY <3>1, OwnedTokens DEF BreakInv, AnswersSound
      <3>3. CASE work[r].insert \notin work[q].revoke
        BY <1>1, <1>2, <3>2, <3>3 DEF Sound, Expired, User
      <3>4. CASE work[r].insert \in work[q].revoke /\ new = "none"
        <4>1. User(r) = User(q)
          BY <1>8, <3>1, <3>4, OwnedTokens
        <4> QED BY <1>1, <3>4, <4>1 DEF Sound, User
      <3>5. CASE work[r].insert \in work[q].revoke /\ new # "none"
        <4>1. work[r].insert = cookie[q]
          BY <1>3, <3>5
        <4> QED BY <1>4, <3>1, <4>1 DEF BreakInv, Apart
      <3> QED BY <3>3, <3>4, <3>5
    <2> QED BY <2>1, <2>2
  <1> QED BY <1>5, <1>6, <1>9, <1>10 DEF BreakInv

(* api-client.js and rotateSession: a client's session breaks only by a    *)
(* lost answer, its age, or a reuse among the clients of its user.         *)
THEOREM OnlyReuseBreaks == Spec => []SessionsBreakOnlyByReuse
  <1>1. Init => BreakInv
    BY DEF Init, BreakInv, Apart, RevokesOwn, JarsSound, AnswersSound, Carries, Underway,
           InTransaction
  <1>2. SessionsInv /\ BreakInv /\ [Next]_vars => BreakInv'
    <2> SUFFICES ASSUME SessionsInv, BreakInv, [Next]_vars PROVE BreakInv'
      OBVIOUS
    <2>1. ASSUME NEW c \in Clients, LogIn(c) \/ LogOut(c) PROVE BreakInv'
      BY <2>1, LogInBreak, LogOutBreak
    <2>2. ASSUME NEW q \in Ticks, OrderRefused(q) \/ Refresh(q) \/ Fails(q) \/ LoseAnswer(q)
          PROVE  BreakInv'
      BY <2>2, QuietBreak, CommitBreak, LoseAnswerBreak, ReceiveBreak DEF Refresh
    <2>3. CASE TimePasses
      BY <2>3, TimeBreak DEF TimePasses
    <2>4. CASE UNCHANGED vars
      BY <2>4, TimeBreak DEF vars
    <2> QED BY <2>1, <2>2, <2>3, <2>4 DEF Next
  <1>3. BreakInv => SessionsBreakOnlyByReuse
    BY DEF BreakInv, JarsSound, Sound, Usable, SessionsBreakOnlyByReuse
  <1> QED BY <1>1, <1>2, <1>3, SessionsInvariant, PTL DEF Spec
=============================================================================
