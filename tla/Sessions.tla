------------------------------- MODULE Sessions -------------------------------
(***************************************************************************)
(* Sessions: refresh tokens in Postgres, their rotation with the detection *)
(* of reuse, login and logout, and the API's clients with their cookie     *)
(* jars.  A bot's ticks overlap and share its jar and its access token; a  *)
(* browser logs in and out.  A rotation is modelled statement by statement *)
(* with the row locks it takes, the rest one request at a time.            *)
(*                                                                         *)
(* Time is counted in lifetimes of an access token (15 minutes), from 1.   *)
(***************************************************************************)
EXTENDS Naturals, FiniteSets

CONSTANTS
    Users, Clients, UserOf,
    Bots,           \* the clients that are bots
    Ticks, BotOf,   \* what a bot runs at once
    TokenIds,       \* refresh tokens
    RefreshTtl,     \* lifetime of a refresh token: 672 (7 days) in the code
    MaxRetries,     \* repeats of a request without an answer: 2 in the code
    Pauses, MaxClock,   \* bounds: how long may pass at a time, and in all
    MaxLogins,      \* bound
    MaxFaults       \* bound: failed calls, dead processes, lost answers

ASSUME SessionsAssumption ==
    /\ Bots \subseteq Clients
    /\ UserOf \in [Clients -> Users] /\ BotOf \in [Ticks -> Bots]
    /\ RefreshTtl \in Nat \ {0} /\ MaxRetries \in Nat
    /\ Pauses \subseteq Nat /\ MaxClock \in Nat
    /\ MaxLogins \in Nat /\ MaxFaults \in Nat
    /\ "none" \notin TokenIds
    /\ Users \cap TokenIds = {}

VARIABLES
    rows,       \* refresh_tokens
    holds,      \* of each tick: the rows its transaction has locked
    work,       \* of each tick: what its transaction writes at its COMMIT
    stage,      \* of each tick: the next thing that happens to it
    cookie,     \* of each tick: the refresh token its request carries
    issued,     \* of each tick: when the access token it gets was issued
    reply,      \* of each tick: the answer to its refresh
    tries,      \* of each tick: how often the refresh was repeated
    jar,        \* of each client: the refresh token in its cookie jar
    access,     \* of each client: when its access token was issued
    clock,
    reused,     \* history: users whose sessions a reuse has revoked
    stranded,   \* history: clients that never got their successor token
    faults

txVars == <<rows, holds, work>>
tickVars == <<stage, cookie, issued, reply, tries>>
clientVars == <<jar, access>>
historyVars == <<reused, stranded, faults>>
vars == <<txVars, tickVars, clientVars, clock, historyVars>>

NoWork == [insert |-> "none", revoke |-> {}]

Init ==
    /\ rows = [t \in {} |-> 0]
    /\ holds = [q \in Ticks |-> {}]
    /\ work = [q \in Ticks |-> NoWork]
    /\ stage = [q \in Ticks |-> "idle"]
    /\ cookie = [q \in Ticks |-> "none"]
    /\ issued = [q \in Ticks |-> 0]
    /\ reply = [q \in Ticks |-> "none"]
    /\ tries = [q \in Ticks |-> 0]
    /\ jar = [c \in Clients |-> "none"]
    /\ access = [c \in Clients |-> 0]
    /\ clock = 1
    /\ reused = {}
    /\ stranded = {}
    /\ faults = 0

Fault == faults < MaxFaults /\ faults' = faults + 1

-----------------------------------------------------------------------------
(* Tokens and row locks.                                                   *)

User(q) == UserOf[BotOf[q]]
Expired(t) == rows[t].expires <= clock
Usable(t) == ~rows[t].revoked /\ ~Expired(t)
ActiveOf(u) == {t \in DOMAIN rows : rows[t].user = u /\ ~rows[t].revoked}

(* Tokens are random and never repeat; which one comes next is immaterial. *)
Unissued == TokenIds \ (DOMAIN rows \cup {work[q].insert : q \in Ticks})
Fresh == IF Unissued = {} THEN {} ELSE {CHOOSE t \in Unissued : TRUE}

Logins == {t \in DOMAIN rows : rows[t].login = t}

LockedByOthers(q, objects) == \E r \in Ticks \ {q} : objects \cap holds[r] # {}
Unlocked(object) == \A q \in Ticks : object \notin holds[q]

NewRow(u, login) ==
    [user |-> u, login |-> login, revoked |-> FALSE, expires |-> clock + RefreshTtl,
     next |-> "none"]

-----------------------------------------------------------------------------
(* Login and logout.                                                       *)

(* issueSession.  The foreign key makes the INSERT wait for the user's row.*)
LogIn(c) ==
    /\ jar[c] = "none"
    /\ Cardinality(Logins) < MaxLogins
    /\ Unlocked(UserOf[c])
    /\ \E t \in Fresh :
          /\ rows' = [x \in DOMAIN rows \cup {t} |->
                IF x = t THEN NewRow(UserOf[c], t) ELSE rows[x]]
          /\ jar' = [jar EXCEPT ![c] = t]
    /\ access' = [access EXCEPT ![c] = clock]
    /\ UNCHANGED <<holds, work, tickVars, clock, historyVars>>

(* Bots never log out.                                                     *)
LogOut(c) ==
    /\ c \notin Bots
    /\ jar[c] # "none" /\ Unlocked(jar[c])
    /\ rows' = [rows EXCEPT ![jar[c]].revoked = TRUE]
    /\ jar' = [jar EXCEPT ![c] = "none"]
    /\ access' = [access EXCEPT ![c] = 0]
    /\ UNCHANGED <<holds, work, tickVars, clock, historyVars>>

-----------------------------------------------------------------------------
(* A tick of a bot.                                                        *)

Goes(q, label) == stage' = [stage EXCEPT ![q] = label]

(* requireAuth answers 401 to an order with an expired access token.  An   *)
(* order it lets pass changes no session.                                  *)
OrderRefused(q) ==
    /\ stage[q] = "idle"
    /\ jar[BotOf[q]] # "none" /\ access[BotOf[q]] # clock
    /\ Goes(q, "refresh")
    /\ UNCHANGED <<txVars, cookie, issued, reply, tries, clientVars, clock, historyVars>>

SendRefresh(q) ==
    /\ stage[q] = "refresh"
    /\ cookie' = [cookie EXCEPT ![q] = jar[BotOf[q]]]
    /\ Goes(q, "token")
    /\ UNCHANGED <<txVars, issued, reply, tries, clientVars, clock, historyVars>>

-----------------------------------------------------------------------------
(* rotateSession.                                                          *)

Lock(q, objects) == holds' = [holds EXCEPT ![q] = @ \cup objects]

(* Mutant: the SELECT has no FOR UPDATE.                                   *)
ReadToken(q) ==
    /\ stage[q] = "token"
    /\ Goes(q, "write")
    /\ UNCHANGED <<rows, holds, work, cookie, issued, reply, tries, clientVars, clock, historyVars>>

(* SELECT ... FOR UPDATE locks the token's row and then that of its user,  *)
(* and reads what is there when it has them.                               *)
LockToken(q) ==
    /\ stage[q] = "token"
    /\ ~LockedByOthers(q, {cookie[q]})
    /\ Lock(q, {cookie[q]})
    /\ Goes(q, "user")
    /\ UNCHANGED <<rows, work, cookie, issued, reply, tries, clientVars, clock, historyVars>>

(* Mutant: FOR UPDATE OF rt.                                               *)
PassUser(q) ==
    /\ stage[q] = "user"
    /\ Goes(q, "write")
    /\ UNCHANGED <<txVars, cookie, issued, reply, tries, clientVars, clock, historyVars>>

LockUser(q) ==
    /\ stage[q] = "user"
    /\ ~LockedByOthers(q, {User(q)})
    /\ Lock(q, {User(q)})
    /\ Goes(q, "write")
    /\ UNCHANGED <<rows, work, cookie, issued, reply, tries, clientVars, clock, historyVars>>

(* Mutant: a rotation revokes by user.                                     *)
ReplacesAll(q) == ActiveOf(User(q))

Replaces(q) == {cookie[q]}

(* A good token gets a successor and is revoked.                           *)
Rotate(q) ==
    /\ stage[q] = "write" /\ Usable(cookie[q])
    /\ \E t \in Fresh : work' = [work EXCEPT ![q] = [insert |-> t, revoke |-> Replaces(q)]]
    /\ Goes(q, "commit")
    /\ UNCHANGED <<rows, holds, cookie, issued, reply, tries, clientVars, clock, historyVars>>

(* A revoked or expired one revokes every session of the user; the UPDATE  *)
(* waits for rows that others have locked.                                 *)
RevokeAll(q) ==
    LET sessions == ActiveOf(User(q)) IN
    /\ stage[q] = "write" /\ ~Usable(cookie[q])
    /\ ~LockedByOthers(q, sessions)
    /\ Lock(q, sessions)
    /\ work' = [work EXCEPT ![q] = [insert |-> "none", revoke |-> sessions]]
    /\ Goes(q, "commit")
    /\ UNCHANGED <<rows, cookie, issued, reply, tries, clientVars, clock, historyVars>>

(* The rows after the transaction of q.                                    *)
Written(q) ==
    LET new == work[q].insert
        added == IF new = "none" THEN {} ELSE {new}
    IN  [t \in DOMAIN rows \cup added |->
            IF t \in added THEN NewRow(User(q), rows[cookie[q]].login)
            ELSE [rows[t] EXCEPT !.revoked = @ \/ t \in work[q].revoke,
                                 !.next = IF t = cookie[q] /\ added # {} THEN new ELSE @]]

Reply(q, code) ==
    /\ reply' = [reply EXCEPT ![q] = code]
    /\ Goes(q, "answered")

(* The access token of the new session is made after the COMMIT.           *)
Commit(q) ==
    /\ stage[q] = "commit"
    /\ rows' = Written(q)
    /\ holds' = [holds EXCEPT ![q] = {}]
    /\ IF work[q].insert # "none"
       THEN Reply(q, "ok") /\ UNCHANGED reused
       ELSE Reply(q, "denied") /\ reused' = reused \cup {User(q)}
    /\ issued' = [issued EXCEPT ![q] = clock]
    /\ UNCHANGED <<work, cookie, tries, clientVars, clock, stranded, faults>>

(* Mutant: the catch does not roll back, and the pooled connection keeps   *)
(* its transaction.                                                        *)
AbortHolding(q, code) ==
    /\ work' = [work EXCEPT ![q] = NoWork]
    /\ Reply(q, code)
    /\ UNCHANGED <<rows, holds, cookie, issued, tries, clientVars, clock, reused, stranded>>

Abort(q, code) ==
    /\ holds' = [holds EXCEPT ![q] = {}]
    /\ work' = [work EXCEPT ![q] = NoWork]
    /\ Reply(q, code)
    /\ UNCHANGED <<rows, cookie, issued, tries, clientVars, clock, reused, stranded>>

InTransaction(q) == stage[q] \in {"token", "user", "write", "commit"}

(* A query throws and the handler answers 500, or the process dies and no  *)
(* answer comes.                                                           *)
Fails(q) ==
    /\ InTransaction(q)
    /\ Fault
    /\ \E code \in {"error", "lost"} : Abort(q, code)

(* What q waits for, when it waits.                                        *)
Wants(q) ==
    CASE stage[q] = "token" -> {cookie[q]}
      [] stage[q] = "user" -> {User(q)}
      [] stage[q] = "write" /\ ~Usable(cookie[q]) -> ActiveOf(User(q))
      [] OTHER -> {}

WaitsFor(q, r) == Wants(q) \cap holds[r] # {}

(* Postgres aborts one of two transactions that wait for each other: one   *)
(* that has the user's row and revokes, one that has a token's row.        *)
BreakDeadlock(q) ==
    /\ \E r \in Ticks \ {q} : WaitsFor(q, r) /\ WaitsFor(r, q)
    /\ Abort(q, "error")
    /\ UNCHANGED faults

-----------------------------------------------------------------------------
(* The answer.                                                             *)

LoseAnswer(q) ==
    /\ stage[q] = "answered" /\ reply[q] # "lost"
    /\ Fault
    /\ reply' = [reply EXCEPT ![q] = "lost"]
    /\ stranded' = IF reply[q] = "ok" THEN stranded \cup {BotOf[q]} ELSE stranded
    /\ UNCHANGED <<txVars, stage, cookie, issued, tries, clientVars, clock, reused>>

MayRepeat(q) == tries[q] < MaxRetries

(* An answer that is not ok leaves the jar alone: the cookies it clears    *)
(* come with an empty value, which the jar ignores.  Without an answer the *)
(* request goes out again as it was.  After a good one the tick's order is *)
(* repeated, which changes no session.                                     *)
Receive(q) ==
    LET b == BotOf[q] IN
    /\ stage[q] = "answered"
    /\ IF reply[q] = "ok"
       THEN /\ jar' = [jar EXCEPT ![b] = work[q].insert]
            /\ access' = [access EXCEPT ![b] = issued[q]]
       ELSE UNCHANGED clientVars
    /\ IF reply[q] = "lost" /\ MayRepeat(q)
       THEN /\ Goes(q, "token")
            /\ tries' = [tries EXCEPT ![q] = @ + 1]
            /\ UNCHANGED cookie
       ELSE /\ Goes(q, "idle")
            /\ tries' = [tries EXCEPT ![q] = 0]
            /\ cookie' = [cookie EXCEPT ![q] = "none"]
    /\ work' = [work EXCEPT ![q] = NoWork]
    /\ reply' = [reply EXCEPT ![q] = "none"]
    /\ issued' = [issued EXCEPT ![q] = 0]
    /\ UNCHANGED <<rows, holds, clock, historyVars>>

TimePasses ==
    /\ \E pause \in Pauses :
          clock + pause <= MaxClock /\ clock' = clock + pause
    /\ UNCHANGED <<txVars, tickVars, clientVars, historyVars>>

-----------------------------------------------------------------------------
Refresh(q) ==
    \/ SendRefresh(q) \/ LockToken(q) \/ LockUser(q) \/ Rotate(q) \/ RevokeAll(q)
    \/ Commit(q) \/ BreakDeadlock(q) \/ Receive(q)

Next ==
    \/ \E c \in Clients : LogIn(c) \/ LogOut(c)
    \/ \E q \in Ticks : OrderRefused(q) \/ Refresh(q) \/ Fails(q) \/ LoseAnswer(q)
    \/ TimePasses

Spec == Init /\ [][Next]_vars

(* A refresh that is under way goes on, with row locks handed out fairly.  *)
FairSpec == Spec /\ \A q \in Ticks : SF_vars(Refresh(q))

-----------------------------------------------------------------------------
Stages == {"idle", "refresh", "token", "user", "write", "commit", "answered"}
TokenOrNone == TokenIds \cup {"none"}

(* Type invariant of the table, the transactions, the ticks and the jars.  *)
SessionsTypeOK ==
    /\ DOMAIN rows \subseteq TokenIds
    /\ \A t \in DOMAIN rows :
          rows[t] \in [user : Users, login : TokenIds, revoked : BOOLEAN,
                       expires : Nat, next : TokenOrNone]
    /\ holds \in [Ticks -> SUBSET (Users \cup TokenIds)]
    /\ work \in [Ticks -> [insert : TokenOrNone, revoke : SUBSET TokenIds]]
    /\ stage \in [Ticks -> Stages]
    /\ cookie \in [Ticks -> TokenOrNone]
    /\ issued \in [Ticks -> Nat] /\ access \in [Clients -> Nat]
    /\ reply \in [Ticks -> {"none", "ok", "denied", "error", "lost"}]
    /\ tries \in [Ticks -> 0 .. MaxRetries]
    /\ jar \in [Clients -> TokenOrNone]
    /\ clock \in Nat
    /\ reused \subseteq Users /\ stranded \subseteq Clients
    /\ faults \in 0 .. MaxFaults

(* However many refreshes present one token at once, it gets one successor:*)
(* of the tokens that stem from one login at most one is not revoked.      *)
OneActivePerLogin ==
    \A s, t \in DOMAIN rows :
        rows[s].login = rows[t].login /\ ~rows[s].revoked /\ ~rows[t].revoked => s = t

(* When a reuse is answered with 401, every session of the user is revoked,*)
(* those included that were being rotated or opened meanwhile.             *)
ReuseRevokesAll ==
    [][\A q \in Ticks :
          stage[q] = "commit" /\ reply'[q] = "denied" => ActiveOf(User(q))' = {}]_vars

(* The successor of the token in c's jar is on its way to c.               *)
SuccessorUnderway(c) ==
    \E q \in Ticks : BotOf[q] = c /\ stage[q] = "answered" /\ reply[q] = "ok"

(* A client's session breaks for few reasons: it expired, a reuse by some  *)
(* client of the same user revoked it, or the answer with its new token    *)
(* was lost.  Other clients' rotations, logins and logouts, aborted        *)
(* transactions and deadlocks do not break it.                             *)
SessionsBreakOnlyByReuse ==
    \A c \in Clients :
        \/ jar[c] = "none" \/ Usable(jar[c]) \/ Expired(jar[c])
        \/ UserOf[c] \in reused \/ c \in stranded \/ SuccessorUnderway(c)

(* A refresh ends, although rotations and revocations of one user lock     *)
(* rows in different orders.                                               *)
EveryRefreshEnds ==
    \A q \in Ticks : InTransaction(q) ~> ~InTransaction(q)
=============================================================================
