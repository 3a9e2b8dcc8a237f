------------------------------ MODULE Accounts ------------------------------
(***************************************************************************)
(* Accounts: registering, logging in with a password or with Google, and   *)
(* the one-time codes that confirm an action.  The users table is in       *)
(* Postgres, codes and attempt counters are two Redis keys per user; every *)
(* query and every Redis call is a step, so the handlers of any number of  *)
(* requests interleave.  A request answers once; a call that throws ends   *)
(* it where it stands.                                                     *)
(*                                                                         *)
(* E-mail addresses are normalised already and name the accounts.  Codes   *)
(* are numbered in the order they are stored: two codes never collide.     *)
(***************************************************************************)
EXTENDS Naturals, FiniteSets

CONSTANTS
    Emails, Passwords, GoogleIds, Actions,
    None,           \* no password, no Google identity, any action
    Calls,          \* requests, each made at most once
    Asks,           \* of each call: what the client asks for
    Plans,          \* the sets of calls made in one behaviour
    MaxAttempts,    \* OTP_ATTEMPTS_MAX: 5 in the code
    MaxFaults       \* bound: of each plan, the calls that throw

SignInKinds == {"register", "login", "google"}
Kinds == SignInKinds \cup {"send", "verify"}

ASSUME AccountsAssumption ==
    /\ Asks \in [Calls -> [kind : Kinds, email : Emails, password : Passwords,
                           google : GoogleIds, verified : BOOLEAN,
                           action : Actions \cup {None}]]
    /\ Plans \subseteq SUBSET Calls
    /\ MaxAttempts \in Nat \ {0} /\ MaxFaults \in [Plans -> Nat]
    /\ None \notin Passwords /\ None \notin GoogleIds

VARIABLES
    plan,       \* the calls of this behaviour
    users,      \* of each address: its row
    otp,        \* of each account: the stored code
    attempts,   \* of each account: its counter of wrong codes
    at,         \* of each call: the next step of its handler
    answer,     \* of each call: its response
    account,    \* of each call: the account it found or made
    read,       \* of each call: the row it read
    code,       \* of each call: the code it sends or was given; 0 is a wrong one
    issued,     \* how many codes have been stored
    mailed,     \* of each account: the codes enqueued for mailing
    expired,    \* history: codes whose TTL ran out
    before,     \* history, of each call: the calls answered when it came in
    faults

tables == <<users, otp, attempts>>
locals == <<account, read, code>>
codes == <<issued, mailed, expired>>
vars == <<plan, tables, at, answer, locals, codes, before, faults>>

Kind(c) == Asks[c].kind
Email(c) == Asks[c].email
Password(c) == Asks[c].password
Google(c) == Asks[c].google
Verified(c) == Asks[c].verified
Action(c) == Asks[c].action

Rows == [exists : BOOLEAN, password : Passwords \cup {None}, google : GoogleIds \cup {None}]
StoredCodes == [code : Nat, action : Actions \cup {None}]
Counters == [count : Nat, ttl : BOOLEAN]

NoRow == [exists |-> FALSE, password |-> None, google |-> None]
NoCode == [code |-> 0, action |-> None]
NoAttempts == [count |-> 0, ttl |-> FALSE]

Init ==
    /\ plan \in Plans
    /\ users = [e \in Emails |-> NoRow]
    /\ otp = [e \in Emails |-> NoCode]
    /\ attempts = [e \in Emails |-> NoAttempts]
    /\ at = [c \in Calls |-> "idle"]
    /\ answer = [c \in Calls |-> "none"]
    /\ account = [c \in Calls |-> Email(c)]
    /\ read = [c \in Calls |-> NoRow]
    /\ code = [c \in Calls |-> 0]
    /\ issued = 0
    /\ mailed = [e \in Emails |-> {}]
    /\ expired = {}
    /\ before = [c \in Calls |-> {}]
    /\ faults = 0

-----------------------------------------------------------------------------
(* Requests.                                                               *)

Answered == {c \in Calls : answer[c] # "none"}
At(c, step) == at[c] = step /\ answer[c] = "none"
GoTo(c, step) == at' = [at EXCEPT ![c] = step] /\ answer' = answer
Respond(c, status) ==
    /\ at' = [at EXCEPT ![c] = "done"]
    /\ answer' = [answer EXCEPT ![c] = status]

FirstStep(c) ==
    CASE Kind(c) = "register" -> "insert"
      [] Kind(c) = "login" -> "read"
      [] Kind(c) = "google" -> "byId"
      [] Kind(c) = "send" -> "store"
      [] Kind(c) = "verify" -> "check"

(* The one-time codes are behind requireAuth: their user has signed in.    *)
(* He enters a code that was mailed to him, or mistypes it.                *)
SignedIn(e) == \E c \in plan : Kind(c) \in SignInKinds /\ account[c] = e /\ answer[c] = "ok"

Begin(c) ==
    /\ c \in plan /\ at[c] = "idle"
    /\ Kind(c) \notin SignInKinds => SignedIn(Email(c))
    /\ \E k \in IF Kind(c) = "verify" THEN mailed[Email(c)] \cup {0} ELSE {0} :
          code' = [code EXCEPT ![c] = k]
    /\ before' = [before EXCEPT ![c] = Answered]
    /\ IF Kind(c) = "google" /\ ~Verified(c)
         THEN Respond(c, "refused")
         ELSE GoTo(c, FirstStep(c))
    /\ UNCHANGED <<plan, tables, account, read, codes, faults>>

(* A query or a Redis call throws, or the process dies: 500 or no answer.  *)
(* What was committed before stays.                                        *)
Fail(c) ==
    /\ at[c] # "idle" /\ answer[c] = "none"
    /\ faults < MaxFaults[plan] /\ faults' = faults + 1
    /\ answer' = [answer EXCEPT ![c] = "error"]
    /\ UNCHANGED <<plan, tables, at, locals, codes, before>>

-----------------------------------------------------------------------------
(* Accounts.                                                               *)

Linked(g) == {e \in Emails : users[e].exists /\ users[e].google = g}

(* register: UNIQUE (email) decides between requests.                      *)
InsertUser(c) ==
    /\ At(c, "insert")
    /\ IF users[Email(c)].exists
         THEN /\ Respond(c, "refused")
              /\ users' = users
         ELSE /\ users' = [users EXCEPT ![Email(c)] =
                    [exists |-> TRUE, password |-> Password(c), google |-> None]]
              /\ GoTo(c, "issue")
    /\ UNCHANGED <<plan, otp, attempts, locals, codes, before, faults>>

(* login reads the row, then spends 100 ms and more in bcrypt.             *)
ReadUser(c) ==
    /\ At(c, "read")
    /\ read' = [read EXCEPT ![c] = users[Email(c)]]
    /\ GoTo(c, "compare")
    /\ UNCHANGED <<plan, tables, account, code, codes, before, faults>>

(* An account without a password is compared with a dummy hash.            *)
ComparePassword(c) ==
    /\ At(c, "compare")
    /\ IF read[c].exists /\ read[c].password = Password(c)
         THEN GoTo(c, "issue")
         ELSE Respond(c, "refused")
    /\ UNCHANGED <<plan, tables, locals, codes, before, faults>>

(* The Google strategy: by identity, else by e-mail address.               *)
FindIdentity(c) ==
    /\ At(c, "byId")
    /\ IF Linked(Google(c)) = {}
         THEN /\ GoTo(c, "byEmail")
              /\ account' = account
         ELSE /\ GoTo(c, "issue")
              /\ \E e \in Linked(Google(c)) : account' = [account EXCEPT ![c] = e]
    /\ UNCHANGED <<plan, tables, read, code, codes, before, faults>>

(* FOR UPDATE outside a transaction: the lock is gone with the statement.  *)
FindEmail(c) ==
    /\ At(c, "byEmail")
    /\ GoTo(c, IF users[Email(c)].exists THEN "link" ELSE "create")
    /\ UNCHANGED <<plan, tables, locals, codes, before, faults>>

(* Mutant: linking writes the whole row, as a created account has it.      *)
LinkedRowAfresh(e, g) == [exists |-> TRUE, password |-> None, google |-> g]

LinkedRow(e, g) == [users[e] EXCEPT !.google = g]

(* UNIQUE (oauth_provider, oauth_id) may refuse it: oauth_failed.  An      *)
(* identity that the row had before is replaced.                           *)
LinkAccount(c) ==
    /\ At(c, "link")
    /\ IF Linked(Google(c)) \ {Email(c)} # {}
         THEN /\ Respond(c, "refused")
              /\ users' = users
         ELSE /\ users' = [users EXCEPT ![Email(c)] = LinkedRow(Email(c), Google(c))]
              /\ GoTo(c, "issue")
    /\ UNCHANGED <<plan, otp, attempts, locals, codes, before, faults>>

(* Either unique constraint may refuse it.                                 *)
CreateAccount(c) ==
    /\ At(c, "create")
    /\ IF users[Email(c)].exists \/ Linked(Google(c)) # {}
         THEN /\ Respond(c, "refused")
              /\ users' = users
         ELSE /\ users' = [users EXCEPT ![Email(c)] =
                    [exists |-> TRUE, password |-> None, google |-> Google(c)]]
              /\ GoTo(c, "issue")
    /\ UNCHANGED <<plan, otp, attempts, locals, codes, before, faults>>

(* issueSession; module Sessions has what follows from it.                 *)
IssueSession(c) ==
    /\ At(c, "issue")
    /\ Respond(c, "ok")
    /\ UNCHANGED <<plan, tables, locals, codes, before, faults>>

SignIn(c) ==
    \/ InsertUser(c) \/ ReadUser(c) \/ ComparePassword(c)
    \/ FindIdentity(c) \/ FindEmail(c) \/ LinkAccount(c) \/ CreateAccount(c)
    \/ IssueSession(c)

-----------------------------------------------------------------------------
(* One-time codes.                                                         *)

(* SET with EX: a new code replaces the old one.                           *)
StoreCode(c) ==
    /\ At(c, "store")
    /\ issued' = issued + 1
    /\ code' = [code EXCEPT ![c] = issued + 1]
    /\ otp' = [otp EXCEPT ![Email(c)] = [code |-> issued + 1, action |-> Action(c)]]
    /\ GoTo(c, "reset")
    /\ UNCHANGED <<plan, users, attempts, account, read, mailed, expired, before, faults>>

ResetAttempts(c) ==
    /\ At(c, "reset")
    /\ attempts' = [attempts EXCEPT ![Email(c)] = NoAttempts]
    /\ GoTo(c, "mail")
    /\ UNCHANGED <<plan, users, otp, locals, codes, before, faults>>

MailCode(c) ==
    /\ At(c, "mail")
    /\ mailed' = [mailed EXCEPT ![Email(c)] = @ \cup {code[c]}]
    /\ Respond(c, "ok")
    /\ UNCHANGED <<plan, tables, locals, issued, expired, before, faults>>

CheckAttempts(c) ==
    /\ At(c, "check")
    /\ IF attempts[Email(c)].count >= MaxAttempts
         THEN Respond(c, "locked")
         ELSE GoTo(c, "load")
    /\ UNCHANGED <<plan, tables, locals, codes, before, faults>>

(* Mutant: the code has to be bound to the action named, even to none.     *)
MatchesBound(c) ==
    LET stored == otp[Email(c)] IN
    stored.code # 0 /\ stored.code = code[c] /\ stored.action = Action(c)

(* The action is compared only if the request names one.                   *)
Matches(c) ==
    LET stored == otp[Email(c)] IN
    /\ stored.code # 0 /\ stored.code = code[c]
    /\ Action(c) \in {None, stored.action}

(* The code is read here and deleted at another step.                      *)
LoadCode(c) ==
    /\ At(c, "load")
    /\ GoTo(c, IF Matches(c) THEN "drop" ELSE "count")
    /\ UNCHANGED <<plan, tables, locals, codes, before, faults>>

(* INCR makes a key without a TTL.                                         *)
CountAttempt(c) ==
    /\ At(c, "count")
    /\ attempts' = [attempts EXCEPT ![Email(c)].count = @ + 1]
    /\ GoTo(c, "limit")
    /\ UNCHANGED <<plan, users, otp, locals, codes, before, faults>>

(* Mutant: EXPIRE only if the counter reads 1.                             *)
LimitedOnce(e) ==
    IF attempts[e].count = 1 THEN [attempts[e] EXCEPT !.ttl = TRUE] ELSE attempts[e]

(* EXPIRE does nothing to a key that is gone.                              *)
Limited(e) ==
    IF attempts[e].count > 0 THEN [attempts[e] EXCEPT !.ttl = TRUE] ELSE attempts[e]

LimitAttempts(c) ==
    /\ At(c, "limit")
    /\ attempts' = [attempts EXCEPT ![Email(c)] = Limited(Email(c))]
    /\ Respond(c, "refused")
    /\ UNCHANGED <<plan, users, otp, locals, codes, before, faults>>

(* Mutant: only the attempt counter is deleted.                            *)
AfterUse(e) == otp[e]

AfterMatch(e) == NoCode

(* DEL, whatever the key holds by now.                                     *)
DropCode(c) ==
    /\ At(c, "drop")
    /\ otp' = [otp EXCEPT ![Email(c)] = AfterMatch(Email(c))]
    /\ GoTo(c, "clear")
    /\ UNCHANGED <<plan, users, attempts, locals, codes, before, faults>>

ClearAttempts(c) ==
    /\ At(c, "clear")
    /\ attempts' = [attempts EXCEPT ![Email(c)] = NoAttempts]
    /\ Respond(c, "ok")
    /\ UNCHANGED <<plan, users, otp, locals, codes, before, faults>>

Otp(c) ==
    \/ StoreCode(c) \/ ResetAttempts(c) \/ MailCode(c)
    \/ CheckAttempts(c) \/ LoadCode(c) \/ CountAttempt(c) \/ LimitAttempts(c)
    \/ DropCode(c) \/ ClearAttempts(c)

(* Redis: the TTL of a code, and of a counter that has one.                *)
CodeExpires(e) ==
    /\ otp[e].code # 0
    /\ expired' = expired \cup {otp[e].code}
    /\ otp' = [otp EXCEPT ![e] = NoCode]
    /\ UNCHANGED <<plan, users, attempts, at, answer, locals, issued, mailed, before, faults>>

AttemptsExpire(e) ==
    /\ attempts[e].ttl
    /\ attempts' = [attempts EXCEPT ![e] = NoAttempts]
    /\ UNCHANGED <<plan, users, otp, at, answer, locals, codes, before, faults>>

-----------------------------------------------------------------------------
Next ==
    \/ \E c \in Calls : Begin(c) \/ Fail(c) \/ SignIn(c) \/ Otp(c)
    \/ \E e \in Emails : CodeExpires(e) \/ AttemptsExpire(e)

Spec == Init /\ [][Next]_vars
-----------------------------------------------------------------------------
(* Properties.                                                             *)

(* Types.                                                                  *)
AccountsTypeOK ==
    /\ plan \in Plans
    /\ users \in [Emails -> Rows]
    /\ otp \in [Emails -> StoredCodes]
    /\ attempts \in [Emails -> Counters]
    /\ at \in [Calls -> {"idle", "insert", "read", "compare", "byId", "byEmail", "link",
                         "create", "issue", "store", "reset", "mail", "check", "load",
                         "count", "limit", "drop", "clear", "done"}]
    /\ answer \in [Calls -> {"none", "ok", "refused", "locked", "error"}]
    /\ account \in [Calls -> Emails]
    /\ read \in [Calls -> Rows]
    /\ code \in [Calls -> Nat]
    /\ issued \in Nat /\ mailed \in [Emails -> SUBSET Nat] /\ expired \subseteq Nat
    /\ before \in [Calls -> SUBSET Calls]
    /\ faults \in Nat

Verifications == {c \in Calls : Kind(c) = "verify"}
Sendings == {c \in Calls : Kind(c) = "send"}

(* The requests that have counted a wrong code and not set the TTL.        *)
Unlimited(e) == {c \in Verifications : Email(c) = e /\ at[c] = "limit"}

Dropped(v) == at[v] = "clear" \/ answer[v] = "ok"
Latest(s) == \A t \in Sendings : Email(t) = Email(s) => code[t] <= code[s]
TookOver(x, e, g) ==
    /\ Kind(x) = "google" /\ Google(x) # g /\ account[x] = e
    /\ at[x] = "issue" \/ answer[x] = "ok"

(* Whoever got into an account gets into it again: with the password it    *)
(* was registered with, whatever Google sign-ins did to the row since, and *)
(* with the same Google identity, unless another identity was linked to    *)
(* the account meanwhile, which replaces the first.                        *)
ReturnsToAccount ==
    \A d \in Calls : \A c \in before[d] :
        answer[c] = "ok" =>
            /\ Kind(c) = "register" /\ Kind(d) = "login"
               /\ Email(c) = Email(d) /\ Password(c) = Password(d) => answer[d] # "refused"
            /\ Kind(c) = "google" /\ Kind(d) = "google"
               /\ Google(c) = Google(d) /\ answer[d] = "ok" =>
                    \/ account[c] = account[d]
                    \/ \E x \in Calls : TookOver(x, account[c], Google(c))

(* verifyOtp promises single use.  Reading and deleting the code are two   *)
(* calls, so two requests that overlap may both succeed with one code; a   *)
(* request made after a success never does.                                *)
CodeUsedOnce ==
    \A v, w \in Verifications :
        Dropped(v) /\ Dropped(w) /\ Email(v) = Email(w) /\ code[v] = code[w]
            => v \notin before[w]

(* The latest code a user was sent is accepted while its TTL lasts, unless *)
(* a verification that was not over when it was sent has succeeded: with   *)
(* this code, or, overlapping the new code's arrival, with the old one.    *)
CodeWorks ==
    \A v \in Verifications :
        answer[v] = "refused" /\ code[v] # 0 /\ code[v] \notin expired =>
            \A s \in Sendings :
                /\ Latest(s) /\ Email(s) = Email(v) /\ code[s] = code[v]
                /\ Action(v) \in {None, Action(s)}
                => \E w \in Verifications :
                        Dropped(w) /\ Email(w) = Email(v) /\ w \notin before[s]

(* Wrong guesses lock a user out for the counter's TTL only.  Without one, *)
(* the counter counts no more than the requests that stand, or died,       *)
(* between INCR and EXPIRE: it takes MaxAttempts of them to lock him out   *)
(* for longer.                                                             *)
NoEternalLockout ==
    \A e \in Emails :
        attempts[e].count > 0 /\ ~attempts[e].ttl =>
            attempts[e].count <= Cardinality(Unlimited(e))
=============================================================================
