--------------------------- MODULE AccountsProofs ---------------------------
(***************************************************************************)
(* Proofs about Accounts, for any addresses, identities, requests, limits  *)
(* and failures.  First what each handler's steps are, then one invariant  *)
(* for the accounts and one for the codes, each a statement about requests *)
(* under way from which the property of the answered ones follows.         *)
(***************************************************************************)
EXTENDS Accounts, FiniteSetTheorems, TLAPS

SendSteps == {"store", "reset", "mail"}
VerifySteps == {"check", "load", "count", "limit", "drop", "clear"}
SearchSteps == {"byEmail", "link", "create"}

(* Which steps a request of each kind takes, and what it holds there.      *)
CallShape(c) ==
    /\ at[c] = "idle" => answer[c] = "none" /\ code[c] = 0
    /\ at[c] = "done" => answer[c] \in {"ok", "refused", "locked"}
    /\ answer[c] \in {"ok", "refused", "locked"} => at[c] = "done"
    /\ at[c] \in SendSteps => Kind(c) = "send"
    /\ at[c] \in VerifySteps => Kind(c) = "verify"
    /\ at[c] = "insert" => Kind(c) = "register"
    /\ at[c] \in {"read", "compare"} => Kind(c) = "login"
    /\ at[c] \in {"byId"} \cup SearchSteps => Kind(c) = "google"
    /\ at[c] = "issue" => Kind(c) \in SignInKinds
    /\ Kind(c) # "google" \/ at[c] \in {"idle", "byId"} \cup SearchSteps => account[c] = Email(c)
    /\ Kind(c) = "verify" /\ (at[c] \in {"drop", "clear"} \/ answer[c] = "ok") => code[c] # 0

Shape == \A c \in Calls : CallShape(c) /\ before[c] \subseteq Answered

LEMMA AskTypes ==
    ASSUME NEW c \in Calls
    PROVE  /\ Kind(c) \in Kinds /\ Email(c) \in Emails /\ Password(c) \in Passwords
           /\ Google(c) \in GoogleIds /\ Action(c) \in Actions \cup {None}
           /\ Password(c) # None /\ Google(c) # None
  BY AccountsAssumption DEF Kind, Email, Password, Google, Action

-----------------------------------------------------------------------------
(* Types, and that a step moves one request.                               *)

LEMMA RowTypes ==
    /\ NoRow \in Rows /\ NoCode \in StoredCodes /\ NoAttempts \in Counters
    /\ \A c \in Calls :
          /\ [exists |-> TRUE, password |-> Password(c), google |-> None] \in Rows
          /\ [exists |-> TRUE, password |-> None, google |-> Google(c)] \in Rows
          /\ \A k \in Nat : [code |-> k, action |-> Action(c)] \in StoredCodes
  BY AskTypes DEF NoRow, NoCode, NoAttempts, Rows, StoredCodes, Counters

LEMMA EditTypes ==
    ASSUME AccountsTypeOK, NEW c \in Calls
    PROVE  /\ LinkedRow(Email(c), Google(c)) \in Rows
           /\ [attempts[Email(c)] EXCEPT !.count = @ + 1] \in Counters
           /\ Limited(Email(c)) \in Counters
           /\ AfterMatch(Email(c)) \in StoredCodes
  <1>1. users[Email(c)] \in Rows /\ attempts[Email(c)] \in Counters
    BY AskTypes DEF AccountsTypeOK
  <1>2. LinkedRow(Email(c), Google(c)) \in Rows
    BY <1>1, AskTypes DEF LinkedRow, Rows
  <1>3. attempts[Email(c)].count + 1 \in Nat
    BY <1>1 DEF Counters
  <1>4. [attempts[Email(c)] EXCEPT !.count = @ + 1] \in Counters
    BY <1>1, <1>3 DEF Counters
  <1>5. Limited(Email(c)) \in Counters
    BY <1>1 DEF Limited, Counters
  <1> QED BY <1>2, <1>4, <1>5, RowTypes DEF AfterMatch

LEMMA TypeInit == Init => AccountsTypeOK
  BY AskTypes, RowTypes, AccountsAssumption DEF Init, AccountsTypeOK

LEMMA SignInTypes ==
    ASSUME AccountsTypeOK, NEW c \in Calls, SignIn(c)
    PROVE  AccountsTypeOK'
  <1> USE AskTypes, RowTypes, EditTypes DEF AccountsTypeOK, At, GoTo, Respond, codes, locals
  <1>1. CASE InsertUser(c)
    BY <1>1 DEF InsertUser
  <1>2. CASE ReadUser(c)
    BY <1>2 DEF ReadUser, tables
  <1>3. CASE ComparePassword(c)
    BY <1>3 DEF ComparePassword, tables
  <1>4. CASE FindIdentity(c)
    BY <1>4 DEF FindIdentity, tables, Linked
  <1>5. CASE FindEmail(c)
    BY <1>5 DEF FindEmail, tables
  <1>6. CASE LinkAccount(c)
    BY <1>6 DEF LinkAccount
  <1>7. CASE CreateAccount(c)
    BY <1>7 DEF CreateAccount
  <1>8. CASE IssueSession(c)
    BY <1>8 DEF IssueSession, tables
  <1> QED BY <1>1, <1>2, <1>3, <1>4, <1>5, <1>6, <1>7, <1>8 DEF SignIn

LEMMA OtpTypes ==
    ASSUME AccountsTypeOK, NEW c \in Calls, Otp(c)
    PROVE  AccountsTypeOK'
  <1> USE AskTypes, RowTypes, EditTypes DEF AccountsTypeOK, At, GoTo, Respond, codes, locals
  <1>1. CASE StoreCode(c)
    <2>1. issued + 1 \in Nat /\ [code |-> issued + 1, action |-> Action(c)] \in StoredCodes
      BY DEF StoredCodes
    <2>2. /\ otp' \in [Emails -> StoredCodes]
          /\ code' \in [Calls -> Nat] /\ issued' \in Nat
      BY <1>1, <2>1 DEF StoreCode
    <2> QED BY <1>1, <2>2 DEF StoreCode
  <1>2. CASE ResetAttempts(c)
    BY <1>2 DEF ResetAttempts
  <1>3. CASE MailCode(c)
    BY <1>3 DEF MailCode, tables
  <1>4. CASE CheckAttempts(c)
    BY <1>4 DEF CheckAttempts, tables
  <1>5. CASE LoadCode(c)
    BY <1>5 DEF LoadCode, tables
  <1>6. CASE CountAttempt(c)
    BY <1>6 DEF CountAttempt
  <1>7. CASE LimitAttempts(c)
    BY <1>7 DEF LimitAttempts
  <1>8. CASE DropCode(c)
    BY <1>8 DEF DropCode
  <1>9. CASE ClearAttempts(c)
    BY <1>9 DEF ClearAttempts
  <1> QED BY <1>1, <1>2, <1>3, <1>4, <1>5, <1>6, <1>7, <1>8, <1>9 DEF Otp

LEMMA TypeNext == AccountsTypeOK /\ [Next]_vars => AccountsTypeOK'
  <1> SUFFICES ASSUME AccountsTypeOK, [Next]_vars
               PROVE  AccountsTypeOK'
    OBVIOUS
  <1> USE DEF AccountsTypeOK
  <1>1. ASSUME NEW c \in Calls, Begin(c)
        PROVE  AccountsTypeOK'
    BY <1>1, AskTypes, SMTT(30)
    DEF Begin, FirstStep, Kinds, SignInKinds, GoTo, Respond, Answered, tables, codes
  <1>2. ASSUME NEW c \in Calls, Fail(c)
        PROVE  AccountsTypeOK'
    BY <1>2 DEF Fail, tables, codes, locals
  <1>3. ASSUME NEW e \in Emails, CodeExpires(e) \/ AttemptsExpire(e)
        PROVE  AccountsTypeOK'
    <2>1. otp[e].code \in Nat
      BY DEF StoredCodes
    <2>2. CASE CodeExpires(e)
      BY <2>1, <2>2, RowTypes DEF CodeExpires, locals
    <2>3. CASE AttemptsExpire(e)
      BY <2>3, RowTypes DEF AttemptsExpire, codes, locals
    <2> QED BY <1>3, <2>2, <2>3
  <1>4. CASE UNCHANGED vars
    BY <1>4 DEF vars, tables, codes, locals
  <1> QED BY <1>1, <1>2, <1>3, <1>4, SignInTypes, OtpTypes DEF Next

(* The variables keep their types.                                         *)
THEOREM AccountsTypeCorrect == Spec => []AccountsTypeOK
  BY TypeInit, TypeNext, PTL DEF Spec

LEMMA OthersWait ==
    ASSUME AccountsTypeOK, NEW c \in Calls, Begin(c) \/ Fail(c) \/ SignIn(c) \/ Otp(c),
           NEW d \in Calls, d # c
    PROVE  /\ at'[d] = at[d] /\ answer'[d] = answer[d] /\ before'[d] = before[d]
           /\ account'[d] = account[d] /\ read'[d] = read[d] /\ code'[d] = code[d]
  <1> USE DEF AccountsTypeOK, GoTo, Respond, codes, locals
  <1>1. CASE Begin(c) \/ Fail(c)
    BY <1>1 DEF Begin, Fail
  <1>2. CASE SignIn(c)
    BY <1>2 DEF SignIn, InsertUser, ReadUser, ComparePassword, FindIdentity, FindEmail,
                LinkAccount, CreateAccount, IssueSession
  <1>3. CASE Otp(c)
    BY <1>3 DEF Otp, StoreCode, ResetAttempts, MailCode, CheckAttempts, LoadCode, CountAttempt,
                LimitAttempts, DropCode, ClearAttempts
  <1> QED BY <1>1, <1>2, <1>3

(* A request under way answers at most once, and answers stay.             *)
LEMMA AnswersStay ==
    ASSUME AccountsTypeOK, Shape, NEW c \in Calls, Begin(c) \/ Fail(c) \/ SignIn(c) \/ Otp(c)
    PROVE  /\ answer[c] = "none" /\ Answered \subseteq Answered'
           /\ Begin(c) \/ before'[c] = before[c]
  <1>1. answer[c] = "none"
    BY DEF Shape, CallShape, Begin, Fail, SignIn, InsertUser, ReadUser, ComparePassword,
           FindIdentity, FindEmail, LinkAccount, CreateAccount, IssueSession, Otp, StoreCode,
           ResetAttempts, MailCode, CheckAttempts, LoadCode, CountAttempt, LimitAttempts,
           DropCode, ClearAttempts, At
  <1>2. Begin(c) \/ before' = before
    BY DEF Fail, SignIn, InsertUser, ReadUser, ComparePassword, FindIdentity, FindEmail,
           LinkAccount, CreateAccount, IssueSession, Otp, StoreCode, ResetAttempts, MailCode,
           CheckAttempts, LoadCode, CountAttempt, LimitAttempts, DropCode, ClearAttempts
  <1> QED BY <1>1, <1>2, OthersWait DEF Answered

LEMMA ShapeInit == Init => Shape
  BY AskTypes DEF Init, Shape, CallShape, SendSteps, VerifySteps, SearchSteps

LEMMA SignInShape ==
    ASSUME AccountsTypeOK, Shape, NEW c \in Calls, SignIn(c)
    PROVE  CallShape(c)'
  <1> USE DEF AccountsTypeOK, Shape, CallShape, SendSteps, VerifySteps, SearchSteps, SignInKinds,
              At, GoTo, Respond, codes, locals
  <1>1. CASE InsertUser(c)
    BY <1>1 DEF InsertUser
  <1>2. CASE ReadUser(c)
    BY <1>2 DEF ReadUser
  <1>3. CASE ComparePassword(c)
    BY <1>3 DEF ComparePassword
  <1>4. CASE FindIdentity(c)
    <2>1. CASE Linked(Google(c)) = {}
      BY <1>4, <2>1 DEF FindIdentity
    <2>2. CASE Linked(Google(c)) # {}
      <3>1. /\ at'[c] = "issue" /\ answer'[c] = "none" /\ Kind(c) = "google"
            /\ code' = code
        BY <1>4, <2>2 DEF FindIdentity
      <3> QED BY <3>1
    <2> QED BY <2>1, <2>2
  <1>5. CASE FindEmail(c)
    BY <1>5 DEF FindEmail
  <1>6. CASE LinkAccount(c)
    BY <1>6 DEF LinkAccount
  <1>7. CASE CreateAccount(c)
    BY <1>7 DEF CreateAccount
  <1>8. CASE IssueSession(c)
    BY <1>8 DEF IssueSession
  <1> QED BY <1>1, <1>2, <1>3, <1>4, <1>5, <1>6, <1>7, <1>8 DEF SignIn

LEMMA OtpShape ==
    ASSUME AccountsTypeOK, Shape, NEW c \in Calls, Otp(c)
    PROVE  CallShape(c)'
  <1> USE DEF AccountsTypeOK, Shape, CallShape, SendSteps, VerifySteps, SearchSteps, SignInKinds,
              At, GoTo, Respond, codes, locals
  <1>1. CASE StoreCode(c)
    BY <1>1 DEF StoreCode
  <1>2. CASE ResetAttempts(c) \/ MailCode(c)
    BY <1>2 DEF ResetAttempts, MailCode
  <1>3. CASE CheckAttempts(c)
    BY <1>3 DEF CheckAttempts
  <1>4. CASE LoadCode(c)
    BY <1>4 DEF LoadCode, Matches
  <1>5. CASE CountAttempt(c) \/ LimitAttempts(c)
    BY <1>5 DEF CountAttempt, LimitAttempts
  <1>6. CASE DropCode(c) \/ ClearAttempts(c)
    BY <1>6 DEF DropCode, ClearAttempts
  <1> QED BY <1>1, <1>2, <1>3, <1>4, <1>5, <1>6 DEF Otp

LEMMA ShapeNext == AccountsTypeOK /\ Shape /\ [Next]_vars => Shape'
  <1> SUFFICES ASSUME AccountsTypeOK, Shape, [Next]_vars
               PROVE  Shape'
    OBVIOUS
  <1>1. ASSUME NEW c \in Calls, Begin(c) \/ Fail(c)
        PROVE  CallShape(c)'
    <2>1. CASE Begin(c)
      BY <2>1, AskTypes
      DEF Begin, FirstStep, Kinds, SignInKinds, AccountsTypeOK, Shape, CallShape, SendSteps,
          VerifySteps, SearchSteps, GoTo, Respond
    <2>2. CASE Fail(c)
      BY <2>2 DEF Fail, AccountsTypeOK, Shape, CallShape, locals
    <2> QED BY <1>1, <2>1, <2>2
  <1>2. ASSUME NEW c \in Calls, Begin(c) \/ Fail(c) \/ SignIn(c) \/ Otp(c)
        PROVE  Shape'
    <2>1. CallShape(c)'
      BY <1>1, <1>2, SignInShape, OtpShape
    <2>2. ASSUME NEW d \in Calls, d # c
          PROVE  CallShape(d)' /\ before'[d] \subseteq Answered'
      BY <1>2, <2>2, OthersWait, AnswersStay DEF Shape, CallShape
    <2>3. before'[c] \subseteq Answered'
      BY <1>2, AnswersStay DEF Shape, Begin, AccountsTypeOK
    <2> QED BY <2>1, <2>2, <2>3 DEF Shape
  <1>3. ASSUME NEW e \in Emails, CodeExpires(e) \/ AttemptsExpire(e)
        PROVE  Shape'
    BY <1>3 DEF CodeExpires, AttemptsExpire, Shape, CallShape, Answered, locals
  <1>4. CASE UNCHANGED vars
    BY <1>4 DEF vars, Shape, CallShape, Answered, locals
  <1> QED BY <1>2, <1>3, <1>4 DEF Next

(* The handlers keep to their shape.                                       *)
LEMMA ShapeAlways == Spec => []Shape
  BY ShapeInit, ShapeNext, AccountsTypeCorrect, PTL DEF Spec

-----------------------------------------------------------------------------
(* One-time codes.                                                         *)

CodesIssued ==
    /\ \A e \in Emails : otp[e].code <= issued /\ \A k \in mailed[e] : k <= issued
    /\ \A c \in Calls : code[c] <= issued

SpentIsGone == \A v \in Verifications : Dropped(v) => otp[Email(v)].code # code[v]

SpentBefore ==
    \A v, w \in Verifications :
        Dropped(v) /\ Email(v) = Email(w) /\ code[v] = code[w] /\ v \in before[w]
            => ~Dropped(w) /\ at[w] # "drop"

Alive(s) == code[s] # 0 /\ Latest(s) /\ code[s] \notin expired
Fits(v, s) ==
    Email(s) = Email(v) /\ code[s] = code[v] /\ Action(v) \in {None, Action(s)}
Superseded(s) ==
    \E w \in Verifications : Dropped(w) /\ Email(w) = Email(s) /\ w \notin before[s]
TurnedDown(v) == at[v] \in {"count", "limit"} \/ answer[v] = "refused"

LatestIsStored ==
    \A s \in Sendings :
        Alive(s) => \/ otp[Email(s)] = [code |-> code[s], action |-> Action(s)]
                    \/ Superseded(s)

TurnedDownRightly ==
    \A v \in Verifications :
        TurnedDown(v) /\ code[v] # 0 =>
            \A s \in Sendings : Alive(s) /\ Fits(v, s) => Superseded(s)

CodesInv ==
    CodesIssued /\ SpentIsGone /\ SpentBefore /\ LatestIsStored /\ TurnedDownRightly

LEMMA CodesInit == Init => CodesInv
  BY AskTypes
  DEF Init, CodesInv, CodesIssued, SpentIsGone, SpentBefore, LatestIsStored, TurnedDownRightly,
      NoCode, Dropped, Alive, TurnedDown, Verifications, Sendings

(* A step that neither stores nor deletes a code and decides about none.   *)
LEMMA QuietStep ==
    ASSUME CodesInv, UNCHANGED <<otp, code, issued, expired, before>>,
           \A e \in Emails : \A k \in mailed'[e] : k <= issued,
           \A v \in Verifications :
              /\ Dropped(v)' = Dropped(v) /\ TurnedDown(v)' = TurnedDown(v)
              /\ at'[v] = "drop" => at[v] = "drop"
    PROVE  CodesInv'
  <1>1. CodesIssued' /\ SpentIsGone' /\ SpentBefore'
    BY DEF CodesInv, CodesIssued, SpentIsGone, SpentBefore
  <1>2. ASSUME NEW s \in Sendings
        PROVE  Alive(s)' = Alive(s) /\ Superseded(s)' = Superseded(s)
    BY DEF Alive, Superseded, Latest
  <1>3. LatestIsStored' /\ TurnedDownRightly'
    BY <1>2 DEF CodesInv, LatestIsStored, TurnedDownRightly, Fits
  <1> QED BY <1>1, <1>3 DEF CodesInv

LEMMA CodesBegin ==
    ASSUME AccountsTypeOK, Shape, CodesInv, NEW c \in Calls, Begin(c)
    PROVE  CodesInv'
  <1>1. /\ UNCHANGED <<otp, issued, expired, mailed>>
        /\ at[c] = "idle" /\ answer[c] = "none" /\ before'[c] = Answered
        /\ code'[c] \in mailed[Email(c)] \cup {0} /\ (Kind(c) # "verify" => code'[c] = 0)
        /\ at'[c] \notin {"drop", "clear", "count", "limit"}
        /\ Kind(c) # "google" => answer'[c] = "none"
    BY AskTypes DEF Begin, codes, tables, Shape, CallShape, AccountsTypeOK, GoTo, Respond,
                    FirstStep, Kinds, SignInKinds
  <1>2. \A d \in Calls : d # c =>
          /\ at'[d] = at[d] /\ answer'[d] = answer[d] /\ before'[d] = before[d]
          /\ code'[d] = code[d]
    BY OthersWait
  <1>3. ASSUME NEW v \in Verifications
        PROVE  /\ Dropped(v)' = Dropped(v) /\ TurnedDown(v)' = TurnedDown(v)
               /\ at'[v] = "drop" => at[v] = "drop"
               /\ Dropped(v) \/ TurnedDown(v) => v # c
    BY <1>1, <1>2 DEF Dropped, TurnedDown, Verifications
  <1>4. CodesIssued'
    BY <1>1, <1>2, AskTypes DEF CodesInv, CodesIssued, AccountsTypeOK
  <1>5. SpentIsGone'
    BY <1>1, <1>2, <1>3 DEF CodesInv, SpentIsGone, Verifications
  <1>6. SpentBefore'
    BY <1>1, <1>2, <1>3 DEF CodesInv, SpentBefore, Verifications, Dropped
  <1>7. ASSUME NEW s \in Sendings, Alive(s)'
        PROVE  Alive(s) /\ s # c /\ (Superseded(s) => Superseded(s)')
    <2>1. s # c
      BY <1>1, <1>7 DEF Alive, Sendings
    <2>2. ASSUME NEW t \in Sendings, Email(t) = Email(s)
          PROVE  code[t] <= code[s]
      <3>1. CASE t = c
        BY <1>1, <3>1 DEF Sendings, Shape, CallShape, AccountsTypeOK
      <3>2. CASE t # c
        BY <1>2, <1>7, <2>1, <2>2, <3>2 DEF Alive, Latest, Sendings
      <3> QED BY <3>1, <3>2
    <2> QED BY <1>1, <1>2, <1>3, <1>7, <2>1, <2>2 DEF Alive, Latest, Superseded, Sendings
  <1>8. LatestIsStored'
    BY <1>1, <1>2, <1>7 DEF CodesInv, LatestIsStored, Sendings
  <1>9. TurnedDownRightly'
    BY <1>1, <1>2, <1>3, <1>7
    DEF CodesInv, TurnedDownRightly, Fits, Sendings, Verifications
  <1> QED BY <1>4, <1>5, <1>6, <1>8, <1>9 DEF CodesInv

LEMMA CodesStored ==
    ASSUME AccountsTypeOK, Shape, CodesInv, NEW c \in Calls, StoreCode(c)
    PROVE  CodesInv'
  <1> DEFINE k == issued + 1
  <1>1. /\ UNCHANGED <<expired, mailed, before>> /\ issued' = k
        /\ at[c] = "store" /\ answer[c] = "none" /\ at'[c] = "reset" /\ answer'[c] = "none"
        /\ code'[c] = k /\ c \in Sendings /\ c \notin Verifications
        /\ \A d \in Calls : d # c =>
              at'[d] = at[d] /\ answer'[d] = answer[d] /\ code'[d] = code[d]
        /\ otp'[Email(c)] = [code |-> k, action |-> Action(c)]
        /\ \A e \in Emails : e # Email(c) => otp'[e] = otp[e]
    BY AskTypes
    DEF StoreCode, At, GoTo, Shape, CallShape, AccountsTypeOK, SendSteps, Sendings, Verifications
  <1>2. \A d \in Calls : code[d] \in Nat /\ code[d] < k
    BY DEF CodesInv, CodesIssued, AccountsTypeOK
  <1>3. ASSUME NEW v \in Verifications
        PROVE  /\ Dropped(v)' = Dropped(v) /\ TurnedDown(v)' = TurnedDown(v)
               /\ at'[v] = at[v] /\ code'[v] = code[v] /\ v \in Calls
    BY <1>1 DEF Dropped, TurnedDown, Verifications
  <1>4. CodesIssued'
    <2>1. issued \in Nat /\ \A e \in Emails : otp[e].code \in Nat /\ mailed[e] \subseteq Nat
      BY DEF AccountsTypeOK, StoredCodes
    <2>2. ASSUME NEW e \in Emails
          PROVE  otp'[e].code <= k /\ \A j \in mailed[e] : j <= k
      <3>1. otp[e].code <= issued /\ \A j \in mailed[e] : j <= issued
        BY DEF CodesInv, CodesIssued
      <3>2. otp'[e].code = k \/ otp'[e] = otp[e]
        BY <1>1
      <3> QED BY <2>1, <3>1, <3>2
    <2> QED BY <1>1, <1>2, <2>1, <2>2 DEF CodesIssued
  <1>5. SpentIsGone'
    BY <1>1, <1>2, <1>3, AskTypes DEF CodesInv, SpentIsGone
  <1>6. SpentBefore'
    BY <1>1, <1>3 DEF CodesInv, SpentBefore
  <1>7. ASSUME NEW s \in Sendings, Alive(s)', s # c
        PROVE  /\ Email(s) # Email(c) /\ Alive(s) /\ code'[s] = code[s]
               /\ Superseded(s) => Superseded(s)'
    <2>1. code'[s] = code[s] /\ s \in Calls
      BY <1>1, <1>7 DEF Sendings
    <2>2. Email(s) # Email(c)
      <3>1. SUFFICES ASSUME Email(s) = Email(c) PROVE FALSE
        OBVIOUS
      <3>2. code'[c] <= code'[s]
        BY <1>1, <1>7, <3>1 DEF Alive, Latest
      <3> QED BY <1>1, <1>2, <2>1, <3>2 DEF AccountsTypeOK
    <2>3. Latest(s)
      BY <1>1, <1>7, <2>1, <2>2 DEF Alive, Latest, Sendings
    <2> QED BY <1>1, <1>3, <1>7, <2>1, <2>2, <2>3 DEF Alive, Superseded
  <1>8. LatestIsStored'
    <2>1. ASSUME NEW s \in Sendings, Alive(s)'
          PROVE  otp'[Email(s)] = [code |-> code'[s], action |-> Action(s)] \/ Superseded(s)'
      <3>1. CASE s = c
        BY <1>1, <3>1
      <3>2. CASE s # c
        BY <1>1, <1>7, <2>1, <3>2, AskTypes DEF CodesInv, LatestIsStored, Sendings
      <3> QED BY <3>1, <3>2
    <2> QED BY <2>1 DEF LatestIsStored
  <1>9. TurnedDownRightly'
    <2>1. ASSUME NEW v \in Verifications, TurnedDown(v)', code'[v] # 0,
                 NEW s \in Sendings, Alive(s)', Fits(v, s)'
          PROVE  Superseded(s)'
      <3>1. code'[s] = code[v] /\ s # c
        BY <1>1, <1>2, <1>3, <2>1 DEF Fits
      <3> QED BY <1>3, <1>7, <2>1, <3>1 DEF CodesInv, TurnedDownRightly, Fits
    <2> QED BY <2>1 DEF TurnedDownRightly
  <1> QED BY <1>4, <1>5, <1>6, <1>8, <1>9 DEF CodesInv

LEMMA CodesLoaded ==
    ASSUME AccountsTypeOK, Shape, CodesInv, NEW c \in Calls, LoadCode(c)
    PROVE  CodesInv'
  <1>1. /\ UNCHANGED <<otp, code, issued, expired, mailed, before>>
        /\ at[c] = "load" /\ answer[c] = "none" /\ answer' = answer /\ c \in Verifications
        /\ at'[c] = IF Matches(c) THEN "drop" ELSE "count"
        /\ \A d \in Calls : d # c => at'[d] = at[d]
    BY DEF LoadCode, At, GoTo, Shape, CallShape, AccountsTypeOK, VerifySteps, Verifications,
           tables, codes, locals
  <1>2. ASSUME NEW v \in Verifications
        PROVE  Dropped(v)' = Dropped(v) /\ (v # c => TurnedDown(v)' = TurnedDown(v))
    BY <1>1 DEF Dropped, TurnedDown, Verifications
  <1>3. ASSUME NEW s \in Sendings
        PROVE  Alive(s)' = Alive(s) /\ Superseded(s)' = Superseded(s)
    BY <1>1, <1>2 DEF Alive, Superseded, Latest
  <1>4. CodesIssued' /\ SpentIsGone' /\ LatestIsStored'
    BY <1>1, <1>2, <1>3 DEF CodesInv, CodesIssued, SpentIsGone, LatestIsStored
  <1>5. SpentBefore'
    <2>1. ASSUME NEW v \in Verifications, NEW w \in Verifications, Dropped(v)',
                 Email(v) = Email(w), code[v] = code[w], v \in before[w], at'[w] = "drop"
          PROVE  FALSE
      <3>1. Dropped(v) /\ at[w] # "drop"
        BY <1>2, <2>1 DEF CodesInv, SpentBefore
      <3>2. w = c /\ Matches(c)
        BY <1>1, <2>1, <3>1 DEF Verifications
      <3> QED BY <2>1, <3>1, <3>2 DEF CodesInv, SpentIsGone, Matches
    <2> QED BY <1>1, <1>2, <2>1 DEF CodesInv, SpentBefore
  <1>6. TurnedDownRightly'
    <2>1. ASSUME NEW v \in Verifications, TurnedDown(v)', code[v] # 0,
                 NEW s \in Sendings, Alive(s), Fits(v, s)
          PROVE  Superseded(s)
      <3>1. CASE v # c
        BY <1>2, <2>1, <3>1 DEF CodesInv, TurnedDownRightly
      <3>2. CASE v = c
        <4>1. ~Matches(c)
          BY <1>1, <2>1, <3>2 DEF TurnedDown
        <4>2. otp[Email(s)] # [code |-> code[s], action |-> Action(s)]
          BY <2>1, <3>2, <4>1 DEF Matches, Fits
        <4> QED BY <2>1, <4>2 DEF CodesInv, LatestIsStored
      <3> QED BY <3>1, <3>2
    <2> QED BY <1>1, <1>3, <2>1 DEF TurnedDownRightly, Fits
  <1> QED BY <1>4, <1>5, <1>6 DEF CodesInv

LEMMA CodesDropped ==
    ASSUME AccountsTypeOK, Shape, CodesInv, NEW c \in Calls, DropCode(c)
    PROVE  CodesInv'
  <1>1. /\ UNCHANGED <<code, issued, expired, mailed, before>>
        /\ at[c] = "drop" /\ answer[c] = "none" /\ answer' = answer /\ c \in Verifications
        /\ code[c] # 0 /\ at'[c] = "clear"
        /\ \A d \in Calls : d # c => at'[d] = at[d]
        /\ otp'[Email(c)].code = 0
        /\ \A e \in Emails : e # Email(c) => otp'[e] = otp[e]
    BY AskTypes
    DEF DropCode, At, GoTo, Shape, CallShape, AccountsTypeOK, VerifySteps, Verifications, codes,
        locals, AfterMatch, NoCode
  <1>2. ASSUME NEW v \in Verifications
        PROVE  /\ Dropped(v)' = (Dropped(v) \/ v = c) /\ TurnedDown(v)' = TurnedDown(v)
               /\ Dropped(v)' => code[v] # 0
               /\ at'[v] = "drop" => at[v] = "drop"
    BY <1>1 DEF Dropped, TurnedDown, Verifications, Shape, CallShape
  <1>3. ASSUME NEW s \in Sendings
        PROVE  /\ Alive(s)' = Alive(s) /\ (Superseded(s) => Superseded(s)')
               /\ Email(s) = Email(c) => Superseded(s)'
    BY <1>1, <1>2 DEF Alive, Superseded, Latest, Shape, Answered, Sendings
  <1>4. CodesIssued'
    BY <1>1, AskTypes DEF CodesInv, CodesIssued, AccountsTypeOK
  <1>5. SpentIsGone'
    BY <1>1, <1>2, AskTypes DEF CodesInv, SpentIsGone, Verifications
  <1>6. SpentBefore'
    BY <1>1, <1>2 DEF CodesInv, SpentBefore, Shape, Answered, Verifications, Dropped
  <1>7. LatestIsStored'
    BY <1>1, <1>3, AskTypes DEF CodesInv, LatestIsStored, Sendings
  <1>8. TurnedDownRightly'
    BY <1>1, <1>2, <1>3 DEF CodesInv, TurnedDownRightly, Fits
  <1> QED BY <1>4, <1>5, <1>6, <1>7, <1>8 DEF CodesInv

LEMMA CodesExpire ==
    ASSUME AccountsTypeOK, Shape, CodesInv, NEW e \in Emails, CodeExpires(e)
    PROVE  CodesInv'
  <1>1. /\ UNCHANGED <<at, answer, code, issued, mailed, before>>
        /\ expired' = expired \cup {otp[e].code}
        /\ otp'[e].code = 0
        /\ \A f \in Emails : f # e => otp'[f] = otp[f]
    BY DEF CodeExpires, AccountsTypeOK, NoCode, locals
  <1>2. CodesIssued'
    BY <1>1 DEF CodesInv, CodesIssued, AccountsTypeOK
  <1>3. SpentIsGone'
    BY <1>1, AskTypes DEF CodesInv, SpentIsGone, Verifications, Dropped, Shape, CallShape
  <1>4. SpentBefore'
    BY <1>1 DEF CodesInv, SpentBefore, Dropped
  <1>5. ASSUME NEW s \in Sendings, Alive(s)'
        PROVE  /\ Alive(s) /\ Superseded(s)' = Superseded(s)
               /\ otp[Email(s)] = [code |-> code[s], action |-> Action(s)] => Email(s) # e
    BY <1>1, <1>5 DEF Alive, Superseded, Latest, Dropped
  <1>6. LatestIsStored'
    BY <1>1, <1>5, AskTypes DEF CodesInv, LatestIsStored, Sendings
  <1>7. TurnedDownRightly'
    BY <1>1, <1>5 DEF CodesInv, TurnedDownRightly, Fits, TurnedDown
  <1> QED BY <1>2, <1>3, <1>4, <1>6, <1>7 DEF CodesInv

LEMMA CodesQuietly ==
    ASSUME AccountsTypeOK, Shape, CodesInv, NEW c \in Calls,
           \/ Fail(c) \/ SignIn(c) \/ ResetAttempts(c) \/ MailCode(c) \/ CheckAttempts(c)
           \/ CountAttempt(c) \/ LimitAttempts(c) \/ ClearAttempts(c)
    PROVE  CodesInv'
  <1>1. \A d \in Calls : d # c => at'[d] = at[d] /\ answer'[d] = answer[d]
    BY OthersWait DEF Otp
  <1>2. /\ UNCHANGED <<otp, code, issued, expired, before>>
        /\ \A e \in Emails : \A k \in mailed'[e] : k <= issued
    <2>1. CASE MailCode(c)
      BY <2>1 DEF MailCode, tables, locals, CodesInv, CodesIssued, AccountsTypeOK
    <2>2. CASE ~MailCode(c)
      BY <2>2 DEF Fail, SignIn, InsertUser, ReadUser, ComparePassword, FindIdentity, FindEmail,
         LinkAccount, CreateAccount, IssueSession, ResetAttempts, CheckAttempts, CountAttempt,
         LimitAttempts, ClearAttempts, tables, codes, locals, CodesInv, CodesIssued
    <2> QED BY <2>1, <2>2
  <1>3. ASSUME c \in Verifications
        PROVE  /\ Dropped(c)' = Dropped(c) /\ TurnedDown(c)' = TurnedDown(c)
               /\ at'[c] = "drop" => at[c] = "drop"
    <2> USE <1>3 DEF Verifications, Dropped, TurnedDown, Shape, CallShape, AccountsTypeOK, SendSteps,
            SearchSteps, SignInKinds, At, GoTo, Respond
    <2>1. CASE Fail(c)
      BY <2>1 DEF Fail
    <2>2. CASE SignIn(c)
      BY <2>2 DEF SignIn, InsertUser, ReadUser, ComparePassword, FindIdentity, FindEmail,
         LinkAccount, CreateAccount, IssueSession
    <2>3. CASE ResetAttempts(c) \/ MailCode(c)
      BY <2>3 DEF ResetAttempts, MailCode
    <2>4. CASE CheckAttempts(c) \/ CountAttempt(c)
      BY <2>4 DEF CheckAttempts, CountAttempt
    <2>5. CASE LimitAttempts(c) \/ ClearAttempts(c)
      BY <2>5 DEF LimitAttempts, ClearAttempts
    <2> QED BY <2>1, <2>2, <2>3, <2>4, <2>5
  <1> QED BY <1>1, <1>2, <1>3, QuietStep DEF Verifications, Dropped, TurnedDown

LEMMA CodesNext == AccountsTypeOK /\ Shape /\ CodesInv /\ [Next]_vars => CodesInv'
  <1> SUFFICES ASSUME AccountsTypeOK, Shape, CodesInv, [Next]_vars
               PROVE  CodesInv'
    OBVIOUS
  <1>1. ASSUME NEW e \in Emails, AttemptsExpire(e)
        PROVE  CodesInv'
    BY <1>1, QuietStep
    DEF AttemptsExpire, codes, locals, Dropped, TurnedDown, CodesInv, CodesIssued
  <1>2. CASE UNCHANGED vars
    BY <1>2, QuietStep
    DEF vars, tables, codes, locals, Dropped, TurnedDown, CodesInv, CodesIssued
  <1> QED BY <1>1, <1>2, CodesBegin, CodesStored, CodesLoaded, CodesDropped, CodesExpire,
             CodesQuietly DEF Next, Otp

LEMMA CodesAlways == Spec => []CodesInv
  BY CodesInit, CodesNext, AccountsTypeCorrect, ShapeAlways, PTL DEF Spec

(* A request made after a code was used does not succeed with it.          *)
THEOREM CodesAreUsedOnce == Spec => []CodeUsedOnce
  <1>1. CodesInv => CodeUsedOnce
    BY DEF CodesInv, SpentBefore, CodeUsedOnce
  <1> QED BY <1>1, CodesAlways, PTL

(* The latest code is accepted while it lasts, unless a verification that  *)
(* overlapped its sending has deleted it.                                  *)
THEOREM CodesWork == Spec => []CodeWorks
  <1>1. CodesInv => CodeWorks
    BY DEF CodesInv, TurnedDownRightly, CodeWorks, TurnedDown, Alive, Fits, Superseded
  <1> QED BY <1>1, CodesAlways, PTL

-----------------------------------------------------------------------------
(* Every wrong code counted without a TTL has its request still at EXPIRE. *)

Bounded(e) ==
    /\ IsFiniteSet(Unlimited(e))
    /\ attempts[e].count > 0 /\ ~attempts[e].ttl =>
          attempts[e].count <= Cardinality(Unlimited(e))

LockoutInv == \A e \in Emails : Bounded(e)

(* A step that leaves a counter alone, and whose request, if it stood at   *)
(* EXPIRE, stays there.                                                    *)
LEMMA CounterAlone ==
    ASSUME AccountsTypeOK, NEW e \in Emails, Bounded(e), attempts'[e] = attempts[e],
           \/ Unlimited(e)' = Unlimited(e)
           \/ \E c : Unlimited(e)' = Unlimited(e) \cup {c}
    PROVE  Bounded(e)'
  <1>1. PICK u, v : u = Unlimited(e) /\ v = Unlimited(e)'
    OBVIOUS
  <1>2. IsFiniteSet(u) /\ IsFiniteSet(v) /\ u \in SUBSET v
    BY <1>1, FS_AddElement DEF Bounded
  <1>3. Cardinality(u) \in Nat /\ Cardinality(v) \in Nat
    BY <1>2, FS_CardinalityType
  <1>4. Cardinality(u) <= Cardinality(v)
    BY <1>2, FS_Subset
  <1>5. attempts[e].count \in Nat
    BY DEF AccountsTypeOK, Counters
  <1>6. attempts[e].count > 0 /\ ~attempts[e].ttl => attempts[e].count <= Cardinality(u)
    BY <1>1 DEF Bounded
  <1> QED BY <1>1, <1>2, <1>3, <1>4, <1>5, <1>6 DEF Bounded

LEMMA UnlimitedAfter ==
    ASSUME AccountsTypeOK, NEW c \in Calls, Begin(c) \/ Fail(c) \/ SignIn(c) \/ Otp(c),
           NEW e \in Emails
    PROVE  /\ at'[c] = at[c] \/ {at[c], at'[c]} \cap {"limit"} = {} =>
                 Unlimited(e)' = Unlimited(e)
           /\ Email(c) # e => Unlimited(e)' = Unlimited(e)
           /\ at'[c] # "limit" => Unlimited(e)' = Unlimited(e) \ {c}
           /\ at'[c] = "limit" /\ c \in Verifications /\ Email(c) = e =>
                 Unlimited(e)' = Unlimited(e) \cup {c}
  <1>1. \A d \in Calls : d # c => at'[d] = at[d]
    BY OthersWait
  <1>2. \A d : d \in Unlimited(e)' <=> d \in Verifications /\ Email(d) = e /\ at'[d] = "limit"
    BY DEF Unlimited
  <1>3. \A d : d \in Unlimited(e) <=> d \in Verifications /\ Email(d) = e /\ at[d] = "limit"
    BY DEF Unlimited
  <1>4. Verifications \subseteq Calls
    BY DEF Verifications
  <1> QED BY <1>1, <1>2, <1>3, <1>4

LEMMA LockoutStep ==
    ASSUME AccountsTypeOK, Shape, NEW e \in Emails, Bounded(e),
           NEW c \in Calls, Begin(c) \/ Fail(c) \/ SignIn(c) \/ Otp(c)
    PROVE  Bounded(e)'
  <1>1. ASSUME attempts'[e] = attempts[e], Unlimited(e)' = Unlimited(e)
        PROVE  Bounded(e)'
    BY <1>1, CounterAlone
  <1>2. ASSUME attempts' = attempts, at'[c] = at[c] \/ (at[c] # "limit" /\ at'[c] # "limit")
        PROVE  Bounded(e)'
    BY <1>1, <1>2, UnlimitedAfter
  <1>3. CASE Begin(c)
    <2>1. attempts' = attempts /\ at[c] = "idle" /\ at'[c] # "limit"
      BY <1>3, AskTypes DEF Begin, tables, AccountsTypeOK, GoTo, Respond, FirstStep, Kinds,
                            SignInKinds
    <2> QED BY <1>2, <2>1
  <1>4. CASE Fail(c)
    BY <1>2, <1>4 DEF Fail, tables
  <1>5. CASE SignIn(c)
    <2>1. attempts' = attempts /\ at[c] # "limit" /\ at'[c] # "limit"
      BY <1>5 DEF SignIn, InsertUser, ReadUser, ComparePassword, FindIdentity, FindEmail,
                  LinkAccount, CreateAccount, IssueSession, At, GoTo, Respond, tables,
                  AccountsTypeOK
    <2> QED BY <1>2, <2>1
  <1>6. CASE StoreCode(c) \/ MailCode(c) \/ CheckAttempts(c) \/ LoadCode(c) \/ DropCode(c)
    <2>1. attempts' = attempts /\ at[c] # "limit" /\ at'[c] # "limit"
      BY <1>6 DEF StoreCode, MailCode, CheckAttempts, LoadCode, DropCode, At, GoTo, Respond,
                  tables, AccountsTypeOK
    <2> QED BY <1>2, <2>1
  <1>7. CASE ResetAttempts(c) \/ ClearAttempts(c)
    <2>1. /\ at[c] # "limit" /\ at'[c] # "limit"
          /\ attempts'[e] = attempts[e] \/ attempts'[e] = NoAttempts
      BY <1>7, AskTypes DEF ResetAttempts, ClearAttempts, AccountsTypeOK, At, GoTo, Respond
    <2>2. Unlimited(e)' = Unlimited(e)
      BY <2>1, UnlimitedAfter
    <2> QED BY <1>1, <2>1, <2>2 DEF Bounded, NoAttempts
  <1>8. CASE CountAttempt(c)
    <2>1. /\ c \in Verifications /\ at[c] = "count" /\ at'[c] = "limit"
          /\ Email(c) # e => attempts'[e] = attempts[e]
          /\ Email(c) = e => attempts'[e] = [attempts[e] EXCEPT !.count = @ + 1]
      BY <1>8, AskTypes DEF CountAttempt, Shape, CallShape, VerifySteps, Verifications, At, GoTo,
                            AccountsTypeOK
    <2>2. CASE Email(c) # e
      BY <1>1, <2>1, <2>2, UnlimitedAfter
    <2>3. CASE Email(c) = e
      <3>1. Unlimited(e)' = Unlimited(e) \cup {c} /\ c \notin Unlimited(e)
        BY <2>1, <2>3, UnlimitedAfter DEF Unlimited
      <3>2. attempts'[e].count = attempts[e].count + 1 /\ attempts'[e].ttl = attempts[e].ttl
        BY <2>1, <2>3 DEF AccountsTypeOK, Counters
      <3>3. attempts[e].count \in Nat
        BY DEF AccountsTypeOK, Counters
      <3>4. /\ IsFiniteSet(Unlimited(e)')
            /\ Cardinality(Unlimited(e)') = Cardinality(Unlimited(e)) + 1
            /\ Cardinality(Unlimited(e)) \in Nat
        BY <3>1, FS_AddElement, FS_CardinalityType DEF Bounded
      <3> QED BY <3>2, <3>3, <3>4 DEF Bounded
    <2> QED BY <2>2, <2>3
  <1>9. CASE LimitAttempts(c)
    <2>1. Email(c) = e => attempts'[e] = Limited(e)
      BY <1>9, AskTypes DEF LimitAttempts, AccountsTypeOK
    <2>2. CASE Email(c) # e
      <3>1. Unlimited(e)' = Unlimited(e)
        BY <2>2, UnlimitedAfter
      <3>2. attempts'[e] = attempts[e]
        BY <1>9, <2>2, AskTypes DEF LimitAttempts, AccountsTypeOK
      <3> QED BY <1>1, <3>1, <3>2
    <2>3. CASE Email(c) = e
      <3>1. at'[c] # "limit"
        BY <1>9 DEF LimitAttempts, Respond, AccountsTypeOK
      <3>2. IsFiniteSet(Unlimited(e)')
        BY <3>1, UnlimitedAfter, FS_RemoveElement DEF Bounded
      <3>3. attempts'[e].count = 0 \/ attempts'[e].ttl
        BY <2>1, <2>3 DEF Limited, AccountsTypeOK, Counters
      <3> QED BY <3>2, <3>3 DEF Bounded
    <2> QED BY <2>2, <2>3
  <1> QED BY <1>3, <1>4, <1>5, <1>6, <1>7, <1>8, <1>9 DEF Otp

LEMMA LockoutNext == AccountsTypeOK /\ Shape /\ LockoutInv /\ [Next]_vars => LockoutInv'
  <1> SUFFICES ASSUME AccountsTypeOK, Shape, LockoutInv, [Next]_vars, NEW e \in Emails
               PROVE  Bounded(e)'
    BY DEF LockoutInv
  <1>1. Bounded(e)
    BY DEF LockoutInv
  <1>2. ASSUME NEW f \in Emails, CodeExpires(f)
        PROVE  Bounded(e)'
    BY <1>1, <1>2, CounterAlone DEF CodeExpires, Unlimited
  <1>3. ASSUME NEW f \in Emails, AttemptsExpire(f)
        PROVE  Bounded(e)'
    <2>1. Unlimited(e)' = Unlimited(e)
      BY <1>3 DEF AttemptsExpire, Unlimited
    <2>2. attempts'[e] = attempts[e] \/ attempts'[e] = NoAttempts
      BY <1>3 DEF AttemptsExpire, AccountsTypeOK
    <2> QED BY <1>1, <2>1, <2>2, CounterAlone DEF Bounded, NoAttempts
  <1>4. CASE UNCHANGED vars
    BY <1>1, <1>4, CounterAlone DEF vars, tables, Unlimited
  <1> QED BY <1>1, <1>2, <1>3, <1>4, LockoutStep DEF Next

(* It takes MaxAttempts requests dead between INCR and EXPIRE to lock a    *)
(* user out for longer than the counter's TTL.                             *)
THEOREM LockoutEnds == Spec => []NoEternalLockout
  <1>1. Init => LockoutInv
    <2> SUFFICES ASSUME Init, NEW e \in Emails
                 PROVE  Bounded(e)
      BY DEF LockoutInv
    <2>1. Unlimited(e) = {} /\ attempts[e].count = 0
      BY DEF Init, Unlimited, Verifications, NoAttempts
    <2> QED BY <2>1, FS_EmptySet DEF Bounded
  <1>2. LockoutInv => NoEternalLockout
    BY DEF LockoutInv, Bounded, NoEternalLockout
  <1> QED BY <1>1, <1>2, LockoutNext, AccountsTypeCorrect, ShapeAlways, PTL DEF Spec

-----------------------------------------------------------------------------
(* Accounts.                                                               *)

(* Rows are never deleted: one that was found is there to be linked.       *)
RowsFound == \A c \in Calls : at[c] = "link" => users[Email(c)].exists

LEMMA RowsFoundNext == AccountsTypeOK /\ RowsFound /\ [Next]_vars => RowsFound'
  <1> SUFFICES ASSUME AccountsTypeOK, RowsFound, [Next]_vars
               PROVE  RowsFound'
    OBVIOUS
  <1> USE AskTypes DEF RowsFound, AccountsTypeOK, At, GoTo, Respond
  <1>1. ASSUME NEW c \in Calls, InsertUser(c) \/ LinkAccount(c) \/ CreateAccount(c)
        PROVE  RowsFound'
    <2>1. \A e \in Emails : users[e].exists => users'[e].exists
      <3>1. CASE InsertUser(c) \/ CreateAccount(c)
        BY <3>1 DEF InsertUser, CreateAccount
      <3>2. CASE LinkAccount(c) /\ users' = users
        BY <3>2
      <3>3. CASE LinkAccount(c) /\ users' # users
        <4>1. users' = [users EXCEPT ![Email(c)] = LinkedRow(Email(c), Google(c))]
          BY <3>3 DEF LinkAccount
        <4>2. LinkedRow(Email(c), Google(c)).exists = users[Email(c)].exists
          BY DEF LinkedRow, Rows
        <4> QED BY <4>1, <4>2
      <3> QED BY <1>1, <3>1, <3>2, <3>3
    <2>2. at'[c] # "link"
      BY <1>1 DEF InsertUser, LinkAccount, CreateAccount
    <2> QED BY <1>1, <2>1, <2>2, OthersWait DEF SignIn
  <1>2. ASSUME NEW c \in Calls, FindEmail(c)
        PROVE  RowsFound'
    BY <1>2 DEF FindEmail, tables
  <1>3. ASSUME NEW c \in Calls,
               \/ Begin(c) \/ Fail(c) \/ Otp(c) \/ ReadUser(c) \/ ComparePassword(c)
               \/ FindIdentity(c) \/ IssueSession(c)
        PROVE  RowsFound'
    <2>1. users' = users
      BY <1>3
      DEF Begin, Fail, ReadUser, ComparePassword, FindIdentity, IssueSession, Otp, StoreCode,
          ResetAttempts, MailCode, CheckAttempts, LoadCode, CountAttempt, LimitAttempts, DropCode,
          ClearAttempts, tables
    <2>2. at'[c] = "link" => at[c] = "link"
      BY <1>3
      DEF Begin, FirstStep, Fail, ReadUser, ComparePassword, FindIdentity, IssueSession, Otp,
          StoreCode, ResetAttempts, MailCode, CheckAttempts, LoadCode, CountAttempt,
          LimitAttempts, DropCode, ClearAttempts, Kinds, SignInKinds
    <2> QED BY <1>3, <2>1, <2>2, OthersWait DEF SignIn
  <1>4. CASE UNCHANGED <<users, at>>
    BY <1>4
  <1> QED BY <1>1, <1>2, <1>3, <1>4
          DEF Next, SignIn, CodeExpires, AttemptsExpire, vars, tables

LEMMA RowsFoundAlways == Spec => []RowsFound
  <1>1. Init => RowsFound
    BY DEF Init, RowsFound
  <1> QED BY <1>1, RowsFoundNext, AccountsTypeCorrect, PTL DEF Spec

In(c) == at[c] = "issue" \/ answer[c] = "ok"
Taken(e, g) == \E x \in Calls : TookOver(x, e, g)
HasPassword(e, p) == users[e].exists /\ users[e].password = p
HasIdentity(e, g) == users[e].exists /\ users[e].google = g

IdentitiesUnique ==
    /\ \A e \in Emails : users[e].google # None => users[e].exists
    /\ \A e, f \in Emails : users[e].google # None /\ users[e].google = users[f].google => e = f

PasswordsStay ==
    \A c \in Calls : Kind(c) = "register" /\ In(c) => HasPassword(Email(c), Password(c))

IdentitiesStay ==
    \A c \in Calls :
        Kind(c) = "google" /\ In(c) =>
            HasIdentity(account[c], Google(c)) \/ Taken(account[c], Google(c))

LoginFinds(d) ==
    \A c \in before[d] :
        /\ answer[c] = "ok" /\ Kind(c) = "register" /\ Kind(d) = "login"
        /\ Email(c) = Email(d) /\ Password(c) = Password(d)
        => /\ answer[d] # "refused"
           /\ at[d] = "compare" => read[d].exists /\ read[d].password = Password(d)

GoogleFinds(d) ==
    \A c \in before[d] :
        /\ answer[c] = "ok" /\ Kind(c) = "google" /\ Kind(d) = "google"
        /\ Google(c) = Google(d) /\ (In(d) \/ at[d] \in SearchSteps)
        => account[c] = account[d] \/ Taken(account[c], Google(c))

AccountsInv ==
    /\ IdentitiesUnique /\ PasswordsStay /\ IdentitiesStay
    /\ \A d \in Calls : LoginFinds(d) /\ GoogleFinds(d)

LEMMA AccountsInit == Init => AccountsInv
  BY DEF Init, AccountsInv, IdentitiesUnique, PasswordsStay, IdentitiesStay, LoginFinds,
         GoogleFinds, In, NoRow

LEMMA TakenStays ==
    ASSUME AccountsTypeOK, Shape, NEW c \in Calls, Begin(c) \/ Fail(c) \/ SignIn(c) \/ Otp(c),
           NEW e, NEW g, Taken(e, g)
    PROVE  Taken(e, g)'
  <1>1. PICK x \in Calls : TookOver(x, e, g)
    BY DEF Taken
  <1>2. CASE x # c
    BY <1>1, <1>2, OthersWait DEF Taken, TookOver
  <1>3. CASE x = c
    <2>1. at[c] \in {"issue", "done"}
      BY <1>1, <1>3 DEF TookOver, Shape, CallShape
    <2>2. (at'[c] = "issue" \/ answer'[c] = "ok") /\ account'[c] = account[c]
      BY <1>1, <1>3, <2>1
      DEF TookOver, AccountsTypeOK, Begin, Fail, SignIn, InsertUser, ReadUser, ComparePassword,
          FindIdentity, FindEmail, LinkAccount, CreateAccount, IssueSession, Otp, StoreCode,
          ResetAttempts, MailCode, CheckAttempts, LoadCode, CountAttempt, LimitAttempts, DropCode,
          ClearAttempts, At, Respond, locals
    <2> QED BY <1>1, <1>3, <2>2 DEF Taken, TookOver
  <1> QED BY <1>2, <1>3

(* What has to be shown of a step, where only c moves.                     *)
LEMMA AccountsStep ==
    ASSUME AccountsTypeOK, Shape, AccountsInv, NEW c \in Calls,
           Begin(c) \/ Fail(c) \/ SignIn(c) \/ Otp(c),
           IdentitiesUnique',
           \A e \in Emails, p \in Passwords : HasPassword(e, p) => HasPassword(e, p)',
           \A e \in Emails, g \in GoogleIds :
              HasIdentity(e, g) => HasIdentity(e, g)' \/ Taken(e, g)',
           Kind(c) = "register" /\ In(c)' => HasPassword(Email(c), Password(c))',
           Kind(c) = "google" /\ In(c)' =>
              (HasIdentity(account[c], Google(c)) \/ Taken(account[c], Google(c)))',
           LoginFinds(c)', GoogleFinds(c)'
    PROVE  AccountsInv'
  <1>1. \A d \in Calls : d # c =>
          /\ at'[d] = at[d] /\ answer'[d] = answer[d] /\ before'[d] = before[d]
          /\ account'[d] = account[d] /\ read'[d] = read[d]
    BY OthersWait
  <1>2. \A d \in Calls : \A b \in before[d] :
          b \in Calls /\ answer[b] # "none" /\ answer'[b] = answer[b] /\ account'[b] = account[b]
    BY <1>1, AnswersStay DEF Shape, Answered
  <1>3. PasswordsStay'
    BY <1>1, AskTypes DEF AccountsInv, PasswordsStay, In
  <1>4. IdentitiesStay'
    <2>1. ASSUME NEW d \in Calls, Kind(d) = "google", In(d)'
          PROVE  (HasIdentity(account[d], Google(d)) \/ Taken(account[d], Google(d)))'
      <3>1. CASE d = c
        BY <2>1, <3>1
      <3>2. CASE d # c
        <4>1. HasIdentity(account[d], Google(d)) \/ Taken(account[d], Google(d))
          BY <1>1, <2>1, <3>2 DEF AccountsInv, IdentitiesStay, In
        <4>2. account'[d] = account[d] /\ account[d] \in Emails /\ Google(d) \in GoogleIds
          BY <1>1, <3>2, AskTypes DEF AccountsTypeOK
        <4>3. CASE HasIdentity(account[d], Google(d))
          BY <4>2, <4>3 DEF HasIdentity
        <4>4. CASE Taken(account[d], Google(d))
          BY <4>2, <4>4, TakenStays
        <4> QED BY <4>1, <4>3, <4>4
      <3> QED BY <3>1, <3>2
    <2> QED BY <2>1 DEF IdentitiesStay
  <1>5. ASSUME NEW d \in Calls, d # c
        PROVE  LoginFinds(d)' /\ GoogleFinds(d)'
    <2>1. LoginFinds(d)'
      BY <1>1, <1>2, <1>5 DEF AccountsInv, LoginFinds
    <2>2. GoogleFinds(d)'
      BY <1>1, <1>2, <1>5, TakenStays DEF AccountsInv, GoogleFinds, In
    <2> QED BY <2>1, <2>2
  <1> QED BY <1>3, <1>4, <1>5 DEF AccountsInv

LEMMA FinderFacts ==
    ASSUME AccountsTypeOK, Shape, AccountsInv, NEW c \in Calls,
           Fail(c) \/ SignIn(c) \/ Otp(c)
    PROVE  /\ before'[c] = before[c] /\ before[c] \subseteq Calls
           /\ \A b \in before[c] :
                 /\ answer[b] # "none" /\ answer'[b] = answer[b] /\ account'[b] = account[b]
                 /\ answer[b] = "ok" /\ Kind(b) = "register" => HasPassword(Email(b), Password(b))
                 /\ answer[b] = "ok" /\ Kind(b) = "google" =>
                      HasIdentity(account[b], Google(b)) \/ Taken(account[b], Google(b))
                 /\ \A e, g : Taken(e, g) => Taken(e, g)'
  <1>1. before'[c] = before[c]
    BY DEF Fail, SignIn, InsertUser, ReadUser, ComparePassword, FindIdentity, FindEmail,
           LinkAccount, CreateAccount, IssueSession, Otp, StoreCode, ResetAttempts, MailCode,
           CheckAttempts, LoadCode, CountAttempt, LimitAttempts, DropCode, ClearAttempts
  <1>2. answer[c] = "none"
    BY AnswersStay
  <1>3. \A b \in before[c] : b \in Calls /\ answer[b] # "none"
    BY DEF Shape, Answered
  <1>4. \A e, g : Taken(e, g) => Taken(e, g)'
    BY TakenStays
  <1> QED BY <1>1, <1>2, <1>3, <1>4, OthersWait DEF AccountsInv, PasswordsStay, IdentitiesStay, In

LEMMA RowsKept ==
    ASSUME AccountsTypeOK, Shape, AccountsInv, UNCHANGED users,
           NEW c \in Calls, Begin(c) \/ Fail(c) \/ SignIn(c) \/ Otp(c),
           Kind(c) = "register" /\ In(c)' => In(c),
           Kind(c) = "google" /\ In(c)' =>
              (HasIdentity(account[c], Google(c)) \/ Taken(account[c], Google(c)))',
           LoginFinds(c)', GoogleFinds(c)'
    PROVE  AccountsInv'
  <1>1. IdentitiesUnique'
    BY DEF AccountsInv, IdentitiesUnique
  <1>2. Kind(c) = "register" /\ In(c)' => HasPassword(Email(c), Password(c))'
    BY DEF AccountsInv, PasswordsStay, HasPassword
  <1> QED BY <1>1, <1>2, AccountsStep DEF HasPassword, HasIdentity

LEMMA AccountsBegin ==
    ASSUME AccountsTypeOK, Shape, AccountsInv, NEW c \in Calls, Begin(c) \/ Fail(c) \/ Otp(c)
    PROVE  AccountsInv'
  <1> USE DEF In, AccountsTypeOK, Shape, CallShape, SearchSteps, SendSteps, VerifySteps,
              SignInKinds
  <1>1. CASE Begin(c)
    <2>1. /\ users' = users
          /\ at'[c] \notin {"issue", "compare"} \cup SearchSteps /\ answer'[c] # "ok"
          /\ Kind(c) = "login" => answer'[c] # "refused"
      BY <1>1, AskTypes DEF Begin, FirstStep, Kinds, GoTo, Respond, tables
    <2> QED BY <1>1, <2>1, RowsKept DEF LoginFinds, GoogleFinds
  <1>2. CASE Fail(c)
    <2>1. /\ UNCHANGED <<users, account, read>> /\ at'[c] = at[c] /\ answer'[c] = "error"
          /\ answer[c] = "none"
      BY <1>2 DEF Fail, tables, locals
    <2>2. LoginFinds(c)' /\ GoogleFinds(c)'
      BY <1>2, <2>1, FinderFacts DEF AccountsInv, LoginFinds, GoogleFinds
    <2>3. Kind(c) = "google" /\ In(c)' =>
            (HasIdentity(account[c], Google(c)) \/ Taken(account[c], Google(c)))'
      BY <1>2, <2>1, TakenStays DEF AccountsInv, IdentitiesStay, HasIdentity
    <2> QED BY <1>2, <2>1, <2>2, <2>3, RowsKept
  <1>3. CASE Otp(c)
    <2>1. Kind(c) \in {"send", "verify"} /\ users' = users
      BY <1>3 DEF Otp, StoreCode, ResetAttempts, MailCode, CheckAttempts, LoadCode, CountAttempt,
                  LimitAttempts, DropCode, ClearAttempts, At, tables
    <2> QED BY <1>3, <2>1, RowsKept DEF LoginFinds, GoogleFinds
  <1> QED BY <1>1, <1>2, <1>3

LEMMA AccountsRead ==
    ASSUME AccountsTypeOK, Shape, AccountsInv, NEW c \in Calls,
           \/ ReadUser(c) \/ ComparePassword(c) \/ FindIdentity(c) \/ FindEmail(c)
           \/ IssueSession(c)
    PROVE  AccountsInv'
  <1> USE DEF In, AccountsTypeOK, Shape, CallShape, SearchSteps, SignInKinds, At, GoTo, Respond
  <1> SignIn(c)
    BY DEF SignIn
  <1>1. CASE ReadUser(c)
    <2>1. /\ users' = users /\ Kind(c) = "login" /\ at'[c] = "compare" /\ answer'[c] = "none"
          /\ read'[c] = users[Email(c)]
      BY <1>1 DEF ReadUser, tables
    <2>2. LoginFinds(c)' /\ GoogleFinds(c)'
      BY <2>1, FinderFacts DEF LoginFinds, GoogleFinds, HasPassword
    <2> QED BY <2>1, <2>2, RowsKept
  <1>2. CASE ComparePassword(c)
    <2>1. /\ users' = users /\ Kind(c) = "login" /\ at[c] = "compare"
          /\ at'[c] # "compare"
          /\ answer'[c] = "refused" => ~(read[c].exists /\ read[c].password = Password(c))
      BY <1>2 DEF ComparePassword, tables
    <2>2. LoginFinds(c)' /\ GoogleFinds(c)'
      BY <2>1, FinderFacts DEF LoginFinds, GoogleFinds, AccountsInv
    <2> QED BY <2>1, <2>2, RowsKept
  <1>3. CASE FindIdentity(c)
    <2>1. /\ users' = users /\ Kind(c) = "google" /\ answer'[c] = "none" /\ Google(c) \in GoogleIds
          /\ \/ Linked(Google(c)) = {} /\ at'[c] = "byEmail"
             \/ account'[c] \in Linked(Google(c)) /\ at'[c] = "issue"
      BY <1>3, AskTypes DEF FindIdentity, tables
    <2>2. account'[c] \in Linked(Google(c)) => HasIdentity(account[c], Google(c))'
      BY <2>1 DEF Linked, HasIdentity
    <2>3. ASSUME NEW b \in before[c], answer[b] = "ok", Kind(b) = "google", Google(b) = Google(c)
          PROVE  account'[b] = account'[c] \/ Taken(account[b], Google(b))'
      <3>1. b \in Calls /\ account'[b] = account[b] /\ account[b] \in Emails
        BY FinderFacts
      <3>2. CASE Taken(account[b], Google(b))
        BY <3>1, <3>2, TakenStays
      <3>3. CASE HasIdentity(account[b], Google(b))
        BY <2>1, <2>3, <3>1, <3>3, AskTypes
        DEF HasIdentity, Linked, AccountsInv, IdentitiesUnique
      <3> QED BY <2>3, <3>2, <3>3, FinderFacts
    <2>4. LoginFinds(c)' /\ GoogleFinds(c)'
      BY <2>1, <2>3, FinderFacts DEF LoginFinds, GoogleFinds
    <2> QED BY <2>1, <2>2, <2>4, RowsKept
  <1>4. CASE FindEmail(c)
    <2>1. /\ UNCHANGED <<users, account>> /\ Kind(c) = "google" /\ answer'[c] = "none"
          /\ at[c] \in SearchSteps /\ at'[c] \in SearchSteps /\ at'[c] # "issue"
      BY <1>4 DEF FindEmail, tables, locals
    <2>2. LoginFinds(c)' /\ GoogleFinds(c)'
      BY <2>1, FinderFacts DEF LoginFinds, GoogleFinds, AccountsInv
    <2> QED BY <2>1, <2>2, RowsKept
  <1>5. CASE IssueSession(c)
    <2>1. /\ UNCHANGED <<users, account>> /\ at[c] = "issue" /\ answer'[c] = "ok"
          /\ at'[c] = "done"
      BY <1>5 DEF IssueSession, tables, locals
    <2>2. LoginFinds(c)' /\ GoogleFinds(c)'
      BY <2>1, FinderFacts DEF LoginFinds, GoogleFinds, AccountsInv
    <2>3. Kind(c) = "google" =>
            (HasIdentity(account[c], Google(c)) \/ Taken(account[c], Google(c)))'
      BY <2>1, TakenStays DEF AccountsInv, IdentitiesStay, HasIdentity
    <2> QED BY <2>1, <2>2, <2>3, RowsKept
  <1> QED BY <1>1, <1>2, <1>3, <1>4, <1>5

LEMMA UniqueKept ==
    ASSUME IdentitiesUnique, NEW x \in Emails,
           \A e \in Emails : e # x => users'[e] = users[e],
           users'[x].exists,
           \/ users'[x].google = None
           \/ \A e \in Emails : e # x => users[e].google # users'[x].google
    PROVE  IdentitiesUnique'
  <1>1. ASSUME NEW e \in Emails, users'[e].google # None
        PROVE  users'[e].exists
    BY <1>1 DEF IdentitiesUnique
  <1>2. ASSUME NEW e \in Emails, NEW f \in Emails,
               users'[e].google # None, users'[e].google = users'[f].google
        PROVE  e = f
    <2>1. CASE e # x /\ f # x
      BY <1>2, <2>1 DEF IdentitiesUnique
    <2>2. CASE e = x \/ f = x
      BY <1>2, <2>2
    <2> QED BY <2>1, <2>2
  <1> QED BY <1>1, <1>2 DEF IdentitiesUnique

(* The three writes.  An INSERT takes an address that had no row.          *)
LEMMA AccountsInsert ==
    ASSUME AccountsTypeOK, Shape, AccountsInv, NEW c \in Calls, InsertUser(c)
    PROVE  AccountsInv'
  <1> USE DEF In, AccountsTypeOK, Shape, CallShape, SearchSteps, SignInKinds, At, GoTo, Respond
  <1>1. SignIn(c) /\ Kind(c) = "register" /\ answer'[c] # "ok"
    BY DEF SignIn, InsertUser
  <1>2. LoginFinds(c)' /\ GoogleFinds(c)'
    BY <1>1, FinderFacts DEF LoginFinds, GoogleFinds
  <1>3. CASE users[Email(c)].exists
    BY <1>1, <1>2, <1>3, RowsKept DEF InsertUser
  <1>4. CASE ~users[Email(c)].exists
    <2>1. /\ users'[Email(c)] = [exists |-> TRUE, password |-> Password(c), google |-> None]
          /\ \A e \in Emails : e # Email(c) => users'[e] = users[e]
      BY <1>4, AskTypes DEF InsertUser
    <2>2. /\ \A e \in Emails, p \in Passwords : HasPassword(e, p) => HasPassword(e, p)'
          /\ \A e \in Emails, g \in GoogleIds : HasIdentity(e, g) => HasIdentity(e, g)'
      BY <1>4, <2>1 DEF HasPassword, HasIdentity
    <2>3. HasPassword(Email(c), Password(c))'
      BY <2>1 DEF HasPassword
    <2>4. IdentitiesUnique'
      <3>1. Email(c) \in Emails /\ IdentitiesUnique
        BY AskTypes DEF AccountsInv
      <3>2. users'[Email(c)].exists /\ users'[Email(c)].google = None
        BY <2>1
      <3> HIDE DEF In, AccountsTypeOK, Shape, CallShape, At, GoTo, Respond
      <3> QED BY <2>1, <3>1, <3>2, UniqueKept
    <2>5. Kind(c) # "google"
      BY <1>1
    <2> HIDE DEF In, AccountsTypeOK, Shape, CallShape, SearchSteps, SignInKinds, At, GoTo, Respond
    <2> QED BY <1>1, <1>2, <2>2, <2>3, <2>4, <2>5, AccountsStep
  <1> QED BY <1>3, <1>4

LEMMA AccountsWrite ==
    ASSUME AccountsTypeOK, Shape, RowsFound, AccountsInv, NEW c \in Calls,
           LinkAccount(c) \/ CreateAccount(c)
    PROVE  AccountsInv'
  <1> USE DEF In, AccountsTypeOK, Shape, CallShape, SearchSteps, SignInKinds, At, GoTo, Respond
  <1>1. /\ SignIn(c) /\ Kind(c) = "google" /\ answer[c] = "none" /\ at[c] \in SearchSteps
        /\ account' = account /\ account[c] = Email(c) /\ Email(c) \in Emails
        /\ Google(c) \in GoogleIds /\ Google(c) # None
        /\ answer'[c] # "ok" /\ at'[c] \in {"issue", "done"}
    BY AskTypes DEF SignIn, LinkAccount, CreateAccount, locals
  <1>2. LoginFinds(c)' /\ GoogleFinds(c)'
    BY <1>1, FinderFacts DEF LoginFinds, GoogleFinds, AccountsInv
  <1>3. CASE at'[c] = "done"
    <2>1. users' = users
      BY <1>3 DEF LinkAccount, CreateAccount
    <2> QED BY <1>1, <1>2, <1>3, <2>1, RowsKept
  <1>4. CASE at'[c] = "issue"
    <2>1. /\ users'[Email(c)].exists /\ users'[Email(c)].google = Google(c)
          /\ \A e \in Emails : e # Email(c) =>
                users'[e] = users[e] /\ (users[e].exists => users[e].google # Google(c))
          /\ users[Email(c)].exists => users'[Email(c)].password = users[Email(c)].password
      <3>1. CASE LinkAccount(c)
        <4>1. /\ Linked(Google(c)) \ {Email(c)} = {}
              /\ users' = [users EXCEPT ![Email(c)] = LinkedRow(Email(c), Google(c))]
          BY <1>4, <3>1 DEF LinkAccount
        <4>2. /\ users'[Email(c)] = LinkedRow(Email(c), Google(c))
              /\ \A e \in Emails : e # Email(c) => users'[e] = users[e]
          BY <1>1, <4>1
        <4>3. users[Email(c)].exists
          BY <3>1 DEF LinkAccount, RowsFound
        <4> QED BY <1>1, <4>1, <4>2, <4>3 DEF LinkedRow, Linked, Rows
      <3>2. CASE CreateAccount(c)
        BY <1>1, <1>4, <3>2 DEF CreateAccount, Linked
      <3> QED BY <3>1, <3>2
    <2>2. \A e \in Emails, p \in Passwords : HasPassword(e, p) => HasPassword(e, p)'
      BY <1>1, <2>1 DEF HasPassword
    <2>3. ASSUME NEW e \in Emails, NEW g \in GoogleIds, HasIdentity(e, g)
          PROVE  HasIdentity(e, g)' \/ Taken(e, g)'
      <3>1. CASE e # Email(c)
        BY <2>1, <2>3, <3>1 DEF HasIdentity
      <3>2. CASE e = Email(c) /\ g = Google(c)
        BY <2>1, <3>2 DEF HasIdentity
      <3>3. CASE e = Email(c) /\ g # Google(c)
        BY <1>1, <1>4, <3>3 DEF Taken, TookOver
      <3> QED BY <3>1, <3>2, <3>3
    <2>4. HasIdentity(account[c], Google(c))'
      BY <1>1, <2>1 DEF HasIdentity
    <2>5. IdentitiesUnique'
      <3>1. IdentitiesUnique
        BY DEF AccountsInv
      <3>2. \A e \in Emails : e # Email(c) => users[e].google # users'[Email(c)].google
        BY <1>1, <2>1, <3>1 DEF IdentitiesUnique
      <3> HIDE DEF In, AccountsTypeOK, Shape, CallShape, At, GoTo, Respond
      <3> QED BY <1>1, <2>1, <3>1, <3>2, UniqueKept
    <2> QED BY <1>1, <1>2, <2>2, <2>3, <2>4, <2>5, AccountsStep
  <1> QED BY <1>1, <1>3, <1>4

LEMMA AccountsNext ==
    AccountsTypeOK /\ Shape /\ RowsFound /\ AccountsInv /\ [Next]_vars => AccountsInv'
  <1> SUFFICES ASSUME AccountsTypeOK, Shape, RowsFound, AccountsInv, [Next]_vars
               PROVE  AccountsInv'
    OBVIOUS
  <1>1. CASE UNCHANGED <<users, at, answer, account, read, before>>
    BY <1>1 DEF AccountsInv, IdentitiesUnique, PasswordsStay, IdentitiesStay, LoginFinds,
                GoogleFinds, In, Taken, TookOver, HasPassword, HasIdentity
  <1>2. ASSUME NEW e \in Emails, CodeExpires(e) \/ AttemptsExpire(e)
        PROVE  AccountsInv'
    BY <1>1, <1>2 DEF CodeExpires, AttemptsExpire, locals
  <1>3. CASE UNCHANGED vars
    BY <1>1, <1>3 DEF vars, tables, locals
  <1> QED BY <1>2, <1>3, AccountsBegin, AccountsRead, AccountsInsert, AccountsWrite
          DEF Next, SignIn

(* Whoever got into an account gets into it again.                         *)
THEOREM AccountsAreFound == Spec => []ReturnsToAccount
  <1>1. AccountsTypeOK /\ Shape /\ AccountsInv => ReturnsToAccount
    BY DEF AccountsTypeOK, Shape, AccountsInv, LoginFinds, GoogleFinds, Taken, In,
           ReturnsToAccount
  <1> QED BY <1>1, AccountsInit, AccountsNext, AccountsTypeCorrect, ShapeAlways, RowsFoundAlways,
             PTL DEF Spec
=============================================================================
