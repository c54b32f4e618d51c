--------------------------- MODULE SessionsProofs ---------------------------
(***************************************************************************)
(* Proofs about Sessions, for any number of requests, recovery codes and    *)
(* attempts, every set of operations and any number of failures.            *)
(***************************************************************************)
EXTENDS Sessions, TLAPS

RowT == [typ : {"refresh", "challenge"}, live : BOOLEAN, root : Nat, auth : Nat, raced : BOOLEAN]
TokenT == [purpose : {"reset", "invite"}, used : BOOLEAN]

CallT ==
    [at : Steps, n : Numbers, u : AccountType, in : Nat, token : Nat, keep : Nat,
     code : Nat \X Nat, tries : 0 .. MaxTries, goal : Steps \union {"set", "accept"}, from : Nat]

HistT ==
    [epoch : Nat, ended : SUBSET Nat, codes : SUBSET [what : Nat \X Nat, by : Nat],
     tokens : SUBSET [what : Nat, by : Nat],
     guesses : Nat, codesOf : Numbers]

\* What a call may rely on at the step it is at, with ns sessions and nt tokens.
CallOK(r, ns, nt) ==
    /\ r.in \in 0 .. ns /\ r.token \in 0 .. nt
    /\ r.at \in {"consume", "reread"} => r.goal \in {"reset", "disable"}
    /\ r.at = "consume" => r.tries < MaxTries /\ r.code \in r.u.codes
    /\ r.at \in {"code", "verify", "disable_verify"} => r.tries = 0
    /\ r.at \in {"refresh_create", "refresh_revoke", "revoke_used"} => r.in # 0
    /\ r.at = "redeem" => r.token # 0

UserType == user \in AccountType
AttemptsType == attempts \in [fails : 0 .. MaxFailures - 1, lock : {"none", "on", "over"}]
SessType == sess \in Seq(RowT)
TokensType == tokens \in Seq(TokenT)
CallType == call \in [Calls -> CallT] /\ \A c \in Calls : CallOK(call[c], Len(sess), Len(tokens))
HistType == hist \in HistT
CountType == ops \in Numbers /\ faults \in 0 .. MaxFaults

Types ==
    /\ UserType /\ AttemptsType /\ SessType /\ TokensType
    /\ CallType /\ HistType /\ CountType

Plain == Steps \ {"consume", "reread", "code", "verify", "disable_verify", "redeem"}

-----------------------------------------------------------------------------
(* One call changes *)

\* The tables of sessions and tokens only grow.
Grows ==
    /\ SessType /\ TokensType /\ SessType' /\ TokensType'
    /\ Len(sess) <= Len(sess') /\ Len(tokens) <= Len(tokens')

\* A call is replaced by one that fits the step it is at.
LEMMA CallSet ==
    ASSUME CallType, Grows, NEW c \in Calls, NEW r \in CallT,
           call' = [call EXCEPT ![c] = r], CallOK(r, Len(sess'), Len(tokens'))
    PROVE  CallType'
<1>1. call' \in [Calls -> CallT]
  BY DEF CallType
<1>2. ASSUME NEW d \in Calls PROVE CallOK(call'[d], Len(sess'), Len(tokens'))
  <2>1. CASE d = c
    BY <2>1 DEF CallType
  <2>2. CASE d # c
    <3>1. call'[d] = call[d] /\ CallOK(call[d], Len(sess), Len(tokens))
      BY <2>2 DEF CallType
    <3>2. Len(sess) \in Nat /\ Len(sess') \in Nat /\ Len(tokens) \in Nat /\ Len(tokens') \in Nat
      BY DEF Grows, SessType, TokensType
    <3> QED
      BY <3>1, <3>2 DEF CallOK, Grows
  <2> QED
    BY <2>1, <2>2
<1> QED
  BY <1>1, <1>2 DEF CallType

\* A call goes on to a step that relies on nothing new.
LEMMA CallGoes ==
    ASSUME CallType, Grows, NEW c \in Calls, NEW step \in Plain, Goes(c, step),
           step \in {"refresh_create", "refresh_revoke", "revoke_used"} => call[c].in # 0
    PROVE  CallType'
<1>1. call[c] \in CallT /\ CallOK(call[c], Len(sess), Len(tokens))
  BY DEF CallType
<1>2. PICK r \in CallT : r = [call[c] EXCEPT !.at = step]
  BY <1>1 DEF CallT, Plain
<1>3. Len(sess) \in Nat /\ Len(sess') \in Nat /\ Len(tokens) \in Nat /\ Len(tokens') \in Nat
  BY DEF Grows, SessType, TokensType
<1>4. r.at = step /\ r.in = call[c].in /\ r.token = call[c].token
  BY <1>1, <1>2 DEF CallT
<1>5. CallOK(r, Len(sess'), Len(tokens'))
  BY <1>1, <1>3, <1>4 DEF CallOK, Plain, Grows
<1>6. call' = [call EXCEPT ![c] = r]
  BY <1>2 DEF Goes
<1> QED
  BY <1>5, <1>6, CallSet

LEMMA IdleType == Idle \in CallT /\ \A ns, nt \in Nat : CallOK(Idle, ns, nt)
BY SessionsAssumption DEF Idle, CallT, CallOK, Steps, AccountType, Account, Numbers

\* A call ends.
LEMMA CallEnds ==
    ASSUME CallType, Grows, NEW c \in Calls, Ends(c)
    PROVE  CallType'
<1>1. Len(sess') \in Nat /\ Len(tokens') \in Nat
  BY DEF Grows, SessType, TokensType
<1> QED
  BY <1>1, IdleType, CallSet DEF Ends

\* A request comes in: the record it starts from fits its first step.
LEMMA CallBegins ==
    ASSUME Types, NEW c \in Calls, NEW op, NEW rec \in CallT, CallOK(rec, Len(sess), Len(tokens)),
           Begins(c, op, rec)
    PROVE  Types'
<1>1. Grows
  BY DEF Grows, Begins, Types, SessType, TokensType
<1>2. ops + 1 \in Numbers /\ hist.epoch \in Nat
  BY SessionsAssumption DEF Begins, Types, CountType, HistType, HistT, Numbers
<1>3. PICK r \in CallT : r = [rec EXCEPT !.n = ops + 1, !.from = hist.epoch]
  BY <1>2 DEF CallT
<1>4. CallOK(r, Len(sess'), Len(tokens'))
  <2>1. UNCHANGED <<sess, tokens>>
    BY DEF Begins
  <2> QED
    BY <1>3, <2>1 DEF CallOK, CallT
<1>5. CallType'
  BY <1>1, <1>3, <1>4, CallSet DEF Begins, Types
<1>6. (UserType /\ AttemptsType /\ SessType /\ TokensType /\ HistType)'
  BY DEF Begins, Types, UserType, AttemptsType, SessType, TokensType, HistType
<1>7. CountType'
  BY <1>2 DEF Begins, CountType, Types
<1> QED
  BY <1>5, <1>6, <1>7 DEF Types

-----------------------------------------------------------------------------
(* One table changes *)

\* A row is changed in place.
LEMMA RowsSet ==
    ASSUME SessType, NEW f \in [1 .. Len(sess) -> RowT], sess' = f
    PROVE  SessType' /\ Len(sess') = Len(sess)
<1>1. Len(sess) \in Nat
  BY DEF SessType
<1> QED
  BY <1>1 DEF SessType

\* CreateSession appends a row.
LEMMA CreateType ==
    ASSUME Types, NEW c \in Calls, NEW typ \in {"refresh", "challenge"}, NEW sameRoot \in BOOLEAN,
           sameRoot => call[c].in # 0, Create(c, typ, sameRoot)
    PROVE  SessType' /\ Len(sess') = Len(sess) + 1
<1>1. Len(sess) \in Nat /\ call[c].in \in 0 .. Len(sess) /\ call[c].from \in Nat /\ hist.epoch \in Nat
  BY DEF Types, SessType, CallType, CallOK, CallT, HistType, HistT
<1>2. call[c].in # 0 => sess[call[c].in] \in RowT
  BY <1>1 DEF Types, SessType
<1>3. PICK r \in RowT : sess' = Append(sess, r)
  <2>1. (IF sameRoot THEN sess[call[c].in].root ELSE Len(sess) + 1) \in Nat
    BY <1>1, <1>2 DEF RowT
  <2>2. (IF call[c].in = 0 THEN call[c].from ELSE sess[call[c].in].auth) \in Nat
    BY <1>1, <1>2 DEF RowT
  <2>3. (call[c].from < hist.epoch \/ (call[c].in # 0 /\ sess[call[c].in].raced)) \in BOOLEAN
    BY <1>1, <1>2 DEF RowT
  <2> QED
    BY <2>1, <2>2, <2>3 DEF Create, Row, RowT
<1> QED
  BY <1>1, <1>3 DEF Types, SessType

\* RevokeSession, and the revocation of all sessions but one.
LEMMA RevokesType ==
    ASSUME SessType, NEW j, Revokes(j)
    PROVE  SessType' /\ Len(sess') = Len(sess)
<1>1. sess \in [1 .. Len(sess) -> RowT]
  BY DEF SessType
<1>2. sess' \in [1 .. Len(sess) -> RowT]
  BY <1>1 DEF Revokes, RowT
<1> QED
  BY <1>2, RowsSet

LEMMA AllRevokedType ==
    ASSUME Types, NEW keep, sess' = AllRevokedBut(keep)
    PROVE  SessType' /\ Len(sess') = Len(sess)
<1>1. sess \in [1 .. Len(sess) -> RowT] /\ DOMAIN sess = 1 .. Len(sess) /\ hist.epoch + 1 \in Nat
  BY DEF Types, SessType, HistType, HistT
<1>2. \A j \in DOMAIN sess :
        (IF j = keep THEN [sess[j] EXCEPT !.auth = hist.epoch + 1]
         ELSE [sess[j] EXCEPT !.live = FALSE]) \in RowT
  BY <1>1 DEF RowT
<1>3. sess' \in [1 .. Len(sess) -> RowT]
  BY <1>1, <1>2 DEF AllRevokedBut
<1> QED
  BY <1>3, RowsSet DEF Types

\* An admitted attempt is counted.
LEMMA AdmittedType ==
    ASSUME Types, Admitted
    PROVE  AttemptsType' /\ HistType'
<1>1. MaxFailures \in Nat \ {0}
  BY SessionsAssumption
<1>2. attempts.fails \in 0 .. MaxFailures - 1
  BY DEF Types, AttemptsType
<1>3. Record(attempts) \in [fails : 0 .. MaxFailures - 1, lock : {"none", "on", "over"}]
  BY <1>1, <1>2 DEF Record
<1>4. HistType'
  BY DEF Types, HistType, HistT, Admitted
<1> QED
  BY <1>3, <1>4 DEF Admitted, AttemptsType

\* A step that leaves the sessions and the tokens alone.
LEMMA SameTables ==
    ASSUME Types, UNCHANGED <<sess, tokens>>
    PROVE  Grows
BY DEF Grows, Types, SessType, TokensType

-----------------------------------------------------------------------------
(* Every step keeps the types *)

\* Login counts the attempt and compares the password.
LEMMA LoginPasswordTypes ==
    ASSUME Types, NEW c \in Calls, LoginPassword(c)
    PROVE  Types'
<1>1. Grows
  BY SameTables DEF LoginPassword, OnlyAttempts
<1>2. AttemptsType' /\ HistType'
  BY AdmittedType DEF LoginPassword, Rejected, Types, AttemptsType, HistType
<1>3. CallType'
  <2>1. CASE Rejected(c)
    BY <2>1, <1>1, CallEnds DEF Rejected, Types
  <2>2. CASE Admitted /\ Ends(c)
    BY <2>2, <1>1, CallEnds DEF Types
  <2>3. CASE Admitted /\ Goes(c, IF call[c].u.totp THEN "challenge" ELSE "reset")
    BY <2>3, <1>1, CallGoes DEF Types, Plain, Steps
  <2> QED
    BY <2>1, <2>2, <2>3 DEF LoginPassword
<1>4. (UserType /\ SessType /\ TokensType /\ CountType)'
  BY DEF LoginPassword, At, OnlyAttempts, Types, UserType, SessType, TokensType, CountType
<1> QED
  BY <1>1, <1>2, <1>3, <1>4 DEF Types

\* The counter is reset and the login goes on.
LEMMA ResetAttemptsTypes ==
    ASSUME Types, NEW c \in Calls, ResetAttempts(c)
    PROVE  Types'
<1>1. Grows
  BY SameTables DEF ResetAttempts, OnlyAttempts
<1>2. AttemptsType' /\ HistType'
  BY SessionsAssumption DEF ResetAttempts, NoAttempts, Types, AttemptsType, HistType, HistT
<1>3. CallType'
  <2>1. CASE call[c].in = 0
    BY <2>1, <1>1, CallGoes DEF ResetAttempts, Types, Plain, Steps
  <2>2. CASE call[c].in # 0
    BY <2>2, <1>1, CallGoes DEF ResetAttempts, Types, Plain, Steps
  <2> QED
    BY <2>1, <2>2
<1>4. (UserType /\ SessType /\ TokensType /\ CountType)'
  BY DEF ResetAttempts, At, OnlyAttempts, Types, UserType, SessType, TokensType, CountType
<1> QED
  BY <1>1, <1>2, <1>3, <1>4 DEF Types

\* A challenge session is created.
LEMMA ChallengeTypes ==
    ASSUME Types, NEW c \in Calls, Challenge(c)
    PROVE  Types'
<1>1. SessType' /\ Len(sess') = Len(sess) + 1
  BY CreateType DEF Challenge, At, Types, CallType, CallOK
<1>2. Grows
  BY <1>1 DEF Challenge, OnlySessions, Grows, Types, SessType, TokensType
<1>3. CallType'
  BY <1>2, CallEnds DEF Challenge, At, Types, CallType, CallOK, Plain, Steps
<1>4. (UserType /\ AttemptsType /\ TokensType /\ HistType /\ CountType)'
  BY DEF Challenge, At, OnlySessions, Types, UserType, AttemptsType, TokensType, HistType,
     CountType
<1> QED
  BY <1>1, <1>2, <1>3, <1>4 DEF Types

\* A session is issued.
LEMMA IssueTypes ==
    ASSUME Types, NEW c \in Calls, Issue(c)
    PROVE  Types'
<1>1. SessType' /\ Len(sess') = Len(sess) + 1
  BY CreateType DEF Issue, At, Types, CallType, CallOK
<1>2. Grows
  BY <1>1 DEF Issue, OnlySessions, Grows, Types, SessType, TokensType
<1>3. CallType'
  BY <1>2, CallEnds DEF Issue, At, Types, CallType, CallOK, Plain, Steps
<1>4. HistType'
  <2>1. [what |-> call[c].in, by |-> call[c].n] \in [what : Nat, by : Nat]
    BY SessionsAssumption DEF Types, CallType, CallT, Numbers
  <2>2. CASE call[c].in = 0
    BY <2>2 DEF Issue, Types, HistType
  <2>3. CASE call[c].in # 0
    BY <2>1, <2>3 DEF Issue, Types, HistType, HistT
  <2> QED
    BY <2>2, <2>3
<1>5. (UserType /\ AttemptsType /\ TokensType /\ CountType)'
  BY DEF Issue, At, OnlySessions, Types, UserType, AttemptsType, TokensType, CountType
<1> QED
  BY <1>1, <1>2, <1>3, <1>4, <1>5 DEF Types

\* A refresh creates the new session.
LEMMA RefreshCreateTypes ==
    ASSUME Types, NEW c \in Calls, RefreshCreate(c)
    PROVE  Types'
<1>1. SessType' /\ Len(sess') = Len(sess) + 1
  BY CreateType DEF RefreshCreate, At, Types, CallType, CallOK
<1>2. Grows
  BY <1>1 DEF RefreshCreate, OnlySessions, Grows, Types, SessType, TokensType
<1>3. CallType'
  BY <1>2, CallGoes DEF RefreshCreate, At, Types, CallType, CallOK, Plain, Steps
<1>4. (UserType /\ AttemptsType /\ TokensType /\ HistType /\ CountType)'
  BY DEF RefreshCreate, At, OnlySessions, Types, UserType, AttemptsType, TokensType,
     HistType, CountType
<1> QED
  BY <1>1, <1>2, <1>3, <1>4 DEF Types

\* A refresh ends the old session.
LEMMA RefreshRevokeTypes ==
    ASSUME Types, NEW c \in Calls, RefreshRevoke(c)
    PROVE  Types'
<1>1. SessType' /\ Len(sess') = Len(sess)
  BY RevokesType DEF RefreshRevoke, Types
<1>2. Grows
  BY <1>1 DEF RefreshRevoke, OnlySessions, Grows, Types, SessType, TokensType
<1>3. CallType'
  BY <1>2, CallEnds DEF RefreshRevoke, Types, Plain, Steps
<1>4. (UserType /\ AttemptsType /\ TokensType /\ HistType /\ CountType)'
  BY DEF RefreshRevoke, At, OnlySessions, Types, UserType, AttemptsType, TokensType,
     HistType, CountType
<1> QED
  BY <1>1, <1>2, <1>3, <1>4 DEF Types

\* The challenge is revoked.
LEMMA RevokeUsedTypes ==
    ASSUME Types, NEW c \in Calls, RevokeUsed(c)
    PROVE  Types'
<1>1. SessType' /\ Len(sess') = Len(sess)
  BY RevokesType DEF RevokeUsed, Types
<1>2. Grows
  BY <1>1 DEF RevokeUsed, OnlySessions, Grows, Types, SessType, TokensType
<1>3. CallType'
  BY <1>2, CallGoes DEF RevokeUsed, Types, Plain, Steps
<1>4. (UserType /\ AttemptsType /\ TokensType /\ HistType /\ CountType)'
  BY DEF RevokeUsed, At, OnlySessions, Types, UserType, AttemptsType, TokensType, HistType,
     CountType
<1> QED
  BY <1>1, <1>2, <1>3, <1>4 DEF Types

\* Every session but one is revoked.
LEMMA RevokeAllTypes ==
    ASSUME Types, NEW c \in Calls, RevokeAll(c)
    PROVE  Types'
<1>1. SessType' /\ Len(sess') = Len(sess)
  BY AllRevokedType DEF RevokeAll
<1>2. Grows
  BY <1>1 DEF RevokeAll, OnlySessions, Grows, Types, SessType, TokensType
<1>3. CallType'
  BY <1>2, CallEnds DEF RevokeAll, Types
<1>4. HistType'
  <2>1. \A j \in DOMAIN sess : sess[j].root \in Nat
    <3>1. \A j \in DOMAIN sess : sess[j] \in RowT
      BY DEF Types, SessType
    <3> QED
      BY <3>1 DEF RowT
  <2>2. PICK R \in SUBSET Nat : R = {sess[j].root : j \in DOMAIN sess \ {call[c].keep}}
    BY <2>1
  <2>3. hist' = [hist EXCEPT !.epoch = @ + 1, !.ended = @ \union R]
    BY <2>2 DEF RevokeAll
  <2>4. hist \in HistT /\ hist.epoch + 1 \in Nat /\ hist.ended \union R \in SUBSET Nat
    BY <2>2 DEF Types, HistType, HistT
  <2> QED
    BY <2>3, <2>4 DEF HistType, HistT
<1>5. (UserType /\ AttemptsType /\ TokensType /\ CountType)'
  BY DEF RevokeAll, At, OnlySessions, Types, UserType, AttemptsType, TokensType, CountType
<1> QED
  BY <1>1, <1>2, <1>3, <1>4, <1>5 DEF Types

\* CompleteTOTPLogin counts the attempt.
LEMMA CompleteAttemptTypes ==
    ASSUME Types, NEW c \in Calls, CompleteAttempt(c)
    PROVE  Types'
<1>1. Grows
  BY SameTables DEF CompleteAttempt, OnlyAttempts
<1>2. AttemptsType' /\ HistType'
  BY AdmittedType DEF CompleteAttempt, Rejected, Types, AttemptsType, HistType
<1>3. CallType'
  <2>1. CASE Rejected(c)
    BY <2>1, <1>1, CallEnds DEF Rejected, Types
  <2>2. CASE Goes(c, "verify")
    <3>1. call[c] \in CallT /\ CallOK(call[c], Len(sess), Len(tokens)) /\ call[c].at = "code"
      BY DEF CompleteAttempt, At, Types, CallType
    <3>2. PICK r \in CallT : r = [call[c] EXCEPT !.at = "verify"]
      BY <3>1 DEF CallT, Steps
    <3>3. CallOK(r, Len(sess'), Len(tokens'))
      BY <3>1, <3>2 DEF CallOK, CallT, CompleteAttempt, OnlyAttempts
    <3> QED
      BY <1>1, <2>2, <3>2, <3>3, CallSet DEF Goes, Types
  <2> QED
    BY <2>1, <2>2 DEF CompleteAttempt
<1>4. (UserType /\ SessType /\ TokensType /\ CountType)'
  BY DEF CompleteAttempt, At, OnlyAttempts, Types, UserType, SessType, TokensType, CountType
<1> QED
  BY <1>1, <1>2, <1>3, <1>4 DEF Types

\* verifyTOTPOrRecoveryCode starts a swap only with a code it found.
LEMMA VerifiesType ==
    ASSUME CallType, Grows, UNCHANGED <<sess, tokens>>, NEW c \in Calls, NEW u \in AccountType,
           NEW goal \in {"reset", "disable"}, call[c].tries = 0, Verifies(c, u, goal)
    PROVE  CallType'
<1>1. CASE Goes(c, goal)
  BY <1>1, CallGoes DEF Plain, Steps
<1>2. CASE Ends(c)
  BY <1>2, CallEnds
<1>3. ASSUME NEW k \in u.codes,
             call' = [call EXCEPT ![c].at = "consume", ![c].u = u, ![c].code = k, ![c].goal = goal]
      PROVE  CallType'
  <2>1. call[c] \in CallT /\ CallOK(call[c], Len(sess), Len(tokens))
    BY DEF CallType
  <2>2. k \in Nat \X Nat
    BY SessionsAssumption DEF AccountType, Numbers
  <2>3. PICK r \in CallT : r = [call[c] EXCEPT !.at = "consume", !.u = u, !.code = k, !.goal = goal]
    BY <2>1, <2>2 DEF CallT, Steps
  <2>4. r.at = "consume" /\ r.u.codes = u.codes /\ r.code = k /\ r.goal = goal /\ r.tries = 0
        /\ r.in = call[c].in /\ r.token = call[c].token
    BY <2>1, <2>3 DEF CallT
  <2>5. MaxTries \in Nat \ {0}
    BY SessionsAssumption
  <2>6. CallOK(r, Len(sess'), Len(tokens'))
    BY <2>1, <2>4, <2>5 DEF CallOK
  <2>7. call' = [call EXCEPT ![c] = r]
    BY <1>3, <2>3
  <2> QED
    BY <2>6, <2>7, CallSet
<1> QED
  BY <1>1, <1>2, <1>3 DEF Verifies

\* The code of a login is looked for.
LEMMA CompleteVerifyTypes ==
    ASSUME Types, NEW c \in Calls, CompleteVerify(c)
    PROVE  Types'
<1>1. Grows
  BY SameTables DEF CompleteVerify, NoTable
<1>2. CallType'
  <2>1. call[c].tries = 0 /\ user \in AccountType
    BY DEF CompleteVerify, At, Types, CallType, CallT, CallOK, UserType
  <2> QED
    BY <1>1, <2>1, VerifiesType, CallEnds DEF CompleteVerify, NoTable, Types
<1>3. (UserType /\ AttemptsType /\ SessType /\ TokensType /\ HistType /\ CountType)'
  BY DEF CompleteVerify, At, NoTable, Types, UserType, AttemptsType, SessType, TokensType,
     HistType, CountType
<1> QED
  BY <1>1, <1>2, <1>3 DEF Types

\* The code of a DisableTOTP is looked for.
LEMMA DisableVerifyTypes ==
    ASSUME Types, NEW c \in Calls, DisableVerify(c)
    PROVE  Types'
<1>1. Grows
  BY SameTables DEF DisableVerify, NoTable
<1>2. CallType'
  <2>1. call[c].tries = 0 /\ call[c].u \in AccountType
    BY DEF DisableVerify, At, Types, CallType, CallT, CallOK, UserType
  <2> QED
    BY <1>1, <2>1, VerifiesType, CallEnds DEF DisableVerify, NoTable, Types
<1>3. (UserType /\ AttemptsType /\ SessType /\ TokensType /\ HistType /\ CountType)'
  BY DEF DisableVerify, At, NoTable, Types, UserType, AttemptsType, SessType, TokensType,
     HistType, CountType
<1> QED
  BY <1>1, <1>2, <1>3 DEF Types

\* The compare-and-swap of a recovery code.
LEMMA ConsumeTypes ==
    ASSUME Types, NEW c \in Calls, Consume(c)
    PROVE  Types'
<1>1. Grows
  BY SameTables DEF Consume, OnlyUser
<1>2. call[c] \in CallT /\ CallOK(call[c], Len(sess), Len(tokens)) /\ call[c].at = "consume"
  BY DEF Consume, At, Types, CallType
<1>3. UserType'
  BY <1>2, SMTT(30) DEF Consume, Types, UserType, AccountType, CallT
<1>4. HistType'
  <2>1. [what |-> call[c].code, by |-> call[c].n] \in [what : Nat \X Nat, by : Nat]
    BY <1>2, SessionsAssumption, SMTT(30) DEF CallT, Numbers
  <2>2. CASE Unchanged(call[c].u.codes)
    BY <2>1, <2>2 DEF Consume, Types, HistType, HistT
  <2>3. CASE ~Unchanged(call[c].u.codes)
    BY <2>3 DEF Consume, Types, HistType
  <2> QED
    BY <2>2, <2>3
<1>5. CallType'
  <2>1. CASE Goes(c, call[c].goal)
    BY <2>1, <1>1, <1>2, CallGoes DEF CallOK, Types, Plain, Steps
  <2>2. CASE call' = [call EXCEPT ![c].at = "reread", ![c].tries = @ + 1]
    <3>1. call[c].tries + 1 \in 0 .. MaxTries
      <4>1. MaxTries \in Nat /\ call[c].tries \in Nat /\ call[c].tries < MaxTries
        BY <1>2, SessionsAssumption DEF CallOK, CallT
      <4> QED
        BY <4>1
    <3>2. PICK r \in CallT : r = [call[c] EXCEPT !.at = "reread", !.tries = @ + 1]
      BY <1>2, <3>1 DEF CallT, Steps
    <3>3. CallOK(r, Len(sess'), Len(tokens'))
      BY <1>2, <3>2 DEF CallOK, CallT, Consume, OnlyUser
    <3>4. call' = [call EXCEPT ![c] = r]
      BY <2>2, <3>2
    <3> QED
      BY <1>1, <3>3, <3>4, CallSet DEF Types
  <2> QED
    BY <2>1, <2>2 DEF Consume
<1>6. (AttemptsType /\ SessType /\ TokensType /\ CountType)'
  BY DEF Consume, At, OnlyUser, Types, AttemptsType, SessType, TokensType, CountType
<1> QED
  BY <1>1, <1>2, <1>3, <1>4, <1>5, <1>6 DEF Types

\* The row is read again after a failed swap.
LEMMA RereadTypes ==
    ASSUME Types, NEW c \in Calls, Reread(c)
    PROVE  Types'
<1>1. Grows
  BY SameTables DEF Reread, NoTable
<1>2. CallType'
  <2>1. CASE Ends(c)
    BY <2>1, <1>1, CallEnds DEF Types
  <2>2. CASE /\ call[c].tries < MaxTries /\ call[c].code \in user.codes
             /\ call' = [call EXCEPT ![c].at = "consume", ![c].u = user]
    <3>1. call[c] \in CallT /\ CallOK(call[c], Len(sess), Len(tokens)) /\ call[c].at = "reread"
      BY DEF Reread, At, Types, CallType
    <3>2. PICK r \in CallT : r = [call[c] EXCEPT !.at = "consume", !.u = user]
      BY <3>1 DEF CallT, Steps, Types, UserType
    <3>3. call[c].goal \in {"reset", "disable"}
      BY <3>1 DEF CallOK
    <3>4. CallOK(r, Len(sess'), Len(tokens'))
      BY <2>2, <3>1, <3>2, <3>3 DEF CallOK, CallT, Reread, NoTable
    <3>5. call' = [call EXCEPT ![c] = r]
      BY <2>2, <3>2
    <3> QED
      BY <1>1, <3>4, <3>5, CallSet DEF Types
  <2> QED
    BY <2>1, <2>2 DEF Reread
<1>3. (UserType /\ AttemptsType /\ SessType /\ TokensType /\ HistType /\ CountType)'
  BY DEF Reread, At, NoTable, Types, UserType, AttemptsType, SessType, TokensType, HistType,
     CountType
<1> QED
  BY <1>1, <1>2, <1>3 DEF Types

\* A pending secret is stored.
LEMMA SetSecretTypes ==
    ASSUME Types, NEW c \in Calls, SetSecret(c)
    PROVE  Types'
<1>1. Grows
  BY SameTables DEF SetSecret, OnlyUser
<1>2. CallType'
  BY <1>1, CallGoes, CallEnds DEF SetSecret, Types, Plain, Steps
<1>3. UserType'
  BY SessionsAssumption DEF SetSecret, At, Types, UserType, AccountType, CallType, CallT
<1>4. (AttemptsType /\ SessType /\ TokensType /\ HistType /\ CountType)'
  BY DEF SetSecret, At, OnlyUser, Types, AttemptsType, SessType, TokensType, HistType,
     CountType
<1> QED
  BY <1>1, <1>2, <1>3, <1>4 DEF Types

\* TOTP is enabled.
LEMMA EnableTypes ==
    ASSUME Types, NEW c \in Calls, Enable(c)
    PROVE  Types'
<1>1. Grows
  BY SameTables DEF Enable, OnlyUser
<1>2. CallType'
  BY <1>1, CallGoes, CallEnds DEF Enable, Types, Plain, Steps
<1>3. UserType'
  <2>1. call[c].u.secret \in Numbers /\ call[c].n \in Numbers
    BY DEF Types, CallType, CallT, AccountType
  <2>2. CodesOf(call[c].n) \in SUBSET (Numbers \X (1 .. CodesPerUser))
    BY <2>1 DEF CodesOf
  <2> QED
    BY <2>1, <2>2 DEF Enable, Enabled, Types, UserType, AccountType
<1>4. HistType'
  BY SessionsAssumption DEF Enable, Types, HistType, HistT, CallType, CallT, AccountType
<1>5. (AttemptsType /\ SessType /\ TokensType /\ CountType)'
  BY DEF Enable, At, OnlyUser, Types, AttemptsType, SessType, TokensType, CountType
<1> QED
  BY <1>1, <1>2, <1>3, <1>4, <1>5 DEF Types

\* TOTP is disabled.
LEMMA DisableTypes ==
    ASSUME Types, NEW c \in Calls, Disable(c)
    PROVE  Types'
<1>1. Grows
  BY SameTables DEF Disable, OnlyUser
<1>2. CallType'
  BY <1>1, CallGoes, CallEnds DEF Disable, Types, Plain, Steps
<1>3. UserType'
  <2>1. 0 \in Numbers
    BY SessionsAssumption DEF Numbers
  <2> QED
    BY <2>1 DEF Disable, Types, UserType, AccountType
<1>4. HistType'
  BY SessionsAssumption DEF Disable, Types, HistType, HistT, Numbers
<1>5. (AttemptsType /\ SessType /\ TokensType /\ CountType)'
  BY DEF Disable, At, OnlyUser, Types, AttemptsType, SessType, TokensType, CountType
<1> QED
  BY <1>1, <1>2, <1>3, <1>4, <1>5 DEF Types

\* The old password is compared.
LEMMA ChangeCheckTypes ==
    ASSUME Types, NEW c \in Calls, ChangeCheck(c)
    PROVE  Types'
<1>1. Grows
  BY SameTables DEF ChangeCheck, NoTable
<1>2. CallType'
  BY <1>1, CallGoes, CallEnds DEF ChangeCheck, Types, Plain, Steps
<1>3. (UserType /\ AttemptsType /\ SessType /\ TokensType /\ HistType /\ CountType)'
  BY DEF ChangeCheck, At, NoTable, Types, UserType, AttemptsType, SessType, TokensType,
     HistType, CountType
<1> QED
  BY <1>1, <1>2, <1>3 DEF Types

\* A password is written.
LEMMA SetPasswordTypes ==
    ASSUME Types, NEW c \in Calls, SetPassword(c)
    PROVE  Types'
<1>1. Grows
  BY SameTables DEF SetPassword, OnlyUser
<1>2. CallType'
  BY <1>1, CallGoes, CallEnds DEF SetPassword, Types, Plain, Steps
<1>3. UserType'
  BY SessionsAssumption DEF SetPassword, At, Types, UserType, AccountType, CallType, CallT
<1>4. (AttemptsType /\ SessType /\ TokensType /\ HistType /\ CountType)'
  BY DEF SetPassword, At, OnlyUser, Types, AttemptsType, SessType, TokensType, HistType,
     CountType
<1> QED
  BY <1>1, <1>2, <1>3, <1>4 DEF Types

\* An admin writes the row.
LEMMA AdminUpdateTypes ==
    ASSUME Types, NEW c \in Calls, AdminUpdate(c)
    PROVE  Types'
<1>1. Grows
  BY SameTables DEF AdminUpdate, OnlyUser
<1>2. CallType'
  BY <1>1, CallGoes, CallEnds DEF AdminUpdate, Types, Plain, Steps
<1>3. UserType'
  <2>1. call[c].n \in Numbers /\ call[c].u.pw \in Numbers /\ user \in AccountType
    BY DEF Types, UserType, CallType, CallT, AccountType
  <2>2. CASE user' = [user EXCEPT !.pw = call[c].n]
    BY <2>1, <2>2 DEF UserType, AccountType
  <2>3. CASE user' = [user EXCEPT !.pw = call[c].u.pw]
    BY <2>1, <2>3 DEF UserType, AccountType
  <2> QED
    BY <2>2, <2>3 DEF AdminUpdate
<1>4. (AttemptsType /\ SessType /\ TokensType /\ HistType /\ CountType)'
  BY DEF AdminUpdate, At, OnlyUser, Types, AttemptsType, SessType, TokensType, HistType,
     CountType
<1> QED
  BY <1>1, <1>2, <1>3, <1>4 DEF Types

\* The must-set flag is cleared.
LEMMA ClearMustTypes ==
    ASSUME Types, NEW c \in Calls, ClearMust(c)
    PROVE  Types'
<1>1. Grows
  BY SameTables DEF ClearMust, OnlyUser
<1>2. CallType'
  BY <1>1, CallGoes, CallEnds DEF ClearMust, Types, Plain, Steps
<1>3. UserType'
  BY SessionsAssumption DEF ClearMust, At, Types, UserType, AccountType, CallType, CallT
<1>4. (AttemptsType /\ SessType /\ TokensType /\ HistType /\ CountType)'
  BY DEF ClearMust, At, OnlyUser, Types, AttemptsType, SessType, TokensType, HistType,
     CountType
<1> QED
  BY <1>1, <1>2, <1>3, <1>4 DEF Types

\* A token is consumed.
LEMMA RedeemTypes ==
    ASSUME Types, NEW c \in Calls, Redeem(c)
    PROVE  Types'
<1>1. TokensType' /\ Len(tokens') = Len(tokens) /\ UNCHANGED sess
  <2>1. tokens \in [1 .. Len(tokens) -> TokenT] /\ Len(tokens) \in Nat
    BY DEF Types, TokensType
  <2>2. [tokens EXCEPT ![call[c].token].used = TRUE] \in [1 .. Len(tokens) -> TokenT]
    BY <2>1 DEF TokenT
  <2> QED
    BY <2>1, <2>2 DEF Redeem, Types, TokensType
<1>2. Grows
  BY <1>1 DEF Grows, Types, SessType, TokensType
<1>3. CallType'
  BY <1>2, CallGoes, CallEnds DEF Redeem, Types, Plain, Steps
<1>4. HistType'
  <2>1. [what |-> call[c].token, by |-> call[c].n] \in [what : Nat, by : Nat]
    BY SessionsAssumption DEF Types, CallType, CallT, Numbers
  <2>2. CASE Consumable(call[c].token)
    BY <2>1, <2>2 DEF Redeem, Types, HistType, HistT
  <2>3. CASE ~Consumable(call[c].token)
    BY <2>3 DEF Redeem, Types, HistType
  <2> QED
    BY <2>2, <2>3
<1>5. (UserType /\ AttemptsType /\ SessType /\ CountType)'
  BY DEF Redeem, At, Types, UserType, AttemptsType, SessType, CountType
<1> QED
  BY <1>1, <1>2, <1>3, <1>4, <1>5 DEF Types

\* A statement fails.
LEMMA FailsTypes ==
    ASSUME Types, NEW c \in Calls, Fails(c)
    PROVE  Types'
<1>1. Grows
  BY SameTables DEF Fails
<1>2. CallType'
  BY <1>1, CallGoes, CallEnds DEF Fails, Types, Plain, Steps
<1>3. CountType'
  BY SessionsAssumption DEF Fails, Types, CountType
<1>4. (UserType /\ AttemptsType /\ SessType /\ TokensType /\ HistType)'
  BY DEF Fails, At, Types, UserType, AttemptsType, SessType, TokensType, HistType
<1> QED
  BY <1>1, <1>2, <1>3, <1>4 DEF Types

\* The session a call was given is active when the call begins.
Presents(r) ==
    /\ r.at # "refresh_revoke"
    /\ r.in # 0 => sess[r.in].live /\ sess[r.in].typ = IF r.at = "refresh_create" THEN "refresh" ELSE "challenge"

\* A call begins with a record that fits its first step.
BeginsWith(c, op, rec) ==
    /\ rec \in CallT /\ CallOK(rec, Len(sess), Len(tokens)) /\ Begins(c, op, rec) /\ rec.at # "idle"
    /\ rec.at = "enable" => rec.u = user /\ user.secret # 0
    /\ Presents(rec)

LEMMA BeginFits ==
    ASSUME Types, NEW c \in Calls, Begin(c)
    PROVE  \E op, rec : BeginsWith(c, op, rec)
<1> DEFINE Fit == \E op, rec : BeginsWith(c, op, rec)
<1>1. user \in AccountType /\ Idle \in CallT /\ CallOK(Idle, Len(sess), Len(tokens))
  BY IdleType DEF Types, UserType, SessType, TokensType
<1>2. /\ DOMAIN sess = 1 .. Len(sess) /\ Len(sess) \in Nat
      /\ DOMAIN tokens = 1 .. Len(tokens) /\ Len(tokens) \in Nat
  BY DEF Types, SessType, TokensType
<1>3. Refreshable \subseteq Nat /\ DOMAIN sess \subseteq Nat /\ DOMAIN tokens \subseteq Nat
  BY <1>2 DEF Refreshable
<1>4. ASSUME LoginBegin(c) PROVE Fit
  <2>1. PICK rec \in CallT : rec = [Idle EXCEPT !.at = "login", !.u = user]
    BY <1>1, <1>2, <1>3 DEF CallT, Steps
  <2>2. CallOK(rec, Len(sess), Len(tokens))
    BY <1>1, <1>2, <2>1 DEF CallOK, CallT, Idle
  <2>3. BeginsWith(c, "login", rec)
    BY <1>1, <1>4, <2>1, <2>2 DEF LoginBegin, BeginsWith, Presents, IsActive, Idle, CallT
  <2> QED
    BY <2>3
<1>5. ASSUME SetupBegin(c) PROVE Fit
  <2>1. PICK rec \in CallT : rec = [Idle EXCEPT !.at = "set_secret"]
    BY <1>1, <1>2, <1>3 DEF CallT, Steps
  <2>2. CallOK(rec, Len(sess), Len(tokens))
    BY <1>1, <1>2, <2>1 DEF CallOK, CallT, Idle
  <2>3. BeginsWith(c, "setup", rec)
    BY <1>1, <1>5, <2>1, <2>2 DEF SetupBegin, BeginsWith, Presents, IsActive, Idle, CallT
  <2> QED
    BY <2>3
<1>6. ASSUME NEW j \in DOMAIN sess, RefreshBegin(c, j) PROVE Fit
  <2>1. PICK rec \in CallT : rec = [Idle EXCEPT !.at = "refresh_create", !.in = j]
    BY <1>1, <1>2, <1>3 DEF CallT, Steps
  <2>2. CallOK(rec, Len(sess), Len(tokens))
    BY <1>1, <1>2, <2>1 DEF CallOK, CallT, Idle
  <2>3. BeginsWith(c, "refresh", rec)
    BY <1>1, <1>6, <2>1, <2>2 DEF RefreshBegin, BeginsWith, Presents, IsActive, Idle, CallT
  <2> QED
    BY <2>3
<1>7. ASSUME NEW j \in DOMAIN sess, CompleteBegin(c, j) PROVE Fit
  <2>1. PICK rec \in CallT : rec = [Idle EXCEPT !.at = "code", !.in = j]
    BY <1>1, <1>2, <1>3 DEF CallT, Steps
  <2>2. CallOK(rec, Len(sess), Len(tokens))
    BY <1>1, <1>2, <2>1 DEF CallOK, CallT, Idle
  <2>3. BeginsWith(c, "complete", rec)
    BY <1>1, <1>7, <2>1, <2>2 DEF CompleteBegin, BeginsWith, Presents, IsActive, Idle, CallT
  <2> QED
    BY <2>3
<1>8. ASSUME NEW j \in Refreshable, ConfirmBegin(c, j) PROVE Fit
  <2>1. PICK rec \in CallT : rec = [Idle EXCEPT !.at = "enable", !.u = user, !.keep = j]
    BY <1>1, <1>2, <1>3 DEF CallT, Steps
  <2>2. CallOK(rec, Len(sess), Len(tokens))
    BY <1>1, <1>2, <2>1 DEF CallOK, CallT, Idle
  <2>3. BeginsWith(c, "confirm", rec)
    BY <1>1, <1>8, <2>1, <2>2 DEF ConfirmBegin, BeginsWith, Presents, IsActive, Idle, CallT
  <2> QED
    BY <2>3
<1>9. ASSUME NEW j \in Refreshable, DisableBegin(c, j) PROVE Fit
  <2>1. PICK rec \in CallT : rec = [Idle EXCEPT !.at = "disable_verify", !.u = user, !.keep = j]
    BY <1>1, <1>2, <1>3 DEF CallT, Steps
  <2>2. CallOK(rec, Len(sess), Len(tokens))
    BY <1>1, <1>2, <2>1 DEF CallOK, CallT, Idle
  <2>3. BeginsWith(c, "disable", rec)
    BY <1>1, <1>9, <2>1, <2>2 DEF DisableBegin, BeginsWith, Presents, IsActive, Idle, CallT
  <2> QED
    BY <2>3
<1>10. ASSUME NEW j \in Refreshable, ChangeBegin(c, j) PROVE Fit
  <2>1. PICK rec \in CallT : rec = [Idle EXCEPT !.at = "old_password", !.u = user, !.keep = j]
    BY <1>1, <1>2, <1>3 DEF CallT, Steps
  <2>2. CallOK(rec, Len(sess), Len(tokens))
    BY <1>1, <1>2, <2>1 DEF CallOK, CallT, Idle
  <2>3. BeginsWith(c, "change", rec)
    BY <1>1, <1>10, <2>1, <2>2 DEF ChangeBegin, BeginsWith, Presents, IsActive, Idle, CallT
  <2> QED
    BY <2>3
<1>11. ASSUME NEW goal \in {"set", "idle"}, AdminBegin(c, goal) PROVE Fit
  <2>1. PICK rec \in CallT : rec = [Idle EXCEPT !.at = "update", !.u = user, !.goal = goal]
    BY <1>1, <1>2, <1>3 DEF CallT, Steps
  <2>2. CallOK(rec, Len(sess), Len(tokens))
    BY <1>1, <1>2, <2>1 DEF CallOK, CallT, Idle
  <2>3. BeginsWith(c, "admin", rec)
    BY <1>1, <1>11, <2>1, <2>2 DEF AdminBegin, BeginsWith, Presents, IsActive, Idle, CallT
  <2> QED
    BY <2>3
<1>12. ASSUME NEW t \in DOMAIN tokens, RedeemBegin(c, t, "reset", "idle") PROVE Fit
  <2>1. PICK rec \in CallT : rec = [Idle EXCEPT !.at = "redeem", !.token = t, !.goal = "idle"]
    BY <1>1, <1>2, <1>3 DEF CallT, Steps
  <2>2. CallOK(rec, Len(sess), Len(tokens))
    BY <1>1, <1>2, <2>1 DEF CallOK, CallT, Idle
  <2>3. BeginsWith(c, "reset", rec)
    BY <1>1, <1>12, <2>1, <2>2 DEF RedeemBegin, BeginsWith, Presents, IsActive, Idle, CallT
  <2> QED
    BY <2>3
<1>13. ASSUME NEW t \in DOMAIN tokens, RedeemBegin(c, t, "invite", "accept") PROVE Fit
  <2>1. PICK rec \in CallT : rec = [Idle EXCEPT !.at = "redeem", !.token = t, !.goal = "accept"]
    BY <1>1, <1>2, <1>3 DEF CallT, Steps
  <2>2. CallOK(rec, Len(sess), Len(tokens))
    BY <1>1, <1>2, <2>1 DEF CallOK, CallT, Idle
  <2>3. BeginsWith(c, "invite", rec)
    BY <1>1, <1>13, <2>1, <2>2 DEF RedeemBegin, BeginsWith, Presents, IsActive, Idle, CallT
  <2> QED
    BY <2>3
<1> QED
  BY <1>4, <1>5, <1>6, <1>7, <1>8, <1>9, <1>10, <1>11, <1>12, <1>13 DEF Begin

\* A request comes in.
LEMMA BeginTypes ==
    ASSUME Types, NEW c \in Calls, Begin(c)
    PROVE  Types'
BY BeginFits, CallBegins DEF BeginsWith

LEMMA StepTypes ==
    ASSUME Types, NEW c \in Calls, Step(c)
    PROVE  Types'
BY LoginPasswordTypes, ResetAttemptsTypes, ChallengeTypes, IssueTypes, RefreshCreateTypes,
   RefreshRevokeTypes, RevokeAllTypes, CompleteAttemptTypes, CompleteVerifyTypes, ConsumeTypes,
   RereadTypes, RevokeUsedTypes, SetSecretTypes, EnableTypes, DisableVerifyTypes, DisableTypes,
   ChangeCheckTypes, SetPasswordTypes, AdminUpdateTypes, ClearMustTypes, RedeemTypes DEF Step

\* A session ends, a token is asked for, a lock expires.
LEMMA OtherTypes ==
    ASSUME Types,
           LockExpires \/ (\E j \in DOMAIN sess : Logout(j)) \/ (\E p \in {"reset", "invite"} : Ask(p))
    PROVE  Types'
<1>1. CASE LockExpires
  <2>1. Grows /\ UNCHANGED <<sess, tokens, call>>
    BY <1>1, SameTables DEF LockExpires
  <2>2. AttemptsType'
    BY <1>1 DEF LockExpires, Types, AttemptsType
  <2> QED
    BY <1>1, <2>1, <2>2 DEF LockExpires, Types, UserType, SessType, TokensType, CallType, HistType, CountType
<1>2. ASSUME NEW j \in DOMAIN sess, Logout(j) PROVE Types'
  <2>1. SessType' /\ Len(sess') = Len(sess)
    BY <1>2, RevokesType DEF Logout, Types
  <2>2. sess[j].root \in Nat
    <3>1. sess[j] \in RowT
      BY DEF Types, SessType
    <3> QED
      BY <3>1 DEF RowT
  <2>3. HistType'
    BY <1>2, <2>2 DEF Logout, Types, HistType, HistT
  <2>4. CountType'
    BY <1>2, SessionsAssumption DEF Logout, Types, CountType, Numbers
  <2>5. (UserType /\ AttemptsType /\ TokensType /\ CallType)'
    BY <1>2, <2>1 DEF Logout, OnlySessions, Types, UserType, AttemptsType, TokensType, CallType
  <2> QED
    BY <2>1, <2>3, <2>4, <2>5 DEF Types
<1>3. ASSUME NEW p \in {"reset", "invite"}, Ask(p) PROVE Types'
  <2>1. [purpose |-> p, used |-> FALSE] \in TokenT
    BY DEF TokenT
  <2>2. TokensType' /\ Len(tokens') = Len(tokens) + 1 /\ Len(tokens) \in Nat
    BY <1>3, <2>1 DEF Ask, Types, TokensType
  <2>3. CallType'
    <3>1. ASSUME NEW d \in Calls PROVE CallOK(call[d], Len(sess), Len(tokens) + 1)
      BY <2>2 DEF Types, CallType, CallOK
    <3> QED
      BY <1>3, <2>2, <3>1 DEF Ask, Types, CallType
  <2>4. CountType'
    BY <1>3, SessionsAssumption DEF Ask, Types, CountType, Numbers
  <2>5. (UserType /\ AttemptsType /\ SessType /\ HistType)'
    BY <1>3 DEF Ask, Types, UserType, AttemptsType, SessType, HistType
  <2> QED
    BY <2>2, <2>3, <2>4, <2>5 DEF Types
<1> QED
  BY <1>1, <1>2, <1>3

LEMMA ShortSeqs == \A S : <<>> \in Seq(S) /\ \A e \in S : <<e>> \in Seq(S)
OBVIOUS

\* The types hold at first.
LEMMA TypesInit == Init => Types
<1> SUFFICES ASSUME Init PROVE Types
  OBVIOUS
<1>1. 0 \in Numbers /\ 1 \in Numbers /\ 0 \in 0 .. MaxFaults /\ 0 \in 0 .. MaxFailures - 1
  BY SessionsAssumption DEF Numbers
<1>2. Idle \in CallT /\ CallOK(Idle, Len(sess), Len(tokens)) /\ SessType /\ TokensType
  <2>1. Row("refresh", 1, 0, FALSE) \in RowT /\ [purpose |-> "invite", used |-> FALSE] \in TokenT
    BY DEF Row, RowT, TokenT
  <2>2. SessType /\ TokensType
    <3>1. CASE sess = <<Row("refresh", 1, 0, FALSE)>> /\ tokens = <<>>
      BY <2>1, <3>1, ShortSeqs DEF SessType, TokensType
    <3>2. CASE sess = <<>> /\ tokens = <<[purpose |-> "invite", used |-> FALSE]>>
      BY <2>1, <3>2, ShortSeqs DEF SessType, TokensType
    <3> QED
      BY <3>1, <3>2 DEF Init
  <2> QED
    BY <2>2, IdleType DEF SessType, TokensType
<1>3. CallType /\ CountType /\ AttemptsType
  BY <1>1, <1>2 DEF Init, CallType, CountType, AttemptsType, NoAttempts
<1>4. \A t, m \in BOOLEAN : Account(t, m) \in AccountType /\ NoHistory(t) \in HistT
  BY <1>1 DEF Account, AccountType, CodesOf, NoHistory, HistT
<1>5. UserType /\ HistType
  BY <1>4 DEF Init, UserType, HistType
<1> QED
  BY <1>2, <1>3, <1>5 DEF Types

LEMMA TypesNext == Types /\ [Next]_vars => Types'
<1> SUFFICES ASSUME Types, [Next]_vars PROVE Types'
  OBVIOUS
<1>1. CASE UNCHANGED vars
  BY <1>1 DEF vars, Types, UserType, AttemptsType, SessType, TokensType, CallType, HistType, CountType
<1>2. CASE Next
  BY <1>2, OtherTypes, BeginTypes, StepTypes, FailsTypes DEF Next
<1> QED
  BY <1>1, <1>2

\* Every variable keeps its type: no interleaving of calls points at a session
\* or a token that is not there, or swaps more often than MaxTries.
THEOREM TypeSafe == Spec => []TypeOK
<1>1. Spec => []Types
  BY TypesInit, TypesNext, PTL DEF Spec
<1>2. Types => TypeOK
  <2> SUFFICES ASSUME Types PROVE TypeOK
    OBVIOUS
  <2>1. \A j \in DOMAIN sess : sess[j] \in RowT
    BY DEF Types, SessType
  <2>2. \A t \in DOMAIN tokens : tokens[t] \in TokenT
    BY DEF Types, TokensType
  <2>3. DOMAIN sess = 1 .. Len(sess) /\ DOMAIN tokens = 1 .. Len(tokens)
    BY DEF Types, SessType, TokensType
  <2>4. ASSUME NEW c \in Calls
        PROVE  /\ call[c].at \in Steps /\ call[c].u \in AccountType
               /\ call[c].in \in DOMAIN sess \union {0} /\ call[c].token \in DOMAIN tokens \union {0}
               /\ call[c].tries \in 0 .. MaxTries
    <3>1. call[c] \in CallT /\ CallOK(call[c], Len(sess), Len(tokens))
      BY DEF Types, CallType
    <3> QED
      BY <2>3, <3>1 DEF CallT, CallOK
  <2> QED
    BY <2>1, <2>2, <2>4 DEF TypeOK, Types, UserType, AttemptsType, CountType, RowT, TokenT
<1> QED
  BY <1>1, <1>2, PTL

-----------------------------------------------------------------------------
(* What a step leaves alone *)

SameTokens == tokens' = tokens /\ hist'.tokens = hist.tokens
SameGuesses == attempts' = attempts /\ hist'.guesses = hist.guesses
SameCodes == user'.codes = user.codes /\ hist'.codes = hist.codes /\ hist'.codesOf = hist.codesOf
SameSecret == user'.totp = user.totp /\ user'.secret = user.secret

\* No call begins: each one is as it was, goes on to a step other than "enable"
\* or ends.
Fades ==
    \A d \in Calls :
        \/ call'[d] = call[d]
        \/ call[d].at # "idle" /\ call'[d].n = call[d].n /\ call'[d].at \notin {"idle", "enable"}
        \/ call'[d] = Idle

\* One call ends or goes on.
LEMMA EndFades ==
    ASSUME CallType, NEW c \in Calls, Ends(c)
    PROVE  Fades
BY DEF CallType, Ends, Fades

LEMMA GoFades ==
    ASSUME CallType, NEW c \in Calls, NEW step \in Steps \ {"idle", "enable"}, Goes(c, step),
           call[c].at # "idle"
    PROVE  Fades
BY DEF CallType, CallT, Goes, Fades

LEMMA VerifyFades ==
    ASSUME CallType, NEW c \in Calls, NEW u, NEW goal \in {"reset", "disable"}, Verifies(c, u, goal),
           call[c].at # "idle"
    PROVE  Fades
<1>1. CASE Goes(c, goal)
  BY <1>1, GoFades DEF Steps
<1>2. CASE Ends(c)
  BY <1>2, EndFades
<1>3. ASSUME NEW k \in u.codes,
             call' = [call EXCEPT ![c].at = "consume", ![c].u = u, ![c].code = k, ![c].goal = goal]
      PROVE  Fades
  BY <1>3, SMTT(30) DEF CallType, CallT, Fades
<1> QED
  BY <1>1, <1>2, <1>3 DEF Verifies

\* Which steps touch the tokens, the guesses, the codes and the secret.
LEMMA Untouched ==
    ASSUME Types, NEW c \in Calls, Step(c) \/ Fails(c)
    PROVE  /\ Redeem(c) \/ SameTokens
           /\ LoginPassword(c) \/ CompleteAttempt(c) \/ ResetAttempts(c) \/ SameGuesses
           /\ Consume(c) \/ Enable(c) \/ Disable(c) \/ SameCodes
           /\ SetSecret(c) \/ Enable(c) \/ Disable(c) \/ SameSecret
           /\ Fades /\ ops' = ops
<1>1. user \in AccountType /\ hist \in HistT /\ CallType
  BY DEF Types, UserType, HistType
<1> USE DEF SameTokens, SameGuesses, SameCodes, SameSecret
<1>2. CASE LoginPassword(c)
  <2>1. SameTokens /\ SameCodes /\ SameSecret /\ ops' = ops
    BY <1>1, <1>2 DEF LoginPassword, At, OnlyAttempts, Rejected, Admitted, AccountType, HistT
  <2>2. Ends(c) \/ \E step \in {"challenge", "reset", "verify"} : Goes(c, step)
    BY <1>2 DEF LoginPassword, Rejected
  <2>3. Fades
    BY <1>1, <1>2, <2>2, EndFades, GoFades DEF LoginPassword, At, Steps
  <2> QED
    BY <1>2, <2>1, <2>3
<1>3. CASE ResetAttempts(c)
  <2>1. SameTokens /\ SameCodes /\ SameSecret /\ ops' = ops
    BY <1>1, <1>3 DEF ResetAttempts, At, OnlyAttempts, AccountType, HistT
  <2>2. Fades
    BY <1>1, <1>3, GoFades DEF ResetAttempts, At, Steps
  <2> QED
    BY <1>3, <2>1, <2>2
<1>4. CASE Challenge(c)
  <2>1. SameTokens /\ SameGuesses /\ SameCodes /\ SameSecret /\ ops' = ops
    BY <1>1, <1>4 DEF Challenge, At, OnlySessions, AccountType, HistT
  <2>2. Fades
    BY <1>1, <1>4, EndFades DEF Challenge, At, Steps
  <2> QED
    BY <1>4, <2>1, <2>2
<1>5. CASE Issue(c)
  <2>1. SameTokens /\ SameGuesses /\ SameCodes /\ SameSecret /\ ops' = ops
    BY <1>1, <1>5 DEF Issue, At, OnlySessions, AccountType, HistT
  <2>2. Fades
    BY <1>1, <1>5, EndFades DEF Issue, At, Steps
  <2> QED
    BY <1>5, <2>1, <2>2
<1>6. CASE RefreshCreate(c)
  <2>1. SameTokens /\ SameGuesses /\ SameCodes /\ SameSecret /\ ops' = ops
    BY <1>1, <1>6 DEF RefreshCreate, At, OnlySessions, AccountType, HistT
  <2>2. Fades
    BY <1>1, <1>6, GoFades DEF RefreshCreate, At, Steps
  <2> QED
    BY <1>6, <2>1, <2>2
<1>7. CASE RefreshRevoke(c)
  <2>1. SameTokens /\ SameGuesses /\ SameCodes /\ SameSecret /\ ops' = ops
    BY <1>1, <1>7 DEF RefreshRevoke, At, OnlySessions, AccountType, HistT
  <2>2. Fades
    BY <1>1, <1>7, EndFades DEF RefreshRevoke, At, Steps
  <2> QED
    BY <1>7, <2>1, <2>2
<1>8. CASE RevokeAll(c)
  <2>1. SameTokens /\ SameGuesses /\ SameCodes /\ SameSecret /\ ops' = ops
    BY <1>1, <1>8 DEF RevokeAll, At, OnlySessions, AccountType, HistT
  <2>2. Fades
    BY <1>1, <1>8, EndFades DEF RevokeAll, At, Steps
  <2> QED
    BY <1>8, <2>1, <2>2
<1>9. CASE CompleteAttempt(c)
  <2>1. SameTokens /\ SameCodes /\ SameSecret /\ ops' = ops
    BY <1>1, <1>9 DEF CompleteAttempt, At, OnlyAttempts, Rejected, Admitted, AccountType, HistT
  <2>2. Ends(c) \/ \E step \in {"challenge", "reset", "verify"} : Goes(c, step)
    BY <1>9 DEF CompleteAttempt, Rejected
  <2>3. Fades
    BY <1>1, <1>9, <2>2, EndFades, GoFades DEF CompleteAttempt, At, Steps
  <2> QED
    BY <1>9, <2>1, <2>3
<1>10. CASE CompleteVerify(c)
  <2>1. SameTokens /\ SameGuesses /\ SameCodes /\ SameSecret /\ ops' = ops
    BY <1>1, <1>10 DEF CompleteVerify, At, NoTable, AccountType, HistT
  <2>2. Fades
    BY <1>1, <1>10, VerifyFades, EndFades DEF CompleteVerify, At
  <2> QED
    BY <1>10, <2>1, <2>2
<1>11. CASE Consume(c)
  <2>1. SameTokens /\ SameGuesses /\ SameSecret /\ ops' = ops
    BY <1>1, <1>11 DEF Consume, At, OnlyUser, AccountType, HistT
  <2>2. Fades
    <3>1. call[c].goal \in {"reset", "disable"} /\ call[c].at = "consume"
      BY <1>1, <1>11 DEF Consume, At, CallType, CallOK
    <3>2. CASE Goes(c, call[c].goal)
      BY <1>1, <3>1, <3>2, GoFades DEF Steps
    <3>3. CASE call' = [call EXCEPT ![c].at = "reread", ![c].tries = @ + 1]
      BY <1>1, <3>1, <3>3 DEF CallType, CallT, Fades
    <3> QED
      BY <1>11, <3>2, <3>3 DEF Consume
  <2> QED
    BY <1>11, <2>1, <2>2
<1>12. CASE Reread(c)
  <2>1. SameTokens /\ SameGuesses /\ SameCodes /\ SameSecret /\ ops' = ops
    BY <1>1, <1>12 DEF Reread, At, NoTable, AccountType, HistT
  <2>2. Fades
    <3>1. CASE Ends(c)
      BY <1>1, <3>1, EndFades
    <3>2. CASE call' = [call EXCEPT ![c].at = "consume", ![c].u = user]
      BY <1>1, <1>12, <3>2 DEF Reread, At, CallType, CallT, Fades
    <3> QED
      BY <1>12, <3>1, <3>2 DEF Reread
  <2> QED
    BY <1>12, <2>1, <2>2
<1>13. CASE RevokeUsed(c)
  <2>1. SameTokens /\ SameGuesses /\ SameCodes /\ SameSecret /\ ops' = ops
    BY <1>1, <1>13 DEF RevokeUsed, At, OnlySessions, AccountType, HistT
  <2>2. Fades
    BY <1>1, <1>13, GoFades DEF RevokeUsed, At, Steps
  <2> QED
    BY <1>13, <2>1, <2>2
<1>14. CASE SetSecret(c)
  <2>1. SameTokens /\ SameGuesses /\ SameCodes /\ ops' = ops
    BY <1>1, <1>14 DEF SetSecret, At, OnlyUser, AccountType, HistT
  <2>2. Fades
    BY <1>1, <1>14, EndFades DEF SetSecret, At, Steps
  <2> QED
    BY <1>14, <2>1, <2>2
<1>15. CASE Enable(c)
  <2>1. SameTokens /\ SameGuesses /\ ops' = ops
    BY <1>1, <1>15 DEF Enable, At, OnlyUser, AccountType, HistT
  <2>2. Fades
    BY <1>1, <1>15, GoFades DEF Enable, At, Steps
  <2> QED
    BY <1>15, <2>1, <2>2
<1>16. CASE DisableVerify(c)
  <2>1. SameTokens /\ SameGuesses /\ SameCodes /\ SameSecret /\ ops' = ops
    BY <1>1, <1>16 DEF DisableVerify, At, NoTable, AccountType, HistT
  <2>2. Fades
    BY <1>1, <1>16, VerifyFades, EndFades DEF DisableVerify, At
  <2> QED
    BY <1>16, <2>1, <2>2
<1>17. CASE Disable(c)
  <2>1. SameTokens /\ SameGuesses /\ ops' = ops
    BY <1>1, <1>17 DEF Disable, At, OnlyUser, AccountType, HistT
  <2>2. Fades
    BY <1>1, <1>17, GoFades DEF Disable, At, Steps
  <2> QED
    BY <1>17, <2>1, <2>2
<1>18. CASE ChangeCheck(c)
  <2>1. SameTokens /\ SameGuesses /\ SameCodes /\ SameSecret /\ ops' = ops
    BY <1>1, <1>18 DEF ChangeCheck, At, NoTable, AccountType, HistT
  <2>2. Fades
    BY <1>1, <1>18, EndFades, GoFades DEF ChangeCheck, At, Steps
  <2> QED
    BY <1>18, <2>1, <2>2
<1>19. CASE SetPassword(c)
  <2>1. SameTokens /\ SameGuesses /\ SameCodes /\ SameSecret /\ ops' = ops
    BY <1>1, <1>19 DEF SetPassword, At, OnlyUser, AccountType, HistT
  <2>2. Fades
    BY <1>1, <1>19, GoFades DEF SetPassword, At, Steps
  <2> QED
    BY <1>19, <2>1, <2>2
<1>20. CASE AdminUpdate(c)
  <2>1. SameTokens /\ SameGuesses /\ SameCodes /\ SameSecret /\ ops' = ops
    BY <1>1, <1>20 DEF AdminUpdate, At, OnlyUser, AccountType, HistT
  <2>2. Fades
    BY <1>1, <1>20, EndFades, GoFades DEF AdminUpdate, At, Steps
  <2> QED
    BY <1>20, <2>1, <2>2
<1>21. CASE ClearMust(c)
  <2>1. SameTokens /\ SameGuesses /\ SameCodes /\ SameSecret /\ ops' = ops
    BY <1>1, <1>21 DEF ClearMust, At, OnlyUser, AccountType, HistT
  <2>2. Fades
    BY <1>1, <1>21, GoFades DEF ClearMust, At, Steps
  <2> QED
    BY <1>21, <2>1, <2>2
<1>22. CASE Redeem(c)
  <2>1. SameGuesses /\ SameCodes /\ SameSecret /\ ops' = ops
    BY <1>1, <1>22 DEF Redeem, At, AccountType, HistT
  <2>2. Fades
    BY <1>1, <1>22, EndFades, GoFades DEF Redeem, At, Steps
  <2> QED
    BY <1>22, <2>1, <2>2
<1>23. CASE Fails(c)
  <2>1. SameTokens /\ SameGuesses /\ SameCodes /\ SameSecret /\ ops' = ops
    BY <1>1, <1>23 DEF Fails, AccountType, HistT
  <2>2. Fades
    BY <1>1, <1>23, EndFades, GoFades DEF Fails, Steps
  <2> QED
    BY <1>23, <2>1, <2>2
<1> QED
  BY <1>2, <1>3, <1>4, <1>5, <1>6, <1>7, <1>8, <1>9, <1>10, <1>11, <1>12, <1>13, <1>14, <1>15,
     <1>16, <1>17, <1>18, <1>19, <1>20, <1>21, <1>22, <1>23 DEF Step

-----------------------------------------------------------------------------
(* Tokens, guesses and the secret *)

\* A call that begins has a number of its own and touches no table.
LEMMA BeginLeaves ==
    ASSUME Types, NEW c \in Calls, Begin(c)
    PROVE  /\ SameTokens /\ SameGuesses /\ SameCodes /\ SameSecret /\ hist' = hist /\ user' = user
           /\ ops' = ops + 1 /\ call[c] = Idle
           /\ \A d \in Calls \ {c} : call'[d] = call[d]
           /\ call'[c].n = ops + 1 /\ call'[c].at # "idle"
           /\ call'[c].at = "enable" => call'[c].u = user /\ user.secret # 0
           /\ sess' = sess /\ call'[c].from = hist.epoch /\ call'[c].in \in 0 .. Len(sess)
           /\ Presents(call'[c])
<1>1. PICK op, rec : BeginsWith(c, op, rec)
  BY BeginFits
<1>2. /\ call' = [call EXCEPT ![c] = [rec EXCEPT !.n = ops + 1, !.from = hist.epoch]]
      /\ call \in [Calls -> CallT]
  BY <1>1 DEF BeginsWith, Begins, Types, CallType
<1>3. /\ call'[c].n = ops + 1 /\ call'[c].at = rec.at /\ call'[c].u = rec.u
      /\ call'[c].in = rec.in /\ call'[c].from = hist.epoch
  BY <1>1, <1>2 DEF CallT, BeginsWith
<1>4. \A d \in Calls \ {c} : call'[d] = call[d]
  BY <1>2
<1>5. Presents(call'[c]) /\ call'[c].in \in 0 .. Len(sess)
  BY <1>1, <1>3 DEF BeginsWith, Presents, CallOK
<1> QED
  BY <1>1, <1>3, <1>4, <1>5 DEF BeginsWith, Begins, SameTokens, SameGuesses, SameCodes, SameSecret

\* A token that set a password is marked as used.
TokenInv ==
    /\ \A r \in hist.tokens : r.what \in DOMAIN tokens /\ tokens[r.what].used
    /\ TokensOnce

LEMMA TokenStep ==
    ASSUME Types, TokenInv, [Next]_vars
    PROVE  TokenInv'
<1>1. tokens \in Seq(TokenT) /\ Len(tokens) \in Nat /\ DOMAIN tokens = 1 .. Len(tokens) /\ hist \in HistT
  BY DEF Types, TokensType, HistType
<1>2. CASE SameTokens
  BY <1>2 DEF SameTokens, TokenInv, TokensOnce
<1>3. ASSUME NEW c \in Calls, Redeem(c) PROVE TokenInv'
  <2> DEFINE t == call[c].token
             e == [what |-> t, by |-> call[c].n]
  <2>1. CASE ~Consumable(t)
    BY <1>2, <1>3, <2>1 DEF Redeem, SameTokens
  <2>2. CASE Consumable(t)
    <3>1. t \in DOMAIN tokens /\ ~tokens[t].used
      BY <1>1, <1>3, <2>2 DEF Redeem, At, Consumable, Types, CallType, CallOK
    <3>2. tokens' = [tokens EXCEPT ![t].used = TRUE] /\ hist'.tokens = hist.tokens \union {e}
      BY <1>1, <1>3, <2>2 DEF Redeem, HistT
    <3>3. DOMAIN tokens' = DOMAIN tokens /\ \A x \in DOMAIN tokens : tokens[x].used => tokens'[x].used
      BY <1>1, <3>1, <3>2 DEF TokenT
    <3>4. tokens'[t].used
      BY <1>1, <3>1, <3>2 DEF TokenT
    <3>5. \A r \in hist.tokens : r.what # t
      BY <3>1 DEF TokenInv
    <3>6. \A r \in hist'.tokens : r \in hist.tokens \/ (r = e /\ r.what = t)
      BY <3>2
    <3>7. (\A r \in hist.tokens : r.what \in DOMAIN tokens /\ tokens[r.what].used)'
      BY <3>1, <3>3, <3>4, <3>6 DEF TokenInv
    <3>8. TokensOnce'
      BY <3>5, <3>6 DEF TokenInv, TokensOnce, Once
    <3> QED
      BY <3>7, <3>8 DEF TokenInv
  <2> QED
    BY <2>1, <2>2
<1>4. ASSUME NEW purpose \in {"reset", "invite"}, Ask(purpose) PROVE TokenInv'
  <2>1. \A x \in DOMAIN tokens : x \in DOMAIN tokens' /\ tokens'[x] = tokens[x]
    BY <1>1, <1>4 DEF Ask, TokenT
  <2> QED
    BY <1>4, <2>1 DEF Ask, TokenInv, TokensOnce
<1>5. ASSUME NEW c \in Calls, Begin(c) PROVE SameTokens
  BY <1>5, BeginLeaves
<1>6. ASSUME NEW j \in DOMAIN sess, Logout(j) PROVE SameTokens
  BY <1>1, <1>6 DEF Logout, OnlySessions, SameTokens, HistT
<1>7. CASE LockExpires \/ UNCHANGED vars
  BY <1>2, <1>7 DEF LockExpires, vars, SameTokens
<1> QED
  BY <1>2, <1>3, <1>4, <1>5, <1>6, <1>7, Untouched DEF Next

\* The counter is exact while the account is not locked.
GuessInv ==
    /\ attempts.lock = "none" => hist.guesses = attempts.fails
    /\ GuessesBounded

LEMMA GuessStep ==
    ASSUME Types, GuessInv, [Next]_vars
    PROVE  GuessInv'
<1>1. /\ attempts \in [fails : 0 .. MaxFailures - 1, lock : {"none", "on", "over"}]
      /\ hist \in HistT /\ hist.guesses \in Nat /\ MaxFailures \in Nat \ {0}
  BY SessionsAssumption DEF Types, AttemptsType, HistType, HistT
<1>2. CASE SameGuesses
  BY <1>2 DEF SameGuesses, GuessInv, GuessesBounded
<1>3. CASE Admitted
  <2>1. hist'.guesses = IF attempts.lock = "over" THEN 1 ELSE hist.guesses + 1
    BY <1>1, <1>3 DEF Admitted, HistT
  <2>2. attempts' = Record(attempts) /\ attempts.lock \in {"none", "over"}
    BY <1>1, <1>3 DEF Admitted
  <2>3. CASE attempts.lock = "over"
    BY <1>1, <2>1, <2>2, <2>3 DEF Record, GuessInv, GuessesBounded
  <2>4. CASE attempts.lock = "none"
    <3>1. hist'.guesses = attempts.fails + 1 /\ attempts.fails + 1 <= MaxFailures
      BY <1>1, <2>1, <2>4 DEF GuessInv
    <3> QED
      BY <1>1, <2>2, <2>4, <3>1 DEF Record, GuessInv, GuessesBounded
  <2> QED
    BY <2>2, <2>3, <2>4
<1>4. ASSUME NEW c \in Calls, LoginPassword(c) \/ CompleteAttempt(c) PROVE GuessInv'
  BY <1>2, <1>3, <1>4 DEF LoginPassword, CompleteAttempt, Rejected, SameGuesses
<1>5. ASSUME NEW c \in Calls, ResetAttempts(c) PROVE GuessInv'
  BY <1>1, <1>5 DEF ResetAttempts, NoAttempts, HistT, GuessInv, GuessesBounded
<1>6. CASE LockExpires
  BY <1>1, <1>6 DEF LockExpires, GuessInv, GuessesBounded
<1>7. ASSUME NEW c \in Calls, Begin(c) PROVE SameGuesses
  BY <1>7, BeginLeaves
<1>8. ASSUME NEW j \in DOMAIN sess, Logout(j) PROVE SameGuesses
  BY <1>1, <1>8 DEF Logout, OnlySessions, SameGuesses, HistT
<1>9. ASSUME NEW purpose \in {"reset", "invite"}, Ask(purpose) PROVE SameGuesses
  BY <1>9 DEF Ask, SameGuesses
<1>10. CASE UNCHANGED vars
  BY <1>2, <1>10 DEF vars, SameGuesses
<1> QED
  BY <1>2, <1>4, <1>5, <1>6, <1>7, <1>8, <1>9, <1>10, Untouched DEF Next

-----------------------------------------------------------------------------
(* The secret and the recovery codes *)

\* A call about to enable TOTP has read a secret.
SecretInv ==
    /\ EnabledHasSecret
    /\ \A c \in Calls : call[c].at = "enable" => call[c].u.secret # 0

\* Codes are named by the EnableTOTP that made them.  Calls have numbers of
\* their own, the codes that count are those of hist.codesOf, and a call about
\* to enable TOTP has a number no code has been redeemed under.
CodeInv ==
    /\ hist.codesOf \in 0 .. ops
    /\ \A r \in hist.codes : r.what[1] \in 0 .. ops /\ r.what \notin user.codes
    /\ \A c \in Calls : call[c].n \in 0 .. ops /\ (call[c].at # "idle" => call[c].n # 0)
    /\ \A c, d \in Calls : call[c].n = call[d].n /\ call[c].n # 0 => c = d
    /\ \A c \in Calls : call[c].at = "enable" =>
         call[c].n # hist.codesOf /\ \A r \in hist.codes : r.what[1] # call[c].n
    /\ CodesCurrent /\ RecoveryCodesOnce

\* The calls alone: a step that begins none and touches no code keeps both.
LEMMA FadedCalls ==
    ASSUME Types, Fades
    PROVE  /\ \A d \in Calls : call'[d].n \in {call[d].n, 0}
           /\ \A d \in Calls : call'[d].at # "idle" => call'[d].n = call[d].n /\ call[d].at # "idle"
           /\ \A d \in Calls : call'[d].at = "enable" => call'[d] = call[d]
BY DEF Fades, Idle

LEMMA SecretStep ==
    ASSUME Types, SecretInv, CodeInv, [Next]_vars
    PROVE  SecretInv'
<1>1. user \in AccountType /\ call \in [Calls -> CallT]
  BY DEF Types, UserType, CallType
<1>2. ASSUME NEW c \in Calls, Step(c) \/ Fails(c) PROVE SecretInv'
  <2>1. \A d \in Calls : call'[d].at = "enable" => call'[d].u.secret # 0
    BY <1>2, Untouched, FadedCalls DEF SecretInv
  <2>2. EnabledHasSecret'
    <3>1. CASE SameSecret
      BY <3>1 DEF SameSecret, SecretInv, EnabledHasSecret
    <3>2. CASE SetSecret(c)
      BY <1>1, <3>2 DEF SetSecret, At, CodeInv, EnabledHasSecret, AccountType
    <3>3. CASE Enable(c)
      BY <1>1, <3>3 DEF Enable, At, Enabled, SecretInv, EnabledHasSecret, AccountType
    <3>4. CASE Disable(c)
      BY <1>1, <3>4 DEF Disable, EnabledHasSecret, AccountType
    <3> QED
      BY <1>2, <3>1, <3>2, <3>3, <3>4, Untouched
  <2> QED
    BY <2>1, <2>2 DEF SecretInv
<1>3. ASSUME NEW c \in Calls, Begin(c) PROVE SecretInv'
  <2>1. \A d \in Calls : call'[d].at = "enable" => call'[d].u.secret # 0
    BY <1>3, BeginLeaves DEF SecretInv
  <2> QED
    BY <1>3, <2>1, BeginLeaves DEF SecretInv, EnabledHasSecret
<1>4. CASE UNCHANGED <<user, call>>
  BY <1>4 DEF SecretInv, EnabledHasSecret
<1> QED
  BY <1>2, <1>3, <1>4 DEF Next, vars, LockExpires, Logout, OnlySessions, Ask

LEMMA CodeStep ==
    ASSUME Types, CodeInv, [Next]_vars
    PROVE  CodeInv'
<1>1. /\ user \in AccountType /\ call \in [Calls -> CallT] /\ hist \in HistT
      /\ \A c \in Calls : CallOK(call[c], Len(sess), Len(tokens))
      /\ ops \in Nat /\ hist.codesOf \in Nat
  BY SessionsAssumption DEF Types, UserType, CallType, HistType, HistT, CountType, Numbers
<1>2. ASSUME NEW c \in Calls, Step(c) \/ Fails(c) PROVE CodeInv'
  <2>1. /\ ops' = ops
        /\ \A d \in Calls : call'[d].n \in {call[d].n, 0}
        /\ \A d \in Calls : call'[d].at # "idle" => call'[d].n = call[d].n /\ call[d].at # "idle"
        /\ \A d \in Calls : call'[d].at = "enable" => call'[d] = call[d]
    BY <1>2, Untouched, FadedCalls
  <2>2. (\A d \in Calls : call[d].n \in 0 .. ops /\ (call[d].at # "idle" => call[d].n # 0))'
    BY <1>1, <2>1 DEF CodeInv
  <2>3. (\A d, e \in Calls : call[d].n = call[e].n /\ call[d].n # 0 => d = e)'
    BY <1>1, <2>1 DEF CodeInv
  <2>4. CASE SameCodes
    <3>1. (\A d \in Calls : call[d].at = "enable" =>
            call[d].n # hist.codesOf /\ \A r \in hist.codes : r.what[1] # call[d].n)'
      BY <2>1, <2>4 DEF SameCodes, CodeInv
    <3> QED
      BY <2>1, <2>2, <2>3, <2>4, <3>1 DEF SameCodes, CodeInv, CodesCurrent, RecoveryCodesOnce
  <2>5. CASE Consume(c) /\ ~SameCodes
    <3> DEFINE k == call[c].code
               e == [what |-> k, by |-> call[c].n]
    <3>1. /\ k \in user.codes /\ user'.codes = user.codes \ {k}
          /\ hist'.codes = hist.codes \union {e} /\ hist'.codesOf = hist.codesOf
      BY <1>1, <2>5 DEF Consume, At, Unchanged, SameCodes, CallOK, HistT, AccountType
    <3>2. k[1] = hist.codesOf /\ \A r \in hist.codes : r.what # k
      BY <3>1 DEF CodeInv, CodesCurrent
    <3>3. \A r \in hist'.codes : r \in hist.codes \/ (r = e /\ r.what = k)
      BY <3>1
    <3>4. (\A d \in Calls : call[d].at = "enable" =>
            call[d].n # hist.codesOf /\ \A r \in hist.codes : r.what[1] # call[d].n)'
      BY <2>1, <3>1, <3>2, <3>3 DEF CodeInv
    <3>5. /\ (hist.codesOf \in 0 .. ops)'
          /\ (\A r \in hist.codes : r.what[1] \in 0 .. ops /\ r.what \notin user.codes)'
      BY <2>1, <3>1, <3>2, <3>3 DEF CodeInv
    <3>6. CodesCurrent' /\ RecoveryCodesOnce'
      BY <3>1, <3>2, <3>3 DEF CodeInv, CodesCurrent, RecoveryCodesOnce, Once
    <3> QED
      BY <2>2, <2>3, <3>4, <3>5, <3>6 DEF CodeInv
  <2>6. CASE Enable(c)
    <3> DEFINE n == call[c].n
    <3>1. user'.codes = CodesOf(n) /\ hist'.codesOf = n /\ hist'.codes = hist.codes /\ call[c].at = "enable"
      BY <1>1, <2>6 DEF Enable, Enabled, At, HistT, AccountType
    <3>2. call'[c].at # "enable" /\ n \in 0 .. ops /\ n # 0 /\ \A r \in hist.codes : r.what[1] # n
      BY <1>1, <2>6, <3>1 DEF Enable, Goes, CodeInv, CallT
    <3>3. \A k \in user'.codes : k[1] = n
      BY <3>1 DEF CodesOf
    <3>4. (\A d \in Calls : call[d].at = "enable" =>
            call[d].n # hist.codesOf /\ \A r \in hist.codes : r.what[1] # call[d].n)'
      BY <2>1, <3>1, <3>2 DEF CodeInv
    <3>5. (\A r \in hist.codes : r.what[1] \in 0 .. ops /\ r.what \notin user.codes)'
      BY <2>1, <3>1, <3>2, <3>3 DEF CodeInv
    <3>6. CodesCurrent' /\ RecoveryCodesOnce'
      BY <3>1, <3>3 DEF CodeInv, CodesCurrent, RecoveryCodesOnce
    <3> QED
      BY <2>1, <2>2, <2>3, <3>1, <3>2, <3>4, <3>5, <3>6 DEF CodeInv
  <2>7. CASE Disable(c)
    <3>1. user'.codes = {} /\ hist'.codesOf = 0 /\ hist'.codes = hist.codes
      BY <1>1, <2>7 DEF Disable, HistT, AccountType
    <3>2. (\A d \in Calls : call[d].at = "enable" =>
            call[d].n # hist.codesOf /\ \A r \in hist.codes : r.what[1] # call[d].n)'
      BY <2>1, <2>2, <3>1 DEF CodeInv
    <3> QED
      BY <1>1, <2>1, <2>2, <2>3, <3>1, <3>2 DEF CodeInv, CodesCurrent, RecoveryCodesOnce
  <2> QED
    BY <1>2, <2>4, <2>5, <2>6, <2>7, Untouched
<1>3. ASSUME NEW c \in Calls, Begin(c) PROVE CodeInv'
  <2>1. /\ hist' = hist /\ user' = user /\ ops' = ops + 1
        /\ \A d \in Calls \ {c} : call'[d] = call[d]
        /\ call'[c].n = ops + 1
    BY <1>3, BeginLeaves
  <2>2. (\A d \in Calls : call[d].n \in 0 .. ops /\ (call[d].at # "idle" => call[d].n # 0))'
    BY <1>1, <2>1 DEF CodeInv
  <2>3. (\A d, e \in Calls : call[d].n = call[e].n /\ call[d].n # 0 => d = e)'
    BY <1>1, <2>1 DEF CodeInv
  <2>4. (\A d \in Calls : call[d].at = "enable" =>
          call[d].n # hist.codesOf /\ \A r \in hist.codes : r.what[1] # call[d].n)'
    BY <1>1, <2>1 DEF CodeInv
  <2>5. /\ (hist.codesOf \in 0 .. ops)'
        /\ (\A r \in hist.codes : r.what[1] \in 0 .. ops /\ r.what \notin user.codes)'
    BY <1>1, <2>1 DEF CodeInv
  <2> QED
    BY <2>1, <2>2, <2>3, <2>4, <2>5 DEF CodeInv, CodesCurrent, RecoveryCodesOnce
<1>4. CASE /\ UNCHANGED <<call, user>> /\ ops' \in {ops, ops + 1}
           /\ hist'.codes = hist.codes /\ hist'.codesOf = hist.codesOf
  BY <1>1, <1>4 DEF CodeInv, CodesCurrent, RecoveryCodesOnce
<1>5. ASSUME NEW j \in DOMAIN sess, Logout(j) PROVE CodeInv'
  BY <1>1, <1>4, <1>5 DEF Logout, OnlySessions, HistT
<1>6. ASSUME NEW purpose \in {"reset", "invite"}, Ask(purpose) PROVE CodeInv'
  BY <1>4, <1>6 DEF Ask
<1>7. CASE LockExpires \/ UNCHANGED vars
  BY <1>4, <1>7 DEF LockExpires, vars
<1> QED
  BY <1>2, <1>3, <1>5, <1>6, <1>7 DEF Next

-----------------------------------------------------------------------------
(* Sessions *)

SameSessions == sess' = sess /\ hist'.ended = hist.ended /\ hist'.epoch = hist.epoch

Refreshes == {"refresh_create", "refresh_revoke"}

\* No call begins or goes on with a refresh: each is as it was, ends, or keeps
\* the session it was given.
Drifts ==
    \A d \in Calls :
        \/ call'[d] = call[d]
        \/ call'[d] = Idle
        \/ /\ call'[d].in = call[d].in /\ call'[d].from = call[d].from
           /\ call[d].at \notin Refreshes /\ call'[d].at \notin Refreshes

LEMMA EndDrifts ==
    ASSUME CallType, NEW c \in Calls, Ends(c)
    PROVE  Drifts
BY DEF CallType, Ends, Drifts

LEMMA GoDrifts ==
    ASSUME CallType, NEW c \in Calls, NEW step, Goes(c, step),
           step \notin Refreshes, call[c].at \notin Refreshes
    PROVE  Drifts
BY DEF CallType, CallT, Goes, Drifts

LEMMA VerifyDrifts ==
    ASSUME CallType, NEW c \in Calls, NEW u, NEW goal \in {"reset", "disable"}, Verifies(c, u, goal),
           call[c].at \notin Refreshes
    PROVE  Drifts
<1>1. CASE Goes(c, goal)
  BY <1>1, GoDrifts DEF Refreshes
<1>2. CASE Ends(c)
  BY <1>2, EndDrifts
<1>3. ASSUME NEW k \in u.codes,
             call' = [call EXCEPT ![c].at = "consume", ![c].u = u, ![c].code = k, ![c].goal = goal]
      PROVE  Drifts
  BY <1>3, SMTT(30) DEF CallType, CallT, Drifts, Refreshes
<1> QED
  BY <1>1, <1>2, <1>3 DEF Verifies

\* Only a refresh that has created its session goes on with it.
LEMMA CallsDrift ==
    ASSUME Types, NEW c \in Calls, Step(c) \/ Fails(c)
    PROVE  RefreshCreate(c) \/ Drifts
<1>1. CallType
  BY DEF Types
<1> USE DEF Refreshes
<1>2. CASE Challenge(c) \/ Issue(c) \/ RefreshRevoke(c) \/ RevokeAll(c) \/ SetSecret(c)
  BY <1>1, <1>2, EndDrifts DEF Challenge, Issue, RefreshRevoke, RevokeAll, SetSecret
<1>3. CASE LoginPassword(c)
  BY <1>1, <1>3, EndDrifts, GoDrifts DEF LoginPassword, At, Rejected
<1>4. CASE ResetAttempts(c)
  BY <1>1, <1>4, GoDrifts DEF ResetAttempts, At
<1>5. CASE CompleteAttempt(c)
  BY <1>1, <1>5, EndDrifts, GoDrifts DEF CompleteAttempt, At, Rejected
<1>6. CASE CompleteVerify(c)
  BY <1>1, <1>6, EndDrifts, VerifyDrifts DEF CompleteVerify, At
<1>7. CASE Consume(c)
  <2>1. call[c].goal \in {"reset", "disable"} /\ call[c].at = "consume"
    BY <1>1, <1>7 DEF Consume, At, CallType, CallOK
  <2>2. CASE Goes(c, call[c].goal)
    BY <1>1, <2>1, <2>2, GoDrifts
  <2>3. CASE call' = [call EXCEPT ![c].at = "reread", ![c].tries = @ + 1]
    BY <1>1, <2>1, <2>3 DEF CallType, CallT, Drifts
  <2> QED
    BY <1>7, <2>2, <2>3 DEF Consume
<1>8. CASE Reread(c)
  <2>1. CASE Ends(c)
    BY <1>1, <2>1, EndDrifts
  <2>2. CASE call' = [call EXCEPT ![c].at = "consume", ![c].u = user]
    BY <1>1, <1>8, <2>2 DEF Reread, At, CallType, CallT, Drifts
  <2> QED
    BY <1>8, <2>1, <2>2 DEF Reread
<1>9. CASE RevokeUsed(c) \/ Enable(c) \/ Disable(c)
  BY <1>1, <1>9, GoDrifts DEF RevokeUsed, Enable, Disable, At
<1>10. CASE DisableVerify(c)
  BY <1>1, <1>10, VerifyDrifts DEF DisableVerify, At
<1>11. CASE ChangeCheck(c)
  BY <1>1, <1>11, EndDrifts, GoDrifts DEF ChangeCheck, At
<1>12. CASE SetPassword(c) \/ ClearMust(c)
  BY <1>1, <1>12, GoDrifts DEF SetPassword, ClearMust, At
<1>13. CASE AdminUpdate(c)
  BY <1>1, <1>13, EndDrifts, GoDrifts DEF AdminUpdate, At
<1>14. CASE Redeem(c)
  BY <1>1, <1>14, EndDrifts, GoDrifts DEF Redeem, At
<1>15. CASE Fails(c)
  BY <1>1, <1>15, EndDrifts, GoDrifts DEF Fails
<1> QED
  BY <1>2, <1>3, <1>4, <1>5, <1>6, <1>7, <1>8, <1>9, <1>10, <1>11, <1>12, <1>13, <1>14, <1>15 DEF Step

\* Which steps touch the sessions.
LEMMA SessionSteps ==
    ASSUME Types, NEW c \in Calls, Step(c) \/ Fails(c)
    PROVE  \/ Challenge(c) \/ Issue(c) \/ RefreshCreate(c)
           \/ RefreshRevoke(c) \/ RevokeUsed(c) \/ RevokeAll(c)
           \/ SameSessions
<1>1. hist \in HistT
  BY DEF Types, HistType
<1> USE DEF SameSessions
<1>2. CASE LoginPassword(c) \/ CompleteAttempt(c) \/ ResetAttempts(c)
  BY <1>1, <1>2 DEF LoginPassword, CompleteAttempt, ResetAttempts, OnlyAttempts, Rejected, Admitted, HistT
<1>3. CASE CompleteVerify(c) \/ Reread(c) \/ DisableVerify(c) \/ ChangeCheck(c)
  BY <1>3 DEF CompleteVerify, Reread, DisableVerify, ChangeCheck, NoTable
<1>4. CASE Consume(c) \/ SetSecret(c) \/ Enable(c) \/ Disable(c)
  BY <1>1, <1>4 DEF Consume, SetSecret, Enable, Disable, OnlyUser, HistT
<1>5. CASE SetPassword(c) \/ AdminUpdate(c) \/ ClearMust(c)
  BY <1>5 DEF SetPassword, AdminUpdate, ClearMust, OnlyUser
<1>6. CASE Redeem(c) \/ Fails(c)
  BY <1>1, <1>6 DEF Redeem, Fails, HistT
<1> QED
  BY <1>2, <1>3, <1>4, <1>5, <1>6 DEF Step

\* CreateSession leaves the other rows as they are.
LEMMA CreateRows ==
    ASSUME Types, NEW c \in Calls, NEW typ \in {"refresh", "challenge"}, NEW sameRoot \in BOOLEAN,
           sameRoot => call[c].in # 0, Create(c, typ, sameRoot)
    PROVE  /\ Len(sess) \in Nat /\ DOMAIN sess = 1 .. Len(sess) /\ DOMAIN sess' = 1 .. Len(sess) + 1
           /\ \A j \in DOMAIN sess : sess'[j] = sess[j]
           /\ sess'[Len(sess) + 1].typ = typ /\ sess'[Len(sess) + 1].live
           /\ sameRoot => sess'[Len(sess) + 1].root = sess[call[c].in].root
           /\ call[c].in = 0 => sess'[Len(sess) + 1].auth = call[c].from
           /\ call[c].in # 0 => sess'[Len(sess) + 1].auth = sess[call[c].in].auth
           /\ call[c].from < hist.epoch => sess'[Len(sess) + 1].raced
           /\ call[c].in # 0 /\ sess[call[c].in].raced => sess'[Len(sess) + 1].raced
<1>1. SessType' /\ Len(sess') = Len(sess) + 1 /\ SessType
  BY CreateType DEF Types
<1>2. /\ Len(sess) \in Nat /\ DOMAIN sess = 1 .. Len(sess) /\ DOMAIN sess' = 1 .. Len(sess) + 1
  BY <1>1 DEF SessType
<1> DEFINE r == Row(typ,
            IF sameRoot THEN sess[call[c].in].root ELSE Len(sess) + 1,
            IF call[c].in = 0 THEN call[c].from ELSE sess[call[c].in].auth,
            call[c].from < hist.epoch \/ (call[c].in # 0 /\ sess[call[c].in].raced))
<1>3. sess' = Append(sess, r)
  BY DEF Create
<1>4. (\A j \in DOMAIN sess : sess'[j] = sess[j]) /\ sess'[Len(sess) + 1] = r
  BY <1>1, <1>2, <1>3 DEF SessType
<1>5. /\ r.typ = typ /\ r.live
      /\ r.root = IF sameRoot THEN sess[call[c].in].root ELSE Len(sess) + 1
      /\ r.auth = IF call[c].in = 0 THEN call[c].from ELSE sess[call[c].in].auth
      /\ r.raced = (call[c].from < hist.epoch \/ (call[c].in # 0 /\ sess[call[c].in].raced))
  BY DEF Row
<1> HIDE DEF r
<1> QED
  BY <1>2, <1>4, <1>5

\* RevokeSession ends one row and changes nothing else of it.
LEMMA RevokedRow ==
    ASSUME SessType, NEW j \in DOMAIN sess, Revokes(j)
    PROVE  /\ DOMAIN sess' = DOMAIN sess
           /\ \A k \in DOMAIN sess : /\ sess'[k].typ = sess[k].typ /\ sess'[k].root = sess[k].root
                                     /\ sess'[k].auth = sess[k].auth /\ sess'[k].raced = sess[k].raced
                                     /\ (sess'[k].live <=> sess[k].live /\ k # j)
<1>1. sess \in [1 .. Len(sess) -> RowT] /\ DOMAIN sess = 1 .. Len(sess)
  BY DEF SessType
<1>2. DOMAIN sess' = DOMAIN sess /\ \A k \in DOMAIN sess : k # j => sess'[k] = sess[k]
  BY <1>1 DEF Revokes
<1>3. sess'[j] = [sess[j] EXCEPT !.live = FALSE] /\ sess[j] \in RowT
  BY <1>1 DEF Revokes
<1>4. ASSUME NEW k \in DOMAIN sess
      PROVE  /\ sess'[k].typ = sess[k].typ /\ sess'[k].root = sess[k].root
             /\ sess'[k].auth = sess[k].auth /\ sess'[k].raced = sess[k].raced
             /\ (sess'[k].live <=> sess[k].live /\ k # j)
  <2>1. CASE k = j
    BY <1>3, <2>1 DEF RowT
  <2>2. CASE k # j
    <3>1. sess[k].live \in BOOLEAN
      BY <1>1 DEF RowT
    <3> QED
      BY <1>2, <2>2, <3>1
  <2> QED
    BY <2>1, <2>2
<1> QED
  BY <1>2, <1>4

\* While a refresh is about to end the old session, a newer one of the same
\* sign-in is active, or the sign-in has ended; only challenges are presented
\* outside refreshes.
Succeeded(j) ==
    \/ sess[j].root \in hist.ended
    \/ \E k \in DOMAIN sess : k > j /\ sess[k].root = sess[j].root /\ IsActive(k, "refresh")

SignInInv ==
    /\ RefreshKeepsSignIn
    /\ \A c \in Calls : call[c].at = "refresh_revoke" => sess[call[c].in].typ = "refresh" /\ Succeeded(call[c].in)
    /\ \A c \in Calls : call[c].at = "refresh_create" => sess[call[c].in].typ = "refresh"
    /\ \A c \in Calls : call[c].in # 0 /\ call[c].at \notin Refreshes => sess[call[c].in].typ = "challenge"

\* The calls alone: rows keep their types and roots, and what a call about to
\* revoke relied on still holds.
LEMMA SignInCalls ==
    ASSUME Types, SignInInv, Drifts,
           DOMAIN sess \subseteq DOMAIN sess',
           \A j \in DOMAIN sess : sess'[j].typ = sess[j].typ,
           \A c \in Calls : call'[c].at = "refresh_revoke" => Succeeded(call[c].in)',
           RefreshKeepsSignIn'
    PROVE  SignInInv'
<1>1. \A c \in Calls : call[c].in # 0 => call[c].in \in DOMAIN sess
  BY DEF Types, CallType, CallOK, SessType
<1>2. \A c \in Calls : call[c].at \in Refreshes => call[c].in # 0
  BY DEF Types, CallType, CallOK, Refreshes
<1>3. ASSUME NEW c \in Calls
      PROVE  /\ call'[c].at = "refresh_revoke" => sess'[call'[c].in].typ = "refresh" /\ Succeeded(call[c].in)'
             /\ call'[c].at = "refresh_create" => sess'[call'[c].in].typ = "refresh"
             /\ call'[c].in # 0 /\ call'[c].at \notin Refreshes => sess'[call'[c].in].typ = "challenge"
  BY <1>1, <1>2 DEF Drifts, SignInInv, Refreshes, Idle
<1> QED
  BY <1>3 DEF SignInInv

LEMMA SignInStep ==
    ASSUME Types, Types', SignInInv, [Next]_vars
    PROVE  SignInInv'
<1>1. /\ SessType /\ DOMAIN sess = 1 .. Len(sess) /\ Len(sess) \in Nat /\ hist \in HistT
      /\ \A c \in Calls : call[c].in \in 0 .. Len(sess)
      /\ \A c \in Calls : call[c].at \in {"refresh_create", "refresh_revoke", "revoke_used"}
                          => call[c].in \in DOMAIN sess /\ call[c].in # 0
  BY DEF Types, CallType, CallOK, SessType, HistType
<1>2. ASSUME NEW c \in Calls, Step(c) \/ Fails(c), SameSessions PROVE SignInInv'
  <2>1. Drifts
    <3>1. ASSUME RefreshCreate(c) PROVE FALSE
      <4>1. call[c].in # 0 /\ Create(c, "refresh", TRUE)
        BY <1>1, <3>1 DEF RefreshCreate, At, Refreshes
      <4>2. DOMAIN sess' = 1 .. Len(sess) + 1
        BY <4>1, CreateRows
      <4> QED
        BY <1>1, <1>2, <4>2 DEF SameSessions
    <3> QED
      BY <1>2, <3>1, CallsDrift
  <2>2. /\ RefreshKeepsSignIn'
        /\ \A d \in Calls : call'[d].at = "refresh_revoke" => Succeeded(call[d].in)'
    BY <1>2, <2>1 DEF SameSessions, SignInInv, RefreshKeepsSignIn, IsActive, Succeeded, Drifts, Refreshes, Idle
  <2> QED
    BY <1>2, <2>1, <2>2, SignInCalls DEF SameSessions
<1>3. ASSUME NEW c \in Calls, Challenge(c) \/ Issue(c) PROVE SignInInv'
  <2>1. PICK typ \in {"refresh", "challenge"} : Create(c, typ, FALSE)
    BY <1>3 DEF Challenge, Issue
  <2>2. /\ DOMAIN sess' = 1 .. Len(sess) + 1 /\ \A j \in DOMAIN sess : sess'[j] = sess[j]
        /\ sess'[Len(sess) + 1].live /\ sess'[Len(sess) + 1].typ = typ
    BY <2>1, CreateRows
  <2>3. Drifts /\ hist' = hist
    BY <1>3, EndDrifts DEF Challenge, Issue, Types
  <2>4. RefreshKeepsSignIn'
    BY <1>1, <2>2, <2>3 DEF SignInInv, RefreshKeepsSignIn, IsActive
  <2>5. ASSUME NEW d \in Calls, call'[d].at = "refresh_revoke" PROVE Succeeded(call[d].in)'
    <3>1. call'[d] = call[d]
      BY <2>3, <2>5 DEF Drifts, Idle, Refreshes
    <3> QED
      BY <1>1, <2>2, <2>3, <2>5, <3>1 DEF SignInInv, Succeeded, IsActive, Refreshes
  <2> QED
    BY <1>1, <2>2, <2>3, <2>4, <2>5, SignInCalls
<1>4. ASSUME NEW c \in Calls, RefreshCreate(c) PROVE SignInInv'
  <2> DEFINE i == call[c].in
  <2>1. i \in DOMAIN sess /\ i # 0 /\ Create(c, "refresh", TRUE) /\ hist' = hist /\ call[c].at = "refresh_create"
    BY <1>1, <1>4 DEF RefreshCreate, At, Refreshes
  <2>2. PICK m \in Nat :
        /\ m = Len(sess) + 1 /\ DOMAIN sess' = 1 .. m
        /\ \A j \in DOMAIN sess : sess'[j] = sess[j]
        /\ sess'[m].live /\ sess'[m].typ = "refresh" /\ sess'[m].root = sess[i].root
    <3>1. /\ DOMAIN sess' = 1 .. Len(sess) + 1 /\ sess'[Len(sess) + 1].live
          /\ sess'[Len(sess) + 1].typ = "refresh" /\ sess'[Len(sess) + 1].root = sess[i].root
          /\ \A j \in DOMAIN sess : sess'[j] = sess[j]
      BY <2>1, CreateRows, Zenon
    <3> QED
      BY <1>1, <3>1
  <2>3. /\ call'[c].in = i /\ call'[c].at = "refresh_revoke"
        /\ \A d \in Calls \ {c} : call'[d] = call[d]
    BY <1>4 DEF RefreshCreate, Goes, Types, CallType, CallT
  <2>4. RefreshKeepsSignIn'
    <3>1. ASSUME NEW j \in DOMAIN sess', sess'[j].typ = "refresh", sess'[j].root \notin hist.ended
          PROVE  \E k \in DOMAIN sess' : sess'[k].root = sess'[j].root /\ IsActive(k, "refresh")'
      <4>1. CASE j = m
        BY <2>2, <3>1, <4>1 DEF IsActive
      <4>2. CASE j \in DOMAIN sess
        <5>1. sess'[j] = sess[j] /\ sess[j].typ = "refresh" /\ sess[j].root \notin hist.ended
          BY <2>1, <2>2, <3>1, <4>2
        <5>2. PICK k \in DOMAIN sess : sess[k].root = sess[j].root /\ IsActive(k, "refresh")
          BY <4>2, <5>1 DEF SignInInv, RefreshKeepsSignIn
        <5>3. k \in DOMAIN sess' /\ sess'[k] = sess[k]
          BY <1>1, <2>2
        <5> QED
          BY <5>1, <5>2, <5>3 DEF IsActive
      <4> QED
        BY <1>1, <2>2, <4>1, <4>2
    <3> QED
      BY <2>1, <3>1 DEF RefreshKeepsSignIn
  <2>5. Succeeded(i)'
    BY <1>1, <2>1, <2>2, <2>3 DEF Succeeded, IsActive
  <2>6. ASSUME NEW d \in Calls \ {c}
        PROVE  /\ call'[d].at = "refresh_revoke" => sess'[call'[d].in].typ = "refresh" /\ Succeeded(call[d].in)'
               /\ call'[d].at = "refresh_create" => sess'[call'[d].in].typ = "refresh"
               /\ call'[d].in # 0 /\ call'[d].at \notin Refreshes => sess'[call'[d].in].typ = "challenge"
    BY <1>1, <2>1, <2>2, <2>3 DEF SignInInv, Succeeded, IsActive, Refreshes
  <2>7. sess'[i].typ = "refresh"
    BY <2>1, <2>2 DEF SignInInv
  <2> QED
    BY <2>3, <2>4, <2>5, <2>6, <2>7 DEF SignInInv, Refreshes
<1>5. ASSUME NEW c \in Calls, RefreshRevoke(c) PROVE SignInInv'
  <2> DEFINE i == call[c].in
  <2>1. i \in DOMAIN sess /\ Revokes(i) /\ hist' = hist /\ Succeeded(i) /\ sess[i].typ = "refresh" /\ Drifts
    BY <1>1, <1>5, EndDrifts DEF RefreshRevoke, At, Refreshes, SignInInv, Types
  <2>2. /\ DOMAIN sess' = DOMAIN sess
        /\ \A k \in DOMAIN sess : sess'[k].typ = sess[k].typ /\ sess'[k].root = sess[k].root
                                  /\ (sess'[k].live <=> sess[k].live /\ k # i)
    BY <1>1, <2>1, RevokedRow
  <2>3. RefreshKeepsSignIn'
    <3>1. ASSUME NEW j \in DOMAIN sess, sess[j].typ = "refresh", sess[j].root \notin hist.ended
          PROVE  \E k \in DOMAIN sess : k # i /\ sess[k].root = sess[j].root /\ IsActive(k, "refresh")
      <4>1. PICK k \in DOMAIN sess : sess[k].root = sess[j].root /\ IsActive(k, "refresh")
        BY <3>1 DEF SignInInv, RefreshKeepsSignIn
      <4>2. CASE k = i
        BY <1>1, <2>1, <3>1, <4>1, <4>2 DEF Succeeded
      <4> QED
        BY <4>1, <4>2
    <3> QED
      BY <2>1, <2>2, <3>1 DEF RefreshKeepsSignIn, IsActive
  <2>4. ASSUME NEW d \in Calls, call'[d].at = "refresh_revoke" PROVE Succeeded(call[d].in)'
    <3>1. call[d].at = "refresh_revoke" /\ call[d].in \in DOMAIN sess /\ Succeeded(call[d].in)
      BY <1>1, <2>1, <2>4 DEF Drifts, Idle, Refreshes, SignInInv
    <3>2. CASE sess[call[d].in].root \in hist.ended
      <4>1. call[d].in' = call[d].in
        BY <2>1, <2>4 DEF Drifts, Idle, Refreshes
      <4> QED
        BY <2>1, <2>2, <3>1, <3>2, <4>1 DEF Succeeded
    <3>3. ASSUME NEW k \in DOMAIN sess, k > call[d].in, sess[k].root = sess[call[d].in].root,
                 IsActive(k, "refresh"), sess[call[d].in].root \notin hist.ended
          PROVE  \E l \in DOMAIN sess : l > call[d].in /\ l # i /\ sess[l].root = sess[call[d].in].root
                                        /\ IsActive(l, "refresh")
      <4>1. CASE k = i
        BY <1>1, <2>1, <3>1, <3>3, <4>1 DEF Succeeded
      <4> QED
        BY <3>3, <4>1
    <3>4. call'[d].in = call[d].in
      BY <2>1, <2>4 DEF Drifts, Idle, Refreshes
    <3> QED
      BY <2>1, <2>2, <3>1, <3>2, <3>3, <3>4 DEF Succeeded, IsActive
  <2> QED
    BY <2>1, <2>2, <2>3, <2>4, SignInCalls
<1>6. ASSUME NEW c \in Calls, RevokeUsed(c) PROVE SignInInv'
  <2> DEFINE i == call[c].in
  <2>1. i \in DOMAIN sess /\ i # 0 /\ Revokes(i) /\ hist' = hist /\ sess[i].typ = "challenge"
    BY <1>1, <1>6 DEF RevokeUsed, At, Refreshes, SignInInv
  <2>2. Drifts
    BY <1>6, CallsDrift DEF Step, RevokeUsed, RefreshCreate, At
  <2>3. /\ DOMAIN sess' = DOMAIN sess
        /\ \A k \in DOMAIN sess : sess'[k].typ = sess[k].typ /\ sess'[k].root = sess[k].root
                                  /\ (sess'[k].live <=> sess[k].live /\ k # i)
    BY <1>1, <2>1, RevokedRow
  <2>4. \A k \in DOMAIN sess : IsActive(k, "refresh") => IsActive(k, "refresh")'
    BY <2>1, <2>3 DEF IsActive
  <2>5. RefreshKeepsSignIn'
    BY <2>1, <2>3, <2>4 DEF SignInInv, RefreshKeepsSignIn
  <2>6. ASSUME NEW d \in Calls, call'[d].at = "refresh_revoke" PROVE Succeeded(call[d].in)'
    <3>1. /\ call'[d].in = call[d].in /\ call[d].at = "refresh_revoke"
          /\ call[d].in \in DOMAIN sess /\ Succeeded(call[d].in)
      BY <1>1, <2>2, <2>6 DEF Drifts, Idle, Refreshes, SignInInv
    <3> QED
      BY <2>1, <2>3, <2>4, <3>1 DEF Succeeded
  <2> QED
    BY <2>2, <2>3, <2>5, <2>6, SignInCalls
<1>7. ASSUME NEW c \in Calls, RevokeAll(c) PROVE SignInInv'
  <2> DEFINE keep == call[c].keep
  <2>1. Drifts /\ sess' = AllRevokedBut(keep)
    BY <1>7, EndDrifts DEF RevokeAll, Types
  <2>2. hist'.ended = hist.ended \union {sess[j].root : j \in DOMAIN sess \ {keep}}
    BY <1>1, <1>7 DEF RevokeAll, HistT
  <2>3. /\ DOMAIN sess' = DOMAIN sess
        /\ \A k \in DOMAIN sess : /\ sess'[k].typ = sess[k].typ /\ sess'[k].root = sess[k].root
                                  /\ k = keep => sess'[k].live = sess[k].live
    <3>1. sess \in [1 .. Len(sess) -> RowT]
      BY <1>1 DEF SessType
    <3> QED
      BY <2>1, <3>1 DEF AllRevokedBut, RowT
  <2>4. \A j \in DOMAIN sess : sess[j].root \notin hist'.ended =>
          sess[j].root \notin hist.ended /\ \A k \in DOMAIN sess : sess[k].root = sess[j].root => k = keep
    BY <2>2
  <2>5. RefreshKeepsSignIn'
    BY <2>3, <2>4 DEF SignInInv, RefreshKeepsSignIn, IsActive
  <2>6. ASSUME NEW d \in Calls, call'[d].at = "refresh_revoke" PROVE Succeeded(call[d].in)'
    <3>1. /\ call'[d].in = call[d].in /\ call[d].at = "refresh_revoke"
          /\ call[d].in \in DOMAIN sess /\ Succeeded(call[d].in)
      BY <1>1, <2>1, <2>6 DEF Drifts, Idle, Refreshes, SignInInv
    <3>2. sess[call[d].in].root \in hist'.ended
      BY <1>1, <2>2, <2>4, <3>1 DEF Succeeded
    <3> QED
      BY <2>3, <3>1, <3>2 DEF Succeeded
  <2> QED
    BY <2>1, <2>3, <2>5, <2>6, SignInCalls
<1>8. ASSUME NEW c \in Calls, Begin(c) PROVE SignInInv'
  <2>1. /\ hist' = hist /\ sess' = sess /\ Presents(call'[c])
        /\ \A d \in Calls \ {c} : call'[d] = call[d]
    BY <1>8, BeginLeaves
  <2>2. RefreshKeepsSignIn'
    BY <2>1 DEF SignInInv, RefreshKeepsSignIn, IsActive
  <2>3. call'[c].at = "refresh_create" => call'[c].in # 0
    BY <1>8 DEF Types, CallType, CallOK
  <2>4. ASSUME NEW d \in Calls
        PROVE  /\ call'[d].at = "refresh_revoke" => sess'[call'[d].in].typ = "refresh" /\ Succeeded(call[d].in)'
               /\ call'[d].at = "refresh_create" => sess'[call'[d].in].typ = "refresh"
               /\ call'[d].in # 0 /\ call'[d].at \notin Refreshes => sess'[call'[d].in].typ = "challenge"
    BY <2>1, <2>3 DEF SignInInv, Presents, Succeeded, IsActive, Refreshes
  <2> QED
    BY <2>2, <2>4 DEF SignInInv
<1>9. ASSUME NEW j \in DOMAIN sess, Logout(j) PROVE SignInInv'
  <2>1. call' = call /\ Revokes(j) /\ hist'.ended = hist.ended \union {sess[j].root}
    BY <1>1, <1>9 DEF Logout, HistT
  <2>2. /\ DOMAIN sess' = DOMAIN sess
        /\ \A k \in DOMAIN sess : sess'[k].typ = sess[k].typ /\ sess'[k].root = sess[k].root
                                  /\ (sess'[k].live <=> sess[k].live /\ k # j)
    BY <1>1, <2>1, RevokedRow
  <2>3. RefreshKeepsSignIn'
    BY <2>1, <2>2 DEF SignInInv, RefreshKeepsSignIn, IsActive
  <2>4. \A d \in Calls : call'[d].at = "refresh_revoke" => Succeeded(call[d].in)'
    BY <1>1, <2>1, <2>2 DEF SignInInv, Succeeded, IsActive, Refreshes
  <2> QED
    BY <2>1, <2>2, <2>3, <2>4, SignInCalls DEF Drifts
<1>10. CASE UNCHANGED <<sess, call, hist>>
  BY <1>10 DEF SignInInv, RefreshKeepsSignIn, IsActive, Succeeded
<1>11. CASE LockExpires \/ (\E purpose \in {"reset", "invite"} : Ask(purpose)) \/ UNCHANGED vars
  BY <1>10, <1>11 DEF LockExpires, Ask, vars
<1> QED
  BY <1>2, <1>3, <1>4, <1>5, <1>6, <1>7, <1>8, <1>9, <1>11, SessionSteps DEF Next

\* A row that goes back to an older proof of identity, and may still be used,
\* came from a call that was overtaken; so will what a call makes of it.
RaceInv ==
    /\ \A j \in DOMAIN sess : sess[j].live /\ sess[j].auth < hist.epoch => sess[j].raced
    /\ \A c \in Calls : call[c].from <= hist.epoch
    /\ \A c \in Calls : call[c].in # 0 /\ sess[call[c].in].auth < hist.epoch =>
         call[c].from < hist.epoch \/ sess[call[c].in].raced

\* No call begins: each keeps the session it was given or ends.
LEMMA RaceCalls ==
    ASSUME Types, NEW c \in Calls, RefreshCreate(c) \/ Drifts
    PROVE  \A d \in Calls : \/ call'[d].in = call[d].in /\ call'[d].from = call[d].from
                            \/ call'[d].in = 0 /\ call'[d].from = 0
<1>1. call \in [Calls -> CallT]
  BY DEF Types, CallType
<1>2. CASE RefreshCreate(c)
  <2>1. call' = [call EXCEPT ![c].at = "refresh_revoke"]
    BY <1>2 DEF RefreshCreate, Goes
  <2>2. \A d \in Calls : call'[d].in = call[d].in /\ call'[d].from = call[d].from
    BY <1>1, <2>1 DEF CallT
  <2> QED
    BY <2>2
<1>3. CASE Drifts
  <2>1. Idle.in = 0 /\ Idle.from = 0
    BY DEF Idle
  <2> QED
    BY <1>3, <2>1 DEF Drifts
<1> QED
  BY <1>2, <1>3

LEMMA RaceStep ==
    ASSUME Types, RaceInv, [Next]_vars
    PROVE  RaceInv'
<1>1. /\ SessType /\ DOMAIN sess = 1 .. Len(sess) /\ Len(sess) \in Nat /\ hist \in HistT
      /\ \A c \in Calls : call[c].in \in 0 .. Len(sess) /\ call[c].from \in Nat
      /\ \A c \in Calls : call[c].in # 0 => call[c].in \in DOMAIN sess
      /\ \A c \in Calls : call[c].at \in {"refresh_create", "refresh_revoke", "revoke_used"}
                          => call[c].in \in DOMAIN sess /\ call[c].in # 0
      /\ hist.epoch \in Nat /\ \A j \in DOMAIN sess : sess[j].auth \in Nat
  <2>1. \A j \in DOMAIN sess : sess[j] \in RowT
    BY DEF Types, SessType
  <2> QED
    BY <2>1 DEF Types, CallType, CallOK, CallT, SessType, HistType, HistT, RowT
<1> DEFINE Kept == \A d \in Calls : \/ call'[d].in = call[d].in /\ call'[d].from = call[d].from
                                    \/ call'[d].in = 0 /\ call'[d].from = 0
<1>2. ASSUME NEW c \in Calls, Step(c) \/ Fails(c) PROVE Kept
  BY <1>2, CallsDrift, RaceCalls
<1>3. ASSUME Kept, hist'.epoch = hist.epoch, DOMAIN sess \subseteq DOMAIN sess',
             \A j \in DOMAIN sess : sess'[j].auth = sess[j].auth /\ sess'[j].raced = sess[j].raced,
             \A j \in DOMAIN sess' : sess'[j].live /\ sess'[j].auth < hist.epoch => sess'[j].raced
      PROVE  RaceInv'
  BY <1>1, <1>3 DEF RaceInv
<1>4. ASSUME Kept, SameSessions PROVE RaceInv'
  BY <1>3, <1>4 DEF SameSessions, RaceInv
<1>5. ASSUME NEW c \in Calls, NEW typ \in {"refresh", "challenge"}, NEW sameRoot \in BOOLEAN,
             sameRoot => call[c].in # 0, Create(c, typ, sameRoot), Kept, hist' = hist
      PROVE  RaceInv'
  <2>1. PICK m \in Nat : m = Len(sess) + 1
    BY <1>1
  <2>2. /\ DOMAIN sess' = 1 .. m
        /\ call[c].in = 0 => sess'[m].auth = call[c].from
        /\ call[c].in # 0 => sess'[m].auth = sess[call[c].in].auth
        /\ call[c].from < hist.epoch => sess'[m].raced
        /\ call[c].in # 0 /\ sess[call[c].in].raced => sess'[m].raced
        /\ \A j \in DOMAIN sess : sess'[j] = sess[j]
    BY <1>5, <2>1, CreateRows
  <2>3. sess'[m].auth < hist.epoch => sess'[m].raced
    BY <1>1, <2>2 DEF RaceInv
  <2>4. \A j \in DOMAIN sess' : sess'[j].live /\ sess'[j].auth < hist.epoch => sess'[j].raced
    BY <1>1, <2>1, <2>2, <2>3 DEF RaceInv
  <2> QED
    BY <1>1, <1>3, <1>5, <2>1, <2>2, <2>4
<1>6. ASSUME NEW j \in DOMAIN sess, Revokes(j), Kept, hist'.epoch = hist.epoch PROVE RaceInv'
  <2>1. /\ DOMAIN sess' = DOMAIN sess
        /\ \A k \in DOMAIN sess : /\ sess'[k].auth = sess[k].auth /\ sess'[k].raced = sess[k].raced
                                  /\ (sess'[k].live <=> sess[k].live /\ k # j)
    BY <1>1, <1>6, RevokedRow
  <2> QED
    BY <1>3, <1>6, <2>1 DEF RaceInv
<1>7. ASSUME NEW c \in Calls, Challenge(c) \/ Issue(c) PROVE RaceInv'
  BY <1>2, <1>5, <1>7 DEF Challenge, Issue, Step
<1>8. ASSUME NEW c \in Calls, RefreshCreate(c) PROVE RaceInv'
  <2>1. call[c].in # 0 /\ Create(c, "refresh", TRUE) /\ hist' = hist
    BY <1>1, <1>8 DEF RefreshCreate, At
  <2> QED
    BY <1>2, <1>5, <1>8, <2>1 DEF Step
<1>9. ASSUME NEW c \in Calls, RefreshRevoke(c) \/ RevokeUsed(c) PROVE RaceInv'
  <2>1. call[c].in \in DOMAIN sess /\ Revokes(call[c].in) /\ hist' = hist
    BY <1>1, <1>9 DEF RefreshRevoke, RevokeUsed, At
  <2> QED
    BY <1>2, <1>6, <1>9, <2>1 DEF Step
<1>10. ASSUME NEW c \in Calls, RevokeAll(c) PROVE RaceInv'
  <2>1. hist'.epoch = hist.epoch + 1 /\ sess' = AllRevokedBut(call[c].keep)
    BY <1>1, <1>10 DEF RevokeAll, HistT
  <2>2. Kept
    BY <1>2, <1>10 DEF Step
  <2>3. ASSUME NEW j \in DOMAIN sess', sess'[j].live PROVE sess'[j].auth = hist.epoch + 1
    <3>1. sess[j] \in RowT /\ sess'[j] = IF j = call[c].keep THEN [sess[j] EXCEPT !.auth = hist.epoch + 1]
                                         ELSE [sess[j] EXCEPT !.live = FALSE]
      BY <1>1, <2>1, <2>3 DEF AllRevokedBut, SessType
    <3> QED
      BY <2>3, <3>1 DEF RowT
  <2>4. \A d \in Calls : call'[d].from <= hist.epoch /\ (call'[d].in # 0 => call'[d].from < hist.epoch + 1)
    BY <1>1, <2>2 DEF RaceInv
  <2> QED
    BY <1>1, <2>1, <2>2, <2>3, <2>4 DEF RaceInv
<1>11. ASSUME NEW c \in Calls, Begin(c) PROVE RaceInv'
  <2>1. /\ hist' = hist /\ sess' = sess /\ Presents(call'[c]) /\ call'[c].from = hist.epoch
        /\ call'[c].in \in 0 .. Len(sess)
        /\ \A d \in Calls \ {c} : call'[d] = call[d]
    BY <1>11, BeginLeaves
  <2>2. call'[c].in # 0 /\ sess'[call'[c].in].auth < hist.epoch => sess'[call'[c].in].raced
    BY <1>1, <2>1 DEF Presents, RaceInv
  <2>3. ASSUME NEW d \in Calls
        PROVE  /\ call'[d].from <= hist.epoch
               /\ call'[d].in # 0 /\ sess'[call'[d].in].auth < hist.epoch =>
                    call'[d].from < hist.epoch \/ sess'[call'[d].in].raced
    <3>1. CASE d = c
      BY <1>1, <2>1, <2>2, <3>1
    <3>2. CASE d # c
      BY <2>1, <3>2 DEF RaceInv
    <3> QED
      BY <3>1, <3>2
  <2> QED
    BY <2>1, <2>3 DEF RaceInv
<1>12. ASSUME NEW j \in DOMAIN sess, Logout(j) PROVE RaceInv'
  BY <1>1, <1>6, <1>12 DEF Logout, HistT
<1>13. CASE LockExpires \/ (\E purpose \in {"reset", "invite"} : Ask(purpose)) \/ UNCHANGED vars
  BY <1>4, <1>13 DEF LockExpires, Ask, vars, SameSessions
<1> QED
  BY <1>2, <1>4, <1>7, <1>8, <1>9, <1>10, <1>11, <1>12, <1>13, SessionSteps DEF Next

-----------------------------------------------------------------------------
(* The theorems *)

Inv == Types /\ TokenInv /\ GuessInv /\ SecretInv /\ CodeInv /\ SignInInv /\ RaceInv

LEMMA InvInit == Init => Inv
<1> SUFFICES ASSUME Init PROVE Inv
  OBVIOUS
<1>1. Types
  BY TypesInit
<1>2. PICK t, m \in BOOLEAN : user = Account(t, m) /\ hist = NoHistory(t)
  BY DEF Init
<1>3. TokenInv /\ GuessInv
  BY <1>2, SessionsAssumption DEF Init, NoHistory, NoAttempts, TokenInv, TokensOnce, Once,
     GuessInv, GuessesBounded
<1>4. SecretInv
  BY <1>2 DEF Init, Account, Idle, SecretInv, EnabledHasSecret
<1>5. CodeInv
  BY <1>2 DEF Init, Account, NoHistory, Idle, CodesOf, CodeInv, CodesCurrent, RecoveryCodesOnce, Once
<1>6. SignInInv /\ RaceInv
  <2>1. /\ hist.epoch = 0 /\ \A c \in Calls : call[c] = Idle
        /\ sess \in {<<>>, <<Row("refresh", 1, 0, FALSE)>>}
    BY <1>2 DEF Init, NoHistory
  <2>2. SignInInv
    BY <2>1 DEF SignInInv, RefreshKeepsSignIn, IsActive, Row, Idle, Refreshes
  <2>3. RaceInv
    BY <2>1 DEF RaceInv, Row, Idle
  <2> QED
    BY <2>2, <2>3
<1> QED
  BY <1>1, <1>3, <1>4, <1>5, <1>6 DEF Inv

LEMMA InvAlways == Spec => []Inv
<1>1. Inv /\ [Next]_vars => Inv'
  BY TypesNext, TokenStep, GuessStep, SecretStep, CodeStep, SignInStep, RaceStep DEF Inv
<1> QED
  BY <1>1, InvInit, PTL DEF Spec

\* A recovery code gets one call through, whatever calls interleave with the
\* compare-and-swap: the list a swap was computed from is the stored one, so the
\* code is still in it, and no code that was redeemed is ever stored again.
THEOREM CodesRedeemedOnce == Spec => []RecoveryCodesOnce
<1>1. Inv => RecoveryCodesOnce
  BY DEF Inv, CodeInv
<1> QED
  BY <1>1, InvAlways, PTL

\* The codes that are stored are those of the last EnableTOTP, none after a
\* DisableTOTP, however swaps and setups overlap.
THEOREM CodesOfLastEnable == Spec => []CodesCurrent
<1>1. Inv => CodesCurrent
  BY DEF Inv, CodeInv
<1> QED
  BY <1>1, InvAlways, PTL

\* A mailed token sets one password, however many calls have resolved it.
THEOREM TokensRedeemedOnce == Spec => []TokensOnce
<1>1. Inv => TokensOnce
  BY DEF Inv, TokenInv
<1> QED
  BY <1>1, InvAlways, PTL

\* At most MaxFailures guesses are let in between two completed logins or two
\* expiries of the lock, for passwords and codes together.
THEOREM GuessesAreBounded == Spec => []GuessesBounded
<1>1. Inv => GuessesBounded
  BY DEF Inv, GuessInv
<1> QED
  BY <1>1, InvAlways, PTL

\* TOTP is never enabled without a secret, however setup, confirmation and
\* disabling overlap.
THEOREM EnabledWithSecret == Spec => []EnabledHasSecret
<1>1. Inv => EnabledHasSecret
  BY DEF Inv, SecretInv
<1> QED
  BY <1>1, InvAlways, PTL

\* However calls overlap, codes and tokens work once, the codes are those last
\* shown, and an account with TOTP enabled can be signed in to.
THEOREM CredentialsStaySound == Spec => []CredentialsSound
<1>1. TypeOK /\ RecoveryCodesOnce /\ TokensOnce /\ CodesCurrent /\ EnabledHasSecret => CredentialsSound
  BY DEF CredentialsSound
<1> QED
  BY <1>1, TypeSafe, CodesRedeemedOnce, TokensRedeemedOnce, CodesOfLastEnable, EnabledWithSecret, PTL

\* A refresh never signs a client out, whatever overlaps with it and whatever
\* fails: the new session is stored before the old one is revoked, and a call
\* that revokes one has left a newer one behind.
THEOREM RefreshingKeepsSignIn == Spec => []RefreshKeepsSignIn
<1>1. Inv => RefreshKeepsSignIn
  BY DEF Inv, SignInInv
<1> QED
  BY <1>1, InvAlways, PTL

\* What a revocation was to end is ended: a session that goes back to an older
\* proof of identity comes from a call that was under way at the revocation.
THEOREM OnlyOvertakenCallsSurvive == Spec => []OnlyRacesSurvive
<1>1. Inv => OnlyRacesSurvive
  BY DEF Inv, RaceInv, OnlyRacesSurvive, IsActive
<1> QED
  BY <1>1, InvAlways, PTL

=============================================================================
