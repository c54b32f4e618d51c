------------------------------- MODULE Sessions -------------------------------
(***************************************************************************)
(* One account and the ways into it: AuthService, SessionManager,           *)
(* SessionStore, loginAttemptTracker and EmailTokenService                  *)
(* (internal/core/auth), with the use cases of internal/wiki/auth that call *)
(* them.                                                                    *)
(*                                                                          *)
(* No lock spans a request.  A call is a sequence of steps, each of which   *)
(* reads or writes the users table, the session table, the token table or   *)
(* the attempt counter, and calls interleave between steps.  What a call    *)
(* read it keeps in call[c].u and goes on using.                            *)
(*                                                                          *)
(* A password, a TOTP secret and a set of recovery codes are named by the   *)
(* number of the call that wrote them (1: before the behaviour began).      *)
(* Access tokens are left out: ValidateToken consults no session.           *)
(***************************************************************************)
EXTENDS Naturals, Sequences

CONSTANTS
    Calls,        \* requests that may be in progress at once
    Ops,          \* the operations that clients use
    CodesPerUser, \* recovery codes generated by one EnableTOTP
    MaxFailures,  \* loginMaxFailures
    MaxTries,     \* maxRecoveryCodeConsumeAttempts
    MaxOps,       \* bound: the number of the last call started
    MaxFaults     \* bound: failing database calls

AllOps == {"login", "complete", "refresh", "logout", "change", "admin",
           "forgot", "reset", "invite", "setup", "confirm", "disable"}

ASSUME SessionsAssumption ==
    /\ Ops \subseteq AllOps
    /\ {MaxFailures, MaxTries, CodesPerUser} \subseteq Nat \ {0}
    /\ MaxOps \in Nat \ {0} /\ MaxFaults \in Nat

VARIABLES
    user,      \* the account's row in users.db
    attempts,  \* its loginAttemptEntry
    sess,      \* the rows of sessions.db, in the order they were created
    tokens,    \* the rows of email_tokens.db
    call,      \* the requests in progress
    ops,       \* number of the last call started
    faults,    \* failures so far
    hist       \* history that the properties are about

vars == <<user, attempts, sess, tokens, call, ops, faults, hist>>

-----------------------------------------------------------------------------
(* The rows *)

CodesOf(g) == {g} \X (1 .. CodesPerUser)

Account(totp, must) ==
    [pw |-> 1, totp |-> totp, secret |-> IF totp THEN 1 ELSE 0,
     codes |-> IF totp THEN CodesOf(1) ELSE {}, must |-> must]

\* History: root is the sign-in a session goes back to, auth the epoch in which
\* the client proved who it is; raced: a revocation overtook the call.
Row(typ, root, auth, raced) ==
    [typ |-> typ, live |-> TRUE, root |-> root, auth |-> auth, raced |-> raced]

\* SessionStore.IsActive
IsActive(j, typ) == sess[j].live /\ sess[j].typ = typ

\* A call: the step it is at, its number, the row it read, the session it was
\* got with, the e-mail token, the session it is to spare, the recovery code,
\* the swaps that failed, what comes after, and (history) its first epoch.
Idle == [at |-> "idle", n |-> 0, u |-> Account(FALSE, FALSE), in |-> 0, token |-> 0,
         keep |-> 0, code |-> <<0, 0>>, tries |-> 0, goal |-> "idle", from |-> 0]

Steps == {"idle", "login", "challenge", "reset", "issue", "refresh_create", "refresh_revoke",
          "code", "verify", "consume", "reread", "revoke_used", "old_password", "set_password",
          "update", "clear_must", "redeem", "set_secret", "enable", "disable_verify", "disable",
          "revoke_all"}

\* history:
\*   epoch      how often the account's sessions were revoked
\*   ended      sign-ins that a logout, a revocation or expiry has ended
\*   codes, tokens   what was redeemed, by which call
\*   guesses    attempts admitted since the counter was last cleared
\*   codesOf    the EnableTOTP whose recovery codes count, 0 if none do
NoHistory(totp) ==
    [epoch |-> 0, ended |-> {}, codes |-> {}, tokens |-> {}, guesses |-> 0,
     codesOf |-> IF totp THEN 1 ELSE 0]

NoAttempts == [fails |-> 0, lock |-> "none"]

Init ==
    /\ \/ \E totp \in BOOLEAN :
            /\ user = Account(totp, FALSE) /\ hist = NoHistory(totp)
            /\ sess = <<Row("refresh", 1, 0, FALSE)>> /\ tokens = <<>>
       \/ /\ user = Account(FALSE, TRUE) /\ hist = NoHistory(FALSE)
          /\ sess = <<>> /\ tokens = <<[purpose |-> "invite", used |-> FALSE]>>
    /\ attempts = NoAttempts
    /\ call = [c \in Calls |-> Idle]
    /\ ops = 1 /\ faults = 0

-----------------------------------------------------------------------------
(* Calls *)

\* A request comes in.
Begins(c, op, rec) ==
    /\ op \in Ops /\ call[c] = Idle /\ ops < MaxOps
    /\ ops' = ops + 1
    /\ call' = [call EXCEPT ![c] = [rec EXCEPT !.n = ops + 1, !.from = hist.epoch]]
    /\ UNCHANGED <<user, attempts, sess, tokens, faults, hist>>

At(c, step) == call[c].at = step /\ UNCHANGED <<ops, faults>>
Goes(c, step) == call' = [call EXCEPT ![c].at = step]
Ends(c) == call' = [call EXCEPT ![c] = Idle]

\* What a step that writes one table leaves alone.
OnlyUser == UNCHANGED <<attempts, sess, tokens>>
OnlySessions == UNCHANGED <<user, attempts, tokens>>
OnlyAttempts == UNCHANGED <<user, sess, tokens>>
NoTable == UNCHANGED <<user, attempts, sess, tokens, hist>>

-----------------------------------------------------------------------------
(* loginAttemptTracker *)

Mutant_LocksLate(a) ==
    LET fails == (IF a.lock = "over" THEN 0 ELSE a.fails) + 1 IN
    IF fails > MaxFailures THEN [fails |-> 0, lock |-> "on"] ELSE [fails |-> fails, lock |-> "none"]

\* recordAttempt of an account that is not locked.
Record(a) ==
    LET fails == (IF a.lock = "over" THEN 0 ELSE a.fails) + 1 IN
    IF fails >= MaxFailures THEN [fails |-> 0, lock |-> "on"] ELSE [fails |-> fails, lock |-> "none"]

Admitted ==
    /\ attempts.lock # "on"
    /\ attempts' = Record(attempts)
    /\ hist' = [hist EXCEPT !.guesses = IF attempts.lock = "over" THEN 1 ELSE @ + 1]

Rejected(c) ==
    /\ attempts.lock = "on" /\ Ends(c)
    /\ UNCHANGED <<attempts, hist>>

\* lockedUntil passes.
LockExpires ==
    /\ attempts.lock = "on"
    /\ attempts' = [attempts EXCEPT !.lock = "over"]
    /\ UNCHANGED <<user, sess, tokens, call, ops, faults, hist>>

\* reset: the login is complete.
ResetAttempts(c) ==
    /\ At(c, "reset")
    /\ attempts' = NoAttempts /\ hist' = [hist EXCEPT !.guesses = 0]
    /\ Goes(c, IF call[c].in = 0 THEN "issue" ELSE "revoke_used")
    /\ OnlyAttempts

-----------------------------------------------------------------------------
(* SessionManager *)

\* CreateSession.  The session a call was given is the parent of the new one.
Create(c, typ, sameRoot) ==
    LET p == call[c].in IN
    sess' = Append(sess,
        Row(typ,
            IF sameRoot THEN sess[p].root ELSE Len(sess) + 1,
            IF p = 0 THEN call[c].from ELSE sess[p].auth,
            call[c].from < hist.epoch \/ (p # 0 /\ sess[p].raced)))

\* RevokeSession
Revokes(j) == sess' = [sess EXCEPT ![j].live = FALSE]

\* IssueSession, the last step of a login and of an accepted invite.
Issue(c) ==
    /\ At(c, "issue")
    /\ Create(c, "refresh", FALSE)
    /\ Ends(c) /\ OnlySessions /\ UNCHANGED hist

\* RefreshToken: the check that the old session is active ...
RefreshBegin(c, j) ==
    /\ IsActive(j, "refresh")
    /\ Begins(c, "refresh", [Idle EXCEPT !.at = "refresh_create", !.in = j])

Mutant_RevokedFirst(c) ==
    /\ At(c, "refresh_create")
    /\ IF sess[call[c].in].live
       THEN Revokes(call[c].in) /\ Goes(c, "refresh_create")
       ELSE Create(c, "refresh", TRUE) /\ Ends(c)
    /\ UNCHANGED hist /\ OnlySessions

\* ... the new session ...
RefreshCreate(c) ==
    /\ At(c, "refresh_create")
    /\ Create(c, "refresh", TRUE) /\ Goes(c, "refresh_revoke")
    /\ UNCHANGED hist /\ OnlySessions

\* ... and the end of the old one.
RefreshRevoke(c) ==
    /\ At(c, "refresh_revoke")
    /\ Revokes(call[c].in) /\ Ends(c)
    /\ UNCHANGED hist /\ OnlySessions

\* RevokeRefreshToken, and a session that passes its expires_at.
Logout(j) ==
    /\ "logout" \in Ops /\ ops < MaxOps /\ ops' = ops + 1
    /\ sess[j].live /\ Revokes(j)
    /\ hist' = [hist EXCEPT !.ended = @ \union {sess[j].root}]
    /\ UNCHANGED <<call, faults>> /\ OnlySessions

Mutant_RefreshOnly(keep) ==
    [j \in DOMAIN sess |->
        IF j = keep THEN [sess[j] EXCEPT !.auth = hist.epoch + 1]
        ELSE [sess[j] EXCEPT !.live = @ /\ sess[j].typ # "refresh"]]

\* RevokeAllSessionsForUserExcept: whatever their type.
AllRevokedBut(keep) ==
    [j \in DOMAIN sess |->
        IF j = keep THEN [sess[j] EXCEPT !.auth = hist.epoch + 1]
        ELSE [sess[j] EXCEPT !.live = FALSE]]

RevokeAll(c) ==
    /\ At(c, "revoke_all")
    /\ sess' = AllRevokedBut(call[c].keep)
    /\ hist' = [hist EXCEPT !.epoch = @ + 1,
                            !.ended = @ \union {sess[j].root : j \in DOMAIN sess \ {call[c].keep}}]
    /\ Ends(c) /\ OnlySessions

-----------------------------------------------------------------------------
(* AuthService: Login and CompleteTOTPLogin *)

\* GetUserByIdentifier
LoginBegin(c) == Begins(c, "login", [Idle EXCEPT !.at = "login", !.u = user])

\* The attempt is counted, then the password compared with the row that was read.
LoginPassword(c) ==
    /\ At(c, "login") /\ OnlyAttempts
    /\ \/ Rejected(c)
       \/ Admitted /\ Ends(c)
       \/ Admitted /\ Goes(c, IF call[c].u.totp THEN "challenge" ELSE "reset")

\* beginTOTPChallenge
Challenge(c) ==
    /\ At(c, "challenge")
    /\ Create(c, "challenge", FALSE) /\ Ends(c)
    /\ UNCHANGED hist /\ OnlySessions

\* CompleteTOTPLogin up to the check that the challenge is active.
CompleteBegin(c, j) ==
    /\ IsActive(j, "challenge")
    /\ Begins(c, "complete", [Idle EXCEPT !.at = "code", !.in = j])

CompleteAttempt(c) ==
    /\ At(c, "code") /\ OnlyAttempts
    /\ \/ Rejected(c)
       \/ Admitted /\ Goes(c, "verify")

\* verifyTOTPOrRecoveryCode up to the first swap: the code is a current TOTP
\* code, one of the recovery codes of the row just read, or neither.
Verifies(c, u, goal) ==
    \/ Goes(c, goal)
    \/ \E k \in u.codes :
         call' = [call EXCEPT ![c].at = "consume", ![c].u = u, ![c].code = k, ![c].goal = goal]
    \/ Ends(c)

CompleteVerify(c) ==
    /\ At(c, "verify") /\ NoTable
    /\ IF user.totp THEN Verifies(c, user, "reset") ELSE Ends(c)

Mutant_SwapAlways(old) == TRUE

\* ConsumeRecoveryCodeHash's WHERE: the stored codes are those that were read.
Unchanged(old) == user.codes = old

Consume(c) ==
    /\ At(c, "consume") /\ OnlyUser
    /\ LET k == call[c].code IN
       IF Unchanged(call[c].u.codes)
       THEN /\ user' = [user EXCEPT !.codes = call[c].u.codes \ {k}]
            /\ hist' = [hist EXCEPT !.codes = @ \union {[what |-> k, by |-> call[c].n]}]
            /\ Goes(c, call[c].goal)
       ELSE /\ call' = [call EXCEPT ![c].at = "reread", ![c].tries = @ + 1]
            /\ UNCHANGED <<user, hist>>

\* The row is read again and the code looked for among what is left.
Reread(c) ==
    /\ At(c, "reread") /\ NoTable
    /\ IF call[c].tries < MaxTries /\ call[c].code \in user.codes
       THEN call' = [call EXCEPT ![c].at = "consume", ![c].u = user]
       ELSE Ends(c)

\* The challenge is revoked after the code was accepted.
RevokeUsed(c) ==
    /\ At(c, "revoke_used")
    /\ Revokes(call[c].in) /\ Goes(c, "issue")
    /\ UNCHANGED hist /\ OnlySessions

-----------------------------------------------------------------------------
(* AuthService: setting TOTP up and disabling it *)

\* StartTOTPSetup with the right password.
SetupBegin(c) == ~user.totp /\ Begins(c, "setup", [Idle EXCEPT !.at = "set_secret"])

\* SetPendingTOTPSecret
SetSecret(c) ==
    /\ At(c, "set_secret")
    /\ user' = [user EXCEPT !.secret = call[c].n]
    /\ Ends(c) /\ UNCHANGED hist /\ OnlyUser

\* ConfirmTOTPSetup with a code that is valid for the secret just read.
ConfirmBegin(c, j) ==
    /\ ~user.totp /\ user.secret # 0
    /\ Begins(c, "confirm", [Idle EXCEPT !.at = "enable", !.u = user, !.keep = j])

\* EnableTOTP writes the secret that was read, not the one that is stored now.
Enabled(u, n) == [user EXCEPT !.totp = TRUE, !.secret = u.secret, !.codes = CodesOf(n)]

Enable(c) ==
    /\ At(c, "enable")
    /\ user' = Enabled(call[c].u, call[c].n)
    /\ hist' = [hist EXCEPT !.codesOf = call[c].n]
    /\ Goes(c, "revoke_all") /\ OnlyUser

\* DisableTOTP with the right password.
DisableBegin(c, j) ==
    user.totp /\ Begins(c, "disable", [Idle EXCEPT !.at = "disable_verify", !.u = user, !.keep = j])

DisableVerify(c) ==
    /\ At(c, "disable_verify") /\ NoTable
    /\ Verifies(c, call[c].u, "disable")

Disable(c) ==
    /\ At(c, "disable")
    /\ user' = [user EXCEPT !.totp = FALSE, !.secret = 0, !.codes = {}]
    /\ hist' = [hist EXCEPT !.codesOf = 0]
    /\ Goes(c, "revoke_all") /\ OnlyUser

-----------------------------------------------------------------------------
(* Passwords *)

\* ChangeOwnPasswordUseCase: DoesIDAndPasswordMatch,
ChangeBegin(c, j) == Begins(c, "change", [Idle EXCEPT !.at = "old_password", !.u = user, !.keep = j])

\* ChangeOwnPassword: the old password is compared again ...
ChangeCheck(c) ==
    /\ At(c, "old_password") /\ NoTable
    /\ IF user.pw = call[c].u.pw THEN Goes(c, "set_password") ELSE Ends(c)

\* ... and the new one written; the sessions are revoked afterwards.
\* UpdatePassword of a reset and of an invite is the same write.
SetPassword(c) ==
    /\ At(c, "set_password")
    /\ user' = [user EXCEPT !.pw = call[c].n]
    /\ Goes(c, IF call[c].goal = "accept" THEN "clear_must" ELSE "revoke_all")
    /\ UNCHANGED hist /\ OnlyUser

\* UpdateUserUseCase by an admin, with a new password (goal "set") or without.
AdminBegin(c, goal) ==
    Begins(c, "admin", [Idle EXCEPT !.at = "update", !.u = user, !.goal = goal])

\* UserStore.UpdateUser writes every column, the password that was read too.
AdminUpdate(c) ==
    /\ At(c, "update") /\ UNCHANGED hist /\ OnlyUser
    /\ IF call[c].goal = "set"
       THEN /\ user' = [user EXCEPT !.pw = call[c].n]
            /\ Goes(c, IF call[c].u.must THEN "clear_must" ELSE "revoke_all")
       ELSE user' = [user EXCEPT !.pw = call[c].u.pw] /\ Ends(c)

\* SetMustSetPassword(false), for the admin and for an accepted invite.
ClearMust(c) ==
    /\ At(c, "clear_must")
    /\ user' = [user EXCEPT !.must = FALSE]
    /\ Goes(c, IF call[c].goal = "set" THEN "revoke_all" ELSE "issue")
    /\ UNCHANGED hist /\ OnlyUser

\* RequestPasswordReset and ResendInvite: Issue a token.
Ask(purpose) ==
    /\ "forgot" \in Ops /\ ops < MaxOps /\ ops' = ops + 1
    /\ purpose = "invite" => user.must
    /\ tokens' = Append(tokens, [purpose |-> purpose, used |-> FALSE])
    /\ UNCHANGED <<user, attempts, sess, call, faults, hist>>

\* ConfirmPasswordReset and ConfirmInvite: Resolve the token ...
RedeemBegin(c, t, op, goal) ==
    /\ tokens[t].purpose = op /\ ~tokens[t].used
    /\ Begins(c, op, [Idle EXCEPT !.at = "redeem", !.token = t, !.goal = goal])

\* Consume's WHERE: consumed_at IS NULL.
Consumable(t) == ~tokens[t].used

\* ... and Consume it before the password is set.
Redeem(c) ==
    /\ At(c, "redeem")
    /\ LET t == call[c].token IN
       IF Consumable(t)
       THEN /\ tokens' = [tokens EXCEPT ![t].used = TRUE]
            /\ hist' = [hist EXCEPT !.tokens = @ \union {[what |-> t, by |-> call[c].n]}]
            /\ Goes(c, "set_password")
       ELSE Ends(c) /\ UNCHANGED <<tokens, hist>>
    /\ UNCHANGED <<user, attempts, sess>>

-----------------------------------------------------------------------------
(* Failures *)

\* A database call fails: the error is returned, except that a failure to
\* revoke is logged and the call goes on.
Fails(c) ==
    /\ call[c].at \notin {"idle", "login", "reset", "code"}
    /\ faults < MaxFaults /\ faults' = faults + 1
    /\ IF call[c].at = "revoke_used" THEN Goes(c, "issue") ELSE Ends(c)
    /\ UNCHANGED <<user, attempts, sess, tokens, ops, hist>>

-----------------------------------------------------------------------------

Refreshable == {j \in DOMAIN sess : sess[j].typ = "refresh"} \union {0}

Begin(c) ==
    \/ LoginBegin(c)
    \/ SetupBegin(c)
    \/ \E j \in DOMAIN sess : RefreshBegin(c, j) \/ CompleteBegin(c, j)
    \/ \E j \in Refreshable : ConfirmBegin(c, j) \/ DisableBegin(c, j) \/ ChangeBegin(c, j)
    \/ \E goal \in {"set", "idle"} : AdminBegin(c, goal)
    \/ \E t \in DOMAIN tokens : RedeemBegin(c, t, "reset", "idle") \/ RedeemBegin(c, t, "invite", "accept")

Step(c) ==
    \/ LoginPassword(c) \/ ResetAttempts(c) \/ Challenge(c) \/ Issue(c)
    \/ RefreshCreate(c) \/ RefreshRevoke(c) \/ RevokeAll(c)
    \/ CompleteAttempt(c) \/ CompleteVerify(c) \/ Consume(c) \/ Reread(c) \/ RevokeUsed(c)
    \/ SetSecret(c) \/ Enable(c) \/ DisableVerify(c) \/ Disable(c)
    \/ ChangeCheck(c) \/ SetPassword(c) \/ AdminUpdate(c) \/ ClearMust(c) \/ Redeem(c)

Next ==
    \/ LockExpires
    \/ \E j \in DOMAIN sess : Logout(j)
    \/ \E purpose \in {"reset", "invite"} : Ask(purpose)
    \/ \E c \in Calls : Begin(c) \/ Step(c) \/ Fails(c)

Spec == Init /\ [][Next]_vars

(***************************************************************************)
(* Properties                                                              *)
(***************************************************************************)

Numbers == 0 .. MaxOps

AccountType ==
    [pw : Numbers, totp : BOOLEAN, secret : Numbers,
     codes : SUBSET (Numbers \X (1 .. CodesPerUser)), must : BOOLEAN]

\* The type of every variable.
TypeOK ==
    /\ user \in AccountType
    /\ attempts.fails \in 0 .. MaxFailures - 1 /\ attempts.lock \in {"none", "on", "over"}
    /\ \A j \in DOMAIN sess : sess[j].typ \in {"refresh", "challenge"} /\ sess[j].live \in BOOLEAN
    /\ \A t \in DOMAIN tokens : tokens[t].purpose \in {"reset", "invite"}
    /\ \A c \in Calls :
         /\ call[c].at \in Steps /\ call[c].u \in AccountType
         /\ call[c].in \in DOMAIN sess \union {0} /\ call[c].token \in DOMAIN tokens \union {0}
         /\ call[c].tries \in 0 .. MaxTries
    /\ ops \in Numbers /\ faults \in 0 .. MaxFaults

Once(R) == \A a, b \in R : a.what = b.what => a = b

\* A recovery code gets one call through, however many present it at once
\* (ConsumeRecoveryCodeHash swaps only the list it was computed from).
RecoveryCodesOnce == Once(hist.codes)

\* A mailed token sets one password (EmailTokenStore.Consume).
TokensOnce == Once(hist.tokens)

\* No swap brings back a code of an earlier setup or of a disabled one, so the
\* codes that work are the ones the last EnableTOTP showed.
CodesCurrent == \A k \in user.codes : k[1] = hist.codesOf

\* An account with TOTP enabled can be completed: it has a secret, even when
\* two confirmations and a disable overlap.
EnabledHasSecret == user.totp => user.secret # 0

\* What may be used once is used once, what was replaced does not come back and
\* what is needed is there, whatever calls overlap.
CredentialsSound == TypeOK /\ RecoveryCodesOnce /\ TokensOnce /\ CodesCurrent /\ EnabledHasSecret

\* Passwords and codes together, at most MaxFailures guesses are let in until a
\* login is complete or the lock expires; a right password alone clears nothing.
GuessesBounded == hist.guesses <= MaxFailures

\* A refresh never signs a client out: until a logout, a revocation or expiry
\* ends a sign-in, it has an active refresh session, whatever fails.
RefreshKeepsSignIn ==
    \A j \in DOMAIN sess : sess[j].typ = "refresh" /\ sess[j].root \notin hist.ended
        => \E k \in DOMAIN sess : sess[k].root = sess[j].root /\ IsActive(k, "refresh")

\* A session that goes back to a proof of identity from before a revocation can
\* only come from a call that the revocation overtook: no token or challenge
\* kept from before gets anything from a call that begins after it.
OnlyRacesSurvive ==
    \A j \in DOMAIN sess : IsActive(j, "refresh") /\ sess[j].auth < hist.epoch => sess[j].raced

=============================================================================
