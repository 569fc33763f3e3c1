-------------------------------- MODULE Auth --------------------------------
(***************************************************************************)
(* The sessions of one account (src/modules/auth/auth.service.ts and the   *)
(* account operations of src/modules/users/users.service.ts): refresh      *)
(* tokens rotate, and end with a logout, a new password or a deactivation. *)
(*                                                                         *)
(* As in Scores, an action is one statement at READ COMMITTED.  The        *)
(* transactions here write the user and then revoke what is live; nothing  *)
(* tells their two statements and the commit apart, so they are one step.  *)
(***************************************************************************)
EXTENDS Naturals, FiniteSets

CONSTANTS
    Token,      \* refresh tokens that may be issued (a bound)
    Reset,      \* password reset tokens that may be issued (a bound)
    MaxGen,     \* bound: passwords the account may have had
    Request,    \* concurrent requests
    Null

Gen          == 0 .. MaxGen
RefreshToken == [gen : Gen,                       \* history: password it goes back to
                 parent : Token \cup {Null},      \* history: token it was rotated from
                 revoked : BOOLEAN, expired : BOOLEAN,
                 replacedBy : Token \cup {Null}]

ASSUME AuthAssumption ==
    /\ MaxGen \in Nat
    /\ Null \notin Token \cup Reset \cup RefreshToken \cup {"fresh", "expired", "used"}

VARIABLES
    active,      \* User.isActive
    gen,         \* which of its passwords the account has
    credential,  \* chosen by the owner, temporary, or temporary and expired
    token,       \* RefreshToken rows
    reset,       \* PasswordResetToken rows
    writes,      \* history: passwords written with each reset token
    pc,          \* what each request does next
    presented,   \* the token a refresh presents
    basis,       \* the password a session about to be issued goes back to
    issued,      \* the token a refresh has issued
    link,        \* the reset token a reset presents
    overlap      \* history: a session was being issued while sessions were revoked

user  == <<active, gen, credential>>
local == <<presented, basis, issued, link>>
vars  == <<user, token, reset, writes, pc, local, overlap>>

Live == {t \in Token : token[t] # Null /\ ~token[t].revoked}

(* Types; and a token names as its replacement one rotated from it.         *)
TypeOK ==
    /\ active \in BOOLEAN
    /\ gen \in Gen
    /\ credential \in {"own", "temporary", "expired"}
    /\ token \in [Token -> RefreshToken \cup {Null}]
    /\ reset \in [Reset -> {Null, "fresh", "expired", "used"}]
    /\ writes \in [Reset -> Nat]
    /\ pc \in [Request -> {"idle", "claim", "issue", "link", "revokeAll",
                           "change", "claimReset", "reset"}]
    /\ presented \in [Request -> Token \cup {Null}]
    /\ basis \in [Request -> Gen]
    /\ issued \in [Request -> Token \cup {Null}]
    /\ link \in [Request -> Reset \cup {Null}]
    /\ overlap \in BOOLEAN
    /\ \A t, u \in Token :
          token[t] # Null /\ token[t].replacedBy = u => token[u] # Null /\ token[u].parent = t

Init ==
    /\ active = TRUE
    /\ gen = 0
    /\ credential \in {"own", "temporary"}
    /\ token = [t \in Token |-> Null]
    /\ reset = [k \in Reset |-> Null]
    /\ writes = [k \in Reset |-> 0]
    /\ pc = [r \in Request |-> "idle"]
    /\ presented = [r \in Request |-> Null]
    /\ basis = [r \in Request |-> 0]
    /\ issued = [r \in Request |-> Null]
    /\ link = [r \in Request |-> Null]
    /\ overlap = FALSE

-----------------------------------------------------------------------------

Goto(r, label) == pc' = [pc EXCEPT ![r] = label]

Finish(r) ==
    /\ Goto(r, "idle")
    /\ presented' = [presented EXCEPT ![r] = Null]
    /\ basis' = [basis EXCEPT ![r] = 0]
    /\ issued' = [issued EXCEPT ![r] = Null]
    /\ link' = [link EXCEPT ![r] = Null]

Issuing == {r \in Request : pc[r] = "issue"}

(* updateMany .. WHERE revokedAt IS NULL, over the tokens of the account    *)
RevokeLive ==
    /\ token' = [t \in Token |-> IF t \in Live THEN [token[t] EXCEPT !.revoked = TRUE]
                                 ELSE token[t]]
    /\ overlap' = (overlap \/ Issuing # {})

-----------------------------------------------------------------------------
(* login *)

(* The client sends the password which the row read here has. *)
LoginRead(r) ==
    /\ pc[r] = "idle"
    /\ active                         \* else 401
    /\ credential # "expired"         \* else CREDENTIAL_EXPIRED
    /\ basis' = [basis EXCEPT ![r] = gen]
    /\ Goto(r, "issue")
    /\ UNCHANGED <<user, token, reset, writes, presented, issued, link, overlap>>

(* issueTokenPair, after a login or a claim.  The account's roles and       *)
(* profiles are there.                                                     *)
Issue(r) ==
    /\ pc[r] = "issue"
    /\ \E u \in Token :
          /\ token[u] = Null
          /\ token' = [token EXCEPT ![u] = [gen |-> basis[r], parent |-> presented[r],
                           revoked |-> FALSE, expired |-> FALSE, replacedBy |-> Null]]
          /\ IF presented[r] = Null
             THEN Finish(r)
             ELSE /\ issued' = [issued EXCEPT ![r] = u]
                  /\ Goto(r, "link")
                  /\ UNCHANGED <<presented, basis, link>>
    /\ UNCHANGED <<user, reset, writes, overlap>>

-----------------------------------------------------------------------------
(* refresh and logout *)

RefreshRead(r, t) ==
    /\ pc[r] = "idle"
    /\ token[t] # Null
    /\ ~token[t].expired
    /\ active
    /\ presented' = [presented EXCEPT ![r] = t]
    /\ Goto(r, "claim")
    /\ UNCHANGED <<user, token, reset, writes, basis, issued, link, overlap>>

ClaimableWithoutRecheck(t) == token[t] # Null
Claimable(t) == t \in Live

Claim(r) ==
    LET t == presented[r] IN
    /\ pc[r] = "claim"
    /\ \/ /\ Claimable(t)
          /\ token' = [token EXCEPT ![t].revoked = TRUE]
          /\ basis' = [basis EXCEPT ![r] = token[t].gen]
          /\ Goto(r, "issue")
       \/ /\ ~Claimable(t)            \* a replay
          /\ Goto(r, "revokeAll")
          /\ UNCHANGED <<token, basis>>
    /\ UNCHANGED <<user, reset, writes, presented, issued, link, overlap>>

LinkBackwards(r) ==
    /\ pc[r] = "link"
    /\ token' = [token EXCEPT ![issued[r]].replacedBy = presented[r]]
    /\ Finish(r)
    /\ UNCHANGED <<user, reset, writes, overlap>>

Link(r) ==
    /\ pc[r] = "link"
    /\ token' = [token EXCEPT ![presented[r]].replacedBy = issued[r]]
    /\ Finish(r)
    /\ UNCHANGED <<user, reset, writes, overlap>>

(* The second statement of a lost claim, and of a deactivation. *)
RevokeAll(r) ==
    /\ pc[r] = "revokeAll"
    /\ RevokeLive
    /\ Finish(r)
    /\ UNCHANGED <<user, reset, writes>>

Logout(t) ==
    /\ t \in Live
    /\ token' = [token EXCEPT ![t].revoked = TRUE]
    /\ UNCHANGED <<user, reset, writes, pc, local, overlap>>

-----------------------------------------------------------------------------
(* changePassword, resetPassword, reissueCredentialsForUser *)

(* The transaction that writes a password. *)
NewPassword(kind) ==
    /\ gen < MaxGen                   \* bound
    /\ gen' = gen + 1
    /\ credential' = kind
    /\ RevokeLive
    /\ UNCHANGED active

(* Its check of the current password is not repeated when it writes. *)
ChangeRead(r) ==
    /\ pc[r] = "idle"
    /\ Goto(r, "change")
    /\ UNCHANGED <<user, token, reset, writes, local, overlap>>

ChangeWrite(r) ==
    /\ pc[r] = "change"
    /\ NewPassword("own")
    /\ Finish(r)
    /\ UNCHANGED <<reset, writes>>

(* requestPasswordReset: a token for an account just deactivated is one     *)
(* issued just before.                                                     *)
RequestReset(k) ==
    /\ active
    /\ reset[k] = Null
    /\ reset' = [reset EXCEPT ![k] = "fresh"]
    /\ UNCHANGED <<user, token, writes, pc, local, overlap>>

ResetRead(r, k) ==
    /\ pc[r] = "idle"
    /\ reset[k] = "fresh"             \* else 401
    /\ link' = [link EXCEPT ![r] = k]
    /\ Goto(r, "claimReset")
    /\ UNCHANGED <<user, token, reset, writes, presented, basis, issued, overlap>>

SpendableWithoutRecheck(k) == reset[k] # Null

(* usedAt IS NULL; the expiry is not looked at again. *)
Spendable(k) == reset[k] \in {"fresh", "expired"}

ResetClaim(r) ==
    LET k == link[r] IN
    /\ pc[r] = "claimReset"
    /\ \/ /\ Spendable(k)
          /\ reset' = [reset EXCEPT ![k] = "used"]
          /\ Goto(r, "reset")
          /\ UNCHANGED local
       \/ /\ ~Spendable(k)            \* 401
          /\ Finish(r)
          /\ UNCHANGED reset
    /\ UNCHANGED <<user, token, writes, overlap>>

ResetKeepingSessions(r) ==
    /\ pc[r] = "reset"
    /\ gen < MaxGen
    /\ gen' = gen + 1
    /\ credential' = "own"
    /\ writes' = [writes EXCEPT ![link[r]] = @ + 1]
    /\ Finish(r)
    /\ UNCHANGED <<active, token, reset, overlap>>

ResetWrite(r) ==
    /\ pc[r] = "reset"
    /\ NewPassword("own")
    /\ writes' = [writes EXCEPT ![link[r]] = @ + 1]
    /\ Finish(r)
    /\ UNCHANGED reset

Reissue ==
    /\ NewPassword("temporary")
    /\ UNCHANGED <<reset, writes, pc, local>>

-----------------------------------------------------------------------------
(* setUserActive: two statements, no transaction *)

DeactivateOnly(r) ==
    /\ pc[r] = "idle"
    /\ active' = FALSE
    /\ UNCHANGED <<gen, credential, token, reset, writes, pc, local, overlap>>

Deactivate(r) ==
    /\ pc[r] = "idle"
    /\ active' = FALSE
    /\ Goto(r, "revokeAll")
    /\ UNCHANGED <<gen, credential, token, reset, writes, local, overlap>>

Reactivate ==
    /\ ~active
    /\ active' = TRUE
    /\ UNCHANGED <<gen, credential, token, reset, writes, pc, local, overlap>>

-----------------------------------------------------------------------------

(* Connection loss or crash: what is committed stays. *)
Abort(r) ==
    /\ pc[r] # "idle"
    /\ overlap' = (overlap \/ pc[r] = "revokeAll")
    /\ Finish(r)
    /\ UNCHANGED <<user, token, reset, writes>>

(* Time passes: expiresAt, and PASSWORD_TEMP_EXPIRY_DAYS. *)
Expire ==
    \/ /\ \E t \in Token : /\ token[t] # Null
                           /\ ~token[t].expired
                           /\ token' = [token EXCEPT ![t].expired = TRUE]
       /\ UNCHANGED <<user, reset, writes, pc, local, overlap>>
    \/ /\ \E k \in Reset : reset[k] = "fresh" /\ reset' = [reset EXCEPT ![k] = "expired"]
       /\ UNCHANGED <<user, token, writes, pc, local, overlap>>
    \/ /\ credential = "temporary"
       /\ credential' = "expired"
       /\ UNCHANGED <<active, gen, token, reset, writes, pc, local, overlap>>

Step(r) ==
    \/ Issue(r) \/ Claim(r) \/ Link(r) \/ RevokeAll(r)
    \/ ChangeWrite(r) \/ ResetClaim(r) \/ ResetWrite(r)

Next ==
    \/ \E r \in Request :
          \/ LoginRead(r) \/ ChangeRead(r) \/ Deactivate(r)
          \/ \E t \in Token : RefreshRead(r, t)
          \/ \E k \in Reset : ResetRead(r, k)
          \/ Step(r) \/ Abort(r)
    \/ \E t \in Token : Logout(t)
    \/ \E k \in Reset : RequestReset(k)
    \/ Reissue \/ Reactivate \/ Expire

Spec == Init /\ [][Next]_vars

-----------------------------------------------------------------------------
(* Properties *)

(* A refresh token is exchanged at most once, however many requests present *)
(* it at a time (auth.service.ts:158-165).                                 *)
OneSuccessor ==
    \A t, u \in Token : t # u /\ token[t] # Null /\ token[u] # Null /\ token[t].parent # Null
                            => token[t].parent # token[u].parent

(* A reset token writes at most one password, counting those which requests *)
(* that claimed it have yet to write (auth.service.ts:311-320).            *)
ResetUsedOnce ==
    \A k \in Reset : writes[k] + Cardinality({r \in Request : pc[r] = "reset" /\ link[r] = k}) <= 1

(* A new password ends every session built on an older one, unless one was  *)
(* being issued at that moment (auth.service.ts:210-223, 323-341;          *)
(* users.service.ts:188-194).                                              *)
SessionsFollowPassword ==
    ~overlap => \A t \in Live : token[t].gen = gen

(* A deactivated account has no live session, unless one was being issued   *)
(* or the handler was cut between its two statements                       *)
(* (users.service.ts:116-128).                                             *)
InactiveHasNoSession ==
    ~active /\ ~overlap /\ (\A r \in Request : pc[r] # "revokeAll") => Live = {}

(* What users.service.ts:123 says: deactivation kills live sessions; here,  *)
(* once no request is in progress.                                         *)
DeactivationKillsSessions ==
    ~active /\ (\A r \in Request : pc[r] = "idle") => Live = {}
=============================================================================
