----------------------------- MODULE Auth_proofs -----------------------------
(***************************************************************************)
(* Theorems about Auth, for any number of tokens, passwords and concurrent *)
(* requests.  The inductive invariant IInv says what a conditional update  *)
(* claims for the request that won it, until that request is done.         *)
(***************************************************************************)
EXTENDS Auth, FiniteSetTheorems, TLAPS

(* The locals of a request belong to what it is doing. *)
Locals(r) ==
    /\ presented[r] # Null => token[presented[r]] # Null
    /\ pc[r] \notin {"claim", "issue", "link", "revokeAll"} => presented[r] = Null
    /\ pc[r] \in {"claim", "link"} => presented[r] # Null
    /\ pc[r] = "link" => /\ issued[r] # Null
                         /\ token[issued[r]] # Null
                         /\ token[issued[r]].parent = presented[r]
    /\ pc[r] \in {"claimReset", "reset"} => link[r] # Null

LocalsFit == \A r \in Request : Locals(r)

Rotating(r) == pc[r] = "issue" /\ presented[r] # Null

(* A token that has a successor, or whose successor is being issued, was     *)
(* revoked by that one request's claim.                                    *)
ClaimHeld ==
    /\ \A t \in Token : token[t] # Null /\ token[t].parent # Null
          => token[token[t].parent] # Null /\ token[token[t].parent].revoked
    /\ \A r \in Request : Rotating(r) =>
          /\ token[presented[r]].revoked
          /\ \A t \in Token : token[t] # Null => token[t].parent # presented[r]
    /\ \A q, r \in Request : q # r /\ Rotating(q) /\ Rotating(r) => presented[q] # presented[r]

Resetting(r) == pc[r] = "reset"

(* A password is written only by the one request that marked the reset      *)
(* token used, and once.                                                   *)
ResetHeld ==
    /\ \A k \in Reset : writes[k] <= 1 /\ (reset[k] # "used" => writes[k] = 0)
    /\ \A r \in Request : Resetting(r) => reset[link[r]] = "used" /\ writes[link[r]] = 0
    /\ \A q, r \in Request : q # r /\ Resetting(q) /\ Resetting(r) => link[q] # link[r]

(* Until a revocation misses one, sessions live or being issued go back to  *)
(* the current password.                                                   *)
SessionsCurrent ==
    ~overlap => /\ \A t \in Live : token[t].gen = gen
                /\ \A r \in Issuing : basis[r] = gen

(* And the account, once deactivated, has none of either. *)
InactiveQuiet ==
    ~active /\ ~overlap /\ (\A r \in Request : pc[r] # "revokeAll")
        => Live = {} /\ Issuing = {}

IInv ==
    /\ TypeOK
    /\ LocalsFit
    /\ ClaimHeld
    /\ OneSuccessor
    /\ ResetHeld
    /\ SessionsCurrent
    /\ InactiveQuiet
-----------------------------------------------------------------------------
LEMMA InitIInv == Init => IInv
  <1> SUFFICES ASSUME Init PROVE IInv
    OBVIOUS
  <1>0. gen = 0 /\ 0 \in Gen /\ \A t \in Token : token[t] = Null
    BY AuthAssumption DEF Init, Gen
  <1>1. TypeOK
    BY <1>0 DEF Init, TypeOK
  <1>2. LocalsFit /\ ResetHeld
    BY DEF Init, LocalsFit, Locals, ResetHeld, Resetting
  <1>3. ClaimHeld /\ OneSuccessor
    BY DEF Init, ClaimHeld, Rotating, OneSuccessor
  <1>4. SessionsCurrent /\ InactiveQuiet
    BY DEF Init, SessionsCurrent, InactiveQuiet, Live, Issuing
  <1> QED BY <1>1, <1>2, <1>3, <1>4 DEF IInv

(* The tokens of T are revoked, and nothing else changes in a token. *)
Revokes(T) ==
    /\ token' \in [Token -> RefreshToken \cup {Null}]
    /\ \A t \in Token :
          /\ token'[t] = Null <=> token[t] = Null
          /\ token[t] # Null => /\ token'[t].revoked <=> (token[t].revoked \/ t \in T)
                                /\ token'[t].parent = token[t].parent
                                /\ token'[t].gen = token[t].gen
                                /\ token'[t].replacedBy = token[t].replacedBy

LEMMA RevokedToken ==
  ASSUME NEW row \in RefreshToken
  PROVE  LET new == [row EXCEPT !.revoked = TRUE] IN
         /\ new \in RefreshToken
         /\ new.revoked
         /\ new.parent = row.parent
         /\ new.gen = row.gen
         /\ new.replacedBy = row.replacedBy
  BY DEF RefreshToken

LEMMA RevokeOne ==
  ASSUME TypeOK, NEW t \in Live, token' = [token EXCEPT ![t].revoked = TRUE]
  PROVE  Revokes({t})
  <1>1. /\ token \in [Token -> RefreshToken \cup {Null}] /\ Null \notin RefreshToken
        /\ t \in Token /\ token[t] # Null
    BY AuthAssumption DEF TypeOK, Live
  <1>2. \A u \in Token : token'[u] = IF u = t THEN [token[t] EXCEPT !.revoked = TRUE] ELSE token[u]
    BY <1>1
  <1>3. token' \in [Token -> RefreshToken \cup {Null}]
    BY <1>1, <1>2, RevokedToken
  <1> QED BY <1>1, <1>2, <1>3, RevokedToken DEF Revokes

LEMMA RevokeAllLive ==
  ASSUME TypeOK, RevokeLive
  PROVE  Revokes(Live)
  <1>1. token \in [Token -> RefreshToken \cup {Null}] /\ Null \notin RefreshToken
    BY AuthAssumption DEF TypeOK
  <1>2. \A t \in Token : token'[t] = IF t \in Live THEN [token[t] EXCEPT !.revoked = TRUE] ELSE token[t]
    BY DEF RevokeLive
  <1>3. \A t \in Token : t \in Live => token[t] \in RefreshToken
    BY <1>1 DEF Live
  <1>4. token' \in [Token -> RefreshToken \cup {Null}]
    BY <1>1, <1>2, <1>3, RevokedToken DEF RevokeLive
  <1>5. \A t \in Token : token'[t] = Null <=> token[t] = Null
    BY <1>1, <1>2, <1>3, RevokedToken
  <1>6. ASSUME NEW t \in Token, token[t] # Null
        PROVE  /\ token'[t].revoked <=> (token[t].revoked \/ t \in Live)
               /\ token'[t].parent = token[t].parent
               /\ token'[t].gen = token[t].gen
               /\ token'[t].replacedBy = token[t].replacedBy
    BY <1>1, <1>2, <1>3, <1>6, RevokedToken DEF Live
  <1> QED BY <1>4, <1>5, <1>6 DEF Revokes
-----------------------------------------------------------------------------
(* Steps that touch no token. *)

(* A session it starts will go back to the current password. *)
LEMMA LoginReadIInv ==
  ASSUME IInv, NEW r \in Request, LoginRead(r)
  PROVE  IInv'
  <1> USE DEF LoginRead, Goto, user
  <1>1. TypeOK'
    BY DEF IInv, TypeOK
  <1>2. LocalsFit'
    BY AuthAssumption DEF IInv, TypeOK, LocalsFit, Locals
  <1>3. ClaimHeld' /\ OneSuccessor'
    BY DEF IInv, TypeOK, LocalsFit, Locals, ClaimHeld, OneSuccessor, Rotating
  <1>4. ResetHeld'
    BY AuthAssumption DEF IInv, TypeOK, LocalsFit, Locals, ResetHeld, Resetting
  <1>5. SessionsCurrent'
    BY DEF IInv, TypeOK, SessionsCurrent, Live, Issuing
  <1>6. InactiveQuiet'
    BY DEF IInv, TypeOK, InactiveQuiet, Live, Issuing
  <1> QED BY <1>1, <1>2, <1>3, <1>4, <1>5, <1>6 DEF IInv

(* It presents a token that was issued. *)
LEMMA RefreshReadIInv ==
  ASSUME IInv, NEW r \in Request, NEW t \in Token, RefreshRead(r, t)
  PROVE  IInv'
  <1> USE DEF RefreshRead, Goto, user
  <1>1. TypeOK'
    BY DEF IInv, TypeOK
  <1>2. LocalsFit'
    BY AuthAssumption DEF IInv, TypeOK, LocalsFit, Locals
  <1>3. ClaimHeld' /\ OneSuccessor'
    BY DEF IInv, TypeOK, LocalsFit, Locals, ClaimHeld, OneSuccessor, Rotating
  <1>4. ResetHeld'
    BY AuthAssumption DEF IInv, TypeOK, LocalsFit, Locals, ResetHeld, Resetting
  <1>5. SessionsCurrent'
    BY DEF IInv, TypeOK, SessionsCurrent, Live, Issuing
  <1>6. InactiveQuiet'
    BY DEF IInv, TypeOK, InactiveQuiet, Live, Issuing
  <1> QED BY <1>1, <1>2, <1>3, <1>4, <1>5, <1>6 DEF IInv

(* Nothing is claimed yet. *)
LEMMA ChangeReadIInv ==
  ASSUME IInv, NEW r \in Request, ChangeRead(r)
  PROVE  IInv'
  <1> USE DEF ChangeRead, Goto, user, local
  <1>1. TypeOK'
    BY DEF IInv, TypeOK
  <1>2. LocalsFit'
    BY AuthAssumption DEF IInv, TypeOK, LocalsFit, Locals
  <1>3. ClaimHeld' /\ OneSuccessor'
    BY DEF IInv, TypeOK, LocalsFit, Locals, ClaimHeld, OneSuccessor, Rotating
  <1>4. ResetHeld'
    BY AuthAssumption DEF IInv, TypeOK, LocalsFit, Locals, ResetHeld, Resetting
  <1>5. SessionsCurrent'
    BY DEF IInv, TypeOK, SessionsCurrent, Live, Issuing
  <1>6. InactiveQuiet'
    BY DEF IInv, TypeOK, InactiveQuiet, Live, Issuing
  <1> QED BY <1>1, <1>2, <1>3, <1>4, <1>5, <1>6 DEF IInv

(* Nobody can have used a token that was not there. *)
LEMMA RequestResetIInv ==
  ASSUME IInv, NEW k \in Reset, RequestReset(k)
  PROVE  IInv'
  <1> USE DEF RequestReset, user, local
  <1>1. TypeOK'
    BY DEF IInv, TypeOK
  <1>2. LocalsFit'
    BY AuthAssumption DEF IInv, TypeOK, LocalsFit, Locals
  <1>3. ClaimHeld' /\ OneSuccessor'
    BY DEF IInv, TypeOK, LocalsFit, Locals, ClaimHeld, OneSuccessor, Rotating
  <1>4. ResetHeld'
    BY AuthAssumption DEF IInv, TypeOK, LocalsFit, Locals, ResetHeld, Resetting
  <1>5. SessionsCurrent'
    BY DEF IInv, TypeOK, SessionsCurrent, Live, Issuing
  <1>6. InactiveQuiet'
    BY DEF IInv, TypeOK, InactiveQuiet, Live, Issuing
  <1> QED BY <1>1, <1>2, <1>3, <1>4, <1>5, <1>6 DEF IInv

(* Nothing is claimed yet. *)
LEMMA ResetReadIInv ==
  ASSUME IInv, NEW r \in Request, NEW k \in Reset, ResetRead(r, k)
  PROVE  IInv'
  <1> USE DEF ResetRead, Goto, user
  <1>1. TypeOK'
    BY DEF IInv, TypeOK
  <1>2. LocalsFit'
    BY AuthAssumption DEF IInv, TypeOK, LocalsFit, Locals
  <1>3. ClaimHeld' /\ OneSuccessor'
    BY DEF IInv, TypeOK, LocalsFit, Locals, ClaimHeld, OneSuccessor, Rotating
  <1>4. ResetHeld'
    BY AuthAssumption DEF IInv, TypeOK, LocalsFit, Locals, ResetHeld, Resetting
  <1>5. SessionsCurrent'
    BY DEF IInv, TypeOK, SessionsCurrent, Live, Issuing
  <1>6. InactiveQuiet'
    BY DEF IInv, TypeOK, InactiveQuiet, Live, Issuing
  <1> QED BY <1>1, <1>2, <1>3, <1>4, <1>5, <1>6 DEF IInv

(* The revocation is still to come. *)
LEMMA DeactivateIInv ==
  ASSUME IInv, NEW r \in Request, Deactivate(r)
  PROVE  IInv'
  <1> USE DEF Deactivate, Goto, local
  <1>1. TypeOK'
    BY DEF IInv, TypeOK
  <1>2. LocalsFit'
    BY AuthAssumption DEF IInv, TypeOK, LocalsFit, Locals
  <1>3. ClaimHeld' /\ OneSuccessor'
    BY DEF IInv, TypeOK, LocalsFit, Locals, ClaimHeld, OneSuccessor, Rotating
  <1>4. ResetHeld'
    BY AuthAssumption DEF IInv, TypeOK, LocalsFit, Locals, ResetHeld, Resetting
  <1>5. SessionsCurrent'
    BY DEF IInv, TypeOK, SessionsCurrent, Live, Issuing
  <1>6. InactiveQuiet'
    BY DEF IInv, TypeOK, InactiveQuiet, Live, Issuing
  <1> QED BY <1>1, <1>2, <1>3, <1>4, <1>5, <1>6 DEF IInv

(* An active account promises nothing about its sessions' end. *)
LEMMA ReactivateIInv ==
  ASSUME IInv, Reactivate
  PROVE  IInv'
  <1> USE DEF Reactivate, local
  <1>1. TypeOK'
    BY DEF IInv, TypeOK
  <1>2. LocalsFit'
    BY AuthAssumption DEF IInv, TypeOK, LocalsFit, Locals
  <1>3. ClaimHeld' /\ OneSuccessor'
    BY DEF IInv, TypeOK, LocalsFit, Locals, ClaimHeld, OneSuccessor, Rotating
  <1>4. ResetHeld'
    BY AuthAssumption DEF IInv, TypeOK, LocalsFit, Locals, ResetHeld, Resetting
  <1>5. SessionsCurrent'
    BY DEF IInv, TypeOK, SessionsCurrent, Live, Issuing
  <1>6. InactiveQuiet'
    BY DEF IInv, TypeOK, InactiveQuiet, Live, Issuing
  <1> QED BY <1>1, <1>2, <1>3, <1>4, <1>5, <1>6 DEF IInv

(* A request that ends gives up what it claimed. *)
LEMMA FinishIInv ==
  ASSUME IInv, NEW r \in Request, Finish(r), UNCHANGED <<user, token, reset, writes>>,
         overlap' \in BOOLEAN, overlap => overlap', pc[r] = "revokeAll" => overlap'
  PROVE  IInv'
  <1>0. /\ pc' = [pc EXCEPT ![r] = "idle"]
        /\ presented' = [presented EXCEPT ![r] = Null]
        /\ basis' = [basis EXCEPT ![r] = 0]
        /\ issued' = [issued EXCEPT ![r] = Null]
        /\ link' = [link EXCEPT ![r] = Null]
        /\ UNCHANGED <<active, gen, credential, token, reset, writes>>
    BY DEF Finish, Goto, user
  <1>1. TypeOK'
    BY <1>0, AuthAssumption DEF IInv, TypeOK, Gen
  <1>2. LocalsFit'
    BY <1>0, AuthAssumption DEF IInv, TypeOK, LocalsFit, Locals
  <1>3. ClaimHeld' /\ OneSuccessor'
    BY <1>0 DEF IInv, TypeOK, ClaimHeld, OneSuccessor, Rotating
  <1>4. ResetHeld'
    BY <1>0 DEF IInv, TypeOK, ResetHeld, Resetting
  <1>5. SessionsCurrent'
    BY <1>0 DEF IInv, TypeOK, SessionsCurrent, Live, Issuing
  <1>6. InactiveQuiet'
    BY <1>0 DEF IInv, TypeOK, InactiveQuiet, Live, Issuing
  <1> QED BY <1>1, <1>2, <1>3, <1>4, <1>5, <1>6 DEF IInv

(* The first to claim a reset token may write, and nobody after it. *)
LEMMA ResetClaimIInv ==
  ASSUME IInv, NEW r \in Request, ResetClaim(r)
  PROVE  IInv'
  <1>0. pc[r] = "claimReset" /\ link[r] \in Reset
    BY DEF ResetClaim, IInv, TypeOK, LocalsFit, Locals
  <1>1. CASE Spendable(link[r])
    <2> USE <1>0, <1>1 DEF ResetClaim, Goto
    <2>0. /\ reset' = [reset EXCEPT ![link[r]] = "used"]
          /\ pc' = [pc EXCEPT ![r] = "reset"]
          /\ UNCHANGED <<user, token, writes, local, overlap>>
      OBVIOUS
    <2> USE <2>0 DEF user, local
    <2>1. TypeOK'
      BY DEF IInv, TypeOK
    <2>2. LocalsFit'
      BY AuthAssumption DEF IInv, TypeOK, LocalsFit, Locals
    <2>3. ClaimHeld' /\ OneSuccessor'
      BY DEF IInv, TypeOK, LocalsFit, Locals, ClaimHeld, OneSuccessor, Rotating
    <2>4. ResetHeld'
      BY AuthAssumption DEF IInv, TypeOK, LocalsFit, Locals, ResetHeld, Resetting, Spendable
    <2>5. SessionsCurrent' /\ InactiveQuiet'
      BY DEF IInv, TypeOK, SessionsCurrent, InactiveQuiet, Live, Issuing
    <2> QED BY <2>1, <2>2, <2>3, <2>4, <2>5 DEF IInv
  <1>2. CASE ~Spendable(link[r])
    <2>1. Finish(r) /\ UNCHANGED <<user, token, reset, writes, overlap>>
      BY <1>2 DEF ResetClaim
    <2> QED BY <1>0, <2>1, FinishIInv DEF IInv, TypeOK
  <1> QED BY <1>1, <1>2
-----------------------------------------------------------------------------
(* Steps that revoke *)

LEMMA LogoutIInv ==
  ASSUME IInv, NEW t \in Token, Logout(t)
  PROVE  IInv'
  <1>0. /\ Revokes({t})
        /\ UNCHANGED <<active, gen, credential, reset, writes, pc, presented, basis, issued, link, overlap>>
    BY RevokeOne DEF Logout, IInv, user, local
  <1>1. TypeOK'
    BY <1>0 DEF IInv, TypeOK, Revokes
  <1>2. LocalsFit'
    BY <1>0 DEF IInv, TypeOK, LocalsFit, Locals, Revokes
  <1>3. ClaimHeld' /\ OneSuccessor'
    BY <1>0, AuthAssumption DEF IInv, TypeOK, RefreshToken, LocalsFit, Locals, ClaimHeld, OneSuccessor, Rotating, Revokes
  <1>4. ResetHeld'
    BY <1>0 DEF IInv, ResetHeld, Resetting
  <1>5. SessionsCurrent' /\ InactiveQuiet'
    BY <1>0 DEF IInv, TypeOK, SessionsCurrent, InactiveQuiet, Live, Issuing, Revokes
  <1> QED BY <1>1, <1>2, <1>3, <1>4, <1>5 DEF IInv

(* A request that wins the claim of a live token is the only one to issue    *)
(* its successor: a token with a successor, issued or coming, is revoked.  *)
LEMMA ClaimIInv ==
  ASSUME IInv, NEW r \in Request, Claim(r)
  PROVE  IInv'
  <1> DEFINE t == presented[r]
  <1>0. pc[r] = "claim" /\ t \in Token /\ token[t] # Null
    BY DEF Claim, IInv, TypeOK, LocalsFit, Locals
  <1>1. CASE Claimable(t)
    <2>0. /\ Revokes({t}) /\ t \in Live
          /\ basis' = [basis EXCEPT ![r] = token[t].gen]
          /\ pc' = [pc EXCEPT ![r] = "issue"]
          /\ UNCHANGED <<active, gen, credential, reset, writes, presented, issued, link, overlap>>
      BY <1>1, RevokeOne DEF Claim, Claimable, Goto, IInv, user
    <2>1. token[t] \in RefreshToken /\ token[t].gen \in Gen
      BY <1>0 DEF IInv, TypeOK, RefreshToken
    <2>2. TypeOK'
      BY <2>0, <2>1 DEF IInv, TypeOK, Revokes
    <2>3. LocalsFit'
      BY <1>0, <2>0 DEF IInv, TypeOK, LocalsFit, Locals, Revokes
    <2>4. /\ \A u \in Token : token[u] # Null => token[u].parent # t
          /\ \A q \in Request : Rotating(q) => presented[q] # t
      BY <1>0, <2>0, AuthAssumption DEF IInv, ClaimHeld, Live
    <2>5. ClaimHeld' /\ OneSuccessor'
      BY <1>0, <2>0, <2>4, AuthAssumption
      DEF IInv, TypeOK, RefreshToken, LocalsFit, Locals, ClaimHeld, OneSuccessor, Rotating, Revokes
    <2>6. ResetHeld'
      BY <2>0 DEF IInv, TypeOK, ResetHeld, Resetting
    <2>7. SessionsCurrent' /\ InactiveQuiet'
      BY <1>0, <2>0 DEF IInv, TypeOK, SessionsCurrent, InactiveQuiet, Live, Issuing, Revokes
    <2> QED BY <2>2, <2>3, <2>5, <2>6, <2>7 DEF IInv
  <1>2. CASE ~Claimable(t)
    <2>0. /\ pc' = [pc EXCEPT ![r] = "revokeAll"]
          /\ UNCHANGED <<active, gen, credential, token, reset, writes, presented, basis, issued, link, overlap>>
      BY <1>2 DEF Claim, Goto, user
    <2>1. TypeOK'
      BY <2>0 DEF IInv, TypeOK
    <2>2. LocalsFit'
      BY <2>0 DEF IInv, TypeOK, LocalsFit, Locals
    <2>3. ClaimHeld' /\ OneSuccessor'
      BY <2>0 DEF IInv, TypeOK, ClaimHeld, OneSuccessor, Rotating
    <2>4. ResetHeld'
      BY <2>0 DEF IInv, TypeOK, ResetHeld, Resetting
    <2>5. SessionsCurrent' /\ InactiveQuiet'
      BY <2>0 DEF IInv, TypeOK, SessionsCurrent, InactiveQuiet, Live, Issuing
    <2> QED BY <2>1, <2>2, <2>3, <2>4, <2>5 DEF IInv
  <1> QED BY <1>1, <1>2

LEMMA RevokeAllIInv ==
  ASSUME IInv, NEW r \in Request, RevokeAll(r)
  PROVE  IInv'
  <1>0. /\ Revokes(Live)
        /\ overlap' = (overlap \/ Issuing # {})
        /\ UNCHANGED <<active, gen, credential, reset, writes>>
        /\ pc[r] = "revokeAll"
        /\ pc' = [pc EXCEPT ![r] = "idle"]
        /\ presented' = [presented EXCEPT ![r] = Null]
        /\ basis' = [basis EXCEPT ![r] = 0]
        /\ issued' = [issued EXCEPT ![r] = Null]
        /\ link' = [link EXCEPT ![r] = Null]
    BY RevokeAllLive DEF RevokeAll, RevokeLive, Finish, Goto, IInv, user
  <1>1. TypeOK'
    BY <1>0, AuthAssumption DEF IInv, TypeOK, Gen, Revokes
  <1>2. LocalsFit'
    BY <1>0, AuthAssumption DEF IInv, TypeOK, LocalsFit, Locals, Revokes
  <1>3. ClaimHeld' /\ OneSuccessor'
    BY <1>0, AuthAssumption
    DEF IInv, TypeOK, RefreshToken, LocalsFit, Locals, ClaimHeld, OneSuccessor, Rotating, Revokes
  <1>4. ResetHeld'
    BY <1>0 DEF IInv, TypeOK, ResetHeld, Resetting
  <1>5. Live' = {} /\ (~overlap' => ~overlap /\ Issuing = {} /\ Issuing' = {})
    BY <1>0 DEF IInv, TypeOK, Live, Issuing, Revokes
  <1>6. SessionsCurrent' /\ InactiveQuiet'
    BY <1>0, <1>5 DEF SessionsCurrent, InactiveQuiet
  <1> QED BY <1>1, <1>2, <1>3, <1>4, <1>6 DEF IInv

(* A new password leaves no live session, and none that is being issued       *)
(* unless that is remembered in overlap.                                   *)
LEMMA NewPasswordSessions ==
  ASSUME IInv, NEW kind \in {"own", "temporary"}, NewPassword(kind)
  PROVE  /\ gen' \in Gen /\ credential' = kind /\ active' = active
         /\ Revokes(Live) /\ Live' = {}
         /\ overlap' = (overlap \/ Issuing # {})
  <1>1. gen' \in Gen /\ credential' = kind /\ active' = active /\ Revokes(Live)
    BY AuthAssumption, RevokeAllLive DEF NewPassword, IInv, TypeOK, Gen
  <1>2. Live' = {}
    BY <1>1 DEF Revokes, Live
  <1> QED BY <1>1, <1>2 DEF NewPassword, RevokeLive

LEMMA ReissueIInv ==
  ASSUME IInv, Reissue
  PROVE  IInv'
  <1>0. /\ gen' \in Gen /\ credential' = "temporary" /\ active' = active
        /\ Revokes(Live) /\ Live' = {}
        /\ overlap' = (overlap \/ Issuing # {})
        /\ UNCHANGED <<reset, writes, pc, presented, basis, issued, link>>
    BY NewPasswordSessions DEF Reissue, local
  <1>1. TypeOK'
    BY <1>0 DEF IInv, TypeOK, Revokes
  <1>2. LocalsFit'
    BY <1>0 DEF IInv, TypeOK, LocalsFit, Locals, Revokes
  <1>3. ClaimHeld' /\ OneSuccessor'
    BY <1>0, AuthAssumption
    DEF IInv, TypeOK, RefreshToken, LocalsFit, Locals, ClaimHeld, OneSuccessor, Rotating, Revokes
  <1>4. ResetHeld'
    BY <1>0 DEF IInv, TypeOK, ResetHeld, Resetting
  <1>5. ~overlap' => Issuing' = {}
    BY <1>0 DEF Issuing
  <1>6. SessionsCurrent' /\ InactiveQuiet'
    BY <1>0, <1>5 DEF SessionsCurrent, InactiveQuiet
  <1> QED BY <1>1, <1>2, <1>3, <1>4, <1>6 DEF IInv

(* A request that writes a password and ends, given what it does to the      *)
(* count of the passwords written with reset tokens.                       *)
LEMMA PasswordWrittenIInv ==
  ASSUME IInv, NEW r \in Request, pc[r] \in {"change", "reset"},
         NewPassword("own"), Finish(r), UNCHANGED reset,
         writes' \in [Reset -> Nat], ResetHeld'
  PROVE  IInv'
  <1>0. /\ gen' \in Gen /\ credential' = "own" /\ active' = active
        /\ Revokes(Live) /\ Live' = {}
        /\ overlap' = (overlap \/ Issuing # {})
        /\ pc' = [pc EXCEPT ![r] = "idle"]
        /\ presented' = [presented EXCEPT ![r] = Null]
        /\ basis' = [basis EXCEPT ![r] = 0]
        /\ issued' = [issued EXCEPT ![r] = Null]
        /\ link' = [link EXCEPT ![r] = Null]
    BY NewPasswordSessions DEF Finish, Goto
  <1>1. TypeOK'
    BY <1>0, AuthAssumption DEF IInv, TypeOK, Gen, Revokes
  <1>2. LocalsFit'
    BY <1>0, AuthAssumption DEF IInv, TypeOK, LocalsFit, Locals, Revokes
  <1>3. ClaimHeld' /\ OneSuccessor'
    BY <1>0, AuthAssumption
    DEF IInv, TypeOK, RefreshToken, LocalsFit, Locals, ClaimHeld, OneSuccessor, Rotating, Revokes
  <1>4. ~overlap' => Issuing' = {}
    BY <1>0 DEF IInv, TypeOK, Issuing
  <1>5. SessionsCurrent' /\ InactiveQuiet'
    BY <1>0, <1>4 DEF SessionsCurrent, InactiveQuiet
  <1> QED BY <1>1, <1>2, <1>3, <1>5 DEF IInv

LEMMA ChangeWriteIInv ==
  ASSUME IInv, NEW r \in Request, ChangeWrite(r)
  PROVE  IInv'
  <1>1. /\ pc[r] = "change" /\ NewPassword("own") /\ Finish(r)
        /\ UNCHANGED <<reset, writes>>
    BY DEF ChangeWrite
  <1>2. ResetHeld'
    BY <1>1 DEF Finish, Goto, IInv, TypeOK, ResetHeld, Resetting
  <1> QED BY <1>1, <1>2, PasswordWrittenIInv DEF IInv, TypeOK

LEMMA ResetWriteIInv ==
  ASSUME IInv, NEW r \in Request, ResetWrite(r)
  PROVE  IInv'
  <1>1. /\ pc[r] = "reset" /\ NewPassword("own") /\ Finish(r)
        /\ UNCHANGED reset
        /\ link[r] \in Reset
        /\ writes' = [writes EXCEPT ![link[r]] = @ + 1]
    BY DEF ResetWrite, IInv, TypeOK, LocalsFit, Locals
  <1>2. writes' \in [Reset -> Nat]
    BY <1>1 DEF IInv, TypeOK
  <1>3. ResetHeld'
    BY <1>1 DEF Finish, Goto, IInv, TypeOK, ResetHeld, Resetting
  <1> QED BY <1>1, <1>2, <1>3, PasswordWrittenIInv
-----------------------------------------------------------------------------
(* Steps that issue a token and link it to the one it replaces *)

(* The new token is the only successor of the one it replaces. *)
LEMMA IssueIInv ==
  ASSUME IInv, NEW r \in Request, Issue(r)
  PROVE  IInv'
  <1> DEFINE new == [gen |-> basis[r], parent |-> presented[r],
                     revoked |-> FALSE, expired |-> FALSE, replacedBy |-> Null]
  <1>1. PICK u \in Token :
           /\ pc[r] = "issue"
           /\ token[u] = Null
           /\ token' = [token EXCEPT ![u] = new]
           /\ UNCHANGED <<active, gen, credential, reset, writes, overlap>>
           /\ IF presented[r] = Null
              THEN Finish(r)
              ELSE /\ issued' = [issued EXCEPT ![r] = u]
                   /\ Goto(r, "link")
                   /\ UNCHANGED <<presented, basis, link>>
    BY DEF Issue, user
  <1>2. new \in RefreshToken /\ new # Null
    <2>1. basis[r] \in Gen /\ presented[r] \in Token \cup {Null}
      BY DEF IInv, TypeOK
    <2>2. new \in RefreshToken
      BY <2>1 DEF RefreshToken
    <2> QED BY <2>2, AuthAssumption
  <1>3. /\ new.gen = basis[r] /\ new.parent = presented[r] /\ ~new.revoked
        /\ new.replacedBy = Null
    OBVIOUS
  <1> HIDE DEF new
  <1>4. token' \in [Token -> RefreshToken \cup {Null}]
    BY <1>1, <1>2 DEF IInv, TypeOK
  <1>5. \A t \in Token : token'[t] = IF t = u THEN new ELSE token[t]
    BY <1>1 DEF IInv, TypeOK
  <1>6. \A t, v \in Token : token'[t] # Null /\ token'[t].replacedBy = v
                               => token'[v] # Null /\ token'[v].parent = t
    BY <1>1, <1>3, <1>5, AuthAssumption DEF IInv, TypeOK
  <1>7. Live' = Live \cup {u}
    BY <1>2, <1>3, <1>5, <1>1 DEF Live
  <1>8. CASE presented[r] = Null
    <2>0. /\ pc' = [pc EXCEPT ![r] = "idle"]
          /\ presented' = [presented EXCEPT ![r] = Null]
          /\ basis' = [basis EXCEPT ![r] = 0]
          /\ issued' = [issued EXCEPT ![r] = Null]
          /\ link' = [link EXCEPT ![r] = Null]
      BY <1>1, <1>8 DEF Finish, Goto
    <2>1. TypeOK'
      BY <1>1, <1>4, <1>6, <2>0, AuthAssumption DEF IInv, TypeOK, Gen
    <2>2. LocalsFit'
      BY <1>1, <1>2, <1>5, <2>0, AuthAssumption DEF IInv, TypeOK, LocalsFit, Locals
    <2>3. ClaimHeld' /\ OneSuccessor'
      BY <1>1, <1>2, <1>3, <1>5, <1>8, <2>0, AuthAssumption
      DEF IInv, TypeOK, RefreshToken, LocalsFit, Locals, ClaimHeld, OneSuccessor, Rotating
    <2>4. ResetHeld'
      BY <1>1, <2>0 DEF IInv, TypeOK, ResetHeld, Resetting
    <2>5. SessionsCurrent' /\ InactiveQuiet'
      BY <1>1, <1>3, <1>5, <1>7, <2>0 DEF IInv, TypeOK, SessionsCurrent, InactiveQuiet, Issuing, Live
    <2> QED BY <2>1, <2>2, <2>3, <2>4, <2>5 DEF IInv
  <1>9. CASE presented[r] # Null
    <2>0. /\ issued' = [issued EXCEPT ![r] = u]
          /\ pc' = [pc EXCEPT ![r] = "link"]
          /\ UNCHANGED <<presented, basis, link>>
      BY <1>1, <1>9 DEF Goto
    <2>1. TypeOK'
      BY <1>1, <1>4, <1>6, <2>0 DEF IInv, TypeOK
    <2>2. LocalsFit'
      BY <1>1, <1>2, <1>3, <1>5, <1>9, <2>0, AuthAssumption DEF IInv, TypeOK, LocalsFit, Locals
    <2>3. ClaimHeld' /\ OneSuccessor'
      BY <1>1, <1>2, <1>3, <1>5, <1>9, <2>0, AuthAssumption
      DEF IInv, TypeOK, RefreshToken, LocalsFit, Locals, ClaimHeld, OneSuccessor, Rotating
    <2>4. ResetHeld'
      BY <1>1, <2>0 DEF IInv, TypeOK, ResetHeld, Resetting
    <2>5. SessionsCurrent' /\ InactiveQuiet'
      BY <1>1, <1>3, <1>5, <1>7, <2>0 DEF IInv, TypeOK, SessionsCurrent, InactiveQuiet, Issuing, Live
    <2> QED BY <2>1, <2>2, <2>3, <2>4, <2>5 DEF IInv
  <1> QED BY <1>8, <1>9

LEMMA LinkIInv ==
  ASSUME IInv, NEW r \in Request, Link(r)
  PROVE  IInv'
  <1> DEFINE t   == presented[r]
             new == [token[t] EXCEPT !.replacedBy = issued[r]]
  <1>1. /\ pc[r] = "link" /\ t \in Token /\ issued[r] \in Token
        /\ token[t] \in RefreshToken /\ token[t] # Null
        /\ token[issued[r]] # Null /\ token[issued[r]].parent = t
        /\ token' = [token EXCEPT ![t] = new]
        /\ UNCHANGED <<active, gen, credential, reset, writes, overlap>>
        /\ pc' = [pc EXCEPT ![r] = "idle"]
        /\ presented' = [presented EXCEPT ![r] = Null]
        /\ basis' = [basis EXCEPT ![r] = 0]
        /\ issued' = [issued EXCEPT ![r] = Null]
        /\ link' = [link EXCEPT ![r] = Null]
    BY DEF Link, Finish, Goto, user, IInv, TypeOK, LocalsFit, Locals
  <1>2. /\ new \in RefreshToken /\ new # Null
        /\ new.gen = token[t].gen /\ new.parent = token[t].parent
        /\ new.revoked = token[t].revoked /\ new.replacedBy = issued[r]
    BY <1>1, AuthAssumption DEF RefreshToken
  <1> HIDE DEF new
  <1>3. token' \in [Token -> RefreshToken \cup {Null}]
    BY <1>1, <1>2 DEF IInv, TypeOK
  <1>4. \A v \in Token : token'[v] = IF v = t THEN new ELSE token[v]
    BY <1>1 DEF IInv, TypeOK
  <1>5. \A v \in Token : /\ token'[v] = Null <=> token[v] = Null
                         /\ token'[v].gen = token[v].gen
                         /\ token'[v].parent = token[v].parent
                         /\ token'[v].revoked = token[v].revoked
    BY <1>1, <1>2, <1>4
  <1>6. \A v, w \in Token : token'[v] # Null /\ token'[v].replacedBy = w
                               => token'[w] # Null /\ token'[w].parent = v
    BY <1>1, <1>2, <1>4, <1>5 DEF IInv, TypeOK
  <1>7. TypeOK'
    BY <1>1, <1>3, <1>6, AuthAssumption DEF IInv, TypeOK, Gen
  <1>8. LocalsFit'
    BY <1>1, <1>5, AuthAssumption DEF IInv, TypeOK, LocalsFit, Locals
  <1>9. ClaimHeld' /\ OneSuccessor'
    BY <1>1, <1>5, AuthAssumption
    DEF IInv, TypeOK, RefreshToken, LocalsFit, Locals, ClaimHeld, OneSuccessor, Rotating
  <1>10. ResetHeld'
    BY <1>1 DEF IInv, TypeOK, ResetHeld, Resetting
  <1>11. SessionsCurrent' /\ InactiveQuiet'
    BY <1>1, <1>5 DEF IInv, TypeOK, SessionsCurrent, InactiveQuiet, Live, Issuing
  <1> QED BY <1>7, <1>8, <1>9, <1>10, <1>11 DEF IInv

-----------------------------------------------------------------------------
(* Time, crashes and all steps together *)

(* Nothing an expiry changes is named by another conjunct of IInv. *)
LEMMA ExpireIInv ==
  ASSUME IInv, Expire
  PROVE  IInv'
  <1>1. ASSUME NEW t \in Token, token[t] # Null, token' = [token EXCEPT ![t].expired = TRUE],
               UNCHANGED <<user, reset, writes, pc, local, overlap>>
        PROVE  IInv'
    <2> DEFINE new == [token[t] EXCEPT !.expired = TRUE]
    <2>1. token[t] \in RefreshToken /\ token' = [token EXCEPT ![t] = new]
      BY <1>1 DEF IInv, TypeOK
    <2>2. /\ new \in RefreshToken /\ new # Null
          /\ new.gen = token[t].gen /\ new.parent = token[t].parent
          /\ new.revoked = token[t].revoked /\ new.replacedBy = token[t].replacedBy
      BY <2>1, AuthAssumption DEF RefreshToken
    <2> HIDE DEF new
    <2>3. token' \in [Token -> RefreshToken \cup {Null}]
      BY <2>1, <2>2 DEF IInv, TypeOK
    <2>4. \A v \in Token : /\ token'[v] = Null <=> token[v] = Null
                           /\ token'[v].gen = token[v].gen
                           /\ token'[v].parent = token[v].parent
                           /\ token'[v].revoked = token[v].revoked
                           /\ token'[v].replacedBy = token[v].replacedBy
      BY <1>1, <2>1, <2>2 DEF IInv, TypeOK
    <2> USE <1>1 DEF user, local
    <2>5. TypeOK'
      BY <2>3, <2>4 DEF IInv, TypeOK
    <2>6. LocalsFit' /\ ResetHeld'
      BY <2>4 DEF IInv, TypeOK, LocalsFit, Locals, ResetHeld, Resetting
    <2>7. ClaimHeld' /\ OneSuccessor'
      BY <2>4, AuthAssumption DEF IInv, TypeOK, RefreshToken, LocalsFit, Locals, ClaimHeld, OneSuccessor, Rotating
    <2>8. SessionsCurrent' /\ InactiveQuiet'
      BY <2>4 DEF IInv, TypeOK, SessionsCurrent, InactiveQuiet, Live, Issuing
    <2> QED BY <2>5, <2>6, <2>7, <2>8 DEF IInv
  <1>2. ASSUME NEW k \in Reset, reset[k] = "fresh", reset' = [reset EXCEPT ![k] = "expired"],
               UNCHANGED <<user, token, writes, pc, local, overlap>>
        PROVE  IInv'
    <2> USE <1>2 DEF user, local
    <2>1. TypeOK' /\ LocalsFit' /\ ResetHeld'
      BY DEF IInv, TypeOK, LocalsFit, Locals, ResetHeld, Resetting
    <2>2. ClaimHeld' /\ OneSuccessor' /\ SessionsCurrent' /\ InactiveQuiet'
      BY DEF IInv, ClaimHeld, OneSuccessor, Rotating, SessionsCurrent, InactiveQuiet, Live, Issuing
    <2> QED BY <2>1, <2>2 DEF IInv
  <1>3. ASSUME credential' = "expired",
               UNCHANGED <<active, gen, token, reset, writes, pc, local, overlap>>
        PROVE  IInv'
    <2> USE <1>3 DEF local
    <2>1. TypeOK' /\ LocalsFit' /\ ResetHeld'
      BY DEF IInv, TypeOK, LocalsFit, Locals, ResetHeld, Resetting
    <2>2. ClaimHeld' /\ OneSuccessor' /\ SessionsCurrent' /\ InactiveQuiet'
      BY DEF IInv, ClaimHeld, OneSuccessor, Rotating, SessionsCurrent, InactiveQuiet, Live, Issuing
    <2> QED BY <2>1, <2>2 DEF IInv
  <1> QED BY <1>1, <1>2, <1>3 DEF Expire

LEMMA AbortIInv ==
  ASSUME IInv, NEW r \in Request, Abort(r)
  PROVE  IInv'
  <1>1. /\ Finish(r) /\ UNCHANGED <<user, token, reset, writes>>
        /\ overlap' = (overlap \/ pc[r] = "revokeAll")
    BY DEF Abort
  <1>2. overlap' \in BOOLEAN /\ (overlap => overlap') /\ (pc[r] = "revokeAll" => overlap')
    BY <1>1
  <1> QED BY <1>1, <1>2, FinishIInv

LEMMA NextIInv == IInv /\ [Next]_vars => IInv'
  <1> SUFFICES ASSUME IInv, [Next]_vars PROVE IInv'
    OBVIOUS
  <1>1. ASSUME NEW r \in Request, LoginRead(r) \/ ChangeRead(r) \/ Deactivate(r) PROVE IInv'
    BY <1>1, LoginReadIInv, ChangeReadIInv, DeactivateIInv
  <1>2. ASSUME NEW r \in Request, NEW t \in Token, RefreshRead(r, t) PROVE IInv'
    BY <1>2, RefreshReadIInv
  <1>3. ASSUME NEW r \in Request, NEW k \in Reset, ResetRead(r, k) PROVE IInv'
    BY <1>3, ResetReadIInv
  <1>4. ASSUME NEW r \in Request, Step(r) PROVE IInv'
    BY <1>4, IssueIInv, ClaimIInv, LinkIInv, RevokeAllIInv, ChangeWriteIInv, ResetClaimIInv,
       ResetWriteIInv DEF Step
  <1>5. ASSUME NEW r \in Request, Abort(r) PROVE IInv'
    BY <1>5, AbortIInv
  <1>6. ASSUME NEW t \in Token, Logout(t) PROVE IInv'
    BY <1>6, LogoutIInv
  <1>7. ASSUME NEW k \in Reset, RequestReset(k) PROVE IInv'
    BY <1>7, RequestResetIInv
  <1>8. CASE Reissue \/ Reactivate \/ Expire
    BY <1>8, ReissueIInv, ReactivateIInv, ExpireIInv
  <1>9. CASE UNCHANGED vars
    <2> USE <1>9 DEF vars, user, local
    <2>1. TypeOK' /\ LocalsFit' /\ ResetHeld'
      BY DEF IInv, TypeOK, LocalsFit, Locals, ResetHeld, Resetting
    <2>2. ClaimHeld' /\ OneSuccessor' /\ SessionsCurrent' /\ InactiveQuiet'
      BY DEF IInv, ClaimHeld, OneSuccessor, Rotating, SessionsCurrent, InactiveQuiet, Live, Issuing
    <2> QED BY <2>1, <2>2 DEF IInv
  <1> QED BY <1>1, <1>2, <1>3, <1>4, <1>5, <1>6, <1>7, <1>8, <1>9 DEF Next

LEMMA Invariance == Spec => []IInv
  BY InitIInv, NextIInv, PTL DEF Spec
-----------------------------------------------------------------------------
(* Theorems *)

(* Every state is well typed, and the token which a token names as its       *)
(* replacement was issued in exchange for it (auth.service.ts:175-183).    *)
THEOREM TypeCorrect == Spec => []TypeOK
  <1>1. IInv => TypeOK
    BY DEF IInv
  <1> QED BY <1>1, Invariance, PTL

(* However many requests present a refresh token, crash or race, at most one *)
(* token comes of it (auth.service.ts:158-165).                            *)
THEOREM TokensExchangedOnce == Spec => []OneSuccessor
  <1>1. IInv => OneSuccessor
    BY DEF IInv
  <1> QED BY <1>1, Invariance, PTL

(* However many requests present a reset token, it writes at most one        *)
(* password (auth.service.ts:311-320).                                     *)
THEOREM ResetsUsedOnce == Spec => []ResetUsedOnce
  <1>1. ASSUME IInv, NEW k \in Reset
        PROVE  writes[k] + Cardinality({r \in Request : pc[r] = "reset" /\ link[r] = k}) <= 1
    <2> DEFINE Writers == {r \in Request : pc[r] = "reset" /\ link[r] = k}
    <2>1. writes[k] \in Nat /\ writes[k] <= 1
      BY <1>1 DEF IInv, TypeOK, ResetHeld
    <2>2. CASE Writers = {}
      <3>1. Cardinality(Writers) = 0
        BY <2>2, FS_EmptySet
      <3> QED BY <2>1, <3>1
    <2>3. ASSUME NEW r \in Writers PROVE writes[k] + Cardinality(Writers) <= 1
      <3>1. Writers = {r} /\ writes[k] = 0
        BY <1>1 DEF IInv, ResetHeld, Resetting
      <3>2. Cardinality(Writers) = 1
        BY <3>1, FS_Singleton
      <3> QED BY <3>1, <3>2
    <2> QED BY <2>2, <2>3
  <1>2. IInv => ResetUsedOnce
    BY <1>1 DEF ResetUsedOnce
  <1> QED BY <1>2, Invariance, PTL

(* A change, reset or reissue of the password leaves no older session but    *)
(* one whose token was being issued (auth.service.ts:210-223, 323-341;     *)
(* users.service.ts:188-194).                                              *)
THEOREM OldSessionsEnd == Spec => []SessionsFollowPassword
  <1>1. IInv => SessionsFollowPassword
    BY DEF IInv, SessionsCurrent, SessionsFollowPassword
  <1> QED BY <1>1, Invariance, PTL

(* A deactivation that ran to its end leaves no live session but one whose   *)
(* token was being issued (users.service.ts:116-128).                      *)
THEOREM DeactivationEndsSessions == Spec => []InactiveHasNoSession
  <1>1. IInv => InactiveHasNoSession
    BY DEF IInv, InactiveQuiet, InactiveHasNoSession
  <1> QED BY <1>1, Invariance, PTL
=============================================================================
