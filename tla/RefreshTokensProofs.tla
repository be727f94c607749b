------------------------ MODULE RefreshTokensProofs ------------------------
(***************************************************************************)
(* Proofs about RefreshTokens, for any users, tokens and requests.         *)
(***************************************************************************)
EXTENDS RefreshTokens, FiniteSetTheorems, TLAPS

(* r is in a transaction that has updated the row of the token it presented
   and has not ended. *)
Holding(r) ==
  \/ pc[r] = "load_user"
  \/ pc[r] = "issue" /\ op[r] = "refresh"
  \/ pc[r] = "commit" /\ op[r] \in {"refresh", "revoke"}

(* Row locks are held by exactly the requests in such a transaction, one
   row each, and the row is live as everybody else sees it. *)
LockInv ==
  /\ \A r \in Requests :
       Holding(r) => /\ presented[r] \in Tokens
                     /\ row_lock[presented[r]] = r
                     /\ Live(presented[r])
                     /\ op[r] = "refresh" =>
                          user[r] = refresh_tokens[presented[r]].user
  /\ \A t \in Tokens : \A r \in Requests :
       row_lock[t] = r => Holding(r) /\ presented[r] = t

(* A request generates its own token only, and late; a row exists only after
   the commit of the request that generated it. *)
FreshInv ==
  /\ \A r \in Requests :
       \/ fresh[r] = NoToken
       \/ /\ fresh[r] = Mint[r]
          /\ pc[r] \in {"commit", "reply", "done"}
          /\ op[r] \in {"token", "refresh"}
  /\ \A t \in Tokens :
       Issued(t) => \E r \in Requests :
                      fresh[r] = t /\ pc[r] \in {"reply", "done"}

(* Endpoint and place in the handler agree. *)
OpInv ==
  \A r \in Requests :
    /\ pc[r] = "idle" => op[r] = "none"
    /\ pc[r] = "authenticate" => op[r] = "token" /\ user[r] \in Users
    /\ pc[r] = "consume" => op[r] = "refresh"
    /\ pc[r] = "load_user" => op[r] = "refresh" /\ user[r] \in Users
    /\ pc[r] = "issue" => op[r] \in {"token", "refresh"} /\ user[r] \in Users
    /\ pc[r] = "revoke" => op[r] = "revoke"
    /\ pc[r] = "commit" => op[r] # "none"
    /\ pc[r] = "commit" /\ fresh[r] # NoToken => user[r] \in Users
    /\ pc[r] = "commit" /\ op[r] = "token" => fresh[r] = Mint[r]
    /\ pc[r] = "commit" /\ op[r] = "refresh" =>
         fresh[r] = Mint[r] \/ ~is_active[user[r]]

(* What was decided is backed by the committed rows. *)
AnswerInv ==
  \A r \in Requests :
    /\ pc[r] = "commit" /\ status[r] = "200" => fresh[r] = Mint[r]
    /\ pc[r] \in {"reply", "done"} /\ status[r] = "200"
         => /\ fresh[r] = Mint[r]
            /\ Issued(fresh[r])
            /\ refresh_tokens[fresh[r]].user = user[r]
    /\ op[r] = "revoke" /\ pc[r] \in {"reply", "done"} /\ status[r] = "204"
         => ~Live(presented[r])

(* Only delivered tokens are presented, and a rotated one is spent. *)
SpentInv ==
  \A r \in Requests :
    /\ presented[r] \in Tokens => Issued(presented[r])
    /\ Rotated(r) => presented[r] \in Tokens /\ ~Live(presented[r])

(* A refresh call whose token was dead on arrival gets nowhere. *)
DeadInv ==
  \A r \in Requests :
    dead_on_arrival[r] =>
      /\ op[r] = "refresh" /\ pc[r] # "issue" /\ fresh[r] = NoToken
      /\ pc[r] = "consume" =>
           \/ ~Consumable(presented[r], as_of[r])
           \/ ~is_active[refresh_tokens[presented[r]].user]
      /\ pc[r] = "load_user" => ~is_active[user[r]]

IInv ==
  TypeOK /\ LockInv /\ FreshInv /\ OpInv /\ AnswerInv /\ SpentInv
         /\ SingleUse /\ DeadInv

(* Time only makes tokens expire. *)
LEMMA TickInv ==
  ASSUME IInv, Tick
  PROVE  IInv'
<1>1. TypeOK'
  BY DEF IInv, TypeOK, PCs, Ops, Statuses, Tick, database, request
<1>2. LockInv'
  BY DEF IInv, TypeOK, LockInv, Holding, Live, Issued, Tick, database, request
<1>3. FreshInv'
  BY DEF IInv, TypeOK, FreshInv, Issued, Tick, database, request
<1>4. OpInv'
  BY DEF IInv, TypeOK, OpInv, Tick, database, request
<1>5. AnswerInv'
  BY DEF IInv, TypeOK, AnswerInv, Live, Issued, Tick, database, request
<1>6. SpentInv'
  BY DEF IInv, TypeOK, SpentInv, Rotated, Live, Issued, Tick, database,
         request
<1>7. SingleUse'
  BY DEF IInv, TypeOK, SingleUse, Rotated, Issued, Tick, database, request
<1>8. DeadInv'
  BY DEF IInv, TypeOK, DeadInv, Consumable, Live, Issued, Tick, database,
         request
<1> QED
  BY <1>1, <1>2, <1>3, <1>4, <1>5, <1>6, <1>7, <1>8 DEF IInv

(* Deactivation only adds to the users DeadInv speaks of. *)
LEMMA DeactivateInv ==
  ASSUME IInv, NEW u \in Users, Deactivate(u)
  PROVE  IInv'
<1>1. TypeOK'
  BY DEF IInv, TypeOK, PCs, Ops, Statuses, Deactivate, request
<1>2. LockInv'
  BY DEF IInv, TypeOK, LockInv, Holding, Live, Issued, Deactivate, request
<1>3. FreshInv'
  BY DEF IInv, TypeOK, FreshInv, Issued, Deactivate, request
<1>4. OpInv'
  BY DEF IInv, TypeOK, OpInv, Deactivate, request
<1>5. AnswerInv'
  BY DEF IInv, TypeOK, AnswerInv, Live, Issued, Deactivate, request
<1>6. SpentInv'
  BY DEF IInv, TypeOK, SpentInv, Rotated, Live, Issued, Deactivate, request
<1>7. SingleUse'
  BY DEF IInv, TypeOK, SingleUse, Rotated, Issued, Deactivate, request
<1>8. DeadInv'
  BY DEF IInv, TypeOK, DeadInv, Consumable, Live, Issued, Deactivate, request
<1> QED
  BY <1>1, <1>2, <1>3, <1>4, <1>5, <1>6, <1>7, <1>8 DEF IInv

(* A new request has generated no token and decided nothing. *)
LEMMA SubmitPasswordInv ==
  ASSUME IInv, NEW r \in Requests, NEW u \in Users,
         SubmitPassword(r, u)
  PROVE  IInv'
<1>1. TypeOK'
  BY DEF IInv, TypeOK, PCs, Ops, Statuses, SubmitPassword, database, request
<1>2. LockInv'
  BY DEF IInv, TypeOK, LockInv, Holding, Live, Issued, SubmitPassword,
         database, request
<1>3. FreshInv'
  BY DEF IInv, TypeOK, FreshInv, Issued, SubmitPassword, database, request
<1>4. OpInv'
  BY DEF IInv, TypeOK, OpInv, SubmitPassword, database, request
<1>5. AnswerInv'
  BY DEF IInv, TypeOK, AnswerInv, Live, Issued, SubmitPassword, database,
         request
<1>6. SpentInv'
  BY DEF IInv, TypeOK, SpentInv, Rotated, Live, Issued, SubmitPassword,
         database, request
<1>7. SingleUse'
  BY DEF IInv, TypeOK, SingleUse, Rotated, Issued, SubmitPassword, database,
         request
<1>8. DeadInv'
  BY DEF IInv, TypeOK, DeadInv, Consumable, Live, Issued, OpInv,
         SubmitPassword, database, request
<1> QED
  BY <1>1, <1>2, <1>3, <1>4, <1>5, <1>6, <1>7, <1>8 DEF IInv

(* The presented token was delivered, hence its row is committed; what
   makes it unusable now can never be undone. *)
LEMMA SubmitRefreshInv ==
  ASSUME IInv, NEW r \in Requests, NEW t \in Delivered \cup {NoToken},
         SubmitRefresh(r, t)
  PROVE  IInv'
<1>1. TypeOK'
  BY DEF IInv, TypeOK, PCs, Ops, Statuses, SubmitRefresh, Delivered, Usable,
         database, request
<1>2. LockInv'
  BY DEF IInv, TypeOK, LockInv, Holding, Live, Issued, SubmitRefresh,
         Delivered, Usable, database, request
<1>3. FreshInv'
  BY DEF IInv, TypeOK, FreshInv, Issued, SubmitRefresh, Delivered, Usable,
         database, request
<1>4. OpInv'
  BY DEF IInv, TypeOK, OpInv, SubmitRefresh, Delivered, Usable, database,
         request
<1>5. AnswerInv'
  BY DEF IInv, TypeOK, AnswerInv, Live, Issued, SubmitRefresh, Delivered,
         Usable, database, request
<1>6. SpentInv'
  BY NullAssumption
     DEF IInv, TypeOK, SpentInv, Rotated, Live, Issued, FreshInv, AnswerInv,
         Delivered, SubmitRefresh, Usable, database, request
<1>7. SingleUse'
  BY NullAssumption
     DEF IInv, TypeOK, SingleUse, Rotated, Issued, FreshInv, SubmitRefresh,
         Delivered, Usable, database, request
<1>8. DeadInv'
  <2> SUFFICES ASSUME NEW q \in Requests, dead_on_arrival'[q]
               PROVE  /\ op'[q] = "refresh" /\ pc'[q] # "issue"
                      /\ fresh'[q] = NoToken
                      /\ pc'[q] = "consume" =>
                           \/ ~Consumable(presented[q], as_of[q])'
                           \/ ~is_active'[refresh_tokens'[presented'[q]].user]
                      /\ pc'[q] = "load_user" => ~is_active'[user'[q]]
    BY DEF DeadInv
  <2>1. CASE q = r
    <3>1. op'[r] = "refresh" /\ pc'[r] = "consume" /\ presented'[r] = t
          /\ as_of'[r] = now
      BY DEF IInv, TypeOK, SubmitRefresh
    <3>2. fresh'[r] = NoToken
      BY DEF IInv, TypeOK, FreshInv, Issued, SubmitRefresh
    <3>3. ~Usable(t)
      BY <2>1 DEF IInv, TypeOK, SubmitRefresh
    <3>4. refresh_tokens' = refresh_tokens /\ is_active' = is_active
      BY DEF SubmitRefresh, database
    <3>5. Consumable(presented[r], as_of[r])' <=> Consumable(t, now)
      BY <3>1, <3>4 DEF Consumable, Live, Issued
    <3> QED
      BY <2>1, <3>1, <3>2, <3>3, <3>4, <3>5 DEF Usable
  <2>2. CASE q # r
    BY <2>2 DEF IInv, TypeOK, DeadInv, Consumable, Live, Issued,
                SubmitRefresh, database
  <2> QED
    BY <2>1, <2>2
<1> QED
  BY <1>1, <1>2, <1>3, <1>4, <1>5, <1>6, <1>7, <1>8 DEF IInv

(* As for SubmitRefresh. *)
LEMMA SubmitRevokeInv ==
  ASSUME IInv, NEW r \in Requests, NEW t \in Delivered \cup {NoToken},
         SubmitRevoke(r, t)
  PROVE  IInv'
<1>1. TypeOK'
  BY DEF IInv, TypeOK, PCs, Ops, Statuses, SubmitRevoke, Delivered, database,
         request
<1>2. LockInv'
  BY DEF IInv, TypeOK, LockInv, Holding, Live, Issued, SubmitRevoke,
         Delivered, database, request
<1>3. FreshInv'
  BY DEF IInv, TypeOK, FreshInv, Issued, SubmitRevoke, Delivered, database,
         request
<1>4. OpInv'
  BY DEF IInv, TypeOK, OpInv, SubmitRevoke, Delivered, database, request
<1>5. AnswerInv'
  BY DEF IInv, TypeOK, AnswerInv, Live, Issued, SubmitRevoke, Delivered,
         database, request
<1>6. SpentInv'
  BY NullAssumption
     DEF IInv, TypeOK, SpentInv, Rotated, Live, Issued, FreshInv, AnswerInv,
         Delivered, SubmitRevoke, database, request
<1>7. SingleUse'
  BY DEF IInv, TypeOK, SingleUse, Rotated, Issued, SubmitRevoke, Delivered,
         database, request
<1>8. DeadInv'
  BY DEF IInv, TypeOK, DeadInv, Consumable, Live, Issued, OpInv, SubmitRevoke,
         Delivered, database, request
<1> QED
  BY <1>1, <1>2, <1>3, <1>4, <1>5, <1>6, <1>7, <1>8 DEF IInv

(* authenticate_database_user touches no row. *)
LEMMA AuthenticateDatabaseUserInv ==
  ASSUME IInv, NEW r \in Requests, AuthenticateDatabaseUser(r)
  PROVE  IInv'
<1>1. TypeOK'
  BY DEF IInv, TypeOK, PCs, Ops, Statuses, AuthenticateDatabaseUser, Goto,
         database, request
<1>2. LockInv'
  BY DEF IInv, TypeOK, LockInv, Holding, Live, Issued, OpInv,
         AuthenticateDatabaseUser, Goto, database, request
<1>3. FreshInv'
  BY DEF IInv, TypeOK, FreshInv, Issued, AuthenticateDatabaseUser, Goto,
         database, request
<1>4. OpInv'
  BY DEF IInv, TypeOK, OpInv, AuthenticateDatabaseUser, Goto, database,
         request
<1>5. AnswerInv'
  BY DEF IInv, TypeOK, AnswerInv, Live, Issued, AuthenticateDatabaseUser,
         Goto, database, request
<1>6. SpentInv'
  BY DEF IInv, TypeOK, SpentInv, Rotated, Live, Issued,
         AuthenticateDatabaseUser, Goto, database, request
<1>7. SingleUse'
  BY DEF IInv, TypeOK, SingleUse, Rotated, Issued, AuthenticateDatabaseUser,
         Goto, database, request
<1>8. DeadInv'
  BY DEF IInv, TypeOK, DeadInv, Consumable, Live, Issued, OpInv,
         AuthenticateDatabaseUser, Goto, database, request
<1> QED
  BY <1>1, <1>2, <1>3, <1>4, <1>5, <1>6, <1>7, <1>8 DEF IInv

(* The request gets the one lock of a live row that nobody held. *)
LEMMA ConsumeRefreshTokenInv ==
  ASSUME IInv, NEW r \in Requests, ConsumeRefreshToken(r)
  PROVE  IInv'
<1>1. TypeOK'
  BY DEF IInv, TypeOK, Row, Consumable, Live, Issued, PCs, Ops, Statuses,
         ConsumeRefreshToken, Goto, request
<1>2. LockInv'
  BY NullAssumption
     DEF IInv, TypeOK, LockInv, Holding, Live, Issued, OpInv, Consumable,
         ConsumeRefreshToken, Goto, request
<1>3. FreshInv'
  BY DEF IInv, TypeOK, FreshInv, Issued, ConsumeRefreshToken, Goto, request
<1>4. OpInv'
  BY DEF IInv, TypeOK, OpInv, Row, Consumable, Live, Issued,
         ConsumeRefreshToken, Goto, request
<1>5. AnswerInv'
  BY DEF IInv, TypeOK, AnswerInv, Live, Issued, ConsumeRefreshToken, Goto,
         request
<1>6. SpentInv'
  BY DEF IInv, TypeOK, SpentInv, Rotated, Live, Issued, ConsumeRefreshToken,
         Goto, request
<1>7. SingleUse'
  BY DEF IInv, TypeOK, SingleUse, Rotated, Issued, ConsumeRefreshToken, Goto,
         request
<1>8. DeadInv'
  BY DEF IInv, TypeOK, DeadInv, Consumable, Live, Issued, ConsumeRefreshToken,
         Goto, request
<1> QED
  BY <1>1, <1>2, <1>3, <1>4, <1>5, <1>6, <1>7, <1>8 DEF IInv

(* An inactive user leads to a commit without a token. *)
LEMMA GetUserByIdInv ==
  ASSUME IInv, NEW r \in Requests, GetUserById(r)
  PROVE  IInv'
<1>1. TypeOK'
  BY DEF IInv, TypeOK, PCs, Ops, Statuses, GetUserById, Goto, database,
         request
<1>2. LockInv'
  BY DEF IInv, TypeOK, LockInv, Holding, Live, Issued, OpInv, GetUserById,
         Goto, database, request
<1>3. FreshInv'
  BY DEF IInv, TypeOK, FreshInv, Issued, GetUserById, Goto, database, request
<1>4. OpInv'
  BY DEF IInv, TypeOK, OpInv, GetUserById, Goto, database, request
<1>5. AnswerInv'
  BY DEF IInv, TypeOK, AnswerInv, Live, Issued, GetUserById, Goto, database,
         request
<1>6. SpentInv'
  BY DEF IInv, TypeOK, SpentInv, Rotated, Live, Issued, GetUserById, Goto,
         database, request
<1>7. SingleUse'
  BY DEF IInv, TypeOK, SingleUse, Rotated, Issued, GetUserById, Goto,
         database, request
<1>8. DeadInv'
  BY DEF IInv, TypeOK, DeadInv, Consumable, Live, Issued, GetUserById, Goto,
         database, request
<1> QED
  BY <1>1, <1>2, <1>3, <1>4, <1>5, <1>6, <1>7, <1>8 DEF IInv

(* The generated token is one that no row has yet. *)
LEMMA IssueRefreshTokenInv ==
  ASSUME IInv, NEW r \in Requests, IssueRefreshToken(r)
  PROVE  IInv'
<1>1. TypeOK'
  <2>1. fresh' \in [Requests -> Tokens \cup {NoToken}]
    BY MintAssumption DEF IInv, TypeOK, IssueRefreshToken
  <2>2. expires' \in [Requests -> Nat]
    BY LifetimeAssumption DEF IInv, TypeOK, IssueRefreshToken
  <2>3. /\ pc' \in [Requests -> PCs]
        /\ status' \in [Requests -> Statuses]
    BY DEF IInv, TypeOK, PCs, Statuses, IssueRefreshToken, Goto
  <2> QED
    BY <2>1, <2>2, <2>3 DEF IInv, TypeOK, IssueRefreshToken, database, request
<1>2. LockInv'
  BY DEF IInv, TypeOK, LockInv, Holding, Live, Issued, OpInv,
         IssueRefreshToken, Goto, database, request
<1>3. FreshInv'
  BY MintAssumption
     DEF IInv, TypeOK, FreshInv, Issued, OpInv, IssueRefreshToken, Goto,
         database, request
<1>4. OpInv'
  BY DEF IInv, TypeOK, OpInv, IssueRefreshToken, Goto, database, request
<1>5. AnswerInv'
  BY DEF IInv, TypeOK, AnswerInv, Live, Issued, IssueRefreshToken, Goto,
         database, request
<1>6. SpentInv'
  BY MintAssumption, NullAssumption
     DEF IInv, TypeOK, SpentInv, Rotated, Live, Issued, FreshInv,
         IssueRefreshToken, Goto, database, request
<1>7. SingleUse'
  <2>1. \A q \in Requests : Rotated(q)' => Rotated(q)
    BY MintAssumption, NullAssumption
       DEF IInv, TypeOK, FreshInv, Rotated, Issued, IssueRefreshToken,
           database, request
  <2> QED
    BY <2>1 DEF IInv, SingleUse, IssueRefreshToken, request
<1>8. DeadInv'
  BY DEF IInv, TypeOK, DeadInv, Consumable, Live, Issued, IssueRefreshToken,
         Goto, database, request
<1> QED
  BY <1>1, <1>2, <1>3, <1>4, <1>5, <1>6, <1>7, <1>8 DEF IInv

(* As for ConsumeRefreshToken; a token that is not live stays so. *)
LEMMA RevokeRefreshTokenInv ==
  ASSUME IInv, NEW r \in Requests, RevokeRefreshToken(r)
  PROVE  IInv'
<1>1. TypeOK'
  BY DEF IInv, TypeOK, PCs, Ops, Statuses, RevokeRefreshToken, Goto, request
<1>2. LockInv'
  BY NullAssumption
     DEF IInv, TypeOK, LockInv, Holding, Live, Issued, OpInv,
         RevokeRefreshToken, Goto, request
<1>3. FreshInv'
  BY DEF IInv, TypeOK, FreshInv, Issued, RevokeRefreshToken, Goto, request
<1>4. OpInv'
  BY NullAssumption
     DEF IInv, TypeOK, OpInv, FreshInv, RevokeRefreshToken, Goto, request
<1>5. AnswerInv'
  BY DEF IInv, TypeOK, AnswerInv, Live, Issued, RevokeRefreshToken, Goto,
         request
<1>6. SpentInv'
  BY DEF IInv, TypeOK, SpentInv, Rotated, Live, Issued, RevokeRefreshToken,
         Goto, request
<1>7. SingleUse'
  BY DEF IInv, TypeOK, SingleUse, Rotated, Issued, RevokeRefreshToken, Goto,
         request
<1>8. DeadInv'
  BY DEF IInv, TypeOK, DeadInv, Consumable, Live, Issued, RevokeRefreshToken,
         Goto, request
<1> QED
  BY <1>1, <1>2, <1>3, <1>4, <1>5, <1>6, <1>7, <1>8 DEF IInv

(* An answer changes no row. *)
LEMMA ReplyInv ==
  ASSUME IInv, NEW r \in Requests, Reply(r)
  PROVE  IInv'
<1>1. TypeOK'
  BY DEF IInv, TypeOK, PCs, Ops, Statuses, Reply, Goto, database, request
<1>2. LockInv'
  BY DEF IInv, TypeOK, LockInv, Holding, Live, Issued, Reply, Goto, database,
         request
<1>3. FreshInv'
  BY DEF IInv, TypeOK, FreshInv, Issued, Reply, Goto, database, request
<1>4. OpInv'
  BY DEF IInv, TypeOK, OpInv, Reply, Goto, database, request
<1>5. AnswerInv'
  BY DEF IInv, TypeOK, AnswerInv, Live, Issued, Reply, Goto, database, request
<1>6. SpentInv'
  BY DEF IInv, TypeOK, SpentInv, Rotated, Live, Issued, Reply, Goto, database,
         request
<1>7. SingleUse'
  BY DEF IInv, TypeOK, SingleUse, Rotated, Issued, Reply, Goto, database,
         request
<1>8. DeadInv'
  BY DEF IInv, TypeOK, DeadInv, Consumable, Live, Issued, Reply, Goto,
         database, request
<1> QED
  BY <1>1, <1>2, <1>3, <1>4, <1>5, <1>6, <1>7, <1>8 DEF IInv

(* A failure releases the lock and leaves the rows as they were. *)
LEMMA FailInv ==
  ASSUME IInv, NEW r \in Requests, Fail(r)
  PROVE  IInv'
<1>1. TypeOK'
  BY DEF IInv, TypeOK, PCs, Ops, Statuses, Fail, Goto, Released, request
<1>2. LockInv'
  BY NullAssumption
     DEF IInv, TypeOK, LockInv, Holding, Live, Issued, OpInv, Fail, Goto,
         Released, request
<1>3. FreshInv'
  BY DEF IInv, TypeOK, FreshInv, Issued, Fail, Goto, Released, request
<1>4. OpInv'
  BY DEF IInv, TypeOK, OpInv, Fail, Goto, Released, request
<1>5. AnswerInv'
  BY DEF IInv, TypeOK, AnswerInv, Live, Issued, Fail, Goto, Released, request
<1>6. SpentInv'
  BY DEF IInv, TypeOK, SpentInv, Rotated, Live, Issued, Fail, Goto, Released,
         request
<1>7. SingleUse'
  BY DEF IInv, TypeOK, SingleUse, Rotated, Issued, Fail, Goto, Released,
         request
<1>8. DeadInv'
  BY DEF IInv, TypeOK, DeadInv, Consumable, Live, Issued, Fail, Goto,
         Released, request
<1> QED
  BY <1>1, <1>2, <1>3, <1>4, <1>5, <1>6, <1>7, <1>8 DEF IInv

(* The row a commit adds is new. *)
LEMMA CommitAddsNewRow ==
  ASSUME IInv, NEW r \in Requests, Commit(r), fresh[r] \in Tokens
  PROVE  ~Issued(fresh[r])
BY MintAssumption, NullAssumption DEF IInv, FreshInv, Commit

(* What a commit does to one row, without the detail of Written. *)
LEMMA CommitRow ==
  ASSUME IInv, NEW r \in Requests, Commit(r), NEW t \in Tokens
  PROVE  /\ refresh_tokens'[t] \in Row \cup {NoRow}
         /\ Issued(t)' <=> Issued(t) \/ t = fresh[r]
         /\ t = fresh[r] => /\ Live(t)'
                            /\ refresh_tokens'[t].user = user[r]
         /\ t # fresh[r] =>
              /\ Live(t)' <=> Live(t) /\ row_lock[t] # r
              /\ Issued(t) =>
                   /\ refresh_tokens'[t].user = refresh_tokens[t].user
                   /\ refresh_tokens'[t].expires = refresh_tokens[t].expires
<1> DEFINE row == refresh_tokens'[t]
<1>1. CASE t = fresh[r]
  <2>1. user[r] \in Users /\ expires[r] \in Nat
    <3>1. pc[r] = "commit" /\ fresh[r] # NoToken
      BY <1>1, NullAssumption DEF Commit
    <3> QED
      BY <3>1 DEF IInv, TypeOK, OpInv
  <2>2. row = [user |-> user[r], expires |-> expires[r], revoked |-> FALSE]
    BY <1>1 DEF Commit, Written
  <2>3. row \in Row
    BY <2>1, <2>2 DEF Row
  <2>4. row # NoRow
    BY <2>3, NoRowAssumption
  <2>5. row.revoked = FALSE /\ row.user = user[r]
    BY <2>2
  <2> QED
    BY <1>1, <2>3, <2>4, <2>5 DEF Live, Issued
<1>2. CASE t # fresh[r] /\ row_lock[t] = r
  <2>1. Live(t)
    BY <1>2 DEF IInv, LockInv
  <2>2. refresh_tokens[t] \in Row
    BY <2>1 DEF IInv, TypeOK, Live, Issued
  <2>3. row = [refresh_tokens[t] EXCEPT !.revoked = TRUE]
    BY <1>2 DEF Commit, Written
  <2>4. /\ row \in Row
        /\ row.revoked
        /\ row.user = refresh_tokens[t].user
        /\ row.expires = refresh_tokens[t].expires
    BY <2>2, <2>3 DEF Row
  <2> QED
    BY <1>2, <2>1, <2>4, NoRowAssumption DEF Live, Issued
<1>3. CASE t # fresh[r] /\ row_lock[t] # r
  BY <1>3 DEF IInv, TypeOK, Commit, Written, Live, Issued
<1> QED
  BY <1>1, <1>2, <1>3

(* The commit is the only step that changes rows. *)
LEMMA CommitInv ==
  ASSUME IInv, NEW r \in Requests, Commit(r)
  PROVE  IInv'
<1>1. fresh[r] \in Tokens => ~Issued(fresh[r])
  BY CommitAddsNewRow
<1>2. TypeOK'
  <2>1. refresh_tokens' \in [Tokens -> Row \cup {NoRow}]
    <3>1. refresh_tokens' = [t \in Tokens |-> refresh_tokens'[t]]
      BY DEF Commit, Written
    <3> QED
      BY <3>1, CommitRow
  <2> QED
    BY <2>1 DEF IInv, TypeOK, PCs, Statuses, Commit, Goto, Released, request
<1>3. LockInv'
  <2>1. ASSUME NEW q \in Requests, Holding(q)'
        PROVE  /\ presented'[q] \in Tokens
               /\ row_lock'[presented'[q]] = q
               /\ Live(presented[q])'
               /\ op'[q] = "refresh" =>
                    user'[q] = refresh_tokens'[presented'[q]].user
    <3>1. q # r /\ Holding(q)
      BY <2>1 DEF IInv, TypeOK, Holding, Commit, Goto, request
    <3>2. /\ presented[q] \in Tokens
          /\ row_lock[presented[q]] = q
          /\ Live(presented[q])
          /\ op[q] = "refresh" =>
               user[q] = refresh_tokens[presented[q]].user
      BY <3>1 DEF IInv, LockInv
    <3> QED
      BY <1>1, <3>1, <3>2, CommitRow DEF Live, Commit, Released, request
  <2>2. ASSUME NEW t \in Tokens, NEW q \in Requests, row_lock'[t] = q
        PROVE  Holding(q)' /\ presented'[q] = t
    BY <2>2, NullAssumption
       DEF IInv, TypeOK, LockInv, Holding, Commit, Goto, Released, request
  <2> QED
    BY <2>1, <2>2 DEF LockInv, Live, Issued
<1>4. FreshInv'
  <2>1. ASSUME NEW t \in Tokens, Issued(t)'
        PROVE  \E q \in Requests :
                 fresh'[q] = t /\ pc'[q] \in {"reply", "done"}
    <3>1. Issued(t) \/ t = fresh[r]
      BY <2>1, CommitRow
    <3> QED
      BY <3>1 DEF IInv, TypeOK, FreshInv, Commit, Goto, request
  <2> QED
    BY <2>1 DEF IInv, TypeOK, FreshInv, Issued, Commit, Goto, request
<1>5. OpInv'
  BY DEF IInv, TypeOK, OpInv, Commit, Goto, request
<1>6. AnswerInv'
  <2>1. ASSUME NEW q \in Requests, pc'[q] = "commit", status'[q] = "200"
        PROVE  fresh'[q] = Mint[q]
    BY <2>1 DEF IInv, TypeOK, AnswerInv, Commit, Goto
  <2>2. ASSUME NEW q \in Requests,
               pc'[q] \in {"reply", "done"}, status'[q] = "200"
        PROVE  /\ fresh'[q] = Mint[q]
               /\ Issued(fresh[q])'
               /\ refresh_tokens'[fresh'[q]].user = user'[q]
    <3>1. fresh[q] = Mint[q] /\ Mint[q] \in Tokens
      BY <2>2, MintAssumption DEF IInv, TypeOK, AnswerInv, Commit, Goto
    <3>2. CASE q = r
      BY <3>1, <3>2, CommitRow DEF Issued, Commit
    <3>3. CASE q # r
      <4>1. /\ Issued(fresh[q])
            /\ refresh_tokens[fresh[q]].user = user[q]
        BY <2>2, <3>3 DEF IInv, TypeOK, AnswerInv, Commit, Goto
      <4> QED
        BY <1>1, <3>1, <4>1, CommitRow DEF Issued, Commit
    <3> QED
      BY <3>2, <3>3
  <2>3. ASSUME NEW q \in Requests, op'[q] = "revoke",
               pc'[q] \in {"reply", "done"}, status'[q] = "204"
        PROVE  ~Live(presented[q])'
    <3>1. CASE q = r
      <4>1. /\ presented[r] \in Tokens
            /\ row_lock[presented[r]] = r
            /\ Live(presented[r])
        BY <2>3, <3>1 DEF IInv, LockInv, Holding, Commit, request
      <4> QED
        BY <1>1, <3>1, <4>1, CommitRow DEF Live, Commit, request
    <3>2. CASE q # r
      <4>1. ~Live(presented[q])
        BY <2>3, <3>2 DEF IInv, TypeOK, AnswerInv, Commit, Goto, request
      <4>2. CASE presented[q] \in Tokens
        <5>1. Issued(presented[q])
          BY <4>2 DEF IInv, SpentInv
        <5> QED
          BY <1>1, <4>1, <4>2, <5>1, CommitRow DEF Live, Commit, request
      <4>3. CASE presented[q] \notin Tokens
        BY <4>3 DEF Live, Commit, request
      <4> QED
        BY <4>2, <4>3
    <3> QED
      BY <3>1, <3>2
  <2> QED
    BY <2>1, <2>2, <2>3 DEF AnswerInv, Live, Issued
<1>7. ASSUME NEW q \in Requests, Rotated(q)'
      PROVE  Rotated(q) \/ q = r
  <2>1. fresh[q] \in Tokens /\ op[q] = "refresh"
    BY <1>7 DEF Rotated, Commit, request
  <2>2. Issued(fresh[q]) \/ fresh[q] = fresh[r]
    BY <1>7, <2>1, CommitRow DEF Rotated, Issued, Commit, request
  <2> QED
    BY <2>1, <2>2, MintAssumption, NullAssumption DEF IInv, FreshInv, Rotated
<1>8. Rotated(r)' =>
        /\ presented[r] \in Tokens
        /\ row_lock[presented[r]] = r
        /\ Live(presented[r])
  BY DEF IInv, LockInv, Holding, Rotated, Commit, request
<1>9. SpentInv'
  <2>1. ASSUME NEW q \in Requests, presented'[q] \in Tokens
        PROVE  Issued(presented[q])'
    <3>1. Issued(presented[q])
      BY <2>1 DEF IInv, SpentInv, Commit, request
    <3> QED
      BY <2>1, <3>1, CommitRow DEF Issued, Commit, request
  <2>2. ASSUME NEW q \in Requests, Rotated(q)'
        PROVE  presented'[q] \in Tokens /\ ~Live(presented[q])'
    <3>1. CASE q = r
      BY <1>1, <1>8, <2>2, <3>1, CommitRow DEF Live, Commit, request
    <3>2. CASE Rotated(q)
      <4>1. /\ presented[q] \in Tokens
            /\ Issued(presented[q])
            /\ ~Live(presented[q])
        BY <3>2 DEF IInv, SpentInv
      <4> QED
        BY <1>1, <4>1, CommitRow DEF Live, Commit, request
    <3> QED
      BY <1>7, <2>2, <3>1, <3>2
  <2> QED
    BY <2>1, <2>2 DEF SpentInv, Issued, Live, Rotated
<1>10. SingleUse'
  <2> SUFFICES ASSUME NEW p \in Requests, NEW q \in Requests, p # q,
                      Rotated(p)', Rotated(q)', presented'[p] = presented'[q]
               PROVE  FALSE
    BY DEF SingleUse, Rotated, Issued
  <2>1. CASE Rotated(p) /\ Rotated(q)
    BY <2>1 DEF IInv, SingleUse, Commit, request
  <2>2. CASE p = r \/ q = r
    BY <1>7, <1>8, <2>2 DEF IInv, SpentInv, Commit, request
  <2> QED
    BY <1>7, <2>1, <2>2
<1>11. DeadInv'
  <2> SUFFICES ASSUME NEW q \in Requests, dead_on_arrival'[q]
               PROVE  /\ op'[q] = "refresh" /\ pc'[q] # "issue"
                      /\ fresh'[q] = NoToken
                      /\ pc'[q] = "consume" =>
                           \/ ~Consumable(presented[q], as_of[q])'
                           \/ ~is_active'[refresh_tokens'[presented'[q]].user]
                      /\ pc'[q] = "load_user" => ~is_active'[user'[q]]
    BY DEF DeadInv, Consumable, Live, Issued
  <2>1. /\ op[q] = "refresh" /\ fresh[q] = NoToken
        /\ pc'[q] \notin {"issue", "idle", "authenticate"}
        /\ pc'[q] = "load_user" => ~is_active[user[q]]
    BY DEF IInv, TypeOK, DeadInv, OpInv, Commit, Goto, request
  <2>2. ASSUME pc'[q] = "consume"
        PROVE  \/ ~Consumable(presented[q], as_of[q])'
               \/ ~is_active'[refresh_tokens'[presented'[q]].user]
    <3>1. \/ ~Consumable(presented[q], as_of[q])
          \/ ~is_active[refresh_tokens[presented[q]].user]
      BY <2>2 DEF IInv, TypeOK, DeadInv, Commit, Goto, request
    <3>2. presented[q] \in Tokens => Issued(presented[q])
      BY DEF IInv, SpentInv
    <3> QED
      BY <1>1, <3>1, <3>2, CommitRow DEF Consumable, Live, Commit, request
  <2> QED
    BY <2>1, <2>2 DEF Commit, request
<1> QED
  BY <1>2, <1>3, <1>4, <1>5, <1>6, <1>9, <1>10, <1>11 DEF IInv

-----------------------------------------------------------------------------
(* The inductive invariant, and what follows from it. *)

(* The inductive invariant holds initially. *)
LEMMA InitInv == Init => IInv
BY NullAssumption
   DEF Init, IInv, TypeOK, PCs, Ops, Statuses, Row, LockInv, Holding,
       FreshInv, OpInv, AnswerInv, SpentInv, Rotated, SingleUse, DeadInv,
       Live, Issued

(* It does not depend on anything else than the variables. *)
LEMMA StutterInv == IInv /\ UNCHANGED vars => IInv'
BY DEF vars, IInv, TypeOK, LockInv, Holding, FreshInv, OpInv, AnswerInv,
       SpentInv, Rotated, SingleUse, DeadInv, Consumable, Live, Issued

(* Every step preserves it. *)
LEMMA NextInv == IInv /\ [Next]_vars => IInv'
<1> SUFFICES ASSUME IInv, [Next]_vars PROVE IInv'
  OBVIOUS
<1>1. CASE Tick
  BY <1>1, TickInv
<1>2. ASSUME NEW u \in Users, Deactivate(u) PROVE IInv'
  BY <1>2, DeactivateInv
<1>3. ASSUME NEW r \in Requests, NEW u \in Users, SubmitPassword(r, u)
      PROVE  IInv'
  BY <1>3, SubmitPasswordInv
<1>4. ASSUME NEW r \in Requests, NEW t \in Delivered \cup {NoToken},
             SubmitRefresh(r, t) \/ SubmitRevoke(r, t)
      PROVE  IInv'
  BY <1>4, SubmitRefreshInv, SubmitRevokeInv
<1>5. ASSUME NEW r \in Requests, Step(r) PROVE IInv'
  BY <1>5, AuthenticateDatabaseUserInv, ConsumeRefreshTokenInv,
     GetUserByIdInv, IssueRefreshTokenInv, RevokeRefreshTokenInv, CommitInv,
     ReplyInv
     DEF Step
<1>6. ASSUME NEW r \in Requests, Fail(r) PROVE IInv'
  BY <1>6, FailInv
<1>7. CASE Finished \/ UNCHANGED vars
  BY <1>7, StutterInv DEF Finished
<1> QED
  BY <1>1, <1>2, <1>3, <1>4, <1>5, <1>6, <1>7 DEF Next

(* The inductive invariant holds in every reachable state. *)
THEOREM Invariance == Spec => []IInv
BY InitInv, NextInv, PTL DEF Spec

(* Type correctness. *)
THEOREM TypeCorrect == Spec => []TypeOK
<1>1. IInv => TypeOK
  BY DEF IInv
<1> QED
  BY <1>1, Invariance, PTL

(* No refresh token is rotated twice, whatever the number of concurrent
   refresh calls and worker processes (consume_refresh_token). *)
THEOREM RotatedOnce == Spec => []SingleUse
<1>1. IInv => SingleUse
  BY DEF IInv
<1> QED
  BY <1>1, Invariance, PTL

(* A token whose logout was answered 204 is never live again. *)
THEOREM LogoutIsFinal == Spec => []LogoutFinal
<1>1. IInv => LogoutFinal
  BY DEF IInv, AnswerInv, LogoutFinal
<1> QED
  BY <1>1, Invariance, PTL

(* A token that was unusable when presented yields no successor. *)
THEOREM DeadTokensStayDead == Spec => []DeadStaysDead
<1>1. IInv => DeadStaysDead
  BY NullAssumption DEF IInv, DeadInv, DeadStaysDead, Rotated
<1> QED
  BY <1>1, Invariance, PTL

(* Whatever token a client is given is a committed row of its own. *)
THEOREM DeliveredTokensAreCommitted == Spec => []DeliveredIsCommitted
<1>1. IInv => DeliveredIsCommitted
  BY DEF IInv, AnswerInv, DeliveredIsCommitted
<1> QED
  BY <1>1, Invariance, PTL

-----------------------------------------------------------------------------
(* What single steps do to the live tokens. *)

(* The row a step takes out of circulation is the one its request locked. *)
LEMMA StepNeverStrands == IInv /\ [Next]_vars => NeverStranded
<1> SUFFICES ASSUME IInv, [Next]_vars,
                    NEW t \in Tokens, Live(t), ~Live(t)'
             PROVE  \/ Succeeded(t)
                    \/ LoggedOut(t)
                    \/ ~is_active[refresh_tokens[t].user]
  BY DEF NeverStranded
<1>1. refresh_tokens' # refresh_tokens
  BY DEF Live, Issued
<1>2. PICK r \in Requests : Commit(r)
  BY <1>1 DEF Next, Step, Tick, Deactivate, SubmitPassword, SubmitRefresh,
              SubmitRevoke, AuthenticateDatabaseUser, ConsumeRefreshToken,
              GetUserById, IssueRefreshToken, RevokeRefreshToken, Reply, Fail,
              Finished, vars, database
<1>3. t # fresh[r] /\ row_lock[t] = r
  BY <1>2, CommitRow
<1>4. /\ presented[r] = t
      /\ op[r] \in {"refresh", "revoke"}
      /\ op[r] = "refresh" => user[r] = refresh_tokens[t].user
  BY <1>2, <1>3 DEF IInv, LockInv, Holding, Commit
<1>5. CASE op[r] = "revoke"
  BY <1>2, <1>4, <1>5 DEF LoggedOut, Commit
<1>6. CASE op[r] = "refresh" /\ fresh[r] = Mint[r]
  <2>1. PICK s \in Tokens : s = fresh[r]
    BY <1>6, MintAssumption
  <2>2. ~Issued(s)
    BY <1>2, <2>1, CommitAddsNewRow
  <2>3. Live(s)' /\ refresh_tokens'[s].user = user[r]
    BY <1>2, <2>1, CommitRow
  <2> QED
    BY <1>4, <1>6, <2>2, <2>3 DEF Succeeded
<1>7. CASE op[r] = "refresh" /\ fresh[r] # Mint[r]
  BY <1>2, <1>4, <1>7 DEF IInv, OpInv, Commit
<1> QED
  BY <1>4, <1>5, <1>6, <1>7

(* A rotation is atomic: no failure between consuming a token and issuing
   its successor leaves an active user who did not log out with neither. *)
THEOREM RotationAtomic == Spec => RotationIsAtomic
<1>1. IInv /\ [Next]_vars => [NeverStranded]_vars
  BY StepNeverStrands
<1> QED
  BY <1>1, Invariance, PTL DEF Spec, RotationIsAtomic

-----------------------------------------------------------------------------
(* Refinement: the endpoints implement the abstract chains. *)

(* The empty table maps to the empty chains. *)
LEMMA ChainInit == Init => Chain!Init
BY NullAssumption DEF Init, Chain!Init, Opened, Live, Issued

(* Without a commit no login appears. *)
LEMMA LoginsNeedCommit ==
  ASSUME IInv, [Next]_vars, refresh_tokens' = refresh_tokens,
         NEW q \in Requests
  PROVE  Opened(q)' <=> Opened(q)
<1> SUFFICES ASSUME op'[q] # op[q] \/ fresh'[q] # fresh[q]
             PROVE  ~Opened(q) /\ ~Opened(q)'
  BY DEF Opened, Issued
<1>1. CASE pc[q] = "idle" /\ fresh'[q] = fresh[q]
  BY <1>1, NullAssumption DEF IInv, FreshInv, Opened
<1>2. CASE IssueRefreshToken(q)
  <2>1. /\ pc[q] = "issue"
        /\ fresh'[q] = Mint[q]
        /\ Mint[q] \in Tokens
    BY <1>2, MintAssumption DEF IInv, TypeOK, IssueRefreshToken
  <2>2. fresh[q] = NoToken
    BY <2>1 DEF IInv, FreshInv
  <2>3. ~Issued(Mint[q])
    BY <2>1, <2>2, MintAssumption, NullAssumption DEF IInv, FreshInv
  <2>4. ~Opened(q)
    BY <2>2, NullAssumption DEF Opened
  <2>5. refresh_tokens'[fresh'[q]] = NoRow
    BY <2>1, <2>3 DEF Issued
  <2> QED
    BY <2>4, <2>5 DEF Opened, Issued
<1>3. \/ pc[q] = "idle" /\ fresh'[q] = fresh[q]
      \/ IssueRefreshToken(q)
  BY DEF IInv, TypeOK, Next, Step, Tick, Deactivate, SubmitPassword,
         SubmitRefresh, SubmitRevoke, AuthenticateDatabaseUser,
         ConsumeRefreshToken, GetUserById, IssueRefreshToken,
         RevokeRefreshToken, Commit, Reply, Fail, Finished, vars, request
<1> QED
  BY <1>1, <1>2, <1>3

(* A commit opens a chain, moves it on, ends it, or changes nothing. *)
LEMMA CommitImplements ==
  ASSUME IInv, NEW r \in Requests, Commit(r)
  PROVE  Chain!Next
<1> DEFINE Held == [t \in Tokens |->
                     IF Issued(t) THEN {refresh_tokens[t].user} ELSE {}]
<1>1. is_active' = is_active /\ op' = op /\ fresh' = fresh
  BY DEF Commit, request
<1>2. \A q \in Requests : q # r => (Opened(q)' <=> Opened(q))
  BY <1>1, CommitRow, MintAssumption, NullAssumption
     DEF IInv, FreshInv, Opened, Issued
<1>3. ~Opened(r)
  BY CommitAddsNewRow DEF Opened
<1>4. \A q \in Requests :
        Opened(q)' <=> Opened(q) \/ (q = r /\ op[r] = "token")
  <2>1. Opened(r)' <=> op[r] = "token"
    BY <1>1, CommitRow, MintAssumption DEF IInv, OpInv, Opened, Issued, Commit
  <2> QED
    BY <1>2, <1>3, <2>1
<1>5. CASE op[r] = "token"
  <2>1. PICK t \in Tokens : t = fresh[r]
    BY <1>5, MintAssumption DEF IInv, OpInv, Commit
  <2>2. PICK u \in Users : u = user[r]
    BY <1>5, <2>1, NullAssumption DEF IInv, OpInv, Commit
  <2>3. \A s \in Tokens : row_lock[s] # r
    BY <1>5 DEF IInv, LockInv, Holding, Commit
  <2>4. ~Issued(t) /\ \A s \in Tokens : Issued(s)' <=> Issued(s) \/ s = t
    BY <2>1, CommitRow, CommitAddsNewRow
  <2>5. \A s \in Tokens : Live(s)' <=> Live(s) \/ s = t
    BY <2>1, <2>3, CommitRow
  <2>6. Held' = [Held EXCEPT ![t] = {u}]
    <3>1. ASSUME NEW s \in Tokens
          PROVE  Held'[s] = IF s = t THEN {u} ELSE Held[s]
      <4>1. CASE s = t
        BY <2>1, <2>2, <2>4, <4>1, CommitRow DEF Issued
      <4>2. CASE s # t
        BY <2>1, <2>4, <4>2, CommitRow DEF Issued
      <4> QED
        BY <4>1, <4>2
    <3> QED
      BY <3>1
  <2>7. {s \in Tokens : Live(s)}' = {s \in Tokens : Live(s)} \cup {t}
    BY <2>5
  <2>8. {q \in Requests : Opened(q)}' = {q \in Requests : Opened(q)} \cup {r}
    BY <1>4, <1>5
  <2>9. t \notin Chain!Issued
    BY <2>4 DEF Chain!Issued
  <2>10. Chain!Grant(r, u, t)
    BY <1>1, <1>3, <2>6, <2>7, <2>8, <2>9 DEF Chain!Grant
  <2> QED
    BY <2>10 DEF Chain!Next
<1>6. CASE op[r] # "token"
  <2>1. PICK t \in Tokens : t = presented[r]
    BY <1>6 DEF IInv, TypeOK, Ops, OpInv, LockInv, Holding, Commit
  <2>2. row_lock[t] = r /\ Live(t) /\ op[r] \in {"refresh", "revoke"}
    BY <1>6, <2>1 DEF IInv, TypeOK, Ops, OpInv, LockInv, Holding, Commit
  <2>3. \A s \in Tokens : row_lock[s] = r <=> s = t
    BY <2>1, <2>2 DEF IInv, LockInv
  <2>4. {q \in Requests : Opened(q)}' = {q \in Requests : Opened(q)}
    BY <1>4, <1>6
  <2>5. CASE fresh[r] \in Tokens
    <3>1. PICK s \in Tokens : s = fresh[r]
      BY <2>5
    <3>2. /\ ~Issued(s) /\ s # t
          /\ \A x \in Tokens : Issued(x)' <=> Issued(x) \/ x = s
      BY <2>2, <3>1, CommitRow, CommitAddsNewRow DEF Live
    <3>3. {x \in Tokens : Live(x)}' =
            ({x \in Tokens : Live(x)} \ {t}) \cup {s}
      <4>1. \A x \in Tokens : Live(x)' <=> (Live(x) /\ x # t) \/ x = s
        BY <2>3, <3>1, <3>2, CommitRow
      <4> QED
        BY <4>1
    <3>4. user[r] = refresh_tokens[t].user
      <4>1. op[r] = "refresh"
        BY <1>6, <2>5, NullAssumption DEF IInv, FreshInv
      <4> QED
        BY <2>1, <4>1 DEF IInv, LockInv, Holding, Commit
    <3>5. Held' = [Held EXCEPT ![s] = Held[t]]
      <4>1. ASSUME NEW x \in Tokens
            PROVE  Held'[x] = IF x = s THEN Held[t] ELSE Held[x]
        <5>1. CASE x = s
          BY <2>2, <3>1, <3>2, <3>4, <5>1, CommitRow DEF Live, Issued
        <5>2. CASE x # s
          BY <3>1, <3>2, <5>2, CommitRow DEF Issued
        <5> QED
          BY <5>1, <5>2
      <4> QED
        BY <4>1
    <3>6. s \notin Chain!Issued
      BY <3>2 DEF Chain!Issued
    <3>7. Chain!Rotate(t, s)
      BY <1>1, <2>2, <2>4, <3>3, <3>5, <3>6 DEF Chain!Rotate
    <3> QED
      BY <3>7 DEF Chain!Next
  <2>6. CASE fresh[r] \notin Tokens
    <3>1. \A x \in Tokens : Issued(x)' <=> Issued(x)
      BY <2>6, CommitRow
    <3>2. {x \in Tokens : Live(x)}' = {x \in Tokens : Live(x)} \ {t}
      <4>1. \A x \in Tokens : Live(x)' <=> Live(x) /\ x # t
        BY <2>3, <2>6, CommitRow
      <4> QED
        BY <4>1
    <3>3. Held' = Held
      <4>1. \A x \in Tokens : Held'[x] = Held[x]
        BY <2>6, <3>1, CommitRow DEF Issued
      <4> QED
        BY <4>1
    <3>4. Chain!Retire(t)
      BY <1>1, <2>2, <2>4, <3>2, <3>3 DEF Chain!Retire
    <3> QED
      BY <3>4 DEF Chain!Next
  <2> QED
    BY <2>5, <2>6
<1> QED
  BY <1>5, <1>6

(* Every step maps to a step of the chains or to a stutter. *)
LEMMA StepImplements == IInv /\ [Next]_vars => [Chain!Next]_(Chain!vars)
<1> SUFFICES ASSUME IInv, [Next]_vars PROVE [Chain!Next]_(Chain!vars)
  OBVIOUS
<1>1. CASE \E r \in Requests : Commit(r)
  BY <1>1, CommitImplements
<1>2. CASE \E u \in Users : Deactivate(u)
  <2>1. PICK u \in Users : Deactivate(u)
    BY <1>2
  <2>2. \A q \in Requests : Opened(q)' <=> Opened(q)
    BY <2>1, LoginsNeedCommit DEF Deactivate
  <2>3. {v \in Users : ~is_active[v]}' =
          {v \in Users : ~is_active[v]} \cup {u}
    BY <2>1 DEF IInv, TypeOK, Deactivate
  <2>4. Chain!Disable(u)
    BY <2>1, <2>2, <2>3 DEF Chain!Disable, Deactivate, Live, Issued
  <2> QED
    BY <2>4 DEF Chain!Next
<1>3. CASE /\ ~\E r \in Requests : Commit(r)
           /\ ~\E u \in Users : Deactivate(u)
  <2>1. refresh_tokens' = refresh_tokens /\ is_active' = is_active
    BY <1>3 DEF Next, Step, Tick, SubmitPassword, SubmitRefresh, SubmitRevoke,
                AuthenticateDatabaseUser, ConsumeRefreshToken, GetUserById,
                IssueRefreshToken, RevokeRefreshToken, Reply, Fail, Finished,
                vars, database
  <2>2. \A q \in Requests : Opened(q)' <=> Opened(q)
    BY <2>1, LoginsNeedCommit
  <2> QED
    BY <2>1, <2>2 DEF Chain!vars, Live, Issued
<1> QED
  BY <1>1, <1>2, <1>3

(* The endpoints implement the abstract chains: a chain has one live token,
   and nobody sees a rotation half done. *)
THEOREM Refinement == Spec => ImplementsChain
BY ChainInit, StepImplements, Invariance, PTL
   DEF Spec, Chain!Spec, ImplementsChain

-----------------------------------------------------------------------------
(* What follows from the chains, whatever the endpoints do inside. *)

LiveTokens == {t \in Tokens : Live(t)}
Grants     == {r \in Requests : Opened(r)}

(* There are never more live tokens than password logins that opened a
   session: no interleaving of refreshes, logouts and failures forks one. *)
SessionsNeedLogins ==
  /\ IsFiniteSet(LiveTokens) /\ IsFiniteSet(Grants)
  /\ Cardinality(LiveTokens) <= Cardinality(Grants)

(* Only a grant adds a live token to those there are, and it adds a login. *)
LEMMA ChainsNeedLogins ==
  SessionsNeedLogins /\ [Chain!Next]_(Chain!vars) => SessionsNeedLogins'
<1> SUFFICES ASSUME SessionsNeedLogins, [Chain!Next]_(Chain!vars)
             PROVE  SessionsNeedLogins'
  OBVIOUS
<1>1. /\ IsFiniteSet(LiveTokens) /\ IsFiniteSet(Grants)
      /\ Cardinality(LiveTokens) <= Cardinality(Grants)
      /\ Cardinality(LiveTokens) \in Nat /\ Cardinality(Grants) \in Nat
  BY FS_CardinalityType DEF SessionsNeedLogins
<1>2. ASSUME NEW l \in Requests, NEW u \in Users, NEW t \in Tokens,
             Chain!Grant(l, u, t)
      PROVE  SessionsNeedLogins'
  <2>1. /\ LiveTokens' = LiveTokens \cup {t}
        /\ Grants' = Grants \cup {l} /\ l \notin Grants
    BY <1>2 DEF Chain!Grant, LiveTokens, Grants
  <2>2. /\ IsFiniteSet(LiveTokens')
        /\ \/ Cardinality(LiveTokens') = Cardinality(LiveTokens)
           \/ Cardinality(LiveTokens') = Cardinality(LiveTokens) + 1
    BY <1>1, <2>1, FS_AddElement
  <2>3. /\ IsFiniteSet(Grants')
        /\ Cardinality(Grants') = Cardinality(Grants) + 1
    BY <1>1, <2>1, FS_AddElement
  <2> QED
    BY <1>1, <2>2, <2>3 DEF SessionsNeedLogins
<1>3. ASSUME NEW t \in Tokens, NEW s \in Tokens, Chain!Rotate(t, s)
      PROVE  SessionsNeedLogins'
  <2>1. /\ t \in LiveTokens
        /\ LiveTokens' = (LiveTokens \ {t}) \cup {s} /\ Grants' = Grants
    BY <1>3 DEF Chain!Rotate, LiveTokens, Grants
  <2>2. /\ IsFiniteSet(LiveTokens \ {t})
        /\ Cardinality(LiveTokens \ {t}) = Cardinality(LiveTokens) - 1
    BY <1>1, <2>1, FS_RemoveElement
  <2>3. /\ IsFiniteSet(LiveTokens')
        /\ \/ Cardinality(LiveTokens') = Cardinality(LiveTokens \ {t})
           \/ Cardinality(LiveTokens') = Cardinality(LiveTokens \ {t}) + 1
    BY <2>1, <2>2, FS_AddElement
  <2> QED
    BY <1>1, <2>1, <2>2, <2>3 DEF SessionsNeedLogins
<1>4. ASSUME NEW t \in Tokens, Chain!Retire(t)
      PROVE  SessionsNeedLogins'
  <2>1. LiveTokens' = LiveTokens \ {t} /\ Grants' = Grants /\ t \in LiveTokens
    BY <1>4 DEF Chain!Retire, LiveTokens, Grants
  <2>2. /\ IsFiniteSet(LiveTokens')
        /\ Cardinality(LiveTokens') = Cardinality(LiveTokens) - 1
    BY <1>1, <2>1, FS_RemoveElement
  <2> QED
    BY <1>1, <2>1, <2>2 DEF SessionsNeedLogins
<1>5. ASSUME NEW u \in Users, Chain!Disable(u) PROVE SessionsNeedLogins'
  <2>1. LiveTokens' = LiveTokens /\ Grants' = Grants
    BY <1>5 DEF Chain!Disable, LiveTokens, Grants
  <2> QED
    BY <1>1, <2>1 DEF SessionsNeedLogins
<1>6. ASSUME UNCHANGED Chain!vars PROVE SessionsNeedLogins'
  <2>1. LiveTokens' = LiveTokens /\ Grants' = Grants
    BY <1>6 DEF Chain!vars, LiveTokens, Grants
  <2> QED
    BY <1>1, <2>1 DEF SessionsNeedLogins
<1> QED
  BY <1>2, <1>3, <1>4, <1>5, <1>6 DEF Chain!Next

(* The endpoints inherit it from the chains they implement: however many
   clients refresh at a time and whatever is lost, the sessions alive are no
   more than the passwords that were given. *)
THEOREM SessionsAreNotForked == Spec => []SessionsNeedLogins
<1>1. Chain!Init => SessionsNeedLogins
  <2> SUFFICES ASSUME Chain!Init PROVE SessionsNeedLogins
    OBVIOUS
  <2>1. LiveTokens = {} /\ Grants = {}
    BY DEF Chain!Init, LiveTokens, Grants
  <2> QED
    BY <2>1, FS_EmptySet DEF SessionsNeedLogins
<1>2. Chain!Spec => []SessionsNeedLogins
  BY <1>1, ChainsNeedLogins, PTL DEF Chain!Spec
<1> QED
  BY <1>2, Refinement, PTL DEF ImplementsChain

(* Who holds the lock of a token's row is past every statement that could
   wait for one: the waits for row locks form no circle. *)
HoldersNeverWait ==
  \A t \in Tokens :
    row_lock[t] \in Requests =>
      pc[row_lock[t]] \notin {"consume", "revoke"}

(* No deadlock on the rows of the tokens. *)
THEOREM NoCircleOfLocks == Spec => []HoldersNeverWait
<1>1. IInv => HoldersNeverWait
  BY DEF IInv, LockInv, Holding, HoldersNeverWait
<1> QED
  BY <1>1, Invariance, PTL
=============================================================================
