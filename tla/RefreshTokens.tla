--------------------------- MODULE RefreshTokens ---------------------------
(***************************************************************************)
(* Database-backed refresh tokens: POST /auth/token, /auth/refresh and     *)
(* /auth/revoke (auth/router.py, service.py, repository.py) over the       *)
(* refresh_tokens table, for auth_enabled = auth_use_database =            *)
(* auth_refresh_token_enabled = true.                                      *)
(*                                                                         *)
(* One step per await of a handler.  Requests run in any number of worker  *)
(* processes; they share only the database, PostgreSQL at its default      *)
(* READ COMMITTED level: an UPDATE locks the row it matches until its      *)
(* transaction ends, an UPDATE that meets a locked row waits and evaluates *)
(* its WHERE again on the committed row, and every other statement sees    *)
(* the committed rows and its own writes.                                  *)
(***************************************************************************)
EXTENDS Naturals

CONSTANTS Users, Tokens, Requests,
          NoToken,    \* a string that matches no row, and "not set"
          NoUser, NoRequest, NoRow,
          Mint,       \* the token each request generates, if it gets there
          Lifetime,   \* auth_refresh_token_expire_minutes, in ticks
          MaxTime     \* bound of the clock

ASSUME LifetimeAssumption == Lifetime \in Nat \ {0}
ASSUME NullAssumption ==
  NoToken \notin Tokens /\ NoUser \notin Users /\ NoRequest \notin Requests

(* secrets.token_urlsafe(48) returns no string twice. *)
ASSUME MintAssumption ==
  /\ Mint \in [Requests -> Tokens]
  /\ \A r, q \in Requests : Mint[r] = Mint[q] => r = q

Row == [user: Users, expires: Nat, revoked: BOOLEAN]

ASSUME NoRowAssumption == NoRow \notin Row

VARIABLES
  now,             \* the wall clock
  is_active,       \* users.is_active
  refresh_tokens,  \* committed rows, by token (token_hash is unique)
  row_lock,        \* the request whose open transaction updated the row
  pc, op,          \* where each request is, and which endpoint it called
  presented,       \* payload.refresh_token
  dead_on_arrival, \* history: the token was not usable when presented
  as_of,           \* `now` as read by consume_refresh_token
  user,            \* user_id the handler works with
  fresh, expires,  \* the token it generated, and its expires_at
  status           \* its status; "failed" for 500, 504 or no answer

vars == <<now, is_active, refresh_tokens, row_lock, pc, op, presented,
          dead_on_arrival, as_of, user, fresh, expires, status>>

database == <<is_active, refresh_tokens, row_lock>>
request  == <<op, presented, dead_on_arrival>>

PCs == {"idle", "authenticate", "consume", "load_user", "issue", "revoke",
        "commit", "reply", "done"}
Ops == {"none", "token", "refresh", "revoke"}
Statuses == {"none", "200", "204", "401", "failed"}

-----------------------------------------------------------------------------

Issued(t) == refresh_tokens[t] # NoRow
Live(t)   == t \in Tokens /\ Issued(t) /\ ~refresh_tokens[t].revoked

(* Mutant: revoked_at IS NULL forgotten. *)
ConsumableAgain(t, at) ==
  t \in Tokens /\ Issued(t) /\ refresh_tokens[t].expires > at

(* The WHERE clause of consume_refresh_token; the one of
   revoke_refresh_token is Live: it has no expiry condition. *)
Consumable(t, at) == Live(t) /\ refresh_tokens[t].expires > at

Usable(t) == Consumable(t, now) /\ is_active[refresh_tokens[t].user]

(* A raw token exists outside the database only in a 200 answer. *)
Delivered == {t \in Tokens :
                \E r \in Requests :
                  pc[r] = "done" /\ status[r] = "200" /\ fresh[r] = t}

(* A password grant, or a rotation, whose token is committed. *)
Opened(r)  == op[r] = "token" /\ fresh[r] \in Tokens /\ Issued(fresh[r])
Rotated(r) == op[r] = "refresh" /\ fresh[r] \in Tokens /\ Issued(fresh[r])

TypeOK ==
  /\ now \in Nat
  /\ is_active \in [Users -> BOOLEAN]
  /\ refresh_tokens \in [Tokens -> Row \cup {NoRow}]
  /\ row_lock \in [Tokens -> Requests \cup {NoRequest}]
  /\ pc \in [Requests -> PCs]
  /\ op \in [Requests -> Ops]
  /\ presented \in [Requests -> Tokens \cup {NoToken}]
  /\ dead_on_arrival \in [Requests -> BOOLEAN]
  /\ as_of \in [Requests -> Nat]
  /\ user \in [Requests -> Users \cup {NoUser}]
  /\ fresh \in [Requests -> Tokens \cup {NoToken}]
  /\ expires \in [Requests -> Nat]
  /\ status \in [Requests -> Statuses]

Init ==
  /\ now = 0
  /\ is_active = [u \in Users |-> TRUE]
  /\ refresh_tokens = [t \in Tokens |-> NoRow]
  /\ row_lock = [t \in Tokens |-> NoRequest]
  /\ pc = [r \in Requests |-> "idle"]
  /\ op = [r \in Requests |-> "none"]
  /\ presented = [r \in Requests |-> NoToken]
  /\ dead_on_arrival = [r \in Requests |-> FALSE]
  /\ as_of = [r \in Requests |-> 0]
  /\ user = [r \in Requests |-> NoUser]
  /\ fresh = [r \in Requests |-> NoToken]
  /\ expires = [r \in Requests |-> 0]
  /\ status = [r \in Requests |-> "none"]

-----------------------------------------------------------------------------
(* The environment: clients, the clock and an operator. *)

SubmitPassword(r, u) ==
  /\ pc[r] = "idle"
  /\ pc' = [pc EXCEPT ![r] = "authenticate"]
  /\ op' = [op EXCEPT ![r] = "token"]
  /\ user' = [user EXCEPT ![r] = u]
  /\ UNCHANGED <<now, database, presented, dead_on_arrival, as_of, fresh,
                 expires, status>>

(* consume_refresh_token reads the clock before it waits for the row. *)
SubmitRefresh(r, t) ==
  /\ pc[r] = "idle"
  /\ pc' = [pc EXCEPT ![r] = "consume"]
  /\ op' = [op EXCEPT ![r] = "refresh"]
  /\ presented' = [presented EXCEPT ![r] = t]
  /\ dead_on_arrival' = [dead_on_arrival EXCEPT ![r] = ~Usable(t)]
  /\ as_of' = [as_of EXCEPT ![r] = now]
  /\ UNCHANGED <<now, database, user, fresh, expires, status>>

SubmitRevoke(r, t) ==
  /\ pc[r] = "idle"
  /\ pc' = [pc EXCEPT ![r] = "revoke"]
  /\ op' = [op EXCEPT ![r] = "revoke"]
  /\ presented' = [presented EXCEPT ![r] = t]
  /\ UNCHANGED <<now, database, dead_on_arrival, as_of, user, fresh,
                 expires, status>>

Tick ==
  /\ now < MaxTime
  /\ now' = now + 1
  /\ UNCHANGED <<database, pc, request, as_of, user, fresh, expires, status>>

(* An operator deactivates an account; nothing in src/ does. *)
Deactivate(u) ==
  /\ is_active[u]
  /\ is_active' = [is_active EXCEPT ![u] = FALSE]
  /\ UNCHANGED <<now, refresh_tokens, row_lock, pc, request, as_of, user,
                 fresh, expires, status>>

-----------------------------------------------------------------------------
(* The handlers. *)

(* Go on at `next`, with the status decided so far. *)
Goto(r, next, code) ==
  /\ pc' = [pc EXCEPT ![r] = next]
  /\ status' = [status EXCEPT ![r] = code]

(* An unknown name, a wrong password or a scope the user does not have is
   refused as an inactive account is; which of them is not told apart. *)
AuthenticateDatabaseUser(r) ==
  /\ pc[r] = "authenticate"
  /\ \/ is_active[user[r]] /\ Goto(r, "issue", "none")
     \/ Goto(r, "reply", "401")
  /\ UNCHANGED <<now, database, request, as_of, user, fresh, expires>>

(* Mutant: get_valid_refresh_token, a SELECT that waits for nobody, and the
   UPDATE by primary key. *)
SelectThenRevoke(r) ==
  LET t == presented[r] IN
  /\ pc[r] = "consume"
  /\ \/ /\ Consumable(t, as_of[r])
        /\ row_lock' = [row_lock EXCEPT ![t] = r]
        /\ user' = [user EXCEPT ![r] = refresh_tokens[t].user]
        /\ Goto(r, "load_user", "none")
     \/ /\ ~Consumable(t, as_of[r])
        /\ Goto(r, "reply", "401")
        /\ UNCHANGED <<row_lock, user>>
  /\ UNCHANGED <<now, is_active, refresh_tokens, request, as_of, fresh,
                 expires>>

(* Mutant: commit=False forgotten by rotate_refresh_token. *)
ConsumeAndCommit(r) ==
  LET t == presented[r] IN
  /\ pc[r] = "consume"
  /\ Consumable(t, as_of[r])
  /\ row_lock[t] = NoRequest
  /\ refresh_tokens' = [refresh_tokens EXCEPT ![t].revoked = TRUE]
  /\ user' = [user EXCEPT ![r] = refresh_tokens[t].user]
  /\ Goto(r, "load_user", "none")
  /\ UNCHANGED <<now, is_active, row_lock, request, as_of, fresh, expires>>

(* UPDATE ... WHERE token_hash AND revoked_at IS NULL AND expires_at > now
   RETURNING user_id, left uncommitted. *)
ConsumeRefreshToken(r) ==
  LET t == presented[r] IN
  /\ pc[r] = "consume"
  /\ \/ /\ Consumable(t, as_of[r])
        /\ row_lock[t] = NoRequest
        /\ row_lock' = [row_lock EXCEPT ![t] = r]
        /\ user' = [user EXCEPT ![r] = refresh_tokens[t].user]
        /\ Goto(r, "load_user", "none")
     \/ /\ ~Consumable(t, as_of[r])
        /\ Goto(r, "reply", "401")
        /\ UNCHANGED <<row_lock, user>>
  /\ UNCHANGED <<now, is_active, refresh_tokens, request, as_of, fresh,
                 expires>>

(* Mutant: is_active not looked at. *)
GetAnyUserById(r) ==
  /\ pc[r] = "load_user"
  /\ Goto(r, "issue", "none")
  /\ UNCHANGED <<now, database, request, as_of, user, fresh, expires>>

(* A token of an inactive user is spent all the same: commit, then 401. *)
GetUserById(r) ==
  /\ pc[r] = "load_user"
  /\ IF is_active[user[r]] THEN Goto(r, "issue", "none")
                           ELSE Goto(r, "commit", "401")
  /\ UNCHANGED <<now, database, request, as_of, user, fresh, expires>>

(* Mutant: commit=False without the commit of rotate_refresh_token. *)
IssueUncommitted(r) ==
  /\ pc[r] = "issue"
  /\ fresh' = [fresh EXCEPT ![r] = Mint[r]]
  /\ expires' = [expires EXCEPT ![r] = now + Lifetime]
  /\ row_lock' = [t \in Tokens |-> IF row_lock[t] = r THEN NoRequest
                                                     ELSE row_lock[t]]
  /\ Goto(r, "reply", "200")
  /\ UNCHANGED <<now, is_active, refresh_tokens, request, as_of, user>>

(* issue_refresh_token: the new row is inserted in the open transaction and
   flushed; nobody else sees it yet. *)
IssueRefreshToken(r) ==
  /\ pc[r] = "issue"
  /\ fresh' = [fresh EXCEPT ![r] = Mint[r]]
  /\ expires' = [expires EXCEPT ![r] = now + Lifetime]
  /\ Goto(r, "commit", "200")
  /\ UNCHANGED <<now, database, request, as_of, user>>

(* Mutant: commit=False. *)
RevokeUncommitted(r) ==
  /\ pc[r] = "revoke"
  /\ Goto(r, "reply", "204")
  /\ UNCHANGED <<now, database, request, as_of, user, fresh, expires>>

(* revoke_refresh_token: no commit when no row changed. *)
RevokeRefreshToken(r) ==
  LET t == presented[r] IN
  /\ pc[r] = "revoke"
  /\ \/ /\ Live(t)
        /\ row_lock[t] = NoRequest
        /\ row_lock' = [row_lock EXCEPT ![t] = r]
        /\ Goto(r, "commit", "204")
     \/ /\ ~Live(t)
        /\ Goto(r, "reply", "204")
        /\ UNCHANGED row_lock
  /\ UNCHANGED <<now, is_active, refresh_tokens, request, as_of, user,
                 fresh, expires>>

(* Mutant: the session is never closed. *)
StillLocked(r) == row_lock

(* The end of a transaction: its locks are released. *)
Released(r) ==
  [t \in Tokens |-> IF row_lock[t] = r THEN NoRequest ELSE row_lock[t]]

(* Mutant: expires_at not stored. *)
WrittenWithoutExpiry(r) ==
  [t \in Tokens |->
     IF t = fresh[r] THEN [user |-> user[r], revoked |-> FALSE]
                     ELSE refresh_tokens[t]]

(* What the transaction wrote: the token it generated, if any, and
   revoked_at of the row it locked. *)
Written(r) ==
  [t \in Tokens |->
     IF t = fresh[r]
     THEN [user |-> user[r], expires |-> expires[r], revoked |-> FALSE]
     ELSE IF row_lock[t] = r
     THEN [refresh_tokens[t] EXCEPT !.revoked = TRUE]
     ELSE refresh_tokens[t]]

Commit(r) ==
  /\ pc[r] = "commit"
  /\ refresh_tokens' = Written(r)
  /\ row_lock' = Released(r)
  /\ Goto(r, "reply", status[r])
  /\ UNCHANGED <<now, is_active, request, as_of, user, fresh, expires>>

Reply(r) ==
  /\ pc[r] = "reply"
  /\ Goto(r, "done", status[r])
  /\ UNCHANGED <<now, database, request, as_of, user, fresh, expires>>

(* At any await: a database error (rollback, 500), the request timeout
   cancelling the handler (its session is closed, 504), or the worker dying.
   The transaction rolls back; after Commit only the answer is lost, the
   SELECT that refreshes the new row of /auth/token failing included. *)
Fail(r) ==
  /\ pc[r] \notin {"idle", "done"}
  /\ row_lock' = Released(r)
  /\ Goto(r, "done", "failed")
  /\ UNCHANGED <<now, is_active, refresh_tokens, request, as_of, user, fresh,
                 expires>>

Step(r) ==
  \/ AuthenticateDatabaseUser(r)
  \/ ConsumeRefreshToken(r)
  \/ GetUserById(r)
  \/ IssueRefreshToken(r)
  \/ RevokeRefreshToken(r)
  \/ Commit(r)
  \/ Reply(r)

(* All requests are over: the only state in which nothing need happen. *)
Finished == (\A r \in Requests : pc[r] = "done") /\ UNCHANGED vars

Next ==
  \/ Tick
  \/ \E u \in Users : Deactivate(u)
  \/ \E r \in Requests :
       \/ \E u \in Users : SubmitPassword(r, u)
       \/ \E t \in Delivered \cup {NoToken} :
            SubmitRefresh(r, t) \/ SubmitRevoke(r, t)
       \/ Step(r)
       \/ Fail(r)
  \/ Finished

Spec == Init /\ [][Next]_vars

(* The event loop runs every ready task and PostgreSQL answers: a request
   that can take its next step does not wait for ever. *)
FairSpec == Spec /\ \A r \in Requests : WF_vars(Step(r))

-----------------------------------------------------------------------------
(* What a client may rely on. *)

(* A refresh token is rotated at most once, however many refresh calls
   present it at the same time: the row is matched, locked and marked by one
   UPDATE (consume_refresh_token). *)
SingleUse ==
  \A r, q \in Requests :
    r # q /\ Rotated(r) /\ Rotated(q) => presented[r] # presented[q]

(* Once /auth/revoke has answered 204, the token it named is not live and
   never is again, even when a rotation of it was under way: whichever of
   the two transactions ends second sees what the first one did. *)
LogoutFinal ==
  \A r \in Requests :
    op[r] = "revoke" /\ pc[r] = "done" /\ status[r] = "204"
      => ~Live(presented[r])

(* A token that was revoked, expired or of a disabled account when a refresh
   call arrived with it never yields a new token, although the call may wait
   long for the row and checks the account only after it spent the token. *)
DeadStaysDead ==
  \A r \in Requests : dead_on_arrival[r] => ~Rotated(r)

(* The refresh token of a 200 answer is a committed row, owned by the user
   the request authenticated as: no client ever holds a token whose
   transaction was rolled back. *)
DeliveredIsCommitted ==
  \A r \in Requests :
    op[r] # "revoke" /\ pc[r] = "done" /\ status[r] = "200"
      => /\ Issued(fresh[r])
         /\ refresh_tokens[fresh[r]].user = user[r]

(* A token stops being live only in the step that makes its one successor
   live for the same user, or that carries out a logout, or on account of an
   inactive user: no error, timeout or crash between consuming the old token
   and inserting the new one can leave the user with neither. *)
Succeeded(t) ==
  \E s \in Tokens :
    /\ ~Issued(s)
    /\ Live(s)'
    /\ refresh_tokens'[s].user = refresh_tokens[t].user

LoggedOut(t) ==
  \E r \in Requests :
    op[r] = "revoke" /\ presented[r] = t /\ pc[r] = "commit"

NeverStranded ==
  \A t \in Tokens :
    Live(t) /\ ~Live(t)' =>
      \/ Succeeded(t)
      \/ LoggedOut(t)
      \/ ~is_active[refresh_tokens[t].user]

RotationIsAtomic == [][NeverStranded]_vars

(* The abstract chains of refresh tokens, read off the committed rows. *)
Chain == INSTANCE RefreshChain WITH
  Logins   <- Requests,
  holder   <- [t \in Tokens |->
                 IF Issued(t) THEN {refresh_tokens[t].user} ELSE {}],
  live     <- {t \in Tokens : Live(t)},
  logins   <- {r \in Requests : Opened(r)},
  disabled <- {u \in Users : ~is_active[u]}

(* Every behaviour of the endpoints is a behaviour of the abstract chains:
   all the intermediate states of a rotation are invisible outside its
   transaction. *)
ImplementsChain == Chain!Spec

(* Every request that was submitted is answered or lost: none waits for ever
   for a row lock, since every path out of a handler ends its transaction. *)
EveryRequestEnds ==
  \A r \in Requests : (pc[r] # "idle") ~> (pc[r] = "done")
=============================================================================
