---------------------------- MODULE AccessTokens ----------------------------
(***************************************************************************)
(* Access tokens are stateless: whoever presents one is judged by its      *)
(* signature, its times and its scopes alone, by any worker, on that       *)
(* worker's clock and with the secrets of the settings it started with.    *)
(* One account, whose scopes and activity an operator changes; workers     *)
(* that sign and check with clocks apart; secrets rotated by restarting    *)
(* the workers one by one, each draining first.                            *)
(*                                                                         *)
(* Clocks read fractions of a second, a token's times are whole ones: the  *)
(* model counts in ticks, of which a second has TicksPerSecond.            *)
(*                                                                         *)
(* What a refresh token is worth is RefreshTokens' matter: here a holder   *)
(* may always try a refresh.  Authentication is enabled and uses the       *)
(* database.                                                               *)
(***************************************************************************)
EXTENDS Integers, FiniteSets, Sequences

CONSTANTS Workers, Requests, Scopes,
          TicksPerSecond,  \* resolution of the clocks
          Skew,            \* ticks each worker's clock is ahead
          Spread,          \* bound of Skew
          LifetimeSeconds, \* auth_access_token_expire_minutes
          RequestTimeout,  \* request_timeout_seconds, in ticks
          Generations,     \* the settings of one rotation, in order
          MaxTime, MaxTokens, MaxChanges,  \* bounds of the exploration
          NoToken

ASSUME ConstantsAssumption ==
  /\ Spread \in Nat /\ Skew \in [Workers -> 0..Spread]
  /\ TicksPerSecond \in Nat \ {0}
  /\ LifetimeSeconds \in Nat \ {0} /\ RequestTimeout \in Nat \ {0}
  /\ MaxTime \in Nat /\ MaxTokens \in Nat /\ MaxChanges \in Nat

Lifetime == LifetimeSeconds * TicksPerSecond

Secrets(g) == {Generations[g].sign} \cup Generations[g].also

(* Workers one generation apart accept each other's tokens. *)
ASSUME RotationAssumption ==
  /\ Len(Generations) \in Nat \ {0}
  /\ \A g \in 1..Len(Generations) - 1 :
       /\ Generations[g].sign \in Secrets(g + 1)
       /\ Generations[g + 1].sign \in Secrets(g)

VARIABLES
  now,         \* true time
  active,      \* users.is_active
  granted,     \* users.scopes_csv
  changes,     \* how often the operator changed them
  held,        \* history: when the active account last had each scope
  generation,  \* the settings each worker's get_settings has cached
  rotated,     \* when a worker last took up new settings
  issuing,     \* requests for a token that are under way
  tokens,      \* the tokens clients have
  verdict      \* what the last request with a token was answered

vars == <<now, active, granted, changes, held, generation, rotated, issuing,
          tokens, verdict>>
account  == <<active, granted, changes>>
settings == <<generation, rotated>>

Settings(w) == Generations[generation[w]]

Clock(w) == now + Skew[w]

(* int() of a time. *)
Seconds(t) == t \div TicksPerSecond

Idle == [step |-> "idle"]

(* iat and exp are whole seconds.  `signed`, the true time, is not in the
   token. *)
Token == [scopes : SUBSET Scopes, iat : Nat, exp : Nat,
          secret : UNION {Secrets(g) : g \in 1..Len(Generations)},
          signed : 0..MaxTime]

Reading == [step : {"read"}, worker : Workers, scopes : SUBSET Scopes,
            since : 0..MaxTime]
Sending == [step : {"send"}, worker : Workers, token : Token,
            since : 0..MaxTime]

Verdict == [worker : Workers, token : Token \cup {NoToken}, scope : Scopes,
            code : {200, 401, 403}]

NoVerdict == [code |-> 0]

TypeOK ==
  /\ now \in 0..MaxTime
  /\ active \in BOOLEAN
  /\ granted \subseteq Scopes
  /\ changes \in 0..MaxChanges
  /\ held \in [Scopes -> 0..MaxTime]
  /\ generation \in [Workers -> 1..Len(Generations)]
  /\ rotated \in 0..MaxTime
  /\ issuing \in [Requests -> {Idle} \cup Reading \cup Sending]
  /\ tokens \subseteq Token
  /\ verdict = NoVerdict \/ verdict \in Verdict

Init ==
  /\ now = 0
  /\ active = TRUE
  /\ granted = Scopes
  /\ changes = 0
  /\ held = [s \in Scopes |-> 0]
  /\ generation = [w \in Workers |-> 1]
  /\ rotated = 0
  /\ issuing = [r \in Requests |-> Idle]
  /\ tokens = {}
  /\ verdict = NoVerdict

-----------------------------------------------------------------------------
(* Time, the operator, and the account. *)

(* To be conjoined to what changes the time or the account. *)
RecordHeld ==
  held' = [s \in Scopes |->
             IF active' /\ s \in granted' THEN now' ELSE held[s]]

(* No request outlives its timeout. *)
Tick ==
  /\ now < MaxTime
  /\ \A r \in Requests :
       issuing[r] # Idle => now < issuing[r].since + RequestTimeout
  /\ now' = now + 1
  /\ verdict' = NoVerdict
  /\ UNCHANGED <<account, settings, issuing, tokens>>
  /\ RecordHeld

ChangeAccount ==
  /\ changes < MaxChanges
  /\ changes' = changes + 1
  /\ active' \in BOOLEAN
  /\ granted' \in SUBSET Scopes
  /\ verdict' = NoVerdict
  /\ UNCHANGED <<now, settings, issuing, tokens>>
  /\ RecordHeld

(* A worker that serves nobody restarts with the next settings: not before
   all have the current ones, and the tokens of the last ones are expired. *)
Restart(w) ==
  /\ generation[w] < Len(Generations)
  /\ \A r \in Requests : issuing[r] # Idle => issuing[r].worker # w
  /\ \A v \in Workers : generation[v] \in {generation[w], generation[w] + 1}
  /\ \/ generation[w] = 1
     \/ \E v \in Workers : generation[v] > generation[w]
     \/ now >= rotated + Lifetime
  /\ generation' = [generation EXCEPT ![w] = @ + 1]
  /\ rotated' = now
  /\ verdict' = NoVerdict
  /\ UNCHANGED <<now, account, held, issuing, tokens>>

-----------------------------------------------------------------------------
(* /auth/token and /auth/refresh. *)

Set(r, state) == issuing' = [issuing EXCEPT ![r] = state]

(* create_access_token on w. *)
Signed(w, scopes) ==
  [scopes |-> scopes,
   iat |-> Seconds(Clock(w)), exp |-> Seconds(Clock(w) + Lifetime),
   secret |-> Settings(w).sign, signed |-> now]

MayIssue ==
  Cardinality(tokens) + Cardinality({r \in Requests : issuing[r] # Idle})
    < MaxTokens

(* authenticate_database_user found the account active; the token is signed
   in the same step, for the scopes asked for, and sent once the refresh
   token is stored. *)
Login(r, w) ==
  /\ issuing[r] = Idle
  /\ MayIssue
  /\ active
  /\ \E requested \in SUBSET granted :
       LET scopes == IF requested = {} THEN granted ELSE requested
       IN Set(r, [step |-> "send", worker |-> w, token |-> Signed(w, scopes),
                  since |-> now])
  /\ verdict' = NoVerdict
  /\ UNCHANGED <<now, account, held, settings, tokens>>

(* Mutant: a refresh does not look at is_active. *)
AnyAccount == TRUE

MayRefresh == active

(* rotate_refresh_token has read the account and goes on to its writes. *)
ReadAccount(r, w) ==
  /\ issuing[r] = Idle
  /\ MayIssue
  /\ tokens # {}
  /\ MayRefresh
  /\ Set(r, [step |-> "read", worker |-> w, scopes |-> granted,
             since |-> now])
  /\ verdict' = NoVerdict
  /\ UNCHANGED <<now, account, held, settings, tokens>>

(* They are committed: the token is signed for what was read. *)
RefreshSigns(r) ==
  /\ issuing[r].step = "read"
  /\ Set(r, [step |-> "send", worker |-> issuing[r].worker,
             token |-> Signed(issuing[r].worker, issuing[r].scopes),
             since |-> issuing[r].since])
  /\ verdict' = NoVerdict
  /\ UNCHANGED <<now, account, held, settings, tokens>>

Deliver(r) ==
  /\ issuing[r].step = "send"
  /\ tokens' = tokens \cup {issuing[r].token}
  /\ Set(r, Idle)
  /\ verdict' = NoVerdict
  /\ UNCHANGED <<now, account, held, settings>>

(* An error, or the request timeout. *)
Cut(r) ==
  /\ issuing[r] # Idle
  /\ Set(r, Idle)
  /\ verdict' = NoVerdict
  /\ UNCHANGED <<now, account, held, settings, tokens>>

-----------------------------------------------------------------------------
(* A request to a route that requires a scope. *)

(* Mutant: additional secrets are not tried. *)
SigningSecretOnly(w) == {Settings(w).sign}

SecretsToTry(w) == Secrets(generation[w])

(* jwt.decode: a token is good from its iat on and until before its exp, by a
   clock that is not rounded. *)
Decoded(w, token) ==
  /\ token # NoToken
  /\ token.secret \in SecretsToTry(w)
  /\ token.iat * TicksPerSecond <= Clock(w)
  /\ Clock(w) < token.exp * TicksPerSecond

(* get_current_principal *)
Code(w, token, scope) ==
  IF ~Decoded(w, token) THEN 401
  ELSE IF scope \in token.scopes THEN 200 ELSE 403

Present(w, token, scope) ==
  /\ verdict' = [worker |-> w, token |-> token, scope |-> scope,
                 code |-> Code(w, token, scope)]
  /\ UNCHANGED <<now, account, held, settings, issuing, tokens>>

Next ==
  \/ Tick
  \/ ChangeAccount
  \/ \E w \in Workers :
       \/ Restart(w)
       \/ \E r \in Requests : Login(r, w) \/ ReadAccount(r, w)
       \/ \E token \in tokens \cup {NoToken}, scope \in Scopes :
            Present(w, token, scope)
  \/ \E r \in Requests : RefreshSigns(r) \/ Deliver(r) \/ Cut(r)

Spec == Init /\ [][Next]_vars

-----------------------------------------------------------------------------

(* There is no revocation of access tokens, but there is a bound: whoever
   is let in held the scope, as an active account, less than a token's
   lifetime, a request's duration and the spread of the clocks ago, however
   often tokens were refreshed meanwhile. *)
StalenessBounded ==
  verdict.code = 200
    => now - held[verdict.scope] < Lifetime + RequestTimeout + Spread

(* A client's token is good at every worker, the rotation of secrets
   notwithstanding: it is refused with 401 only at its two ends, within the
   spread of the clocks and, because its times are rounded down, at the later
   end within a second. *)
TokenLivesItsLife ==
  verdict.code = 401 /\ verdict.token # NoToken
    => LET age == now - verdict.token.signed
       IN age < Spread \/ age + TicksPerSecond > Lifetime - Spread
=============================================================================
