-------------------------- MODULE AccessTokensProofs --------------------------
(***************************************************************************)
(* Proofs about AccessTokens, for every number of workers, clocks within   *)
(* any spread, any lifetime and any rotation of secrets that keeps to      *)
(* RotationAssumption: how stale the scopes of an admitted token are, and  *)
(* that a token is good for its lifetime while the secrets are rotated.    *)
(***************************************************************************)
EXTENDS AccessTokens, TLAPS

-----------------------------------------------------------------------------
(* The inductive invariant. *)

(* An active account holds its scopes now. *)
HeldInv ==
  /\ \A s \in Scopes : held[s] <= now
  /\ active => \A s \in granted : held[s] = now

(* Workers are never more than one generation apart. *)
SpreadInv ==
  /\ rotated <= now
  /\ \A v, w \in Workers : generation[v] <= generation[w] + 1

(* The times of a token are those of a worker's clock when it was signed, in
   whole seconds: at most, and less than a second before. *)
Dated(token) ==
  /\ token.signed <= now
  /\ \E w \in Workers :
       /\ token.iat * TicksPerSecond <= token.signed + Skew[w]
       /\ token.exp * TicksPerSecond <= token.signed + Skew[w] + Lifetime
       /\ token.signed + Skew[w] + Lifetime
            < token.exp * TicksPerSecond + TicksPerSecond

(* Its scopes were held when the request that signed it had begun. *)
Entitled(token) ==
  \A s \in token.scopes : token.signed <= held[s] + RequestTimeout

(* Generation g signed it.  No worker is two generations behind g; one is two
   ahead only when the token has expired, because all were ahead at the last
   rotation, after the token was signed. *)
SignedBy(g, token) ==
  /\ token.secret = Generations[g].sign
  /\ \A w \in Workers : g <= generation[w] + 1
  /\ \/ \A w \in Workers : generation[w] <= g + 1
     \/ now >= token.signed + Lifetime
  /\ \/ \E w \in Workers : generation[w] <= g
     \/ rotated >= token.signed

Sound(token) ==
  /\ token \in Token
  /\ Dated(token)
  /\ Entitled(token)
  /\ \E g \in 1..Len(Generations) : SignedBy(g, token)

TokensInv == \A token \in tokens : Sound(token)

(* A request for a token is within its timeout, and read scopes that were
   held since it began. *)
ReadingInv ==
  \A r \in Requests :
    issuing[r].step = "read"
      => /\ issuing[r].since <= now
         /\ now <= issuing[r].since + RequestTimeout
         /\ \A s \in issuing[r].scopes : issuing[r].since <= held[s]

SendingInv ==
  \A r \in Requests :
    issuing[r].step = "send"
      => /\ now <= issuing[r].since + RequestTimeout
         /\ Sound(issuing[r].token)

IInv ==
  /\ TypeOK
  /\ HeldInv
  /\ SpreadInv
  /\ TokensInv
  /\ ReadingInv
  /\ SendingInv
  /\ StalenessBounded
  /\ TokenLivesItsLife

-----------------------------------------------------------------------------
(* What a token is, and stays. *)

LEMMA Constants ==
  /\ Len(Generations) \in Nat \ {0}
  /\ TicksPerSecond \in Nat \ {0} /\ Lifetime \in Nat \ {0}
  /\ RequestTimeout \in Nat \ {0} /\ Spread \in Nat
  /\ MaxTime \in Nat /\ MaxTokens \in Nat /\ MaxChanges \in Nat
  /\ \A w \in Workers : Skew[w] \in Nat /\ Skew[w] <= Spread
<1>1. Lifetime \in Nat \ {0}
  <2>1. TicksPerSecond \in Nat \ {0} /\ LifetimeSeconds \in Nat \ {0}
    BY ConstantsAssumption
  <2> QED
    BY <2>1 DEF Lifetime
<1> QED
  BY <1>1, ConstantsAssumption, RotationAssumption

(* int() of a time. *)
LEMMA WholeSeconds ==
  ASSUME NEW t \in Nat
  PROVE  /\ Seconds(t) \in Nat
         /\ Seconds(t) * TicksPerSecond <= t
         /\ t < Seconds(t) * TicksPerSecond + TicksPerSecond
BY Constants DEF Seconds

LEMMA TokenTypes ==
  ASSUME NEW token \in Token
  PROVE  /\ token.scopes \subseteq Scopes
         /\ token.iat \in Nat /\ token.exp \in Nat
         /\ token.signed \in 0..MaxTime
BY DEF Token

(* create_access_token, for scopes the account held when the request began. *)
LEMMA SignedIsSound ==
  ASSUME TypeOK, SpreadInv, NEW w \in Workers, NEW scopes \in SUBSET Scopes,
         \A s \in scopes : now <= held[s] + RequestTimeout
  PROVE  Sound(Signed(w, scopes))
<1> DEFINE token == Signed(w, scopes)
<1>1. /\ now \in Nat /\ now \in 0..MaxTime
      /\ generation[w] \in 1..Len(Generations)
      /\ \A v \in Workers : generation[v] \in Nat
  BY Constants DEF TypeOK
<1>2. /\ token.scopes = scopes /\ token.signed = now
      /\ token.iat = Seconds(now + Skew[w])
      /\ token.exp = Seconds(now + Skew[w] + Lifetime)
      /\ token.secret = Generations[generation[w]].sign
  BY DEF Signed, Clock, Settings
<1>a. now + Skew[w] \in Nat /\ now + Skew[w] + Lifetime \in Nat
  BY <1>1, Constants
<1>3. token \in Token
  <2>1. Generations[generation[w]].sign \in Secrets(generation[w])
    BY DEF Secrets
  <2>2. Generations[generation[w]].sign
          \in UNION {Secrets(g) : g \in 1..Len(Generations)}
    BY <1>1, <2>1
  <2>3. /\ Seconds(now + Skew[w]) \in Nat
        /\ Seconds(now + Skew[w] + Lifetime) \in Nat
    BY <1>a, WholeSeconds
  <2> QED
    BY <1>1, <2>2, <2>3 DEF Signed, Clock, Settings, Token
<1>4. Dated(token)
  <2>1. /\ token.iat * TicksPerSecond <= now + Skew[w]
        /\ token.exp * TicksPerSecond <= now + Skew[w] + Lifetime
        /\ now + Skew[w] + Lifetime
             < token.exp * TicksPerSecond + TicksPerSecond
    BY <1>a, <1>2, WholeSeconds
  <2> QED
    BY <1>1, <1>2, <2>1 DEF Dated
<1>5. Entitled(token)
  BY <1>2 DEF Entitled
<1>6. SignedBy(generation[w], token)
  BY <1>1, <1>2 DEF SignedBy, SpreadInv
<1> QED
  BY <1>1, <1>3, <1>4, <1>5, <1>6 DEF Sound

(* Time passes and scopes are held later: a token stays what it is. *)
LEMMA SoundIsKept ==
  ASSUME TypeOK, NEW token, Sound(token),
         now' \in Nat, now <= now', \A s \in Scopes : held[s] <= held'[s],
         \A s \in Scopes : held'[s] \in Nat, UNCHANGED settings
  PROVE  Sound(token)'
<1>1. token \in Token /\ token.signed \in Nat /\ token.scopes \subseteq Scopes
  BY TokenTypes, Constants DEF Sound
<1>2. /\ now \in Nat /\ rotated \in Nat
      /\ \A s \in Scopes : held[s] \in Nat
  BY Constants DEF TypeOK
<1>3. Dated(token)'
  BY <1>1, <1>2 DEF Sound, Dated
<1>4. Entitled(token)'
  <2>1. \A s \in token.scopes : token.signed <= held[s] + RequestTimeout
    BY DEF Sound, Entitled
  <2> SUFFICES ASSUME NEW s \in token.scopes
               PROVE  token.signed <= held'[s] + RequestTimeout
    BY DEF Entitled
  <2> QED
    BY <1>1, <1>2, <2>1, Constants
<1>5. PICK g \in 1..Len(Generations) : SignedBy(g, token)
  BY DEF Sound
<1>6. SignedBy(g, token)'
  BY <1>1, <1>2, <1>5, Constants DEF SignedBy, settings
<1> QED
  BY <1>1, <1>3, <1>4, <1>6 DEF Sound

(* A rotation leaves a token behind only when it has expired. *)
LEMMA SoundThroughRestart ==
  ASSUME TypeOK, SpreadInv, NEW token, Sound(token), NEW w \in Workers,
         Restart(w)
  PROVE  Sound(token)'
<1>1. token \in Token /\ token.signed \in Nat
  BY TokenTypes, Constants DEF Sound
<1>2. /\ now \in Nat /\ rotated \in Nat
      /\ \A v \in Workers : generation[v] \in Nat \ {0}
  BY Constants DEF TypeOK
<1>3. /\ now' = now /\ held' = held /\ rotated' = now
      /\ \A v \in Workers :
           generation'[v] = IF v = w THEN generation[w] + 1 ELSE generation[v]
      /\ \A v \in Workers : generation[v] \in {generation[w], generation[w] + 1}
      /\ \/ generation[w] = 1
         \/ \E v \in Workers : generation[v] > generation[w]
         \/ now >= rotated + Lifetime
  BY DEF Restart, TypeOK
<1>4. Dated(token)' /\ Entitled(token)'
  BY <1>3 DEF Sound, Dated, Entitled
<1>5. PICK g \in 1..Len(Generations) : SignedBy(g, token)
  BY DEF Sound
<1>6. SignedBy(g, token)'
  <2>1. token.secret = Generations[g].sign
    BY <1>5 DEF SignedBy
  <2>2. \A v \in Workers : g <= generation'[v] + 1
    BY <1>2, <1>3, <1>5 DEF SignedBy
  <2>3. rotated' >= token.signed
    BY <1>3 DEF Sound, Dated
  <2>4. \/ \A v \in Workers : generation'[v] <= g + 1
        \/ now >= token.signed + Lifetime
    <3>1. CASE generation[w] + 1 <= g + 1
      BY <1>2, <1>3, <3>1
    <3>2. CASE generation[w] + 1 > g + 1
      <4>1. \A v \in Workers : generation[v] > g
        BY <1>2, <1>3, <3>2
      <4>2. rotated >= token.signed
        BY <1>2, <1>5, <4>1 DEF SignedBy
      <4>3. CASE now >= rotated + Lifetime
        BY <1>1, <1>2, <4>2, <4>3, Constants
      <4>4. CASE \E v \in Workers : generation[v] > generation[w]
        BY <1>2, <1>5, <3>2, <4>4 DEF SignedBy
      <4>5. CASE generation[w] = 1
        BY <3>2, <4>5
      <4> QED
        BY <1>3, <4>3, <4>4, <4>5
    <3> QED
      BY <1>2, <3>1, <3>2
  <2> QED
    BY <1>3, <2>1, <2>2, <2>3, <2>4 DEF SignedBy
<1> QED
  BY <1>1, <1>4, <1>6 DEF Sound

(* Decoding: who is let in, and who is refused. *)
LEMMA DecodedIsFresh ==
  ASSUME TypeOK, NEW token, Sound(token), NEW w \in Workers, Decoded(w, token),
         NEW s \in token.scopes
  PROVE  now - held[s] < Lifetime + RequestTimeout + Spread
<1>1. /\ token.signed \in Nat /\ s \in Scopes
  BY TokenTypes, Constants DEF Sound
<1>2. now \in Nat /\ held[s] \in Nat
  BY <1>1, Constants DEF TypeOK
<1> DEFINE end == token.exp * TicksPerSecond
<1>3. now + Skew[w] < end
  BY DEF Decoded, Clock
<1>4. PICK v \in Workers : end <= token.signed + Skew[v] + Lifetime
  BY DEF Sound, Dated
<1>a. /\ Skew[w] \in Nat /\ Spread \in Nat /\ Lifetime \in Nat
      /\ Skew[v] \in Nat /\ Skew[v] <= Spread
  BY Constants
<1>c. end \in Nat
  BY TokenTypes, Constants DEF Sound
<1> HIDE DEF end
<1>b. now + Skew[w] < token.signed + Skew[v] + Lifetime
  BY <1>1, <1>2, <1>a, <1>c, <1>3, <1>4
<1>5. now - token.signed < Lifetime + Spread
  BY <1>1, <1>2, <1>a, <1>b
<1>6. token.signed <= held[s] + RequestTimeout
  BY DEF Sound, Entitled
<1> QED
  BY <1>1, <1>2, <1>5, <1>6, Constants

LEMMA RefusedAtItsEnds ==
  ASSUME TypeOK, NEW token, Sound(token), token # NoToken, NEW w \in Workers,
         ~Decoded(w, token)
  PROVE  \/ now - token.signed < Spread
         \/ now - token.signed + TicksPerSecond > Lifetime - Spread
<1> DEFINE start == token.iat * TicksPerSecond
           end   == token.exp * TicksPerSecond
<1>1. token.signed \in Nat /\ start \in Nat /\ end \in Nat
  BY TokenTypes, Constants DEF Sound
<1>2. now \in Nat /\ generation[w] \in 1..Len(Generations)
  BY Constants DEF TypeOK
<1>3. PICK v \in Workers :
        /\ start <= token.signed + Skew[v]
        /\ token.signed + Skew[v] + Lifetime < end + TicksPerSecond
  BY DEF Sound, Dated
<1>a. /\ Skew[w] \in Nat /\ Skew[w] <= Spread /\ Spread \in Nat
      /\ Skew[v] \in Nat /\ Skew[v] <= Spread
      /\ Lifetime \in Nat /\ TicksPerSecond \in Nat \ {0}
  BY Constants
<1>4. CASE ~(start <= Clock(w))
  <2>1. ~(start <= now + Skew[w])
    BY <1>4 DEF Clock
  <2> HIDE DEF start, end
  <2>2. now + Skew[w] < token.signed + Skew[v]
    BY <1>1, <1>2, <1>3, <1>a, <2>1
  <2>3. now - token.signed < Spread
    BY <1>1, <1>2, <1>a, <2>2
  <2> QED
    BY <2>3
<1>5. CASE ~(Clock(w) < end)
  <2>1. ~(now + Skew[w] < end)
    BY <1>5 DEF Clock
  <2> HIDE DEF start, end
  <2>a. end <= now + Skew[w]
    BY <1>1, <1>2, <1>a, <2>1
  <2>b. end + TicksPerSecond <= now + Skew[w] + TicksPerSecond
    BY <1>1, <1>2, <1>a, <2>a
  <2>2. token.signed + Skew[v] + Lifetime < now + Skew[w] + TicksPerSecond
    BY <1>1, <1>2, <1>3, <1>a, <2>b
  <2>3. now - token.signed + TicksPerSecond > Lifetime - Spread
    BY <1>1, <1>2, <1>a, <2>2
  <2> QED
    BY <2>3
<1>6. CASE token.secret \notin SecretsToTry(w)
  <2>1. PICK g \in 1..Len(Generations) : SignedBy(g, token)
    BY DEF Sound
  <2>2. generation[w] \notin {g - 1, g, g + 1}
    <3>1. CASE generation[w] = g
      BY <1>6, <2>1, <3>1 DEF SignedBy, SecretsToTry, Secrets
    <3>2. CASE generation[w] = g + 1
      <4>1. g \in 1..Len(Generations) - 1
        BY <1>2, <3>2, Constants
      <4> QED
        BY <1>6, <2>1, <3>2, <4>1, RotationAssumption DEF SignedBy, SecretsToTry
    <3>3. CASE generation[w] = g - 1
      <4>1. g - 1 \in 1..Len(Generations) - 1 /\ (g - 1) + 1 = g
        BY <1>2, <3>3, Constants
      <4>2. Generations[(g - 1) + 1].sign \in Secrets(g - 1)
        BY <4>1, RotationAssumption
      <4> QED
        BY <1>6, <2>1, <3>3, <4>1, <4>2 DEF SignedBy, SecretsToTry
    <3> QED
      BY <3>1, <3>2, <3>3
  <2>3. now >= token.signed + Lifetime
    <3>1. g <= generation[w] + 1
      BY <2>1 DEF SignedBy
    <3>2. generation[w] > g + 1
      BY <1>2, <2>2, <3>1
    <3> QED
      BY <1>2, <2>1, <3>2 DEF SignedBy
  <2> QED
    BY <1>1, <1>2, <2>3, Constants
<1> QED
  BY <1>4, <1>5, <1>6 DEF Decoded

-----------------------------------------------------------------------------
(* One lemma per action. *)

LEMMA StartInv == Init => IInv
<1> SUFFICES ASSUME Init PROVE IInv
  OBVIOUS
<1>1. \A r \in Requests : issuing[r] = Idle
  BY DEF Init
<1>2. TypeOK
  BY <1>1, Constants DEF Init, TypeOK
<1>3. HeldInv /\ SpreadInv
  BY Constants DEF Init, HeldInv, SpreadInv
<1>4. TokensInv /\ ReadingInv /\ SendingInv
  BY <1>1 DEF Init, TokensInv, ReadingInv, SendingInv, Idle
<1>5. StalenessBounded /\ TokenLivesItsLife
  BY DEF Init, StalenessBounded, TokenLivesItsLife, NoVerdict
<1> QED
  BY <1>2, <1>3, <1>4, <1>5 DEF IInv

(* When the time or the account changes, what is held is held later. *)
LEMMA RecordHeldKeeps ==
  ASSUME TypeOK, HeldInv, RecordHeld, now' \in 0..MaxTime, now <= now',
         active' \in BOOLEAN, granted' \subseteq Scopes
  PROVE  /\ held' \in [Scopes -> 0..MaxTime]
         /\ \A s \in Scopes : held[s] <= held'[s]
         /\ HeldInv'
<1>1. \A s \in Scopes : held'[s] = IF active' /\ s \in granted' THEN now' ELSE held[s]
  BY DEF RecordHeld
<1>2. /\ now \in Nat /\ now' \in Nat
      /\ \A s \in Scopes : held[s] \in 0..MaxTime /\ held[s] \in Nat
  BY Constants DEF TypeOK
<1>3. held' \in [Scopes -> 0..MaxTime]
  BY <1>2 DEF RecordHeld
<1>4. \A s \in Scopes : held[s] <= held'[s]
  BY <1>1, <1>2 DEF HeldInv
<1>5. HeldInv'
  BY <1>1, <1>2 DEF HeldInv
<1> QED
  BY <1>3, <1>4, <1>5

LEMMA NoVerdictHolds ==
  ASSUME verdict = NoVerdict
  PROVE  StalenessBounded /\ TokenLivesItsLife
BY DEF StalenessBounded, TokenLivesItsLife, NoVerdict

LEMMA OutsideInv ==
  ASSUME IInv, Tick \/ ChangeAccount
  PROVE  IInv'
<1> USE DEF IInv
<1>1. /\ UNCHANGED <<generation, rotated, issuing, tokens>>
      /\ verdict' = NoVerdict /\ RecordHeld
      /\ now' \in 0..MaxTime /\ now <= now' /\ now' \in Nat
      /\ active' \in BOOLEAN /\ granted' \subseteq Scopes
      /\ changes' \in 0..MaxChanges
  <2>1. CASE Tick
    BY <2>1, Constants DEF Tick, TypeOK, account, settings
  <2>2. CASE ChangeAccount
    BY <2>2, Constants DEF ChangeAccount, TypeOK, settings
  <2> QED
    BY <2>1, <2>2
<1>2. /\ held' \in [Scopes -> 0..MaxTime]
      /\ \A s \in Scopes : held[s] <= held'[s]
      /\ \A s \in Scopes : held'[s] \in Nat /\ held[s] \in Nat
      /\ HeldInv'
  BY <1>1, RecordHeldKeeps, Constants DEF TypeOK
<1>3. TypeOK'
  BY <1>1, <1>2 DEF TypeOK
<1>4. ASSUME NEW token, Sound(token)
      PROVE  Sound(token)'
  BY <1>1, <1>2, <1>4, SoundIsKept DEF settings
<1>5. TokensInv'
  BY <1>1, <1>4 DEF TokensInv
<1>6. \A r \in Requests :
        /\ issuing[r].step = "read" =>
             /\ issuing[r].since \in Nat /\ issuing[r].scopes \subseteq Scopes
             /\ now' <= issuing[r].since + RequestTimeout
        /\ issuing[r].step = "send" => now' <= issuing[r].since + RequestTimeout
  <2> SUFFICES ASSUME NEW r \in Requests,
                      issuing[r].step = "read" \/ issuing[r].step = "send"
               PROVE  /\ issuing[r].since \in Nat
                      /\ issuing[r].step = "read" => issuing[r].scopes \subseteq Scopes
                      /\ now' <= issuing[r].since + RequestTimeout
    OBVIOUS
  <2>1. issuing[r] # Idle
    BY DEF Idle
  <2>2. issuing[r].since \in Nat
    BY <2>1, Constants DEF TypeOK, Reading, Sending
  <2>3. issuing[r].step = "read" => issuing[r].scopes \subseteq Scopes
    BY <2>1 DEF TypeOK, Reading, Sending
  <2>4. now \in Nat
    BY Constants DEF TypeOK
  <2>5. CASE Tick
    <3>1. now < issuing[r].since + RequestTimeout /\ now' = now + 1
      BY <2>1, <2>5 DEF Tick
    <3> QED
      BY <2>2, <2>3, <2>4, <3>1, Constants
  <2>6. CASE ChangeAccount
    <3>1. now <= issuing[r].since + RequestTimeout
      BY DEF ReadingInv, SendingInv
    <3>2. now' = now
      BY <2>6 DEF ChangeAccount
    <3> QED
      BY <2>2, <2>3, <3>1, <3>2
  <2> QED
    BY <1>1, <2>2, <2>3, <2>5, <2>6
<1>7. ReadingInv'
  <2> SUFFICES ASSUME NEW r \in Requests, issuing[r].step = "read"
               PROVE  /\ issuing[r].since <= now'
                      /\ now' <= issuing[r].since + RequestTimeout
                      /\ \A s \in issuing[r].scopes : issuing[r].since <= held'[s]
    BY <1>1 DEF ReadingInv
  <2>1. /\ issuing[r].since <= now
        /\ \A s \in issuing[r].scopes : issuing[r].since <= held[s]
    BY DEF ReadingInv
  <2>2. now \in Nat
    BY Constants DEF TypeOK
  <2> QED
    BY <1>1, <1>2, <1>6, <2>1, <2>2
<1>8. SendingInv'
  BY <1>1, <1>4, <1>6 DEF SendingInv
<1>9. SpreadInv'
  <2>1. now \in Nat /\ rotated \in Nat
    BY Constants DEF TypeOK
  <2> QED
    BY <1>1, <2>1 DEF SpreadInv
<1>10. StalenessBounded' /\ TokenLivesItsLife'
  BY <1>1, NoVerdictHolds DEF StalenessBounded, TokenLivesItsLife, NoVerdict
<1> QED
  BY <1>2, <1>3, <1>5, <1>7, <1>8, <1>9, <1>10

LEMMA RestartInv ==
  ASSUME IInv, NEW w \in Workers, Restart(w)
  PROVE  IInv'
<1> USE DEF IInv
<1>1. /\ UNCHANGED <<now, active, granted, changes, held, issuing, tokens>>
      /\ verdict' = NoVerdict /\ rotated' = now
  BY DEF Restart, account
<1>2. TypeOK'
  <2>1. generation' \in [Workers -> 1..Len(Generations)]
    BY Constants DEF Restart, TypeOK
  <2> QED
    BY <1>1, <2>1 DEF TypeOK
<1>3. SpreadInv'
  <2>1. \A v \in Workers :
          /\ generation'[v] = IF v = w THEN generation[w] + 1 ELSE generation[v]
          /\ generation[v] \in {generation[w], generation[w] + 1}
          /\ generation[v] \in Nat
    BY Constants DEF Restart, TypeOK
  <2>2. now \in Nat
    BY Constants DEF TypeOK
  <2> QED
    BY <1>1, <2>1, <2>2 DEF SpreadInv
<1>4. ASSUME NEW token, Sound(token)
      PROVE  Sound(token)'
  BY <1>4, SoundThroughRestart
<1>5. TokensInv' /\ SendingInv'
  BY <1>1, <1>4 DEF TokensInv, SendingInv
<1>6. HeldInv' /\ ReadingInv'
  BY <1>1 DEF HeldInv, ReadingInv
<1>7. StalenessBounded' /\ TokenLivesItsLife'
  BY <1>1, NoVerdictHolds DEF StalenessBounded, TokenLivesItsLife, NoVerdict
<1> QED
  BY <1>2, <1>3, <1>5, <1>6, <1>7

(* What a step of a request leaves to be shown: that the request is in a state
   the invariant allows, and that no other token is handed out. *)
LEMMA RequestInv ==
  ASSUME IInv, NEW r \in Requests, NEW state, Set(r, state), verdict' = NoVerdict,
         UNCHANGED <<now, account, held, settings>>,
         \A token \in tokens' : Sound(token),
         \/ state = Idle
         \/ /\ state \in Reading
            /\ state.since <= now /\ now <= state.since + RequestTimeout
            /\ \A s \in state.scopes : state.since <= held[s]
         \/ /\ state \in Sending
            /\ now <= state.since + RequestTimeout
            /\ Sound(state.token)
  PROVE  IInv'
<1> USE DEF IInv
<1>1. /\ UNCHANGED <<now, active, granted, changes, held, generation, rotated>>
      /\ \A q \in Requests : issuing'[q] = IF q = r THEN state ELSE issuing[q]
  BY DEF Set, TypeOK, account, settings
<1>2. ASSUME NEW token, Sound(token)
      PROVE  Sound(token)'
  BY <1>1, <1>2 DEF Sound, Dated, Entitled, SignedBy
<1>3. TypeOK'
  <2>1. state \in {Idle} \cup Reading \cup Sending
    OBVIOUS
  <2>2. issuing' \in [Requests -> {Idle} \cup Reading \cup Sending]
    BY <2>1 DEF Set, TypeOK
  <2>3. tokens' \subseteq Token
    BY DEF Sound
  <2> QED
    BY <1>1, <2>2, <2>3 DEF TypeOK
<1>4. HeldInv' /\ SpreadInv'
  BY <1>1 DEF HeldInv, SpreadInv
<1>5. TokensInv'
  BY <1>1 DEF TokensInv, Sound, Dated, Entitled, SignedBy
<1>6. ReadingInv'
  BY <1>1 DEF ReadingInv, Idle, Reading, Sending
<1>7. SendingInv'
  <2> SUFFICES ASSUME NEW q \in Requests, issuing'[q].step = "send"
               PROVE  /\ now <= issuing'[q].since + RequestTimeout
                      /\ Sound(issuing'[q].token)
    BY <1>1 DEF SendingInv, Sound, Dated, Entitled, SignedBy
  <2>1. CASE q = r
    BY <1>1, <2>1 DEF Idle, Reading, Sending
  <2>2. CASE q # r
    BY <1>1, <2>2 DEF SendingInv
  <2> QED
    BY <2>1, <2>2
<1>8. StalenessBounded' /\ TokenLivesItsLife'
  BY NoVerdictHolds DEF StalenessBounded, TokenLivesItsLife, NoVerdict
<1> QED
  BY <1>3, <1>4, <1>5, <1>6, <1>7, <1>8

LEMMA LoginInv ==
  ASSUME IInv, NEW r \in Requests, NEW w \in Workers, Login(r, w)
  PROVE  IInv'
<1> USE DEF IInv
<1>1. PICK requested \in SUBSET granted :
        Set(r, [step |-> "send", worker |-> w,
                token |-> Signed(w, IF requested = {} THEN granted ELSE requested),
                since |-> now])
  BY DEF Login
<1> DEFINE scopes == IF requested = {} THEN granted ELSE requested
           state  == [step |-> "send", worker |-> w, token |-> Signed(w, scopes),
                      since |-> now]
<1>2. now \in 0..MaxTime /\ now \in Nat
  BY Constants DEF TypeOK
<1>3. scopes \in SUBSET Scopes /\ \A s \in scopes : now <= held[s] + RequestTimeout
  BY <1>2, Constants DEF Login, HeldInv, TypeOK
<1>4. Sound(Signed(w, scopes))
  BY <1>3, SignedIsSound
<1>5. state \in Sending /\ state.since = now /\ state.token = Signed(w, scopes)
  BY <1>2, <1>4 DEF Sending, Sound
<1>6. /\ Set(r, state) /\ verdict' = NoVerdict
      /\ UNCHANGED <<now, account, held, settings>>
      /\ \A token \in tokens' : Sound(token)
  BY <1>1 DEF Login, TokensInv
<1>7. now <= state.since + RequestTimeout /\ Sound(state.token)
  BY <1>2, <1>4, <1>5, Constants
<1> HIDE DEF state
<1> QED
  BY <1>5, <1>6, <1>7, RequestInv

LEMMA ReadAccountInv ==
  ASSUME IInv, NEW r \in Requests, NEW w \in Workers, ReadAccount(r, w)
  PROVE  IInv'
<1> USE DEF IInv
<1> DEFINE state == [step |-> "read", worker |-> w, scopes |-> granted,
                     since |-> now]
<1>1. now \in 0..MaxTime /\ now \in Nat /\ granted \subseteq Scopes
  BY Constants DEF TypeOK
<1>2. /\ state \in Reading /\ state.since = now
      /\ now <= state.since + RequestTimeout
  BY <1>1, Constants DEF Reading
<1>3. \A s \in state.scopes : state.since <= held[s]
  BY <1>1 DEF ReadAccount, MayRefresh, HeldInv
<1>4. /\ Set(r, state) /\ verdict' = NoVerdict
      /\ UNCHANGED <<now, account, held, settings>>
      /\ \A token \in tokens' : Sound(token)
  BY DEF ReadAccount, TokensInv
<1>5. state.since <= now
  BY <1>1
<1> HIDE DEF state
<1> QED
  BY <1>2, <1>3, <1>4, <1>5, RequestInv

(* The scopes are those read: held when the request began, and the request is
   within its timeout. *)
LEMMA RefreshSignsInv ==
  ASSUME IInv, NEW r \in Requests, RefreshSigns(r)
  PROVE  IInv'
<1> USE DEF IInv
<1> DEFINE w      == issuing[r].worker
           scopes == issuing[r].scopes
           state  == [step |-> "send", worker |-> w, token |-> Signed(w, scopes),
                      since |-> issuing[r].since]
<1>1. issuing[r].step = "read" /\ issuing[r] \in Reading
  BY DEF RefreshSigns, TypeOK, Idle, Sending
<1>2. /\ w \in Workers /\ scopes \in SUBSET Scopes
      /\ issuing[r].since \in 0..MaxTime /\ issuing[r].since \in Nat
  BY <1>1, Constants DEF Reading
<1>3. /\ now \in Nat /\ now <= issuing[r].since + RequestTimeout
      /\ \A s \in scopes : held[s] \in Nat /\ issuing[r].since <= held[s]
  BY <1>1, <1>2, Constants DEF TypeOK, ReadingInv
<1>4. Sound(Signed(w, scopes))
  <2>1. \A s \in scopes : now <= held[s] + RequestTimeout
    BY <1>2, <1>3, Constants
  <2> HIDE DEF w, scopes
  <2> QED
    BY <1>2, <2>1, SignedIsSound
<1>5. /\ state \in Sending /\ state.since = issuing[r].since
      /\ state.token = Signed(w, scopes)
  BY <1>2, <1>4 DEF Sending, Sound
<1>6. /\ Set(r, state) /\ verdict' = NoVerdict
      /\ UNCHANGED <<now, account, held, settings>>
      /\ \A token \in tokens' : Sound(token)
  BY DEF RefreshSigns, TokensInv
<1> HIDE DEF state
<1> QED
  BY <1>3, <1>4, <1>5, <1>6, RequestInv

LEMMA DeliverInv ==
  ASSUME IInv, NEW r \in Requests, Deliver(r)
  PROVE  IInv'
<1> USE DEF IInv
<1>1. \A token \in tokens' : Sound(token)
  BY DEF Deliver, TokensInv, SendingInv
<1> QED
  BY <1>1, RequestInv DEF Deliver

LEMMA CutInv ==
  ASSUME IInv, NEW r \in Requests, Cut(r)
  PROVE  IInv'
<1> USE DEF IInv
<1> QED
  BY RequestInv DEF Cut, TokensInv

LEMMA PresentInv ==
  ASSUME IInv, NEW w \in Workers, NEW token \in tokens \cup {NoToken},
         NEW scope \in Scopes, Present(w, token, scope)
  PROVE  IInv'
<1> USE DEF IInv
<1>1. /\ UNCHANGED <<now, active, granted, changes, held, generation, rotated,
                     issuing, tokens>>
      /\ verdict' = [worker |-> w, token |-> token, scope |-> scope,
                     code |-> Code(w, token, scope)]
  BY DEF Present, account, settings
<1>2. Code(w, token, scope) \in {200, 401, 403}
  BY DEF Code
<1>3. TypeOK'
  <2>1. verdict' \in Verdict
    BY <1>1, <1>2 DEF Verdict, TypeOK
  <2> QED
    BY <1>1, <2>1 DEF TypeOK
<1>4. HeldInv' /\ SpreadInv' /\ TokensInv' /\ ReadingInv' /\ SendingInv'
  BY <1>1 DEF HeldInv, SpreadInv, TokensInv, ReadingInv, SendingInv, Sound, Dated,
              Entitled, SignedBy
<1>5. token # NoToken => Sound(token)
  BY DEF TokensInv
<1>6. StalenessBounded'
  <2> SUFFICES ASSUME Code(w, token, scope) = 200
               PROVE  now - held[scope] < Lifetime + RequestTimeout + Spread
    BY <1>1 DEF StalenessBounded
  <2>1. Decoded(w, token) /\ scope \in token.scopes
    BY DEF Code
  <2> QED
    BY <1>5, <2>1, DecodedIsFresh DEF Decoded
<1>7. TokenLivesItsLife'
  <2> SUFFICES ASSUME Code(w, token, scope) = 401, token # NoToken
               PROVE  \/ now - token.signed < Spread
                      \/ now - token.signed + TicksPerSecond > Lifetime - Spread
    BY <1>1 DEF TokenLivesItsLife
  <2> QED
    BY <1>5, RefusedAtItsEnds DEF Code
<1> QED
  BY <1>3, <1>4, <1>6, <1>7

LEMMA StutterInv ==
  ASSUME IInv, UNCHANGED vars
  PROVE  IInv'
<1> USE DEF IInv, vars, account, settings
<1>1. TypeOK' /\ HeldInv' /\ SpreadInv'
  BY DEF TypeOK, HeldInv, SpreadInv
<1>2. \A token : Sound(token)' <=> Sound(token)
  BY DEF Sound, Dated, Entitled, SignedBy
<1>3. TokensInv' /\ ReadingInv' /\ SendingInv'
  BY <1>2 DEF TokensInv, ReadingInv, SendingInv
<1>4. StalenessBounded'
  BY DEF StalenessBounded
<1>5. TokenLivesItsLife'
  BY DEF TokenLivesItsLife
<1> QED
  BY <1>1, <1>3, <1>4, <1>5

-----------------------------------------------------------------------------

(* The inductive invariant holds of every reachable state. *)
THEOREM Invariance == Spec => []IInv
<1>1. IInv /\ [Next]_vars => IInv'
  <2> SUFFICES ASSUME IInv, [Next]_vars PROVE IInv'
    OBVIOUS
  <2>1. CASE Tick \/ ChangeAccount
    BY <2>1, OutsideInv
  <2>2. CASE \E w \in Workers : Restart(w)
    BY <2>2, RestartInv
  <2>3. CASE \E w \in Workers, r \in Requests : Login(r, w) \/ ReadAccount(r, w)
    BY <2>3, LoginInv, ReadAccountInv
  <2>4. CASE \E w \in Workers, token \in tokens \cup {NoToken}, scope \in Scopes :
               Present(w, token, scope)
    BY <2>4, PresentInv
  <2>5. CASE \E r \in Requests : RefreshSigns(r) \/ Deliver(r) \/ Cut(r)
    BY <2>5, RefreshSignsInv, DeliverInv, CutInv
  <2>6. CASE UNCHANGED vars
    BY <2>6, StutterInv
  <2> QED
    BY <2>1, <2>2, <2>3, <2>4, <2>5, <2>6 DEF Next
<1> QED
  BY <1>1, StartInv, PTL DEF Spec

(* The state of accounts, tokens and workers is of the shape the model says. *)
THEOREM TypeCorrect == Spec => []TypeOK
BY Invariance, PTL DEF IInv

(* Whoever a worker lets in held the scope, as an active account, less than a
   token's lifetime, a request's duration and the spread of the clocks ago,
   however often the tokens were refreshed in between. *)
THEOREM StalenessHasABound == Spec => []StalenessBounded
BY Invariance, PTL DEF IInv

(* A token that a client has is refused with 401 only at its two ends, within
   the spread of the clocks and the second that int() may take from its end,
   while the secrets are rotated. *)
THEOREM TokensAreGood == Spec => []TokenLivesItsLife
BY Invariance, PTL DEF IInv
=============================================================================
