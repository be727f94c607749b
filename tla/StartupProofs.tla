---------------------------- MODULE StartupProofs ----------------------------
(***************************************************************************)
(* Theorems about Startup, for any number of workers and any combination   *)
(* of settings, and about Migrations, which prepares the same database,    *)
(* for any number of runners and of runs.                                  *)
(***************************************************************************)
EXTENDS Startup, SequenceTheorems, TLAPS

Seeding == {"insert_commit", "refresh", "lookup"}

(* Past create_schema the tables are there. *)
SchemaInv ==
  /\ ~AutoCreate => schema = "present"
  /\ \A w \in Workers :
       pc[w] \in Seeding \cup {"ping", "insert", "serving"}
         => schema = "present"

(* Only the worker between its INSERT and its commit holds the name, and
   nobody has the account meanwhile. *)
InsertInv ==
  /\ \A w \in Workers : pc[w] = "insert_commit" => inserting = w
  /\ inserting # NoWorker => admin = "none"

(* The flag is up exactly while the worker serves. *)
FlagInv == \A w \in Workers : startup_complete[w] <=> pc[w] = "serving"

(* Past its INSERT, successful or not, a worker knows of an account. *)
AdminInv ==
  \A w \in Workers :
    \/ pc[w] \in {"refresh", "lookup"}
    \/ pc[w] = "serving" /\ SeedAdmin
    => admin # "none" \/ w \in bereft

(* No start fails for finding the account taken. *)
FailureInv ==
  \A w \in Workers :
    /\ failure[w] # "conflict"
    /\ pc[w] = "down" /\ failure[w] = "admin" => w \in bereft

IInv ==
  TypeOK /\ SchemaInv /\ InsertInv /\ FlagInv /\ AdminInv /\ FailureInv

(* The inductive invariant holds initially. *)
LEMMA InitInv == Init => IInv
BY SettingsAssumption, NoWorkerAssumption, MaxUpsetsAssumption
   DEF Init, IInv, TypeOK, SchemaInv, InsertInv, FlagInv, AdminInv,
       FailureInv, Seeding

(* The process starts: it forgets what happened to the account before. *)
LEMMA BootInv ==
  ASSUME IInv, NEW w \in Workers, Boot(w)
  PROVE  IInv'
<1> USE DEF IInv, Boot, Goto, First, AfterSchema, AfterPing, tables, accounts
<1>1. TypeOK'
  BY DEF TypeOK
<1>2. SchemaInv'
  BY DEF TypeOK, SchemaInv, Seeding
<1>3. InsertInv'
  BY DEF TypeOK, InsertInv
<1>4. FlagInv'
  <2> SUFFICES ASSUME NEW v \in Workers
               PROVE  startup_complete'[v] <=> pc'[v] = "serving"
    BY DEF FlagInv
  <2>1. CASE v = w
    BY <2>1 DEF TypeOK
  <2>2. CASE v # w
    BY <2>2 DEF TypeOK, FlagInv
  <2> QED
    BY <2>1, <2>2
<1>5. AdminInv'
  BY DEF TypeOK, AdminInv
<1>6. FailureInv'
  BY DEF TypeOK, FailureInv
<1> QED
  BY <1>1, <1>2, <1>3, <1>4, <1>5, <1>6

(* create_schema and the ping, one worker's own steps on the tables. *)
LEMMA SchemaStepInv ==
  ASSUME IInv, NEW w \in Workers,
         Inspect(w) \/ CreateTables(w) \/ CommitTables(w) \/ Ping(w)
  PROVE  IInv'
<1> USE DEF IInv, Inspect, CreateTables, CommitTables, Ping, Goto, Exit,
            AfterSchema, AfterPing, tables, accounts
<1>1. TypeOK'
  BY DEF TypeOK
<1>2. SchemaInv'
  BY DEF TypeOK, SchemaInv, Seeding
<1>3. InsertInv'
  BY DEF TypeOK, InsertInv
<1>4. FlagInv'
  <2> SUFFICES ASSUME NEW v \in Workers
               PROVE  startup_complete'[v] <=> pc'[v] = "serving"
    BY DEF FlagInv
  <2>1. CASE v = w
    BY <2>1 DEF TypeOK
  <2>2. CASE v # w
    BY <2>2 DEF TypeOK, FlagInv
  <2> QED
    BY <2>1, <2>2
<1>5. AdminInv'
  BY DEF TypeOK, AdminInv
<1>6. FailureInv'
  BY DEF TypeOK, FailureInv
<1> QED
  BY <1>1, <1>2, <1>3, <1>4, <1>5, <1>6

(* ensure_admin_user. *)
LEMMA SeedStepInv ==
  ASSUME IInv, NEW w \in Workers,
         InsertAdmin(w) \/ CommitAdmin(w) \/ RefreshAdmin(w) \/ LookupAdmin(w)
  PROVE  IInv'
<1> USE DEF IInv, InsertAdmin, CommitAdmin, RefreshAdmin, LookupAdmin, Goto,
            Exit, tables, accounts
<1>1. TypeOK'
  BY DEF TypeOK
<1>2. SchemaInv'
  BY DEF TypeOK, SchemaInv, Seeding
<1>3. InsertInv'
  BY NoWorkerAssumption DEF TypeOK, InsertInv
<1>4. FlagInv'
  <2> SUFFICES ASSUME NEW v \in Workers
               PROVE  startup_complete'[v] <=> pc'[v] = "serving"
    BY DEF FlagInv
  <2>1. CASE v = w
    BY <2>1 DEF TypeOK
  <2>2. CASE v # w
    BY <2>2 DEF TypeOK, FlagInv
  <2> QED
    BY <2>1, <2>2
<1>5. AdminInv'
  BY NoWorkerAssumption DEF TypeOK, AdminInv
<1>6. FailureInv'
  BY DEF TypeOK, FailureInv, AdminInv
<1> QED
  BY <1>1, <1>2, <1>3, <1>4, <1>5, <1>6

(* A failure rolls back and a shutdown writes nothing. *)
LEMMA ExitInv ==
  ASSUME IInv, NEW w \in Workers, Fault(w) \/ Stop(w)
  PROVE  IInv'
<1> USE DEF IInv, Fault, Stop, Goto, Exit, Released, tables, accounts
<1>1. TypeOK'
  <2>1. CASE Fault(w)
    BY <2>1, MaxUpsetsAssumption DEF TypeOK
  <2>2. CASE Stop(w)
    BY <2>2 DEF TypeOK
  <2> QED
    BY <2>1, <2>2
<1>2. SchemaInv'
  BY DEF TypeOK, SchemaInv, Seeding
<1>3. InsertInv'
  BY NoWorkerAssumption DEF TypeOK, InsertInv
<1>4. FlagInv'
  <2> SUFFICES ASSUME NEW v \in Workers
               PROVE  startup_complete'[v] <=> pc'[v] = "serving"
    BY DEF FlagInv
  <2>1. CASE v = w
    BY <2>1 DEF TypeOK
  <2>2. CASE v # w
    BY <2>2 DEF TypeOK, FlagInv
  <2> QED
    BY <2>1, <2>2
<1>5. AdminInv'
  BY DEF TypeOK, AdminInv
<1>6. FailureInv'
  BY DEF TypeOK, FailureInv
<1> QED
  BY <1>1, <1>2, <1>3, <1>4, <1>5, <1>6

(* The operator touches the account only while it is there, when nobody is
   inserting it, and who removes it bereaves every worker. *)
LEMMA OperatorInv ==
  ASSUME IInv, ChangePassword \/ RemoveAdmin
  PROVE  IInv'
<1> USE DEF IInv, ChangePassword, RemoveAdmin, tables
<1>1. TypeOK'
  BY MaxUpsetsAssumption DEF TypeOK
<1>2. SchemaInv'
  BY DEF SchemaInv, Seeding
<1>3. InsertInv'
  BY DEF InsertInv
<1>4. FlagInv'
  BY DEF FlagInv
<1>5. AdminInv'
  BY DEF AdminInv
<1>6. FailureInv'
  BY DEF FailureInv
<1> QED
  BY <1>1, <1>2, <1>3, <1>4, <1>5, <1>6

(* Every step preserves it. *)
LEMMA NextInv == IInv /\ [Next]_vars => IInv'
<1> SUFFICES ASSUME IInv, [Next]_vars PROVE IInv'
  OBVIOUS
<1>1. ASSUME NEW w \in Workers, Step(w) PROVE IInv'
  BY <1>1, BootInv, SchemaStepInv, SeedStepInv DEF Step
<1>2. ASSUME NEW w \in Workers, Fault(w) \/ Stop(w) PROVE IInv'
  BY <1>2, ExitInv
<1>3. CASE ChangePassword \/ RemoveAdmin
  BY <1>3, OperatorInv
<1>4. CASE Finished \/ UNCHANGED vars
  BY <1>4 DEF Finished, vars, IInv, TypeOK, SchemaInv, InsertInv, FlagInv,
              AdminInv, FailureInv
<1> QED
  BY <1>1, <1>2, <1>3, <1>4 DEF Next

(* The inductive invariant holds in every reachable state. *)
THEOREM Invariance == Spec => []IInv
<1>1. Init => IInv
  BY InitInv
<1>2. IInv /\ [Next]_vars => IInv'
  BY NextInv
<1> QED
  BY <1>1, <1>2, PTL DEF Spec

(* Type correctness. *)
THEOREM TypeCorrect == Spec => []TypeOK
<1>1. IInv => TypeOK
  BY DEF IInv
<1> QED
  BY <1>1, Invariance, PTL

(* A worker that serves has committed tables and, if it was told to seed
   one, an admin account that nobody removed since. *)
THEOREM WorkersArePrepared == Spec => []ServesPrepared
<1>1. IInv => ServesPrepared
  BY DEF IInv, SchemaInv, FlagInv, AdminInv, ServesPrepared, Seeding
<1> QED
  BY <1>1, Invariance, PTL

(* ensure_admin_user never fails for another worker's account. *)
THEOREM SeedingSucceeds == Spec => []SeedingIsIdempotent
<1>1. IInv => SeedingIsIdempotent
  BY DEF IInv, FailureInv, SeedingIsIdempotent
<1> QED
  BY <1>1, Invariance, PTL

(* No start changes an account that is there: only the one that held the
   name while nobody had the account writes it. *)
THEOREM AccountsAreKept == Spec => AccountUntouched
<1>1. IInv /\ [Next]_vars =>
        [\A w \in Workers :
           pc'[w] # pc[w] => admin' = admin \/ admin = "none"]_vars
  <2> SUFFICES ASSUME IInv, Next, NEW w \in Workers, pc'[w] # pc[w]
               PROVE  admin' = admin \/ admin = "none"
    OBVIOUS
  <2>1. ASSUME NEW v \in Workers, CommitAdmin(v)
        PROVE  admin = "none"
    BY <2>1, NoWorkerAssumption DEF IInv, InsertInv, CommitAdmin
  <2>2. ASSUME NEW v \in Workers, Step(v), ~CommitAdmin(v)
        PROVE  admin' = admin
    BY <2>2 DEF Step, Boot, Inspect, CreateTables, CommitTables, Ping,
                InsertAdmin, RefreshAdmin, LookupAdmin, accounts
  <2>3. ASSUME NEW v \in Workers, Fault(v) \/ Stop(v)
        PROVE  admin' = admin
    BY <2>3 DEF Fault, Stop, accounts
  <2>4. ~ChangePassword /\ ~RemoveAdmin /\ ~Finished
    BY DEF ChangePassword, RemoveAdmin, Finished, vars
  <2> QED
    BY <2>1, <2>2, <2>3, <2>4 DEF Next
<1> QED
  BY <1>1, Invariance, PTL DEF Spec, AccountUntouched

(* Who holds tables or the account's name for others to wait for has only its
   commit left to do, which waits for nobody: workers that start together
   never wait for each other in a circle. *)
HoldersCommit ==
  /\ creating # NoWorker => pc[creating] = "create_commit"
  /\ inserting # NoWorker => pc[inserting] = "insert_commit"

THEOREM StartersNeverWaitInACircle == Spec => []HoldersCommit
<1>1. Init => HoldersCommit
  BY DEF Init, HoldersCommit
<1>2. IInv /\ HoldersCommit /\ [Next]_vars => HoldersCommit'
  <2> SUFFICES ASSUME IInv, HoldersCommit, [Next]_vars PROVE HoldersCommit'
    OBVIOUS
  <2> USE NoWorkerAssumption DEF IInv, TypeOK, HoldersCommit
  <2>1. ASSUME NEW w \in Workers,
               Boot(w) \/ Inspect(w) \/ CreateTables(w) \/ CommitTables(w)
                 \/ Ping(w)
        PROVE  HoldersCommit'
    BY <2>1 DEF Boot, Inspect, CreateTables, CommitTables, Ping, Goto, Exit,
                tables, accounts
  <2>2. ASSUME NEW w \in Workers,
               InsertAdmin(w) \/ CommitAdmin(w) \/ RefreshAdmin(w)
                 \/ LookupAdmin(w)
        PROVE  HoldersCommit'
    BY <2>2 DEF InsertAdmin, CommitAdmin, RefreshAdmin, LookupAdmin, Goto,
                Exit, tables, accounts, InsertInv
  <2>3. ASSUME NEW w \in Workers, Fault(w) \/ Stop(w)
        PROVE  HoldersCommit'
    BY <2>3 DEF Fault, Stop, Released, Goto, Exit, tables, accounts
  <2>4. CASE ChangePassword \/ RemoveAdmin
    BY <2>4 DEF ChangePassword, RemoveAdmin, tables
  <2>5. CASE Finished \/ UNCHANGED vars
    BY <2>5 DEF Finished, vars
  <2> QED
    BY <2>1, <2>2, <2>3, <2>4, <2>5 DEF Next, Step
<1> QED
  BY <1>1, <1>2, Invariance, PTL DEF Spec

-----------------------------------------------------------------------------
(* The migrations prepare the same database.  Their committed schema, object
   by object, is called objects here: Startup has a schema of its own. *)
CONSTANTS Runners, MaxRuns
VARIABLES objects, runs, state, read, plan, written, created

M == INSTANCE Migrations WITH schema <- objects

Statements == [object : M!Objects, from : 0..2, to : 0..2]

(* The statements of create_all when these tables are missing: the two of
   the second revision are there together or not at all. *)
Optional(wanted, table) == IF wanted THEN << M!Create(table) >> ELSE <<>>

Creation(items, auth) ==
  Optional(items, "items")
    \o (Optional(auth, "users") \o Optional(auth, "refresh_tokens"))

(* What the last run of r set out to do. *)
IsPlan(r, full) ==
  \/ state[r] = "upgrading" /\ full = M!ToHead(read[r])
  \/ state[r] = "downgrading" /\ read[r] # 0 /\ full = M!Down(read[r])
  \/ /\ state[r] = "creating" /\ created
     /\ \E items, auth \in BOOLEAN : full = Creation(items, auth)

(* r has executed the first n statements of its plan: of each object they
   name it has written what the last one made of it, and the object is still
   committed as the first one found it. *)
Stage(r, full, n) ==
  /\ Len(plan[r]) = Len(full) - n
  /\ \A i \in 1..Len(full) - n : plan[r][i] = full[n + i]
  /\ DOMAIN written[r] = {full[i].object : i \in 1..n}
  /\ \A i \in 1..n :
       (\A j \in i + 1..n : full[j].object # full[i].object)
         => written[r][full[i].object] = full[i].to
  /\ \A i \in 1..n :
       (\A j \in 1..i - 1 : full[j].object # full[i].object)
         => objects[full[i].object] = full[i].from

(* The shape of the state: enough for functions to be applied and updated. *)
ShapeInv ==
  /\ objects \in [M!Objects -> 0..2]
  /\ \A t \in M!Tables : objects[t] \in {0, 1}
  /\ state \in [Runners -> {"idle", "upgrading", "downgrading", "creating",
                            "done", "failed", "crashed"}]
  /\ read \in [Runners -> 0..2]
  /\ DOMAIN plan = Runners /\ DOMAIN written = Runners

(* A run that has ended holds nothing and has nothing left to do. *)
IdleInv ==
  \A r \in Runners :
    ~M!Running(r) => written[r] = M!NothingWritten /\ plan[r] = <<>>

(* A run that is under way is somewhere in its plan. *)
StageOf(r) ==
  M!Running(r) =>
    /\ plan[r] \in Seq(Statements)
    /\ \E full \in Seq(Statements), n \in Nat :
         n <= Len(full) /\ IsPlan(r, full) /\ Stage(r, full, n)

StageInv == \A r \in Runners : StageOf(r)

(* An object is changed by one transaction at a time. *)
LockInv ==
  \A r, q \in Runners : r # q => DOMAIN written[r] \cap DOMAIN written[q] = {}

(* The tables of the second revision come and go together. *)
PairInv == objects["users"] = objects["refresh_tokens"]

MigrationInv ==
  /\ ShapeInv /\ IdleInv /\ StageInv /\ LockInv /\ PairInv
  /\ M!VersionTellsSchema

(* A run that waits for no other. *)
CanGoOn(r) ==
  /\ M!Running(r)
  /\ \/ plan[r] = <<>>
     \/ ~M!Accepted(r, Head(plan[r]))
     \/ ~M!Locked(r, Head(plan[r]).object)

(* While a run is under way, one is that waits for no other. *)
NoCircularWait ==
  (\E r \in Runners : M!Running(r)) => \E r \in Runners : CanGoOn(r)

-----------------------------------------------------------------------------
(* What the plans are, statement by statement. *)

(* Object, state before and state after of each kind of statement. *)
LEMMA StatementKinds ==
  /\ \A t \in M!Tables : /\ M!Create(t) \in Statements
                         /\ M!Create(t).object = t /\ M!Create(t).from = 0
                         /\ M!Create(t).to = 1
  /\ \A t \in M!Tables : /\ M!Drop(t) \in Statements
                         /\ M!Drop(t).object = t /\ M!Drop(t).from = 1
                         /\ M!Drop(t).to = 0
  /\ \A a, b \in 0..2 : /\ M!Stamp(a, b) \in Statements
                        /\ M!Stamp(a, b).object = "alembic_version"
                        /\ M!Stamp(a, b).from = a /\ M!Stamp(a, b).to = b
BY DEF M!Create, M!Drop, M!Stamp, M!Statement, Statements, M!Objects, M!Tables

(* Short sequences, element by element. *)
LEMMA OneRevision ==
  ASSUME NEW S, NEW a \in S, NEW b \in S, NEW c \in S, NEW s
  PROVE  /\ s = Append(<<a>>, b)
              => s \in Seq(S) /\ Len(s) = 2 /\ s[1] = a /\ s[2] = b
         /\ s = Append(<<a, b>>, c)
              => s \in Seq(S) /\ Len(s) = 3 /\ s[1] = a /\ s[2] = b /\ s[3] = c
<1>1. ASSUME s = Append(<<a>>, b)
      PROVE  s \in Seq(S) /\ Len(s) = 2 /\ s[1] = a /\ s[2] = b
  BY <1>1
<1>2. ASSUME s = Append(<<a, b>>, c)
      PROVE  s \in Seq(S) /\ Len(s) = 3 /\ s[1] = a /\ s[2] = b /\ s[3] = c
  BY <1>2
<1> QED
  BY <1>1, <1>2

(* ToHead of the second: nothing. *)
LEMMA NoRevision ==
  ASSUME NEW S, NEW s, s = <<>> \o <<>>
  PROVE  s \in Seq(S) /\ Len(s) = 0
OBVIOUS

(* ToHead of nothing: both revisions. *)
LEMMA BothRevisions ==
  ASSUME NEW S, NEW a \in S, NEW b \in S, NEW c \in S, NEW d \in S, NEW e \in S,
         NEW s, s = Append(<<a>>, b) \o Append(<<c, d>>, e)
  PROVE  /\ s \in Seq(S) /\ Len(s) = 5
         /\ s[1] = a /\ s[2] = b /\ s[3] = c /\ s[4] = d /\ s[5] = e
OBVIOUS

(* ToHead of the first: the second. *)
LEMMA SecondRevision ==
  ASSUME NEW S, NEW a \in S, NEW b \in S, NEW c \in S,
         NEW s, s = <<>> \o Append(<<a, b>>, c)
  PROVE  s \in Seq(S) /\ Len(s) = 3 /\ s[1] = a /\ s[2] = b /\ s[3] = c
OBVIOUS

(* The sequences of create_all. *)
LEMMA ThreeParts ==
  ASSUME NEW S, NEW a \in S, NEW b \in S, NEW c \in S, NEW s
  PROVE  /\ s = <<a>> \o (<<b>> \o <<c>>)
              => s \in Seq(S) /\ Len(s) = 3 /\ s[1] = a /\ s[2] = b /\ s[3] = c
         /\ s = <<>> \o (<<b>> \o <<c>>)
              => s \in Seq(S) /\ Len(s) = 2 /\ s[1] = b /\ s[2] = c
         /\ s = <<a>> \o (<<>> \o <<>>)
              => s \in Seq(S) /\ Len(s) = 1 /\ s[1] = a
         /\ s = <<>> \o (<<>> \o <<>>) => s \in Seq(S) /\ Len(s) = 0
<1>1. ASSUME s = <<a>> \o (<<b>> \o <<c>>)
      PROVE  s \in Seq(S) /\ Len(s) = 3 /\ s[1] = a /\ s[2] = b /\ s[3] = c
  BY <1>1
<1>2. ASSUME s = <<>> \o (<<b>> \o <<c>>)
      PROVE  s \in Seq(S) /\ Len(s) = 2 /\ s[1] = b /\ s[2] = c
  BY <1>2
<1>3. ASSUME s = <<a>> \o (<<>> \o <<>>)
      PROVE  s \in Seq(S) /\ Len(s) = 1 /\ s[1] = a
  BY <1>3
<1>4. ASSUME s = <<>> \o (<<>> \o <<>>) PROVE s \in Seq(S) /\ Len(s) = 0
  BY <1>4
<1> QED
  BY <1>1, <1>2, <1>3, <1>4

(* alembic upgrade head, from each revision. *)
LEMMA PlanUp ==
  /\ \A from \in 0..2 : M!ToHead(from) \in Seq(Statements)
  /\ Len(M!ToHead(2)) = 0
  /\ /\ Len(M!ToHead(1)) = 3
     /\ M!ToHead(1)[1] = M!Create("users")
     /\ M!ToHead(1)[2] = M!Create("refresh_tokens")
     /\ M!ToHead(1)[3] = M!Stamp(1, 2)
  /\ /\ Len(M!ToHead(0)) = 5
     /\ M!ToHead(0)[1] = M!Create("items")
     /\ M!ToHead(0)[2] = M!Stamp(0, 1)
     /\ M!ToHead(0)[3] = M!Create("users")
     /\ M!ToHead(0)[4] = M!Create("refresh_tokens")
     /\ M!ToHead(0)[5] = M!Stamp(1, 2)
<1>1. /\ M!Create("items") \in Statements /\ M!Create("users") \in Statements
      /\ M!Create("refresh_tokens") \in Statements
      /\ M!Stamp(0, 1) \in Statements /\ M!Stamp(1, 2) \in Statements
  BY StatementKinds DEF M!Tables
<1>2. /\ M!Up(1) = Append(<< M!Create("items") >>, M!Stamp(0, 1))
      /\ M!Up(2) = Append(<< M!Create("users"), M!Create("refresh_tokens") >>,
                        M!Stamp(1, 2))
  BY DEF M!Up, M!Upgrade
<1>3. /\ M!ToHead(0) = M!Up(1) \o M!Up(2)
      /\ M!ToHead(1) = <<>> \o M!Up(2)
      /\ M!ToHead(2) = <<>> \o <<>>
  BY DEF M!ToHead
<1> DEFINE zero == M!ToHead(0)
           one  == M!ToHead(1)
           two  == M!ToHead(2)
<1>4. two \in Seq(Statements) /\ Len(two) = 0
  BY <1>3, NoRevision
<1>5. /\ one = <<>> \o Append(<< M!Create("users"), M!Create("refresh_tokens") >>,
                              M!Stamp(1, 2))
      /\ zero = Append(<< M!Create("items") >>, M!Stamp(0, 1))
                  \o Append(<< M!Create("users"), M!Create("refresh_tokens") >>,
                            M!Stamp(1, 2))
  BY <1>2, <1>3
<1> HIDE DEF zero, one, two
<1>6. /\ one \in Seq(Statements) /\ Len(one) = 3
      /\ one[1] = M!Create("users") /\ one[2] = M!Create("refresh_tokens")
      /\ one[3] = M!Stamp(1, 2)
  BY <1>1, <1>5, SecondRevision
<1>7. /\ zero \in Seq(Statements) /\ Len(zero) = 5
      /\ zero[1] = M!Create("items") /\ zero[2] = M!Stamp(0, 1)
      /\ zero[3] = M!Create("users") /\ zero[4] = M!Create("refresh_tokens")
      /\ zero[5] = M!Stamp(1, 2)
  BY <1>1, <1>5, BothRevisions
<1>8. \A from \in 0..2 : from = 0 \/ from = 1 \/ from = 2
  OBVIOUS
<1> QED
  BY <1>4, <1>6, <1>7, <1>8 DEF zero, one, two

(* alembic downgrade -1, from each revision. *)
LEMMA PlanDown ==
  /\ M!Down(1) \in Seq(Statements) /\ M!Down(2) \in Seq(Statements)
  /\ /\ Len(M!Down(1)) = 2
     /\ M!Down(1)[1] = M!Drop("items")
     /\ M!Down(1)[2] = M!Stamp(1, 0)
  /\ /\ Len(M!Down(2)) = 3
     /\ M!Down(2)[1] = M!Drop("refresh_tokens")
     /\ M!Down(2)[2] = M!Drop("users")
     /\ M!Down(2)[3] = M!Stamp(2, 1)
<1>1. /\ M!Down(1) = Append(<< M!Drop("items") >>, M!Stamp(1, 0))
      /\ M!Down(2) = Append(<< M!Drop("refresh_tokens"), M!Drop("users") >>,
                            M!Stamp(2, 1))
  BY DEF M!Down, M!Downgrade
<1>2. /\ M!Drop("items") \in Statements /\ M!Stamp(1, 0) \in Statements
      /\ M!Drop("refresh_tokens") \in Statements
      /\ M!Drop("users") \in Statements
      /\ M!Stamp(2, 1) \in Statements
  BY StatementKinds DEF M!Tables
<1> DEFINE one == M!Down(1)
           two == M!Down(2)
<1> HIDE DEF one, two
<1>3. /\ one = Append(<< M!Drop("items") >>, M!Stamp(1, 0))
      /\ two = Append(<< M!Drop("refresh_tokens"), M!Drop("users") >>,
                      M!Stamp(2, 1))
  BY <1>1 DEF one, two
<1>4. /\ one \in Seq(Statements) /\ Len(one) = 2
      /\ one[1] = M!Drop("items") /\ one[2] = M!Stamp(1, 0)
  BY <1>2, <1>3, OneRevision
<1>5. /\ two \in Seq(Statements) /\ Len(two) = 3
      /\ two[1] = M!Drop("refresh_tokens") /\ two[2] = M!Drop("users")
      /\ two[3] = M!Stamp(2, 1)
  BY <1>2, <1>3, OneRevision
<1> QED
  BY <1>4, <1>5 DEF one, two

(* create_all, by what is missing. *)
LEMMA PlanCreate ==
  ASSUME NEW items \in BOOLEAN, NEW auth \in BOOLEAN
  PROVE  /\ Creation(items, auth) \in Seq(Statements)
         /\ ~items /\ ~auth => Len(Creation(items, auth)) = 0
         /\ items /\ ~auth => /\ Len(Creation(items, auth)) = 1
                              /\ Creation(items, auth)[1] = M!Create("items")
         /\ ~items /\ auth => /\ Len(Creation(items, auth)) = 2
                              /\ Creation(items, auth)[1] = M!Create("users")
                              /\ Creation(items, auth)[2] = M!Create("refresh_tokens")
         /\ items /\ auth => /\ Len(Creation(items, auth)) = 3
                             /\ Creation(items, auth)[1] = M!Create("items")
                             /\ Creation(items, auth)[2] = M!Create("users")
                             /\ Creation(items, auth)[3] = M!Create("refresh_tokens")
<1>1. /\ M!Create("items") \in Statements /\ M!Create("users") \in Statements
      /\ M!Create("refresh_tokens") \in Statements
  BY StatementKinds DEF M!Tables
<1>2. Creation(items, auth)
        = (IF items THEN << M!Create("items") >> ELSE <<>>)
            \o ((IF auth THEN << M!Create("users") >> ELSE <<>>)
                  \o (IF auth THEN << M!Create("refresh_tokens") >> ELSE <<>>))
  BY DEF Creation, Optional
<1> QED
  BY <1>1, <1>2, ThreeParts

-----------------------------------------------------------------------------
(* The steps of a run. *)

(* The inductive invariant holds initially. *)
LEMMA MigrationsBegin == M!Init => MigrationInv
<1> SUFFICES ASSUME M!Init PROVE MigrationInv
  OBVIOUS
<1> USE DEF M!Init
<1>1. ShapeInv
  BY DEF ShapeInv, M!Objects, M!Tables
<1>2. \A r \in Runners : ~M!Running(r)
  BY DEF M!Running
<1>3. \A r \in Runners : /\ written[r] = M!NothingWritten /\ plan[r] = <<>>
                         /\ DOMAIN written[r] = {}
  BY DEF M!NothingWritten
<1>4. IdleInv /\ StageInv /\ LockInv
  BY <1>2, <1>3 DEF IdleInv, StageInv, StageOf, LockInv
<1>5. PairInv /\ M!VersionTellsSchema
  BY DEF PairInv, M!VersionTellsSchema, M!Present, M!TablesOf, M!version,
         M!Objects, M!Tables
<1> QED
  BY <1>1, <1>4, <1>5 DEF MigrationInv

(* A run stays where it is as long as nobody commits what it has changed. *)
LEMMA StageKept ==
  ASSUME NEW r \in Runners, StageOf(r),
         state'[r] = state[r], read'[r] = read[r],
         plan'[r] = plan[r], written'[r] = written[r],
         created => created',
         \A o \in DOMAIN written[r] : objects'[o] = objects[o]
  PROVE  StageOf(r)'
<1> SUFFICES ASSUME M!Running(r)
             PROVE  /\ plan'[r] \in Seq(Statements)
                    /\ \E full \in Seq(Statements), n \in Nat :
                         n <= Len(full) /\ IsPlan(r, full)' /\ Stage(r, full, n)'
  BY DEF StageOf, M!Running
<1>1. PICK full \in Seq(Statements), n \in Nat :
        n <= Len(full) /\ IsPlan(r, full) /\ Stage(r, full, n)
  BY DEF StageOf
<1>2. IsPlan(r, full)'
  BY <1>1 DEF IsPlan
<1>3. Stage(r, full, n)'
  BY <1>1 DEF Stage
<1> QED
  BY <1>1, <1>2, <1>3 DEF StageOf

(* A run starts with a plan that is one. *)
LEMMA StartKeeps ==
  ASSUME MigrationInv, NEW r \in Runners,
         NEW kind \in {"upgrading", "downgrading", "creating"},
         NEW full \in Seq(Statements),
         M!Start(r, kind, full), IsPlan(r, full)'
  PROVE  MigrationInv'
<1> USE DEF MigrationInv, M!Start
<1>1. ShapeInv'
  <2>1. M!version \in 0..2
    BY DEF ShapeInv, M!version, M!Objects
  <2> QED
    BY <2>1 DEF ShapeInv
<1>2. /\ \A q \in Runners :
           q # r => /\ state'[q] = state[q] /\ read'[q] = read[q]
                    /\ plan'[q] = plan[q] /\ written'[q] = written[q]
      /\ plan'[r] = full /\ DOMAIN written'[r] = {} /\ M!Running(r)'
  BY DEF ShapeInv, M!NothingWritten, M!Running
<1>3. IdleInv'
  BY <1>2 DEF IdleInv, M!Running
<1>4. StageInv'
  <2> SUFFICES ASSUME NEW q \in Runners PROVE StageOf(q)'
    BY DEF StageInv
  <2>1. CASE q = r
    <3>1. Len(full) \in Nat
      OBVIOUS
    <3>2. Stage(r, full, 0)'
      BY <1>2, <3>1 DEF Stage
    <3> QED
      BY <1>2, <2>1, <3>1, <3>2 DEF StageOf
  <2>2. CASE q # r
    BY <1>2, <2>2, StageKept DEF StageInv
  <2> QED
    BY <2>1, <2>2
<1>5. LockInv'
  BY <1>2 DEF LockInv
<1>6. PairInv' /\ M!VersionTellsSchema'
  BY DEF PairInv, M!VersionTellsSchema, M!Present, M!version
<1> QED
  BY <1>1, <1>3, <1>4, <1>5, <1>6

(* The three ways to start plan what they say. *)
LEMMA StartsKeep ==
  ASSUME MigrationInv, NEW r \in Runners,
         M!StartUpgrade(r) \/ M!StartDowngrade(r) \/ M!StartCreate(r)
  PROVE  MigrationInv'
<1> USE DEF MigrationInv
<1>1. M!version \in 0..2
  BY DEF ShapeInv, M!version, M!Objects
<1>2. CASE M!StartUpgrade(r)
  <2>1. M!ToHead(M!version) \in Seq(Statements)
    BY <1>1, PlanUp
  <2>2. PICK full \in Seq(Statements) : full = M!ToHead(M!version)
    BY <2>1
  <2>3. M!Start(r, "upgrading", full)
    BY <1>2, <2>2 DEF M!StartUpgrade
  <2>4. state'[r] = "upgrading" /\ read'[r] = M!version
    BY <2>3 DEF M!Start, ShapeInv
  <2>5. IsPlan(r, full)'
    BY <2>2, <2>4 DEF IsPlan
  <2> QED
    BY <2>3, <2>5, StartKeeps
<1>3. CASE M!StartDowngrade(r)
  <2>1. M!Down(M!version) \in Seq(Statements) /\ M!version # 0
    BY <1>1, <1>3, PlanDown DEF M!StartDowngrade
  <2>2. PICK full \in Seq(Statements) : full = M!Down(M!version)
    BY <2>1
  <2>3. M!Start(r, "downgrading", full)
    BY <1>3, <2>2 DEF M!StartDowngrade
  <2>4. state'[r] = "downgrading" /\ read'[r] = M!version
    BY <2>3 DEF M!Start, ShapeInv
  <2>5. IsPlan(r, full)'
    BY <2>1, <2>2, <2>4 DEF IsPlan
  <2> QED
    BY <2>3, <2>5, StartKeeps
<1>4. CASE M!StartCreate(r)
  <2>1. PICK items \in BOOLEAN : items = (objects["items"] = 0)
    OBVIOUS
  <2>2. PICK auth \in BOOLEAN : auth = (objects["users"] = 0)
    OBVIOUS
  <2>3. M!CreateAll = Creation(items, auth)
    BY <2>1, <2>2 DEF M!CreateAll, M!CreateMissing, Creation, Optional, PairInv
  <2>4. Creation(items, auth) \in Seq(Statements)
    BY PlanCreate
  <2>5. PICK full \in Seq(Statements) : full = Creation(items, auth)
    BY <2>4
  <2>6. M!Start(r, "creating", full)
    BY <1>4, <2>3, <2>5 DEF M!StartCreate
  <2>7. state'[r] = "creating" /\ created'
    BY <2>6 DEF M!Start, ShapeInv
  <2>8. IsPlan(r, full)'
    BY <2>5, <2>7 DEF IsPlan
  <2> QED
    BY <2>6, <2>8, StartKeeps
<1> QED
  BY <1>2, <1>3, <1>4

(* The next statement, if it is accepted and nobody holds its object. *)
LEMMA ExecuteKeeps ==
  ASSUME MigrationInv, NEW r \in Runners, M!Execute(r)
  PROVE  MigrationInv'
<1> USE DEF MigrationInv
<1>1. M!Running(r) /\ plan[r] # <<>> /\ plan[r] \in Seq(Statements)
  BY DEF M!Execute, StageInv, StageOf
<1>2. PICK full \in Seq(Statements), n \in Nat :
        n <= Len(full) /\ IsPlan(r, full) /\ Stage(r, full, n)
  BY <1>1 DEF StageInv, StageOf
<1>3. PICK s \in Statements : s = Head(plan[r])
  BY <1>1
<1>4. /\ Len(full) \in Nat /\ n + 1 <= Len(full)
      /\ s = full[n + 1]
      /\ plan'[r] \in Seq(Statements)
      /\ Len(plan'[r]) = Len(full) - (n + 1)
      /\ \A i \in 1..Len(full) - (n + 1) : plan'[r][i] = full[n + 1 + i]
  <2>1. plan'[r] = Tail(plan[r])
    BY DEF M!Execute, ShapeInv
  <2>2. /\ Len(plan[r]) = Len(full) - n /\ Len(full) \in Nat /\ Len(plan[r]) # 0
        /\ \A i \in 1..Len(full) - n : plan[r][i] = full[n + i]
    BY <1>1, <1>2, EmptySeq DEF Stage
  <2>3. Head(plan[r]) = plan[r][1] /\ Len(Tail(plan[r])) = Len(plan[r]) - 1
        /\ Tail(plan[r]) \in Seq(Statements)
        /\ \A i \in 1..Len(Tail(plan[r])) : Tail(plan[r])[i] = plan[r][i + 1]
    BY <1>1, HeadTailProperties
  <2> QED
    BY <1>2, <1>3, <2>1, <2>2, <2>3
<1>5. /\ objects' = objects /\ state' = state /\ read' = read
      /\ created' = created
      /\ \A q \in Runners :
           q # r => plan'[q] = plan[q] /\ written'[q] = written[q]
  BY DEF M!Execute, M!InTransaction, ShapeInv
<1>6. /\ s.object \notin DOMAIN written[r] => objects[s.object] = s.from
      /\ \A q \in Runners : q # r => s.object \notin DOMAIN written[q]
  BY <1>3 DEF M!Execute, M!Accepted, M!View, M!Locked
<1>7. written'[r] = [o \in DOMAIN written[r] \cup {s.object} |->
                       IF o = s.object THEN s.to ELSE written[r][o]]
  BY <1>3 DEF M!Execute, M!InTransaction, ShapeInv
<1>8. Stage(r, full, n + 1)'
  <2>1. DOMAIN written'[r] = {full[i].object : i \in 1..n + 1}
    <3>1. DOMAIN written'[r]
            = {full[i].object : i \in 1..n} \cup {full[n + 1].object}
      BY <1>2, <1>4, <1>7 DEF Stage
    <3>2. 1..n + 1 = 1..n \cup {n + 1}
      OBVIOUS
    <3> QED
      BY <3>1, <3>2
  <2>2. ASSUME NEW i \in 1..n + 1,
               \A j \in i + 1..n + 1 : full[j].object # full[i].object
        PROVE  written'[r][full[i].object] = full[i].to
    <3>1. CASE i = n + 1
      BY <1>4, <1>7, <3>1
    <3>2. CASE i # n + 1
      <4>1. i \in 1..n /\ n + 1 \in i + 1..n + 1
        BY <3>2
      <4>2. full[i].object # s.object
        BY <1>4, <2>2, <4>1
      <4>3. written[r][full[i].object] = full[i].to
        BY <1>2, <2>2, <4>1 DEF Stage
      <4>4. full[i].object \in DOMAIN written[r]
        BY <1>2, <4>1 DEF Stage
      <4> QED
        BY <1>7, <4>2, <4>3, <4>4
    <3> QED
      BY <3>1, <3>2
  <2>3. ASSUME NEW i \in 1..n + 1,
               \A j \in 1..i - 1 : full[j].object # full[i].object
        PROVE  objects[full[i].object] = full[i].from
    <3>1. CASE i = n + 1
      <4>1. s.object \notin DOMAIN written[r]
        BY <1>2, <1>4, <2>3, <3>1 DEF Stage
      <4> QED
        BY <1>4, <1>6, <3>1, <4>1
    <3>2. CASE i # n + 1
      <4>1. i \in 1..n
        BY <3>2
      <4> QED
        BY <1>2, <2>3, <4>1 DEF Stage
    <3> QED
      BY <3>1, <3>2
  <2> QED
    BY <1>4, <1>5, <2>1, <2>2, <2>3 DEF Stage
<1>9. StageInv'
  <2> SUFFICES ASSUME NEW q \in Runners PROVE StageOf(q)'
    BY DEF StageInv
  <2>1. CASE q = r
    <3>1. IsPlan(r, full)'
      BY <1>2, <1>5 DEF IsPlan
    <3>2. n + 1 \in Nat
      OBVIOUS
    <3> QED
      BY <1>4, <1>8, <2>1, <3>1, <3>2 DEF StageOf
  <2>2. CASE q # r
    BY <1>5, <2>2, StageKept DEF StageInv
  <2> QED
    BY <2>1, <2>2
<1>10. ShapeInv' /\ IdleInv'
  BY <1>1, <1>5 DEF ShapeInv, IdleInv, M!Running, M!Execute, M!InTransaction
<1>11. LockInv'
  BY <1>5, <1>6, <1>7 DEF LockInv
<1>12. PairInv' /\ M!VersionTellsSchema'
  BY <1>5 DEF PairInv, M!VersionTellsSchema, M!Present, M!version
<1> QED
  BY <1>9, <1>10, <1>11, <1>12

(* A plan, whatever it is, by what its statements name, find and leave. *)
At(full, i, object, from, to) ==
  full[i].object = object /\ full[i].from = from /\ full[i].to = to

(* There are eight kinds of plan. *)
LEMMA PlanCases ==
  ASSUME ShapeInv, NEW r \in Runners, NEW full, IsPlan(r, full)
  PROVE  \/ Len(full) = 0
         \/ /\ state[r] = "upgrading" /\ read[r] = 0 /\ Len(full) = 5
            /\ At(full, 1, "items", 0, 1) /\ At(full, 2, "alembic_version", 0, 1)
            /\ At(full, 3, "users", 0, 1) /\ At(full, 4, "refresh_tokens", 0, 1)
            /\ At(full, 5, "alembic_version", 1, 2)
         \/ /\ state[r] = "upgrading" /\ read[r] = 1 /\ Len(full) = 3
            /\ At(full, 1, "users", 0, 1) /\ At(full, 2, "refresh_tokens", 0, 1)
            /\ At(full, 3, "alembic_version", 1, 2)
         \/ /\ state[r] = "downgrading" /\ read[r] = 1 /\ Len(full) = 2
            /\ At(full, 1, "items", 1, 0) /\ At(full, 2, "alembic_version", 1, 0)
         \/ /\ state[r] = "downgrading" /\ read[r] = 2 /\ Len(full) = 3
            /\ At(full, 1, "refresh_tokens", 1, 0) /\ At(full, 2, "users", 1, 0)
            /\ At(full, 3, "alembic_version", 2, 1)
         \/ /\ state[r] = "creating" /\ created /\ Len(full) = 1
            /\ At(full, 1, "items", 0, 1)
         \/ /\ state[r] = "creating" /\ created /\ Len(full) = 2
            /\ At(full, 1, "users", 0, 1) /\ At(full, 2, "refresh_tokens", 0, 1)
         \/ /\ state[r] = "creating" /\ created /\ Len(full) = 3
            /\ At(full, 1, "items", 0, 1) /\ At(full, 2, "users", 0, 1)
            /\ At(full, 3, "refresh_tokens", 0, 1)
<1>1. /\ \A t \in M!Tables, i \in Nat :
           full[i] = M!Create(t) => At(full, i, t, 0, 1)
      /\ \A t \in M!Tables, i \in Nat :
           full[i] = M!Drop(t) => At(full, i, t, 1, 0)
      /\ \A a, b \in 0..2, i \in Nat :
           full[i] = M!Stamp(a, b) => At(full, i, "alembic_version", a, b)
  BY StatementKinds DEF At
<1>2. {"items", "users", "refresh_tokens"} = M!Tables
  BY DEF M!Tables
<1>3. read[r] = 0 \/ read[r] = 1 \/ read[r] = 2
  BY DEF ShapeInv
<1>4. CASE state[r] = "upgrading"
  <2>1. full = M!ToHead(read[r])
    BY <1>4 DEF IsPlan
  <2>2. CASE read[r] = 0
    <3>1. /\ Len(full) = 5
          /\ full[1] = M!Create("items") /\ full[2] = M!Stamp(0, 1)
          /\ full[3] = M!Create("users") /\ full[4] = M!Create("refresh_tokens")
          /\ full[5] = M!Stamp(1, 2)
      BY <2>1, <2>2, PlanUp
    <3> QED
      BY <1>1, <1>2, <1>4, <2>2, <3>1
  <2>3. CASE read[r] = 1
    <3>1. /\ Len(full) = 3 /\ full[1] = M!Create("users")
          /\ full[2] = M!Create("refresh_tokens") /\ full[3] = M!Stamp(1, 2)
      BY <2>1, <2>3, PlanUp
    <3> QED
      BY <1>1, <1>2, <1>4, <2>3, <3>1
  <2>4. CASE read[r] = 2
    BY <2>1, <2>4, PlanUp
  <2> QED
    BY <1>3, <2>2, <2>3, <2>4
<1>5. CASE state[r] = "downgrading"
  <2>1. full = M!Down(read[r]) /\ read[r] # 0
    BY <1>5 DEF IsPlan
  <2>2. CASE read[r] = 1
    <3>1. Len(full) = 2 /\ full[1] = M!Drop("items") /\ full[2] = M!Stamp(1, 0)
      BY <2>1, <2>2, PlanDown
    <3> QED
      BY <1>1, <1>2, <1>5, <2>2, <3>1
  <2>3. CASE read[r] = 2
    <3>1. /\ Len(full) = 3 /\ full[1] = M!Drop("refresh_tokens")
          /\ full[2] = M!Drop("users") /\ full[3] = M!Stamp(2, 1)
      BY <2>1, <2>3, PlanDown
    <3> QED
      BY <1>1, <1>2, <1>5, <2>3, <3>1
  <2> QED
    BY <1>3, <2>1, <2>2, <2>3
<1>6. CASE state[r] = "creating"
  <2>1. created
    BY <1>6 DEF IsPlan
  <2>2. PICK items \in BOOLEAN, auth \in BOOLEAN : full = Creation(items, auth)
    BY <1>6 DEF IsPlan
  <2>3. CASE items /\ auth
    <3>1. /\ Len(full) = 3 /\ full[1] = M!Create("items")
          /\ full[2] = M!Create("users") /\ full[3] = M!Create("refresh_tokens")
      BY <2>2, <2>3, PlanCreate
    <3> QED
      BY <1>1, <1>2, <1>6, <2>1, <3>1
  <2>4. CASE items /\ ~auth
    <3>1. Len(full) = 1 /\ full[1] = M!Create("items")
      BY <2>2, <2>4, PlanCreate
    <3> QED
      BY <1>1, <1>2, <1>6, <2>1, <3>1
  <2>5. CASE ~items /\ auth
    <3>1. /\ Len(full) = 2 /\ full[1] = M!Create("users")
          /\ full[2] = M!Create("refresh_tokens")
      BY <2>2, <2>5, PlanCreate
    <3> QED
      BY <1>1, <1>2, <1>6, <2>1, <3>1
  <2>6. CASE ~items /\ ~auth
    BY <2>2, <2>6, PlanCreate
  <2> QED
    BY <2>3, <2>4, <2>5, <2>6
<1> QED
  BY <1>4, <1>5, <1>6 DEF IsPlan


(* What r sees of an object after n statements. *)
LEMMA StageView ==
  ASSUME NEW r \in Runners, NEW full, NEW n \in Nat, Stage(r, full, n)
  PROVE  /\ \A i \in 1..n :
              (\A j \in i + 1..n : full[j].object # full[i].object)
                => M!View(r, full[i].object) = full[i].to
         /\ \A i \in 1..n :
              (\A j \in 1..i - 1 : full[j].object # full[i].object)
                => objects[full[i].object] = full[i].from
         /\ \A o : (\A i \in 1..n : full[i].object # o)
                      => M!View(r, o) = objects[o]
BY DEF Stage, M!View

(* The tables that downgrade of a revision drops. *)
Undone(revision) == M!TablesOf(revision) \ M!TablesOf(revision - 1)

(* What a transaction that has done all of its plan leaves. *)
LEMMA WholePlan ==
  ASSUME ShapeInv, PairInv, NEW r \in Runners, NEW full, IsPlan(r, full),
         Stage(r, full, Len(full))
  PROVE  \/ \A o \in M!Objects : M!View(r, o) = objects[o]
         \/ /\ state[r] = "upgrading" /\ read[r] \in 0..1
            /\ objects["alembic_version"] = read[r]
            /\ M!View(r, "alembic_version") = 2
            /\ \A t \in M!Tables : M!View(r, t) = IF t \in M!TablesOf(read[r])
                                              THEN objects[t] ELSE 1
         \/ /\ state[r] = "downgrading" /\ read[r] \in 1..2
            /\ objects["alembic_version"] = read[r]
            /\ M!View(r, "alembic_version") = read[r] - 1
            /\ \A t \in M!Tables :
                 M!View(r, t) = IF t \in Undone(read[r])
                              THEN 0 ELSE objects[t]
         \/ /\ state[r] = "creating" /\ created
            /\ M!View(r, "alembic_version") = objects["alembic_version"]
            /\ \A t \in M!Tables : M!View(r, t) \in {1, objects[t]}
            /\ M!View(r, "users") = M!View(r, "refresh_tokens")
<1> DEFINE Changed(o, from, to) == objects[o] = from /\ M!View(r, o) = to
           Same(o) == M!View(r, o) = objects[o]
<1>1. CASE Len(full) = 0
  <2>1. Stage(r, full, 0)
    BY <1>1
  <2>2. \A o : M!View(r, o) = objects[o]
    BY <2>1, StageView
  <2> QED
    BY <2>2
<1>2. CASE /\ state[r] = "upgrading" /\ read[r] = 0 /\ Len(full) = 5
           /\ At(full, 1, "items", 0, 1) /\ At(full, 2, "alembic_version", 0, 1)
           /\ At(full, 3, "users", 0, 1) /\ At(full, 4, "refresh_tokens", 0, 1)
           /\ At(full, 5, "alembic_version", 1, 2)
  <2>1. Stage(r, full, 5)
    BY <1>2
  <2>2. /\ full[1].object = "items" /\ full[1].from = 0 /\ full[1].to = 1
        /\ full[2].object = "alembic_version" /\ full[2].from = 0
        /\ full[3].object = "users" /\ full[3].from = 0 /\ full[3].to = 1
        /\ full[4].object = "refresh_tokens" /\ full[4].from = 0
        /\ full[4].to = 1
        /\ full[5].object = "alembic_version" /\ full[5].to = 2
    BY <1>2 DEF At
  <2>3. /\ \A j \in 1..5 : j # 1 => full[j].object # "items"
        /\ \A j \in 1..5 : j # 3 => full[j].object # "users"
        /\ \A j \in 1..5 : j # 4 => full[j].object # "refresh_tokens"
    BY <2>2
  <2>4. /\ \A i \in 1..5 :
             (\A j \in i + 1..5 : full[j].object # full[i].object)
               => M!View(r, full[i].object) = full[i].to
        /\ \A i \in 1..5 :
             (\A j \in 1..i - 1 : full[j].object # full[i].object)
               => objects[full[i].object] = full[i].from
    BY <2>1 DEF Stage, M!View
  <2>5. /\ Changed("items", 0, 1) /\ Changed("users", 0, 1)
        /\ Changed("refresh_tokens", 0, 1)
    <3>1. Changed("items", 0, 1)
      BY <2>2, <2>3, <2>4
    <3>2. Changed("users", 0, 1)
      BY <2>2, <2>3, <2>4
    <3>3. Changed("refresh_tokens", 0, 1)
      BY <2>2, <2>3, <2>4
    <3> QED
      BY <3>1, <3>2, <3>3
  <2>6. Changed("alembic_version", 0, 2)
    BY <2>2, <2>4
  <2> QED
    BY <1>2, <2>5, <2>6 DEF M!TablesOf, M!Tables
<1>3. CASE /\ state[r] = "upgrading" /\ read[r] = 1 /\ Len(full) = 3
           /\ At(full, 1, "users", 0, 1) /\ At(full, 2, "refresh_tokens", 0, 1)
           /\ At(full, 3, "alembic_version", 1, 2)
  <2>1. Stage(r, full, 3)
    BY <1>3
  <2>2. /\ Changed("users", 0, 1) /\ Changed("refresh_tokens", 0, 1)
        /\ Changed("alembic_version", 1, 2) /\ Same("items")
    BY <1>3, <2>1, StageView DEF At
  <2> QED
    BY <1>3, <2>2 DEF M!TablesOf, M!Tables
<1>4. CASE /\ state[r] = "downgrading" /\ read[r] = 1 /\ Len(full) = 2
           /\ At(full, 1, "items", 1, 0) /\ At(full, 2, "alembic_version", 1, 0)
  <2>1. Stage(r, full, 2)
    BY <1>4
  <2>2. /\ Changed("items", 1, 0) /\ Changed("alembic_version", 1, 0)
        /\ Same("users") /\ Same("refresh_tokens")
    BY <1>4, <2>1, StageView DEF At
  <2> QED
    BY <1>4, <2>2 DEF Undone, M!TablesOf, M!Tables
<1>5. CASE /\ state[r] = "downgrading" /\ read[r] = 2 /\ Len(full) = 3
           /\ At(full, 1, "refresh_tokens", 1, 0) /\ At(full, 2, "users", 1, 0)
           /\ At(full, 3, "alembic_version", 2, 1)
  <2>1. Stage(r, full, 3)
    BY <1>5
  <2>2. /\ Changed("users", 1, 0) /\ Changed("refresh_tokens", 1, 0)
        /\ Changed("alembic_version", 2, 1) /\ Same("items")
    BY <1>5, <2>1, StageView DEF At
  <2> QED
    BY <1>5, <2>2 DEF Undone, M!TablesOf, M!Tables
<1>6. CASE /\ state[r] = "creating" /\ created /\ Len(full) = 1
           /\ At(full, 1, "items", 0, 1)
  <2>1. Stage(r, full, 1)
    BY <1>6
  <2>2. /\ Changed("items", 0, 1) /\ Same("alembic_version")
        /\ Same("users") /\ Same("refresh_tokens")
    BY <1>6, <2>1, StageView DEF At
  <2> QED
    BY <1>6, <2>2 DEF M!Tables, PairInv
<1>7. CASE /\ state[r] = "creating" /\ created /\ Len(full) = 2
           /\ At(full, 1, "users", 0, 1) /\ At(full, 2, "refresh_tokens", 0, 1)
  <2>1. Stage(r, full, 2)
    BY <1>7
  <2>2. /\ Changed("users", 0, 1) /\ Changed("refresh_tokens", 0, 1)
        /\ Same("alembic_version") /\ Same("items")
    BY <1>7, <2>1, StageView DEF At
  <2> QED
    BY <1>7, <2>2 DEF M!Tables
<1>8. CASE /\ state[r] = "creating" /\ created /\ Len(full) = 3
           /\ At(full, 1, "items", 0, 1) /\ At(full, 2, "users", 0, 1)
           /\ At(full, 3, "refresh_tokens", 0, 1)
  <2>1. Stage(r, full, 3)
    BY <1>8
  <2>2. /\ Changed("items", 0, 1) /\ Changed("users", 0, 1)
        /\ Changed("refresh_tokens", 0, 1) /\ Same("alembic_version")
    BY <1>8, <2>1, StageView DEF At
  <2> QED
    BY <1>8, <2>2 DEF M!Tables
<1> QED
  BY <1>1, <1>2, <1>3, <1>4, <1>5, <1>6, <1>7, <1>8, PlanCases

(* A commit changes only what its transaction has locked, and takes the
   schema of one revision to that of another. *)
LEMMA CommitKeeps ==
  ASSUME MigrationInv, NEW r \in Runners, M!Commit(r)
  PROVE  MigrationInv'
<1> USE DEF MigrationInv
<1>1. M!Running(r) /\ plan[r] = <<>>
  BY DEF M!Commit
<1>2. PICK full \in Seq(Statements), n \in Nat :
        n <= Len(full) /\ IsPlan(r, full) /\ Stage(r, full, n)
  BY <1>1 DEF StageInv, StageOf
<1>3. Stage(r, full, Len(full))
  <2>1. Len(plan[r]) = 0 /\ Len(full) \in Nat
    BY <1>1
  <2>2. n = Len(full)
    BY <1>2, <2>1 DEF Stage
  <2> QED
    BY <1>2, <2>2
<1>4. /\ objects' = [o \in M!Objects |-> M!View(r, o)]
      /\ read' = read /\ created' = created
      /\ \A q \in Runners :
           q # r => /\ state'[q] = state[q] /\ plan'[q] = plan[q]
                    /\ written'[q] = written[q]
      /\ state'[r] = "done" /\ ~M!Running(r)' /\ DOMAIN written'[r] = {}
      /\ written'[r] = M!NothingWritten /\ plan'[r] = <<>>
  BY DEF M!Commit, M!End, ShapeInv, M!Running, M!NothingWritten
<1>5. /\ M!View(r, "alembic_version") \in 0..2
      /\ \A t \in M!Tables : M!View(r, t) \in {0, 1}
      /\ M!View(r, "users") = M!View(r, "refresh_tokens")
      /\ M!TablesOf(M!View(r, "alembic_version"))
           \subseteq {t \in M!Tables : M!View(r, t) = 1}
      /\ ~created => {t \in M!Tables : M!View(r, t) = 1}
                       = M!TablesOf(M!View(r, "alembic_version"))
  <2> DEFINE v == objects["alembic_version"]
             w == M!View(r, "alembic_version")
  <2>1. v \in 0..2 /\ \A t \in M!Tables : objects[t] \in {0, 1}
    BY DEF ShapeInv, M!Objects
  <2>2. /\ M!TablesOf(v) \subseteq {t \in M!Tables : objects[t] = 1}
        /\ ~created => {t \in M!Tables : objects[t] = 1} = M!TablesOf(v)
    BY DEF M!VersionTellsSchema, M!Present, M!version
  <2>3. /\ M!TablesOf(0) = {} /\ M!TablesOf(1) = {"items"}
        /\ M!TablesOf(2) = M!Tables
        /\ M!Tables = {"items", "users", "refresh_tokens"}
        /\ M!TablesOf(v) \subseteq M!Tables
    BY <2>1 DEF M!TablesOf, M!Tables
  <2>4. /\ "users" \in M!Tables /\ "refresh_tokens" \in M!Tables
        /\ M!Tables \subseteq M!Objects
        /\ "alembic_version" \in M!Objects
    BY DEF M!Tables, M!Objects
  <2>5. objects["users"] = objects["refresh_tokens"]
    BY DEF PairInv
  <2>6. CASE \A o \in M!Objects : M!View(r, o) = objects[o]
    BY <2>1, <2>2, <2>4, <2>5, <2>6
  <2>7. CASE /\ state[r] = "upgrading" /\ read[r] \in 0..1
             /\ v = read[r] /\ w = 2
             /\ \A t \in M!Tables : M!View(r, t) = IF t \in M!TablesOf(read[r])
                                               THEN objects[t] ELSE 1
    <3>1. \A t \in M!Tables : M!View(r, t) = 1
      BY <2>2, <2>7
    <3> QED
      BY <2>3, <2>4, <2>7, <3>1
  <2>8. CASE /\ state[r] = "downgrading" /\ read[r] \in 1..2
             /\ v = read[r] /\ w = read[r] - 1
             /\ \A t \in M!Tables :
                  M!View(r, t) = IF t \in Undone(read[r])
                               THEN 0 ELSE objects[t]
    <3>1. CASE read[r] = 1
      <4>1. /\ M!View(r, "items") = 0 /\ M!View(r, "users") = objects["users"]
            /\ M!View(r, "refresh_tokens") = objects["refresh_tokens"] /\ w = 0
        BY <2>3, <2>8, <3>1 DEF Undone
      <4> QED
        BY <2>1, <2>2, <2>3, <2>5, <2>8, <3>1, <4>1
    <3>2. CASE read[r] = 2
      <4>1. /\ M!View(r, "items") = objects["items"] /\ M!View(r, "users") = 0
            /\ M!View(r, "refresh_tokens") = 0 /\ w = 1
        BY <2>3, <2>8, <3>2 DEF Undone
      <4> QED
        BY <2>1, <2>2, <2>3, <2>5, <2>8, <3>2, <4>1
    <3> QED
      BY <2>8, <3>1, <3>2
  <2>9. CASE /\ state[r] = "creating" /\ created /\ w = v
             /\ \A t \in M!Tables : M!View(r, t) \in {1, objects[t]}
             /\ M!View(r, "users") = M!View(r, "refresh_tokens")
    BY <2>1, <2>2, <2>3, <2>9
  <2> QED
    BY <1>2, <1>3, <2>6, <2>7, <2>8, <2>9, WholePlan
<1>6. ShapeInv'
  <2>1. objects' \in [M!Objects -> 0..2]
    BY <1>4, <1>5 DEF M!Objects
  <2>2. \A t \in M!Tables : objects'[t] \in {0, 1}
    BY <1>4, <1>5 DEF M!Objects
  <2> QED
    BY <1>4, <2>1, <2>2 DEF ShapeInv, M!Commit, M!End
<1>7. IdleInv' /\ LockInv'
  BY <1>4 DEF IdleInv, LockInv, M!Running
<1>8. StageInv'
  <2> SUFFICES ASSUME NEW q \in Runners PROVE StageOf(q)'
    BY DEF StageInv
  <2>1. CASE q = r
    BY <1>4, <2>1 DEF StageOf
  <2>2. CASE q # r /\ M!Running(q)
    <3>1. DOMAIN written[q] \subseteq M!Objects
      <4>1. PICK f \in Seq(Statements), m \in Nat :
              m <= Len(f) /\ Stage(q, f, m)
        BY <2>2 DEF StageInv, StageOf
      <4>2. \A i \in 1..m : f[i] \in Statements
        BY <4>1
      <4> QED
        BY <4>1, <4>2 DEF Stage, Statements
    <3>2. \A o \in DOMAIN written[q] : objects'[o] = objects[o]
      BY <1>4, <2>2, <3>1 DEF LockInv, M!View
    <3> QED
      BY <1>4, <2>2, <3>2, StageKept DEF StageInv
  <2>3. CASE q # r /\ ~M!Running(q)
    BY <1>4, <2>3 DEF StageOf, M!Running
  <2> QED
    BY <2>1, <2>2, <2>3
<1>9. PairInv' /\ M!VersionTellsSchema'
  <2>1. M!version' = M!View(r, "alembic_version")
    BY <1>4 DEF M!version, M!Objects
  <2>2. M!Present' = {t \in M!Tables : M!View(r, t) = 1}
    BY <1>4 DEF M!Present, M!Objects
  <2>3. PairInv'
    BY <1>4, <1>5 DEF PairInv, M!Objects, M!Tables
  <2>4. M!VersionTellsSchema'
    BY <1>4, <1>5, <2>1, <2>2 DEF M!VersionTellsSchema, M!TablesOf
  <2> QED
    BY <2>3, <2>4
<1> QED
  BY <1>6, <1>7, <1>8, <1>9

(* A transaction that is rolled back. *)
LEMMA RollbackKeeps ==
  ASSUME MigrationInv, NEW r \in Runners, NEW how \in {"failed", "crashed"},
         M!End(r, how), UNCHANGED objects,
         written' = [written EXCEPT ![r] = M!NothingWritten]
  PROVE  MigrationInv'
<1> USE DEF MigrationInv
<1>1. /\ objects' = objects /\ read' = read /\ created' = created
      /\ \A q \in Runners :
           q # r => /\ state'[q] = state[q] /\ plan'[q] = plan[q]
                    /\ written'[q] = written[q]
      /\ state'[r] = how /\ ~M!Running(r)' /\ DOMAIN written'[r] = {}
      /\ written'[r] = M!NothingWritten /\ plan'[r] = <<>>
  BY DEF M!End, ShapeInv, M!Running, M!NothingWritten
<1>2. ShapeInv'
  BY <1>1 DEF ShapeInv, M!End
<1>3. IdleInv' /\ LockInv'
  BY <1>1 DEF IdleInv, LockInv, M!Running
<1>4. StageInv'
  <2> SUFFICES ASSUME NEW q \in Runners PROVE StageOf(q)'
    BY DEF StageInv
  <2>1. CASE q = r
    BY <1>1, <2>1 DEF StageOf
  <2>2. CASE q # r
    BY <1>1, <2>2, StageKept DEF StageInv
  <2> QED
    BY <2>1, <2>2
<1>5. PairInv' /\ M!VersionTellsSchema'
  BY <1>1 DEF PairInv, M!VersionTellsSchema, M!Present, M!version
<1> QED
  BY <1>2, <1>3, <1>4, <1>5

(* Every step of the migrations preserves the inductive invariant. *)
LEMMA MigrationStep == MigrationInv /\ [M!Next]_M!vars => MigrationInv'
<1> SUFFICES ASSUME MigrationInv, [M!Next]_M!vars PROVE MigrationInv'
  OBVIOUS
<1>1. ASSUME UNCHANGED M!vars PROVE MigrationInv'
  <2>1. \A q \in Runners : StageOf(q)'
    BY <1>1, StageKept DEF MigrationInv, StageInv, M!vars
  <2> QED
    BY <1>1, <2>1
       DEF MigrationInv, ShapeInv, IdleInv, StageInv, LockInv, PairInv,
      M!VersionTellsSchema, M!Present, M!version, M!Running, M!vars
<1>2. ASSUME NEW r \in Runners,
             M!StartUpgrade(r) \/ M!StartDowngrade(r) \/ M!StartCreate(r)
      PROVE  MigrationInv'
  BY <1>2, StartsKeep
<1>3. ASSUME NEW r \in Runners, M!Execute(r) PROVE MigrationInv'
  BY <1>3, ExecuteKeeps
<1>4. ASSUME NEW r \in Runners, M!Fail(r) PROVE MigrationInv'
  BY <1>4, RollbackKeeps DEF M!Fail, M!RolledBack
<1>5. ASSUME NEW r \in Runners, M!Crash(r) PROVE MigrationInv'
  BY <1>5, RollbackKeeps DEF M!Crash
<1>6. ASSUME NEW r \in Runners, M!Commit(r) PROVE MigrationInv'
  BY <1>6, CommitKeeps
<1> QED
  BY <1>1, <1>2, <1>3, <1>4, <1>5, <1>6 DEF M!Next, M!Finished

(* The inductive invariant holds in every reachable state. *)
LEMMA MigrationsAlways == M!Spec => []MigrationInv
<1> QED
  BY MigrationsBegin, MigrationStep, PTL DEF M!Spec

(* The application finds every table of the revision the database says it
   has, however many migrations, downgrades and creations run at a time and
   wherever they crash; and no other table as long as no application created
   any. *)
THEOREM TablesMatchRevision == M!Spec => []M!VersionTellsSchema
<1>1. MigrationInv => M!VersionTellsSchema
  BY DEF MigrationInv
<1> QED
  BY <1>1, MigrationsAlways, PTL

(* A migration whose revision and tables are those it found is accepted
   statement by statement. *)
LEMMA NextAccepted ==
  ASSUME ShapeInv, NEW r \in Runners, NEW full, IsPlan(r, full),
         state[r] \in {"upgrading", "downgrading"},
         NEW n \in Nat, n < Len(full), Stage(r, full, n),
         M!version = read[r], M!Present = M!TablesOf(M!version)
  PROVE  M!Accepted(r, full[n + 1])
<1> DEFINE s == full[n + 1]
<1>1. /\ s = M!Create("refresh_tokens")
           => s.object = "refresh_tokens" /\ s.from = 0
      /\ s = M!Drop("users") => s.object = "users" /\ s.from = 1
  BY StatementKinds DEF M!Tables
<1>2. /\ objects["alembic_version"] = read[r]
      /\ \A t \in M!Tables :
           objects[t] = IF t \in M!TablesOf(read[r]) THEN 1 ELSE 0
  BY DEF M!Present, M!version, ShapeInv
<1>3. SUFFICES /\ M!View(r, s.object) = s.from
               /\ s.object = "refresh_tokens" /\ s.from = 0
                    => M!View(r, "users") = 1
               /\ s.object = "users" /\ s.from = 1
                    => M!View(r, "refresh_tokens") = 0
  BY <1>1 DEF M!Accepted
<1>4. CASE /\ state[r] = "upgrading" /\ read[r] = 0 /\ Len(full) = 5
           /\ At(full, 1, "items", 0, 1) /\ At(full, 2, "alembic_version", 0, 1)
           /\ At(full, 3, "users", 0, 1) /\ At(full, 4, "refresh_tokens", 0, 1)
           /\ At(full, 5, "alembic_version", 1, 2)
  <2>1. /\ objects["alembic_version"] = 0 /\ objects["items"] = 0
        /\ objects["users"] = 0 /\ objects["refresh_tokens"] = 0
    BY <1>2, <1>4 DEF M!TablesOf, M!Tables
  <2>2. n = 0 \/ n = 1 \/ n = 2 \/ n = 3 \/ n = 4
    BY <1>4
  <2>3. CASE n = 0
    BY <1>4, <2>1, <2>3, StageView DEF At
  <2>4. CASE n = 1
    BY <1>4, <2>1, <2>4, StageView DEF At
  <2>5. CASE n = 2
    BY <1>4, <2>1, <2>5, StageView DEF At
  <2>6. CASE n = 3
    BY <1>4, <2>1, <2>6, StageView DEF At
  <2>7. CASE n = 4
    BY <1>4, <2>1, <2>7, StageView DEF At
  <2> QED
    BY <2>2, <2>3, <2>4, <2>5, <2>6, <2>7
<1>5. CASE /\ state[r] = "upgrading" /\ read[r] = 1 /\ Len(full) = 3
           /\ At(full, 1, "users", 0, 1) /\ At(full, 2, "refresh_tokens", 0, 1)
           /\ At(full, 3, "alembic_version", 1, 2)
  <2>1. /\ objects["alembic_version"] = 1 /\ objects["users"] = 0
        /\ objects["refresh_tokens"] = 0
    BY <1>2, <1>5 DEF M!TablesOf, M!Tables
  <2>2. n = 0 \/ n = 1 \/ n = 2
    BY <1>5
  <2>3. CASE n = 0
    BY <1>5, <2>1, <2>3, StageView DEF At
  <2>4. CASE n = 1
    BY <1>5, <2>1, <2>4, StageView DEF At
  <2>5. CASE n = 2
    BY <1>5, <2>1, <2>5, StageView DEF At
  <2> QED
    BY <2>2, <2>3, <2>4, <2>5
<1>6. CASE /\ state[r] = "downgrading" /\ read[r] = 1 /\ Len(full) = 2
           /\ At(full, 1, "items", 1, 0) /\ At(full, 2, "alembic_version", 1, 0)
  <2>1. objects["alembic_version"] = 1 /\ objects["items"] = 1
    BY <1>2, <1>6 DEF M!TablesOf, M!Tables
  <2>2. n = 0 \/ n = 1
    BY <1>6
  <2>3. CASE n = 0
    BY <1>6, <2>1, <2>3, StageView DEF At
  <2>4. CASE n = 1
    BY <1>6, <2>1, <2>4, StageView DEF At
  <2> QED
    BY <2>2, <2>3, <2>4
<1>7. CASE /\ state[r] = "downgrading" /\ read[r] = 2 /\ Len(full) = 3
           /\ At(full, 1, "refresh_tokens", 1, 0) /\ At(full, 2, "users", 1, 0)
           /\ At(full, 3, "alembic_version", 2, 1)
  <2>1. /\ objects["alembic_version"] = 2 /\ objects["users"] = 1
        /\ objects["refresh_tokens"] = 1
    BY <1>2, <1>7 DEF M!TablesOf, M!Tables
  <2>2. n = 0 \/ n = 1 \/ n = 2
    BY <1>7
  <2>3. CASE n = 0
    BY <1>7, <2>1, <2>3, StageView DEF At
  <2>4. CASE n = 1
    BY <1>7, <2>1, <2>4, StageView DEF At
  <2>5. CASE n = 2
    BY <1>7, <2>1, <2>5, StageView DEF At
  <2> QED
    BY <2>2, <2>3, <2>4, <2>5
<1>8. Len(full) # 0
  OBVIOUS
<1> QED
  BY <1>4, <1>5, <1>6, <1>7, <1>8, PlanCases

(* The statement a run is at. *)
LEMMA NextStatement ==
  ASSUME NEW r \in Runners, NEW full \in Seq(Statements), NEW n \in Nat,
         n <= Len(full), Stage(r, full, n),
         plan[r] \in Seq(Statements), plan[r] # <<>>
  PROVE  n < Len(full) /\ Head(plan[r]) = full[n + 1]
<1>1. /\ Len(plan[r]) = Len(full) - n /\ Len(full) \in Nat /\ Len(plan[r]) # 0
      /\ \A i \in 1..Len(full) - n : plan[r][i] = full[n + i]
  BY EmptySeq DEF Stage
<1>2. Head(plan[r]) = plan[r][1]
  OBVIOUS
<1> QED
  BY <1>1, <1>2

(* A step that fails a migration is its own, at a statement refused. *)
LEMMA FailureHasCause ==
  ASSUME MigrationInv, NEW r \in Runners, [M!Next]_M!vars, M!FailsIn(r)
  PROVE  M!version # read[r] \/ M!Present # M!TablesOf(M!version)
<1>1. M!Fail(r)
  <2>1. state[r] \in {"upgrading", "downgrading"} /\ state'[r] = "failed"
        /\ DOMAIN state = Runners
    BY DEF M!FailsIn, MigrationInv, ShapeInv
  <2>2. ASSUME NEW q \in Runners,
               NEW kind \in {"upgrading", "downgrading", "creating"},
               NEW full, M!Start(q, kind, full)
        PROVE  FALSE
    BY <2>1, <2>2 DEF M!Start
  <2>3. ASSUME NEW q \in Runners, M!Execute(q) PROVE FALSE
    BY <2>1, <2>3 DEF M!Execute
  <2>4. ASSUME NEW q \in Runners, M!Crash(q) PROVE FALSE
    BY <2>1, <2>4 DEF M!Crash, M!End
  <2>5. ASSUME NEW q \in Runners, M!Commit(q) PROVE FALSE
    BY <2>1, <2>5 DEF M!Commit, M!End
  <2>6. ASSUME NEW q \in Runners, M!Fail(q), q # r PROVE FALSE
    BY <2>1, <2>6 DEF M!Fail, M!End
  <2>7. ASSUME UNCHANGED M!vars PROVE FALSE
    BY <2>1, <2>7 DEF M!vars
  <2> QED
    BY <2>2, <2>3, <2>4, <2>5, <2>6, <2>7
       DEF M!Next, M!StartUpgrade, M!StartDowngrade, M!StartCreate, M!Finished
<1>2. M!Running(r) /\ plan[r] # <<>> /\ ~M!Accepted(r, Head(plan[r]))
  BY <1>1 DEF M!Fail
<1>3. PICK full \in Seq(Statements), n \in Nat :
        n <= Len(full) /\ IsPlan(r, full) /\ Stage(r, full, n)
  BY <1>2 DEF MigrationInv, StageInv, StageOf
<1>4. n < Len(full) /\ Head(plan[r]) = full[n + 1]
  BY <1>2, <1>3, NextStatement DEF MigrationInv, StageInv, StageOf
<1> QED
  BY <1>2, <1>3, <1>4, NextAccepted DEF MigrationInv, M!FailsIn

(* upgrade and downgrade fail only when the revision is no longer the one
   they read, or the tables are not those of the revision. *)
THEOREM FailuresHaveCauses == M!Spec => M!MigrationFailsWithCause
<1>1. MigrationInv /\ [M!Next]_M!vars =>
        [\A r \in Runners :
           M!FailsIn(r) =>
             M!version # read[r] \/ M!Present # M!TablesOf(M!version)]_M!vars
  BY FailureHasCause
<1> QED
  BY <1>1, MigrationsAlways, PTL DEF M!Spec, M!MigrationFailsWithCause

(* What a run that is not at its end holds when it comes to its next
   statement: the tables are taken in the order of their foreign key, and the
   revision is stamped after the tables it is about. *)
Order(held, s) ==
  /\ s.object = "alembic_version" /\ "alembic_version" \notin held =>
       s.from # 0 \/ "items" \in held
  /\ s.object = "users" => s.from = 0 \/ "refresh_tokens" \in held
  /\ s.object = "refresh_tokens" => s.from = 1 \/ "users" \in held
  /\ "alembic_version" \in held =>
       "items" \in held /\ objects["alembic_version"] = 0
  /\ "users" \in held =>
       \/ objects["users"] = 0 /\ s.object # "items"
            /\ (s.object = "refresh_tokens" => s.from = 0) /\ s.object # "users"
       \/ objects["users"] = 1 /\ "refresh_tokens" \in held
            /\ s.object = "alembic_version"
  /\ "refresh_tokens" \in held =>
       \/ objects["refresh_tokens"] = 0 /\ "users" \in held
       \/ objects["refresh_tokens"] = 1 /\ s.object \in {"users", "alembic_version"}
            /\ (s.object = "users" => s.from = 1)
  /\ "items" \in held =>
       s.object # "items" /\ (s.object # "alembic_version" => s.from = 0)

(* Every plan keeps that order. *)
LEMMA RunsInOrder ==
  ASSUME ShapeInv, NEW r \in Runners, NEW full, IsPlan(r, full),
         NEW n \in Nat, n < Len(full), Stage(r, full, n)
  PROVE  Order(DOMAIN written[r], full[n + 1])
<1> DEFINE held == DOMAIN written[r]
           s == full[n + 1]
<1>1. /\ \A i \in 1..n : full[i].object \in held
      /\ \A o \in held : \E i \in 1..n : full[i].object = o
      /\ \A i \in 1..n :
           (\A j \in 1..i - 1 : full[j].object # full[i].object)
             => objects[full[i].object] = full[i].from
  BY DEF Stage
<1> SUFFICES Order(held, s)
  OBVIOUS
<1> HIDE DEF held
<1>2. CASE /\ Len(full) = 5
           /\ At(full, 1, "items", 0, 1) /\ At(full, 2, "alembic_version", 0, 1)
           /\ At(full, 3, "users", 0, 1) /\ At(full, 4, "refresh_tokens", 0, 1)
           /\ At(full, 5, "alembic_version", 1, 2)
  <2>1. n = 0 \/ n = 1 \/ n = 2 \/ n = 3 \/ n = 4
    BY <1>2
  <2>2. CASE n = 0
    BY <1>1, <1>2, <2>2 DEF At, Order
  <2>3. CASE n = 1
    BY <1>1, <1>2, <2>3 DEF At, Order
  <2>4. CASE n = 2
    BY <1>1, <1>2, <2>4 DEF At, Order
  <2>5. CASE n = 3
    BY <1>1, <1>2, <2>5 DEF At, Order
  <2>6. CASE n = 4
    BY <1>1, <1>2, <2>6 DEF At, Order
  <2> QED
    BY <2>1, <2>2, <2>3, <2>4, <2>5, <2>6
<1>3. CASE /\ Len(full) = 3
           /\ At(full, 1, "users", 0, 1) /\ At(full, 2, "refresh_tokens", 0, 1)
           /\ At(full, 3, "alembic_version", 1, 2)
  <2>1. n = 0 \/ n = 1 \/ n = 2
    BY <1>3
  <2> QED
    BY <1>1, <1>3, <2>1 DEF At, Order
<1>4. CASE /\ Len(full) = 2
           /\ At(full, 1, "items", 1, 0) /\ At(full, 2, "alembic_version", 1, 0)
  <2>1. n = 0 \/ n = 1
    BY <1>4
  <2> QED
    BY <1>1, <1>4, <2>1 DEF At, Order
<1>5. CASE /\ Len(full) = 3
           /\ At(full, 1, "refresh_tokens", 1, 0) /\ At(full, 2, "users", 1, 0)
           /\ At(full, 3, "alembic_version", 2, 1)
  <2>1. n = 0 \/ n = 1 \/ n = 2
    BY <1>5
  <2> QED
    BY <1>1, <1>5, <2>1 DEF At, Order
<1>6. CASE Len(full) = 1 /\ At(full, 1, "items", 0, 1)
  <2>1. n = 0
    BY <1>6
  <2> QED
    BY <1>1, <1>6, <2>1 DEF At, Order
<1>7. CASE /\ Len(full) = 2
           /\ At(full, 1, "users", 0, 1) /\ At(full, 2, "refresh_tokens", 0, 1)
  <2>1. n = 0 \/ n = 1
    BY <1>7
  <2> QED
    BY <1>1, <1>7, <2>1 DEF At, Order
<1>8. CASE /\ Len(full) = 3
           /\ At(full, 1, "items", 0, 1) /\ At(full, 2, "users", 0, 1)
           /\ At(full, 3, "refresh_tokens", 0, 1)
  <2>1. n = 0 \/ n = 1 \/ n = 2
    BY <1>8
  <2> QED
    BY <1>1, <1>8, <2>1 DEF At, Order
<1>9. Len(full) # 0
  OBVIOUS
<1> QED
  BY <1>2, <1>3, <1>4, <1>5, <1>6, <1>7, <1>8, <1>9, PlanCases

(* Nobody waits for the revision; who waits for users or refresh_tokens waits
   for a run that is not waiting; so all would wait for items, and who holds
   items is past it. *)
LEMMA NoneWaitsForEver == MigrationInv => NoCircularWait
<1> SUFFICES ASSUME MigrationInv, NEW r \in Runners, M!Running(r),
                    \A q \in Runners : ~CanGoOn(q)
             PROVE  FALSE
  BY DEF NoCircularWait
<1> DEFINE held(q) == DOMAIN written[q]
           next(q) == Head(plan[q])
           Blocks(p, q) == /\ p \in Runners /\ p # q /\ M!Running(p)
                           /\ next(q).object \in held(p)
<1>1. ASSUME NEW q \in Runners, M!Running(q)
      PROVE  /\ Order(held(q), next(q)) /\ next(q).object \in M!Objects
             /\ \E p \in Runners : Blocks(p, q)
  <2>1. plan[q] # <<>> /\ M!Locked(q, next(q).object)
    BY <1>1 DEF CanGoOn
  <2>2. PICK full \in Seq(Statements), n \in Nat :
          n <= Len(full) /\ IsPlan(q, full) /\ Stage(q, full, n)
    BY <1>1 DEF MigrationInv, StageInv, StageOf
  <2>3. n < Len(full) /\ next(q) = full[n + 1]
    BY <1>1, <2>1, <2>2, NextStatement DEF MigrationInv, StageInv, StageOf
  <2>4. Order(held(q), next(q))
    BY <2>2, <2>3, RunsInOrder DEF MigrationInv
  <2>5. next(q).object \in M!Objects
    <3>1. n + 1 \in 1..Len(full)
      BY <2>2, <2>3
    <3>2. full[n + 1] \in Statements
      BY <3>1
    <3> QED
      BY <2>3, <3>2 DEF Statements
  <2> QED
    BY <2>1, <2>4, <2>5 DEF M!Locked, MigrationInv, IdleInv, M!NothingWritten
<1>2. ASSUME NEW q \in Runners, M!Running(q), NEW p \in Runners, Blocks(p, q)
      PROVE  /\ held(p) \cap held(q) = {}
             /\ objects[next(q).object] = next(q).from
  <2>1. held(p) \cap held(q) = {}
    BY <1>2 DEF MigrationInv, LockInv
  <2>2. M!Accepted(q, next(q))
    BY <1>2 DEF CanGoOn
  <2> QED
    BY <1>2, <2>1, <2>2 DEF M!Accepted, M!View
<1>3. objects["users"] = objects["refresh_tokens"]
  BY DEF MigrationInv, PairInv
<1> HIDE DEF held, next
<1>4. ASSUME NEW q \in Runners, M!Running(q)
      PROVE  \/ next(q).object = "users" /\ next(q).from = 0
             \/ next(q).object = "refresh_tokens" /\ next(q).from = 1
             \/ next(q).object = "items"
  <2>1. PICK p \in Runners : Blocks(p, q)
    BY <1>1, <1>4
  <2>2. /\ held(p) \cap held(q) = {} /\ objects[next(q).object] = next(q).from
        /\ Order(held(p), next(p)) /\ Order(held(q), next(q))
    BY <1>1, <1>2, <1>4, <2>1
  <2>3. next(q).object # "alembic_version"
    BY <2>1, <2>2 DEF Order
  <2>4. next(q).object = "users" => next(q).from = 0
    BY <1>3, <2>1, <2>2 DEF Order
  <2>5. next(q).object = "refresh_tokens" => next(q).from = 1
    BY <1>3, <2>1, <2>2 DEF Order
  <2> QED
    BY <1>1, <1>4, <2>3, <2>4, <2>5 DEF M!Objects, M!Tables
(* Who holds users or refresh_tokens is not waiting itself. *)
<1>5. ASSUME NEW q \in Runners, M!Running(q)
      PROVE  next(q).object = "items"
  <2>1. PICK p \in Runners : Blocks(p, q)
    BY <1>1, <1>5
  <2>2. /\ objects[next(q).object] = next(q).from /\ Order(held(p), next(p))
        /\ next(q).object \in held(p)
    BY <1>1, <1>2, <1>5, <2>1
  <2>3. next(q).object # "users"
    BY <1>4, <1>5, <2>1, <2>2 DEF Order
  <2>4. next(q).object # "refresh_tokens"
    BY <1>4, <1>5, <2>1, <2>2 DEF Order
  <2> QED
    BY <1>4, <1>5, <2>3, <2>4
<1>6. PICK p \in Runners : Blocks(p, r)
  BY <1>1
<1>7. "items" \in held(p) /\ next(p).object = "items" /\ Order(held(p), next(p))
  BY <1>1, <1>5, <1>6
<1> QED
  BY <1>7 DEF Order

(* Runs of migrations and creations of the schema, however many and wherever
   they are, never wait for one another in a circle: while one is under way,
   one can execute its next statement, fail or commit.  An upgrade takes the
   tables in the order of their foreign key and a downgrade the other way
   round; what saves them is that a statement that would wait is refused at
   once when the committed object is not as it has to find it. *)
THEOREM MigrationsNeverWaitInACircle == M!Spec => []NoCircularWait
<1> QED
  BY NoneWaitsForEver, MigrationsAlways, PTL

(* A plan has at most five statements. *)
LEMMA PlanIsShort ==
  ASSUME ShapeInv, NEW r \in Runners, NEW full, IsPlan(r, full)
  PROVE  Len(full) <= 5
<1> DEFINE length == Len(full)
<1>1. \/ length = 0 \/ length = 1 \/ length = 2 \/ length = 3 \/ length = 5
  BY PlanCases
<1> HIDE DEF length
<1>2. length <= 5
  BY <1>1
<1> QED
  BY <1>2 DEF length

(* So is what a run has left to do, and what it has written. *)
LEMMA RunIsBounded ==
  ASSUME MigrationInv, NEW r \in Runners
  PROVE  Len(plan[r]) <= 5 /\ DOMAIN written[r] \subseteq M!Objects
<1>1. CASE M!Running(r)
  <2>1. PICK full \in Seq(Statements), n \in Nat :
          n <= Len(full) /\ IsPlan(r, full) /\ Stage(r, full, n)
    BY <1>1 DEF MigrationInv, StageInv, StageOf
  <2>2. Len(full) <= 5 /\ Len(full) \in Nat
    BY <2>1, PlanIsShort DEF MigrationInv
  <2>3. /\ Len(plan[r]) = Len(full) - n
        /\ DOMAIN written[r] = {full[i].object : i \in 1..n}
    BY <2>1 DEF Stage
  <2>4. \A i \in 1..n : full[i] \in Statements
    BY <2>1
  <2>5. DOMAIN written[r] \subseteq M!Objects
    BY <2>3, <2>4 DEF Statements
  <2>6. Len(plan[r]) <= 5
    BY <2>2, <2>3
  <2> QED
    BY <2>5, <2>6
<1>2. CASE ~M!Running(r)
  <2>1. plan[r] = <<>> /\ written[r] = M!NothingWritten
    BY <1>2 DEF MigrationInv, IdleInv
  <2>2. Len(plan[r]) <= 5
    BY <2>1
  <2>3. DOMAIN written[r] = {}
    BY <2>1 DEF M!NothingWritten
  <2> QED
    BY <2>2, <2>3
<1> QED
  BY <1>1, <1>2

(* Type correctness of the migrations, under the assumption Migrations makes
   of its bound. *)
THEOREM MigrationsTypeCorrect ==
  ASSUME MaxRuns \in Nat
  PROVE  M!Spec => []M!TypeOK
<1> DEFINE Counted == runs \in 0..MaxRuns /\ (created \in BOOLEAN)
<1>1. M!Init => Counted
  <2> SUFFICES ASSUME M!Init PROVE Counted
    OBVIOUS
  <2>1. runs \in 0..MaxRuns
    BY DEF M!Init
  <2>2. created \in BOOLEAN
    BY DEF M!Init
  <2> QED
    BY <2>1, <2>2
<1>2. MigrationInv /\ Counted /\ [M!Next]_M!vars => Counted'
  <2> SUFFICES ASSUME MigrationInv, Counted, [M!Next]_M!vars PROVE Counted'
    OBVIOUS
  <2>1. ASSUME NEW r \in Runners, NEW kind, NEW full, M!Start(r, kind, full)
        PROVE  Counted'
    BY <2>1 DEF M!Start
  <2>2. ASSUME NEW r \in Runners,
               M!Execute(r) \/ M!Fail(r) \/ M!Crash(r) \/ M!Commit(r)
        PROVE  Counted'
    BY <2>2 DEF M!Execute, M!Fail, M!Crash, M!Commit, M!End
  <2>3. ASSUME UNCHANGED M!vars PROVE Counted'
    BY <2>3 DEF M!vars
  <2> QED
    BY <2>1, <2>2, <2>3
       DEF M!Next, M!StartUpgrade, M!StartDowngrade, M!StartCreate, M!Finished
<1>3. MigrationInv /\ Counted => M!TypeOK
  <2> SUFFICES ASSUME MigrationInv, Counted PROVE M!TypeOK
    OBVIOUS
  <2>1. \A r \in Runners : ~M!Running(r) => written[r] = M!NothingWritten
    BY DEF MigrationInv, IdleInv
  <2>2. /\ objects \in [M!Objects -> 0..2]
        /\ \A t \in M!Tables : objects[t] \in {0, 1}
        /\ state \in [Runners -> {"idle", "upgrading", "downgrading",
                                  "creating", "done", "failed", "crashed"}]
        /\ read \in [Runners -> {0} \cup M!Revisions]
    BY DEF MigrationInv, ShapeInv, M!Revisions
  <2>3. /\ \A r \in Runners : Len(plan[r]) <= 5
        /\ \A r \in Runners : DOMAIN written[r] \subseteq M!Objects
    BY RunIsBounded
  <2> QED
    BY <2>1, <2>2, <2>3 DEF M!TypeOK
<1> QED
  BY <1>1, <1>2, <1>3, MigrationsAlways, PTL DEF M!Spec

=============================================================================
