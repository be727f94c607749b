----------------------------- MODULE Migrations -----------------------------
(***************************************************************************)
(* `alembic upgrade head` and `alembic downgrade -1` on PostgreSQL, run by *)
(* several hands at a time, crashing anywhere, next to applications that   *)
(* create the schema themselves at startup.  Each of them is one           *)
(* transaction of DDL: a statement fails at once unless it finds its       *)
(* object, as committed, in the state it starts from, and waits for the    *)
(* transaction that is changing the object.                                *)
(*                                                                         *)
(* alembic's runner and PostgreSQL are external.                           *)
(***************************************************************************)
EXTENDS Naturals, Sequences

CONSTANTS Runners,
          MaxRuns  \* bound of the runs explored

ASSUME ConstantsAssumption == MaxRuns \in Nat

Tables    == {"items", "users", "refresh_tokens"}
Objects   == Tables \cup {"alembic_version"}
Revisions == 1..2

VARIABLES
  schema,  \* committed: 0 or 1 for a table, the revision for alembic_version
  runs,    \* how many runs were started
  state,   \* of each runner's last run
  read,    \* the revision it found
  plan,    \* the statements it has to execute
  written, \* what its transaction has done, not committed
  created  \* history: an application has created the schema here

vars == <<schema, runs, state, read, plan, written, created>>

version == schema["alembic_version"]

(* A statement takes an object from one state to another. *)
Statement(object, from, to) == [object |-> object, from |-> from, to |-> to]
Create(table) == Statement(table, 0, 1)
Drop(table)   == Statement(table, 1, 0)
Stamp(from, to) == Statement("alembic_version", from, to)

(* upgrade() and downgrade() of alembic/versions. *)
Upgrade(revision) ==
  CASE revision = 1 -> << Create("items") >>
    [] revision = 2 -> << Create("users"), Create("refresh_tokens") >>

(* Mutant: users is dropped first. *)
DowngradeParentFirst(revision) ==
  CASE revision = 1 -> << Drop("items") >>
    [] revision = 2 -> << Drop("users"), Drop("refresh_tokens") >>

Downgrade(revision) ==
  CASE revision = 1 -> << Drop("items") >>
    [] revision = 2 -> << Drop("refresh_tokens"), Drop("users") >>

Up(revision)   == Append(Upgrade(revision), Stamp(revision - 1, revision))
Down(revision) == Append(Downgrade(revision), Stamp(revision, revision - 1))

ToHead(from) == (IF from < 1 THEN Up(1) ELSE <<>>)
             \o (IF from < 2 THEN Up(2) ELSE <<>>)

(* create_all: the tables it does not find. *)
CreateMissing(table) == IF schema[table] = 0 THEN << Create(table) >> ELSE <<>>

CreateAll ==
  CreateMissing("items")
    \o (CreateMissing("users") \o CreateMissing("refresh_tokens"))

Running(r) == state[r] \in {"upgrading", "downgrading", "creating"}

NothingWritten == [o \in {} |-> 0]

TypeOK ==
  /\ schema \in [Objects -> 0..2]
  /\ \A t \in Tables : schema[t] \in {0, 1}
  /\ runs \in 0..MaxRuns
  /\ state \in [Runners -> {"idle", "upgrading", "downgrading", "creating",
                            "done", "failed", "crashed"}]
  /\ read \in [Runners -> {0} \cup Revisions]
  /\ \A r \in Runners : Len(plan[r]) <= 5
  /\ \A r \in Runners : DOMAIN written[r] \subseteq Objects
  /\ \A r \in Runners : ~Running(r) => written[r] = NothingWritten
  /\ created \in BOOLEAN

Init ==
  /\ schema = [o \in Objects |-> 0]
  /\ runs = 0
  /\ state = [r \in Runners |-> "idle"]
  /\ read = [r \in Runners |-> 0]
  /\ plan = [r \in Runners |-> <<>>]
  /\ written = [r \in Runners |-> NothingWritten]
  /\ created = FALSE

Locked(r, object) ==
  \E q \in Runners \ {r} : object \in DOMAIN written[q]

(* What r's transaction sees. *)
View(r, object) ==
  IF object \in DOMAIN written[r] THEN written[r][object] ELSE schema[object]

(* refresh_tokens references users. *)
Accepted(r, s) ==
  /\ View(r, s.object) = s.from
  /\ s = Create("refresh_tokens") => View(r, "users") = 1
  /\ s = Drop("users") => View(r, "refresh_tokens") = 0

-----------------------------------------------------------------------------

Start(r, kind, statements) ==
  /\ ~Running(r)
  /\ runs < MaxRuns
  /\ runs' = runs + 1
  /\ state' = [state EXCEPT ![r] = kind]
  /\ read' = [read EXCEPT ![r] = version]
  /\ plan' = [plan EXCEPT ![r] = statements]
  /\ written' = [written EXCEPT ![r] = NothingWritten]
  /\ created' = (created \/ kind = "creating")
  /\ UNCHANGED schema

StartUpgrade(r) == Start(r, "upgrading", ToHead(version))

StartDowngrade(r) == version > 0 /\ Start(r, "downgrading", Down(version))

(* DatabaseManager.create_schema: database_auto_create_schema is set. *)
StartCreate(r) == Start(r, "creating", CreateAll)

(* Mutant: no begin_transaction; every statement commits. *)
AutoCommit(r, s) ==
  /\ schema' = [schema EXCEPT ![s.object] = s.to]
  /\ UNCHANGED written

InTransaction(r, s) ==
  /\ written' = [written EXCEPT ![r] =
                   [o \in DOMAIN written[r] \cup {s.object} |->
                      IF o = s.object THEN s.to ELSE written[r][o]]]
  /\ UNCHANGED schema

Execute(r) ==
  /\ Running(r)
  /\ plan[r] # <<>>
  /\ LET s == Head(plan[r])
     IN /\ Accepted(r, s)
        /\ ~Locked(r, s.object)
        /\ InTransaction(r, s)
  /\ plan' = [plan EXCEPT ![r] = Tail(@)]
  /\ UNCHANGED <<runs, state, read, created>>

(* Mutant: the connection is not closed when an exception passes. *)
StillHeld(r) == written[r]

RolledBack(r) == NothingWritten

End(r, how) ==
  /\ state' = [state EXCEPT ![r] = how]
  /\ plan' = [plan EXCEPT ![r] = <<>>]
  /\ UNCHANGED <<runs, read, created>>

(* The table is there already, or is gone; the revision is another. *)
Fail(r) ==
  /\ Running(r)
  /\ plan[r] # <<>>
  /\ ~Accepted(r, Head(plan[r]))
  /\ written' = [written EXCEPT ![r] = RolledBack(r)]
  /\ End(r, "failed")
  /\ UNCHANGED schema

Crash(r) ==
  /\ Running(r)
  /\ written' = [written EXCEPT ![r] = NothingWritten]
  /\ End(r, "crashed")
  /\ UNCHANGED schema

Commit(r) ==
  /\ Running(r)
  /\ plan[r] = <<>>
  /\ schema' = [o \in Objects |-> View(r, o)]
  /\ written' = [written EXCEPT ![r] = NothingWritten]
  /\ End(r, "done")

Finished == (\A r \in Runners : ~Running(r)) /\ runs = MaxRuns /\ UNCHANGED vars

Next ==
  \/ \E r \in Runners :
       \/ StartUpgrade(r) \/ StartDowngrade(r) \/ StartCreate(r)
       \/ Execute(r) \/ Fail(r) \/ Crash(r) \/ Commit(r)
  \/ Finished

Spec == Init /\ [][Next]_vars

(* A run that can go on does; what it waits for is another's transaction. *)
FairSpec ==
  /\ Spec
  /\ \A r \in Runners :
       WF_vars(Execute(r) \/ Fail(r) \/ Commit(r))

-----------------------------------------------------------------------------

Present == {t \in Tables : schema[t] = 1}

TablesOf(revision) ==
  CASE revision = 0 -> {}
    [] revision = 1 -> {"items"}
    [] revision = 2 -> {"items", "users", "refresh_tokens"}

(* The application finds every table of the revision the database says it
   has, whoever else created, migrated or crashed; and as long as no
   application created tables itself, no others. *)
VersionTellsSchema ==
  /\ TablesOf(version) \subseteq Present
  /\ ~created => Present = TablesOf(version)

FailsIn(r) ==
  state[r] \in {"upgrading", "downgrading"} /\ state'[r] = "failed"

(* A migration has two ways to fail only: another run has moved the revision
   under it, or an application has created tables the revision does not
   know of.  It may be run by several deployments at once, and again after
   a crash anywhere. *)
MigrationFailsWithCause ==
  [][\A r \in Runners :
       FailsIn(r) => version # read[r] \/ Present # TablesOf(version)]_vars

(* docs/database.md: "make migrate # upgrade to head", after the application
   was started: the second cause does not exist, not even for runs that take
   turns. *)
MigrationFailsOnlyToARival ==
  [][\A r \in Runners : FailsIn(r) => version # read[r]]_vars

(* No run waits for ever on another's locks. *)
EveryRunEnds == \A r \in Runners : Running(r) ~> ~Running(r)
=============================================================================
