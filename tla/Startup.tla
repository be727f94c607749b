------------------------------- MODULE Startup -------------------------------
(***************************************************************************)
(* The lifespan of main.py in several worker processes that start against  *)
(* one database: create_all, the ping, the seeding of the admin account,   *)
(* and uvicorn's supervisor that starts a worker again when its start      *)
(* failed.                                                                 *)
(*                                                                         *)
(* One step per await.  The database is PostgreSQL: an INSERT or a CREATE  *)
(* TABLE that meets an uncommitted one of the same name waits for the end  *)
(* of that transaction, and then fails if it was committed.  The tables    *)
(* are created in one transaction; one of them stands for all.             *)
(***************************************************************************)
EXTENDS Naturals

CONSTANTS Workers, NoWorker,
          AutoCreate,        \* database_auto_create_schema
          ConnectOnStartup,  \* database_connect_on_startup
          SeedAdmin,         \* auth_use_database, auth_seed_admin_on_startup
          MaxUpsets          \* bound of database errors and operator's acts

ASSUME SettingsAssumption ==
  {AutoCreate, ConnectOnStartup, SeedAdmin} \subseteq BOOLEAN
ASSUME NoWorkerAssumption == NoWorker \notin Workers
ASSUME MaxUpsetsAssumption == MaxUpsets \in Nat

VARIABLES
  schema,      \* the committed tables: "missing" or "present"
  creating,    \* the worker whose open transaction created them
  admin,       \* the committed admin row, by the origin of its password
  inserting,   \* the worker whose open transaction inserted it
  pc,          \* where each worker is
  startup_complete, \* app.state.startup_complete of each worker
  failure,     \* why it last exited
  bereft,      \* history: the admin was removed since the worker started
  upsets

vars == <<schema, creating, admin, inserting, pc, startup_complete, failure,
          bereft, upsets>>
tables   == <<schema, creating>>
accounts == <<admin, inserting>>

TypeOK ==
  /\ schema \in {"missing", "present"}
  /\ creating \in Workers \cup {NoWorker}
  /\ admin \in {"none", "settings", "operator"}
  /\ inserting \in Workers \cup {NoWorker}
  /\ pc \in [Workers -> {"down", "inspect", "create", "create_commit", "ping",
                         "insert", "insert_commit", "refresh", "lookup",
                         "serving", "stopped"}]
  /\ startup_complete \in [Workers -> BOOLEAN]
  /\ failure \in [Workers -> {"none", "error", "tables", "conflict", "admin"}]
  /\ bereft \subseteq Workers
  /\ upsets \in 0..MaxUpsets

(* Without create_all the migrations have been run before. *)
Init ==
  /\ schema \in IF AutoCreate THEN {"missing", "present"} ELSE {"present"}
  /\ admin \in IF schema = "present" THEN {"none", "operator"} ELSE {"none"}
  /\ creating = NoWorker
  /\ inserting = NoWorker
  /\ pc = [w \in Workers |-> "down"]
  /\ startup_complete = [w \in Workers |-> FALSE]
  /\ failure = [w \in Workers |-> "none"]
  /\ bereft = {}
  /\ upsets = 0

-----------------------------------------------------------------------------
(* The stages of the lifespan that the settings enable. *)

AfterPing   == IF SeedAdmin THEN "insert" ELSE "serving"
AfterSchema == IF ConnectOnStartup THEN "ping" ELSE AfterPing
First       == IF AutoCreate THEN "inspect" ELSE AfterSchema

(* The flag is set without an await after the last stage. *)
Goto(w, stage) ==
  /\ pc' = [pc EXCEPT ![w] = stage]
  /\ startup_complete' = [startup_complete EXCEPT ![w] = stage = "serving"]
  /\ UNCHANGED failure

(* The lifespan raises and the process exits. *)
Exit(w, why) ==
  /\ pc' = [pc EXCEPT ![w] = "down"]
  /\ startup_complete' = [startup_complete EXCEPT ![w] = FALSE]
  /\ failure' = [failure EXCEPT ![w] = why]

(* The supervisor starts the process, which imports main.py. *)
Boot(w) ==
  /\ pc[w] = "down"
  /\ Goto(w, First)
  /\ bereft' = bereft \ {w}
  /\ UNCHANGED <<tables, accounts, upsets>>

-----------------------------------------------------------------------------
(* create_schema *)

(* Mutant: checkfirst=False. *)
InspectNothing(w) ==
  /\ pc[w] = "inspect"
  /\ Goto(w, "create")
  /\ UNCHANGED <<tables, accounts, bereft, upsets>>

(* create_all looks which tables are missing. *)
Inspect(w) ==
  /\ pc[w] = "inspect"
  /\ Goto(w, IF schema = "present" THEN AfterSchema ELSE "create")
  /\ UNCHANGED <<tables, accounts, bereft, upsets>>

CreateTables(w) ==
  /\ pc[w] = "create"
  /\ creating = NoWorker
  /\ IF schema = "missing"
     THEN creating' = w /\ Goto(w, "create_commit")
     ELSE Exit(w, "tables") /\ UNCHANGED creating
  /\ UNCHANGED <<schema, accounts, bereft, upsets>>

(* Mutant: engine.connect() for engine.begin(). *)
LeaveUncommitted(w) ==
  /\ pc[w] = "create_commit"
  /\ creating' = NoWorker
  /\ Goto(w, AfterSchema)
  /\ UNCHANGED <<schema, accounts, bereft, upsets>>

(* Leaving `async with engine.begin()`. *)
CommitTables(w) ==
  /\ pc[w] = "create_commit"
  /\ schema' = "present"
  /\ creating' = NoWorker
  /\ Goto(w, AfterSchema)
  /\ UNCHANGED <<accounts, bereft, upsets>>

Ping(w) ==
  /\ pc[w] = "ping"
  /\ Goto(w, AfterPing)
  /\ UNCHANGED <<tables, accounts, bereft, upsets>>

-----------------------------------------------------------------------------
(* ensure_admin_user *)

(* Mutants: the INSERT as an upsert; IntegrityError not caught. *)
Upsert(w) ==
  /\ pc[w] = "insert"
  /\ inserting = NoWorker
  /\ inserting' = w
  /\ Goto(w, "insert_commit")
  /\ UNCHANGED <<tables, admin, bereft, upsets>>

InsertOrRaise(w) ==
  /\ pc[w] = "insert"
  /\ inserting = NoWorker
  /\ IF admin = "none"
     THEN inserting' = w /\ Goto(w, "insert_commit")
     ELSE Exit(w, "conflict") /\ UNCHANGED inserting
  /\ UNCHANGED <<tables, admin, bereft, upsets>>

(* The flush of create_user; IntegrityError rolls back. *)
InsertAdmin(w) ==
  /\ pc[w] = "insert"
  /\ inserting = NoWorker
  /\ IF admin = "none"
     THEN inserting' = w /\ Goto(w, "insert_commit")
     ELSE Goto(w, "lookup") /\ UNCHANGED inserting
  /\ UNCHANGED <<tables, admin, bereft, upsets>>

(* Mutant: the password of the settings is not handed on. *)
CommitEmptyPassword(w) ==
  /\ pc[w] = "insert_commit"
  /\ admin' = "empty"
  /\ inserting' = NoWorker
  /\ Goto(w, "refresh")
  /\ UNCHANGED <<tables, bereft, upsets>>

CommitAdmin(w) ==
  /\ pc[w] = "insert_commit"
  /\ admin' = "settings"
  /\ inserting' = NoWorker
  /\ Goto(w, "refresh")
  /\ UNCHANGED <<tables, bereft, upsets>>

(* session.refresh(user) selects the row again, and raises if it is gone. *)
RefreshAdmin(w) ==
  /\ pc[w] = "refresh"
  /\ IF admin = "none" THEN Exit(w, "admin") ELSE Goto(w, "serving")
  /\ UNCHANGED <<tables, accounts, bereft, upsets>>

(* Who has the row now: nobody, if it was removed after the INSERT. *)
LookupAdmin(w) ==
  /\ pc[w] = "lookup"
  /\ IF admin = "none" THEN Exit(w, "admin") ELSE Goto(w, "serving")
  /\ UNCHANGED <<tables, accounts, bereft, upsets>>

-----------------------------------------------------------------------------
(* What else happens. *)

Released(holder, w) == IF holder = w THEN NoWorker ELSE holder

(* A statement of the lifespan fails, or the process dies at any time; its
   transaction rolls back. *)
Fault(w) ==
  /\ upsets < MaxUpsets
  /\ pc[w] \notin {"down", "stopped"}
  /\ upsets' = upsets + 1
  /\ creating' = Released(creating, w)
  /\ inserting' = Released(inserting, w)
  /\ Exit(w, "error")
  /\ UNCHANGED <<schema, admin, bereft>>

(* Shutdown: the flag is reset before limiter and pool are closed. *)
Stop(w) ==
  /\ pc[w] = "serving"
  /\ Goto(w, "stopped")
  /\ UNCHANGED <<tables, accounts, bereft, upsets>>

(* The operator changes the password of the admin account, or removes it. *)
ChangePassword ==
  /\ admin = "settings"
  /\ upsets < MaxUpsets
  /\ admin' = "operator"
  /\ upsets' = upsets + 1
  /\ UNCHANGED <<tables, inserting, pc, startup_complete, failure, bereft>>

RemoveAdmin ==
  /\ admin # "none"
  /\ upsets < MaxUpsets
  /\ admin' = "none"
  /\ bereft' = Workers
  /\ upsets' = upsets + 1
  /\ UNCHANGED <<tables, inserting, pc, startup_complete, failure>>

Step(w) ==
  \/ Boot(w)
  \/ Inspect(w)
  \/ CreateTables(w)
  \/ CommitTables(w)
  \/ Ping(w)
  \/ InsertAdmin(w)
  \/ CommitAdmin(w)
  \/ RefreshAdmin(w)
  \/ LookupAdmin(w)

Finished == (\A w \in Workers : pc[w] = "stopped") /\ UNCHANGED vars

Next ==
  \/ \E w \in Workers : Step(w) \/ Fault(w) \/ Stop(w)
  \/ ChangePassword
  \/ RemoveAdmin
  \/ Finished

Spec == Init /\ [][Next]_vars

(* The loop of each worker runs, the database answers, and the supervisor
   starts a process again that exited. *)
FairSpec == Spec /\ \A w \in Workers : WF_vars(Step(w))

-----------------------------------------------------------------------------

(* A worker that serves has its tables, and the admin account it was told to
   seed, both committed, whichever worker created them, unless the account
   was removed since. *)
ServesPrepared ==
  \A w \in Workers :
    startup_complete[w] =>
      /\ schema = "present"
      /\ SeedAdmin => admin # "none" \/ w \in bereft

(* Workers that seed at the same time, or find the account of an earlier
   start, do not fail for it; tests/db/test_auth_repository.py demands it
   of ensure_admin_user. *)
SeedingIsIdempotent ==
  \A w \in Workers :
    pc[w] = "down" /\ failure[w] \in {"conflict", "admin"} => w \in bereft

(* No start overwrites an account that is there, in particular not the
   password an operator gave it. *)
AccountUntouched ==
  [][ \A w \in Workers :
        pc'[w] # pc[w] => admin' = admin \/ admin = "none" ]_vars

(* A start that loses the race for create_all fails, but is not repeated for
   ever: every worker comes up once errors stop. *)
EveryWorkerServes ==
  \A w \in Workers : (pc[w] = "down") ~> startup_complete[w]
=============================================================================
