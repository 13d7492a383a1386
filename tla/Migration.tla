------------------------------ MODULE Migration ------------------------------
(***************************************************************************)
(* The migration of the database (db.rs, migrate; d1_db.rs, migrate_d1),   *)
(* which every instance and every command runs when it starts: statement   *)
(* by statement, without a transaction or a lock, each one idempotent.     *)
(* The table _migrations holds the versions that have been applied; a      *)
(* database that has tables but no versions is taken for one from before   *)
(* the versions were recorded, and adopted.                                *)
(*                                                                         *)
(* The columns that one migration adds to a table are added at once.       *)
(***************************************************************************)
EXTENDS Naturals, FiniteSets, Sequences, SequencesExt

CONSTANTS
  Starters,            (* processes that start                               *)
  MySql,               (* is_mysql: indexes have no IF NOT EXISTS            *)
  MaxMigrationFaults   (* bound on crashes and failed statements             *)

ASSUME MigrationAssumption == MySql \in BOOLEAN /\ MaxMigrationFaults \in Nat

VARIABLES
  schema,      (* the tables, indexes and columns there are                  *)
  versions,    (* the rows of _migrations                                    *)
  starter,     (* where each process stands                                  *)
  migrationFaults,
  tracked,     (* history: versions were recorded when this release came     *)
  misread,     (* history: the version could not be read                     *)
  ignored,     (* history: an ALTER or CREATE INDEX failed unheard           *)
  mistaken     (* history: an unfinished database was taken for an old one   *)

migrationVars ==
  <<schema, versions, starter, migrationFaults, tracked, misread, ignored, mistaken>>

Table(name) == [kind |-> "table", name |-> name, on |-> {}]
Index(name, on) == [kind |-> "index", name |-> name, on |-> {on}]
Columns(name, on) == [kind |-> "columns", name |-> name, on |-> {on}]

(* The statements of each version.                                         *)
Migrations ==
  << <<Table("events"), Index("events_unique", "events"),
       Table("jobs"), Index("jobs_fetch", "jobs"), Table("job_attempts")>>,
     <<Table("workflow_runs"), Index("workflow_runs_status", "workflow_runs"),
       Columns("jobs.step", "jobs")>>,
     <<Columns("workflow_runs.parallel", "workflow_runs"),
       Columns("jobs.callback_token", "jobs"),
       Index("jobs_callback_token", "jobs.callback_token")>>,
     <<Table("outbound_endpoints"), Table("outbound_subscriptions"),
       Index("outbound_sub_unique", "outbound_subscriptions"),
       Index("outbound_endpoints_source", "outbound_endpoints")>> >>

Versions == DOMAIN Migrations
ObjectsOf(v) == {s.name : s \in Range(Migrations[v])}
Complete == UNION {ObjectsOf(v) : v \in Versions} \subseteq schema

Starter == [pc : {"down", "events", "adopt", "apply", "ready"},
            version : 0..(Len(Migrations) + 1), statement : 1..6]

Down == [pc |-> "down", version |-> 0, statement |-> 1]

StarterAt(p, pc) == starter[p].pc = pc
BecomeStarter(p, q) == starter' = [starter EXCEPT ![p] = q]

(* On to version v, or to the server's work after the last one.            *)
ApplyFrom(p, v) ==
  BecomeStarter(p, [pc |-> IF v \in Versions THEN "apply" ELSE "ready",
                    version |-> v, statement |-> 1])

MigrationFault ==
  /\ migrationFaults < MaxMigrationFaults
  /\ migrationFaults' = migrationFaults + 1

-----------------------------------------------------------------------------

(* SELECT COALESCE(MAX(version), 0), which is 0 when it fails.             *)
ReadVersion(p) ==
  /\ StarterAt(p, "down")
  /\ \/ /\ BecomeStarter(p, [pc |-> "events", statement |-> 1,
                             version |-> CHOOSE v \in versions \cup {0} :
                                           \A u \in versions : u <= v])
        /\ UNCHANGED <<migrationFaults, misread>>
     \/ /\ BecomeStarter(p, [pc |-> "events", version |-> 0, statement |-> 1])
        /\ MigrationFault
        /\ misread' = TRUE
  /\ UNCHANGED <<schema, versions, tracked, ignored, mistaken>>

(* SELECT 1 FROM events: with tables but no version the database is old,   *)
(* and has all that the four versions make.                                *)
DetectEvents(p) ==
  /\ StarterAt(p, "events")
  /\ LET current == starter[p].version
     IN  \/ /\ current = 0 /\ "events" \in schema
            /\ BecomeStarter(p, [pc |-> "adopt", version |-> 1, statement |-> 1])
            /\ mistaken' = (mistaken \/ ~Complete)
            /\ UNCHANGED migrationFaults
         \/ /\ current # 0 \/ "events" \notin schema
            /\ ApplyFrom(p, current + 1)
            /\ UNCHANGED <<mistaken, migrationFaults>>
         \/ MigrationFault /\ ApplyFrom(p, current + 1) /\ UNCHANGED mistaken
  /\ UNCHANGED <<schema, versions, tracked, misread, ignored>>

(* One of the four versions is recorded; an error is ignored.              *)
Adopt(p) ==
  /\ StarterAt(p, "adopt")
  /\ \/ /\ versions' = versions \cup {starter[p].version}
        /\ UNCHANGED migrationFaults
     \/ MigrationFault /\ UNCHANGED versions
  /\ IF starter[p].version = 4 THEN ApplyFrom(p, 5)
     ELSE BecomeStarter(p, [starter[p] EXCEPT !.version = @ + 1])
  /\ UNCHANGED <<schema, tracked, misread, ignored, mistaken>>

Statement(p) == Migrations[starter[p].version][starter[p].statement]
NextStatement(p) == BecomeStarter(p, [starter[p] EXCEPT !.statement = @ + 1])

(* The errors of these statements are ignored, since one of them is that   *)
(* the column or the index is there.                                       *)
IsLenient(s) == s.kind = "columns" \/ (MySql /\ s.kind = "index")

(* Mutant of IsDone: a version is recorded before its statements.          *)
IsDoneAtOnce(p) == TRUE

(* The statements of the version have been executed.                       *)
IsDone(p) == starter[p].statement > Len(Migrations[starter[p].version])

ApplyStatement(p) ==
  /\ StarterAt(p, "apply") /\ ~IsDone(p)
  /\ Statement(p).on \subseteq schema
  /\ schema' = schema \cup {Statement(p).name}
  /\ NextStatement(p)
  /\ UNCHANGED <<versions, migrationFaults, tracked, misread, ignored, mistaken>>

(* A lenient statement fails for want of its table, or of the database.    *)
IgnoreStatement(p) ==
  /\ StarterAt(p, "apply") /\ ~IsDone(p) /\ IsLenient(Statement(p))
  /\ \/ ~(Statement(p).on \subseteq schema) /\ UNCHANGED migrationFaults
     \/ MigrationFault
  /\ ignored' = (ignored \/ Statement(p).name \notin schema)
  /\ NextStatement(p)
  /\ UNCHANGED <<schema, versions, tracked, misread, mistaken>>

(* Any other that fails ends the process.                                  *)
StatementFails(p) ==
  /\ StarterAt(p, "apply") /\ ~IsDone(p) /\ ~IsLenient(Statement(p))
  /\ ~(Statement(p).on \subseteq schema)
  /\ BecomeStarter(p, Down)
  /\ UNCHANGED <<schema, versions, migrationFaults, tracked, misread, ignored, mistaken>>

(* INSERT INTO _migrations: the version is a primary key, so the process   *)
(* ends if another one has inserted it.                                    *)
RecordVersion(p) ==
  /\ StarterAt(p, "apply") /\ IsDone(p)
  /\ IF starter[p].version \in versions
     THEN BecomeStarter(p, Down) /\ UNCHANGED versions
     ELSE /\ versions' = versions \cup {starter[p].version}
          /\ ApplyFrom(p, starter[p].version + 1)
  /\ UNCHANGED <<schema, migrationFaults, tracked, misread, ignored, mistaken>>

(* A crash, or a statement that fails; the process is started again.       *)
CrashStarter(p) ==
  /\ starter[p].pc \notin {"down", "ready"}
  /\ MigrationFault
  /\ BecomeStarter(p, Down)
  /\ UNCHANGED <<schema, versions, tracked, misread, ignored, mistaken>>

-----------------------------------------------------------------------------

(* A new database, one that an earlier release has brought to a version,   *)
(* or one from before the versions.                                        *)
MigrationInit ==
  /\ \E v \in 0..4, t \in BOOLEAN :
       /\ v \in {0, 4} \/ t
       /\ schema = UNION {ObjectsOf(u) : u \in 1..v}
       /\ versions = IF t THEN 1..v ELSE {}
       /\ tracked = (t /\ v # 0)
  /\ starter = [p \in Starters |-> Down]
  /\ migrationFaults = 0 /\ misread = FALSE /\ ignored = FALSE /\ mistaken = FALSE

MigrationNext ==
  \E p \in Starters :
    \/ ReadVersion(p) \/ DetectEvents(p) \/ Adopt(p)
    \/ ApplyStatement(p) \/ IgnoreStatement(p) \/ StatementFails(p) \/ RecordVersion(p)
    \/ CrashStarter(p)

MigrationSpec == MigrationInit /\ [][MigrationNext]_migrationVars

-----------------------------------------------------------------------------
(* Properties.                                                             *)

(* Whatever fails and whoever starts at the same time, a process works on  *)
(* a complete schema, unless a statement's error was ignored or the tables *)
(* of an unfinished migration were taken for an old database; the latter   *)
(* cannot happen to one that has versions, if they are read (db.rs,        *)
(* migrate).                                                               *)
SchemaIsExplained ==
  /\ tracked /\ ~misread => ~mistaken
  /\ \A p \in Starters : StarterAt(p, "ready") => Complete \/ ignored \/ mistaken

(* docs/guides/local-to-production.md: "qhook creates all tables and       *)
(* indexes on first startup."                                              *)
SchemaIsComplete == \A p \in Starters : StarterAt(p, "ready") => Complete
=============================================================================
