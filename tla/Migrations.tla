------------------------------ MODULE Migrations ------------------------------
(***************************************************************************)
(* migrations.RunAll, which every replica calls when it starts, before it  *)
(* opens its repository.  A statement of RunAll is a step; the statements  *)
(* of one migration file go to the server as one query and so take effect  *)
(* together.  A replica that gets an error exits and is started again.     *)
(***************************************************************************)
EXTENDS Naturals, FiniteSets

CONSTANTS
  Replicas,
  Count,         \* the number of embedded migrations, applied in name order
  MaxStops,      \* bound: crashes, and starts after a failure
  MaxFaults      \* bound: statements that fail because of the connection

ASSUME MigrationsAssumption == Count \in Nat /\ MaxStops \in Nat /\ MaxFaults \in Nat

VARIABLES
  applied,       \* the migrations whose tables exist
  recorded,      \* the names in schema_migrations
  pc, current,   \* replica -> control point, and migration of the loop
  stops, faults

vars == <<applied, recorded, pc, current, stops, faults>>

All == 1 .. Count

Init ==
  /\ applied = {} /\ recorded = {}
  /\ pc = [r \in Replicas |-> "create"]
  /\ current = [r \in Replicas |-> 1]
  /\ stops = 0 /\ faults = 0

Goto(r, from, to) == pc[r] = from /\ pc' = [pc EXCEPT ![r] = to]

Fault == faults < MaxFaults /\ faults' = faults + 1

\* CREATE TABLE IF NOT EXISTS schema_migrations.
CreateTable(r) ==
  /\ \/ Goto(r, "create", "check") /\ UNCHANGED faults
     \/ Goto(r, "create", "failed") /\ Fault
  /\ UNCHANGED <<applied, recorded, current, stops>>

NextMigration(r) == current' = [current EXCEPT ![r] = @ + 1]

\* The error of the query is ignored: a failed one counts no row.
Check(r) ==
  /\ current[r] \in All
  /\ \/ /\ current[r] \in recorded
        /\ Goto(r, "check", "check")
        /\ NextMigration(r) /\ UNCHANGED faults
     \/ /\ current[r] \notin recorded
        /\ Goto(r, "check", "apply")
        /\ UNCHANGED <<current, faults>>
     \/ /\ Goto(r, "check", "apply")
        /\ Fault /\ UNCHANGED current
  /\ UNCHANGED <<applied, recorded, stops>>

\* Mutant of Apply: a migration that failed is recorded all the same.
ApplyAnyway(r) ==
  /\ Goto(r, "apply", "record")
  /\ \/ applied' = applied \cup {current[r]} /\ UNCHANGED faults
     \/ UNCHANGED applied /\ Fault
  /\ UNCHANGED <<recorded, current, stops>>

(* A migration whose tables exist fails; when the connection is lost it is *)
(* not known whether it took effect.                                       *)
Apply(r) ==
  /\ \/ /\ current[r] \notin applied
        /\ Goto(r, "apply", "record")
        /\ applied' = applied \cup {current[r]} /\ UNCHANGED faults
     \/ /\ current[r] \in applied
        /\ Goto(r, "apply", "failed")
        /\ UNCHANGED <<applied, faults>>
     \/ /\ Goto(r, "apply", "failed")
        /\ Fault
        /\ applied' \in {applied, applied \cup {current[r]}}
  /\ UNCHANGED <<recorded, current, stops>>

(* The name is the primary key.  A second insert, which would fail, does   *)
(* not happen: only the one replica whose Apply succeeded comes here.      *)
Record(r) ==
  /\ \/ /\ current[r] \notin recorded
        /\ Goto(r, "record", "check")
        /\ recorded' = recorded \cup {current[r]}
        /\ NextMigration(r) /\ UNCHANGED faults
     \/ /\ Goto(r, "record", "failed")
        /\ Fault
        /\ recorded' \in {recorded, recorded \cup {current[r]}}
        /\ UNCHANGED current
  /\ UNCHANGED <<applied, stops>>

\* RunAll returns nil and the server opens its repository.
Serve(r) ==
  /\ current[r] = Count + 1
  /\ Goto(r, "check", "serving")
  /\ UNCHANGED <<applied, recorded, current, stops, faults>>

\* A crash anywhere, or the exit of log.Fatalf; then the next start.
Restart(r) ==
  /\ stops < MaxStops /\ stops' = stops + 1
  /\ pc' = [pc EXCEPT ![r] = "create"]
  /\ current' = [current EXCEPT ![r] = 1]
  /\ UNCHANGED <<applied, recorded, faults>>

\* No start is left: every replica serves or has given up.
Quiescent ==
  /\ stops = MaxStops
  /\ \A r \in Replicas : pc[r] \in {"serving", "failed"}
  /\ UNCHANGED vars

Next ==
  \/ \E r \in Replicas :
       CreateTable(r) \/ Check(r) \/ Apply(r) \/ Record(r) \/ Serve(r) \/ Restart(r)
  \/ Quiescent

Spec == Init /\ [][Next]_vars

-----------------------------------------------------------------------------
(* run.go: no replica opens its repository on a schema that misses a       *)
(* migration, whatever crashes, lost answers and concurrent starts came    *)
(* before.                                                                 *)
ServesCompleteSchema ==
  \A r \in Replicas : pc[r] = "serving" => applied = All

(* migrations.go: migrations take effect in the order of their names, also *)
(* when two replicas run the loop at once.                                 *)
AppliedInOrder == \E n \in 0 .. Count : applied = 1 .. n

(* run.go: already-applied migrations are skipped, so that RunAll is safe  *)
(* to call on every startup.                                               *)
AppliedAreSkipped ==
  \A r \in Replicas : pc[r] = "apply" => current[r] \notin applied

=============================================================================
