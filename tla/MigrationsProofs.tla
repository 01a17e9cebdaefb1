--------------------------- MODULE MigrationsProofs ---------------------------
(***************************************************************************)
(* RunAll serves only a complete schema and applies in order, for any      *)
(* number of replicas, migrations, stops and failed statements.            *)
(***************************************************************************)
EXTENDS Migrations, TLAPS

ControlPoints == {"create", "check", "apply", "record", "serving", "failed"}

TypeOK ==
  /\ applied \subseteq All /\ recorded \subseteq applied
  /\ pc \in [Replicas -> ControlPoints]
  /\ current \in [Replicas -> 1 .. Count + 1]

(* What a replica knows inside the loop: the migrations before its current *)
(* one are applied, and when it is about to record it so is this one.      *)
LoopInv ==
  \A r \in Replicas :
    /\ \A m \in All : m < current[r] => m \in applied
    /\ pc[r] \in {"apply", "record"} => current[r] \in All
    /\ pc[r] = "record" => current[r] \in applied
    /\ pc[r] = "serving" => current[r] = Count + 1

IInv == TypeOK /\ LoopInv /\ AppliedInOrder

(* An empty database satisfies the invariant.                              *)
LEMMA InitialStep == Init => IInv
  <1> SUFFICES ASSUME Init PROVE IInv
    OBVIOUS
  <1>1. applied = 1 .. 0 /\ 0 \in 0 .. Count
    BY MigrationsAssumption DEF Init
  <1> QED BY <1>1, MigrationsAssumption DEF Init, IInv, TypeOK, ControlPoints, LoopInv, AppliedInOrder, All

(* A step whose effects on the tables are none keeps the order.            *)
LEMMA SameTables ==
  ASSUME AppliedInOrder, UNCHANGED applied
  PROVE  AppliedInOrder'
  BY DEF AppliedInOrder

(* The migration after all those of a prefix extends the prefix.           *)
LEMMA NextTables ==
  ASSUME AppliedInOrder, NEW c \in All, \A m \in All : m < c => m \in applied,
         applied' = applied \cup {c}
  PROVE  AppliedInOrder'
  <1>1. PICK n \in 0 .. Count : applied = 1 .. n
    BY DEF AppliedInOrder
  <1>2. CASE c \in applied
    BY <1>1, <1>2 DEF AppliedInOrder
  <1>3. CASE c \notin applied
    <2>1. c = n + 1
      <3>1. n \in Nat /\ n <= Count /\ c \in Nat /\ c > n
        BY <1>1, <1>3, MigrationsAssumption DEF All
      <3>2. ~ (n + 1 < c)
        <4>1. n + 1 < c => n + 1 \in All
          BY <3>1, MigrationsAssumption DEF All
        <4>2. n + 1 \notin applied
          BY <1>1, <3>1
        <4> QED BY <4>1, <4>2
      <3> QED BY <3>1, <3>2
    <2>2. applied' = 1 .. (n + 1)
      BY <1>1, <2>1
    <2>3. n + 1 \in 0 .. Count
      BY <2>1, MigrationsAssumption DEF All
    <2> QED BY <2>2, <2>3 DEF AppliedInOrder
  <1> QED BY <1>2, <1>3

(* No statement of RunAll, no failure and no restart breaks the invariant. *)
LEMMA InductiveStep == IInv /\ [Next]_vars => IInv'
  <1> SUFFICES ASSUME IInv, [Next]_vars PROVE IInv'
    OBVIOUS
  <1> USE MigrationsAssumption DEF TypeOK, ControlPoints, LoopInv, All, Goto
  <1>0. TypeOK /\ LoopInv /\ AppliedInOrder
    BY DEF IInv
  <1>1. ASSUME NEW r \in Replicas, CreateTable(r) PROVE IInv'
    BY <1>0, <1>1, SameTables DEF IInv, CreateTable
  <1>2. ASSUME NEW r \in Replicas, Check(r) PROVE IInv'
    BY <1>0, <1>2, SameTables DEF IInv, Check, NextMigration
  <1>3. ASSUME NEW r \in Replicas, Apply(r) PROVE IInv'
    <2>1. current[r] \in All /\ (UNCHANGED applied \/ applied' = applied \cup {current[r]})
      BY <1>0, <1>3 DEF Apply
    <2>2. AppliedInOrder'
      BY <1>0, <2>1, SameTables, NextTables
    <2>3. TypeOK' /\ LoopInv'
      BY <1>0, <1>3, <2>1 DEF Apply
    <2> QED BY <2>2, <2>3 DEF IInv
  <1>4. ASSUME NEW r \in Replicas, Record(r) PROVE IInv'
    <2>1. AppliedInOrder'
      BY <1>0, <1>4, SameTables DEF Record
    <2>2. pc[r] = "record" /\ current[r] \in applied /\ current[r] \in 1 .. Count
      BY <1>0, <1>4 DEF Record
    <2>3. TypeOK'
      <3>1. applied' \subseteq All /\ recorded' \subseteq applied'
        BY <1>0, <1>4, <2>2 DEF Record
      <3>2. pc' \in [Replicas -> ControlPoints]
        BY <1>0, <1>4 DEF Record
      <3>3. current' \in [Replicas -> 1 .. Count + 1]
        <4>1. current[r] + 1 \in 1 .. Count + 1
          BY <2>2
        <4>2. current' = current \/ current' = [current EXCEPT ![r] = current[r] + 1]
          BY <1>4 DEF Record, NextMigration
        <4> QED BY <1>0, <4>1, <4>2
      <3> QED BY <3>1, <3>2, <3>3
    <2>4. LoopInv'
      <3>1. CASE NextMigration(r) /\ pc' = [pc EXCEPT ![r] = "check"]
        <4> SUFFICES ASSUME NEW q \in Replicas
                     PROVE  /\ \A m \in All : m < current'[q] => m \in applied'
                            /\ pc'[q] \in {"apply", "record"} => current'[q] \in All
                            /\ pc'[q] = "record" => current'[q] \in applied'
                            /\ pc'[q] = "serving" => current'[q] = Count + 1
          OBVIOUS
        <4>1. applied' = applied
          BY <1>4 DEF Record
        <4>2. CASE q = r
          <5>1. current'[r] = current[r] + 1 /\ pc'[r] = "check"
            BY <1>0, <3>1 DEF NextMigration
          <5>2. \A m \in All : m < current[r] + 1 => m < current[r] \/ m = current[r]
            BY <2>2
          <5> QED BY <1>0, <2>2, <4>1, <4>2, <5>1, <5>2
        <4>3. CASE q # r
          <5>1. current'[q] = current[q] /\ pc'[q] = pc[q]
            BY <1>0, <3>1, <4>3 DEF NextMigration
          <5> QED BY <1>0, <4>1, <5>1
        <4> QED BY <4>2, <4>3
      <3>2. CASE UNCHANGED current /\ pc' = [pc EXCEPT ![r] = "failed"]
        BY <1>0, <1>4, <3>2 DEF Record
      <3> QED BY <1>4, <3>1, <3>2 DEF Record
    <2> QED BY <2>1, <2>3, <2>4 DEF IInv
  <1>5. ASSUME NEW r \in Replicas, Serve(r) PROVE IInv'
    BY <1>0, <1>5, SameTables DEF IInv, Serve
  <1>6. ASSUME NEW r \in Replicas, Restart(r) PROVE IInv'
    BY <1>0, <1>6, SameTables DEF IInv, Restart
  <1>7. CASE UNCHANGED vars
    BY <1>0, <1>7, SameTables DEF IInv, vars
  <1> QED BY <1>1, <1>2, <1>3, <1>4, <1>5, <1>6, <1>7 DEF Next, Quiescent

(* A replica that serves has the complete schema beneath it.               *)
THEOREM SchemaComplete == Spec => []ServesCompleteSchema
  <1>1. IInv => ServesCompleteSchema
    <2> SUFFICES ASSUME IInv, NEW r \in Replicas, pc[r] = "serving" PROVE applied = All
      BY DEF ServesCompleteSchema
    <2>1. current[r] = Count + 1 /\ \A m \in All : m < current[r] => m \in applied
      BY DEF IInv, LoopInv
    <2>2. \A m \in All : m < Count + 1
      BY MigrationsAssumption DEF All
    <2>3. All \subseteq applied /\ applied \subseteq All
      BY <2>1, <2>2 DEF IInv, TypeOK
    <2> QED BY <2>3
  <1> QED BY <1>1, InitialStep, InductiveStep, PTL DEF Spec

(* The migrations in effect are always the first ones, in the order of     *)
(* migrations.All.                                                         *)
THEOREM InOrder == Spec => []AppliedInOrder
  <1>1. IInv => AppliedInOrder
    BY DEF IInv
  <1> QED BY <1>1, InitialStep, InductiveStep, PTL DEF Spec

=============================================================================
