------------------------- MODULE DurableServiceProofs -------------------------
(***************************************************************************)
(* The service over PostgreSQL keeps its types, its expiry windows and the *)
(* exclusion of terminal states for any replicas, sweepers, crashes and    *)
(* failed statements.                                                      *)
(***************************************************************************)
EXTENDS DurableServiceProperties, TLAPS

Item == [totalStock : {TotalStock}, confirmedCount : 0 .. TotalStock,
         activeReservationCount : 0 .. TotalStock]

Row == [state : ReservationStates, expiresAt : Int,
        confirmedAt : Int, cancelledAt : Int, expiredAt : Int]

Event == [id : Int, type : EventTypes, at : Int, res : Int]

Op == [kind : {"none", "reserve", "confirm", "cancel", "sweep"}, res : Int, found : BOOLEAN,
       state : ReservationStates \cup {""}, now : Int, todo : SUBSET Int, event : EventTypes,
       err : {"nil", "ErrProductNotFound", "ErrOutOfStock", "ErrReservationExpired",
              "ErrReservationAlreadyFinalized"}]

\* The tables.
RowOK(row) ==
  /\ RowCheck(row)
  /\ row.confirmedAt # NoTime => row.confirmedAt < row.expiresAt
  /\ row.expiredAt # NoTime => row.expiredAt >= row.expiresAt

TablesInv ==
  /\ item \in Item
  /\ rows \in [DOMAIN rows -> Row]
  /\ DOMAIN rows \subseteq Nat \ {0}
  /\ \A i \in DOMAIN rows : RowOK(rows[i])
  /\ outbox \in Seq(Event)

Points == {"idle", "list", "expire", "save", "hold", "fetch", "decide", "finish", "release",
           "append", "answer"}

\* The variables of the processes.
ProcessTypes ==
  /\ clock \in Nat
  /\ idCounter \in [Replicas -> Nat]
  /\ up \in [Replicas -> BOOLEAN]
  /\ pc \in [Replicas -> Points]
  /\ op \in [Replicas -> Op]
  /\ sweep \in [Replicas -> [todo : SUBSET Int, now : Int]]

(* What is listed is stored and has lapsed by the reading of the clock     *)
(* that the expiry will be given; what is about to be finished is stored   *)
(* and on the right side of its expiry.                                    *)
LapsedBy(ids, now) == \A i \in ids : i \in DOMAIN rows /\ Lapsed(rows[i], now)

InTime(o) ==
  /\ o.res \in DOMAIN rows /\ o.event \in TerminalStates
  /\ o.event = "Confirmed" => ~ Lapsed(rows[o.res], o.now)
  /\ o.event = "Expired" => Lapsed(rows[o.res], o.now)

CallOK(r) ==
  /\ LapsedBy(op[r].todo, op[r].now) /\ LapsedBy(sweep[r].todo, sweep[r].now)
  /\ pc[r] \in {"fetch", "decide"} => op[r].res \in DOMAIN rows /\ op[r].todo = {}
  /\ pc[r] = "finish" => InTime(op[r])
  /\ pc[r] = "save" => op[r].res \in Nat \ {0}

IInv == TablesInv /\ ProcessTypes /\ \A r \in Replicas : CallOK(r)

\* No row goes away and no expiry moves.
RowsKept ==
  \A i \in DOMAIN rows : i \in DOMAIN rows' /\ rows'[i].expiresAt = rows[i].expiresAt

\* No terminal row moves to another state.
TerminalKept ==
  \A i \in DOMAIN rows : rows[i].state \in TerminalStates => rows'[i].state = rows[i].state

-----------------------------------------------------------------------------
(* Each statement on the tables, and its failure.                          *)

(* The counters are replaced, or changed within the CHECKs.                *)
LEMMA ItemStatement ==
  ASSUME TablesInv, NEW a \in Int, NEW b \in Int, AddProduct(TotalStock) \/ UpdateProduct(a, b)
  PROVE  TablesInv' /\ RowsKept /\ TerminalKept
  <1>1. rows' = rows /\ outbox' = outbox
    BY DEF AddProduct, UpdateProduct
  <1>2. item' \in Item
    <2>1. CASE AddProduct(TotalStock)
      BY <2>1, DurableAssumption DEF AddProduct, Seeded, Item
    <2>2. CASE UpdateProduct(a, b)
      <3> DEFINE new == [item EXCEPT !.activeReservationCount = @ + a, !.confirmedCount = @ + b]
      <3>1. item \in Item
        BY DEF TablesInv
      <3>2. /\ new \in [totalStock : {TotalStock}, confirmedCount : Int, activeReservationCount : Int]
            /\ new.confirmedCount = item.confirmedCount + b
            /\ new.activeReservationCount = item.activeReservationCount + a
        <4> DEFINE d == item.activeReservationCount + a
                   c == item.confirmedCount + b
        <4>1. /\ c \in Int /\ d \in Int
              /\ item \in [totalStock : {TotalStock}, confirmedCount : Int, activeReservationCount : Int]
          BY <3>1, DurableAssumption DEF Item
        <4>2. new = [item EXCEPT !.activeReservationCount = d, !.confirmedCount = c]
          OBVIOUS
        <4> HIDE DEF new, c, d
        <4>3. new \in [totalStock : {TotalStock}, confirmedCount : Int, activeReservationCount : Int]
          BY <4>1, <4>2
        <4>4. new.confirmedCount = c /\ new.activeReservationCount = d
          BY <4>1, <4>2
        <4> QED BY <4>3, <4>4 DEF c, d
      <3>3. item' = IF ItemCheck(new) THEN new ELSE item
        BY <2>2 DEF UpdateProduct
      <3> HIDE DEF new
      <3>4. ItemCheck(new) => new \in Item
        BY <3>2, DurableAssumption DEF ItemCheck, Item
      <3> QED BY <3>1, <3>3, <3>4
    <2> QED BY <2>1, <2>2
  <1> QED BY <1>1, <1>2 DEF TablesInv, RowsKept, TerminalKept, RowOK, RowCheck

(* The upsert keeps the expiry of a row and clears its timestamps.         *)
LEMMA SaveStatement ==
  ASSUME TablesInv, NEW id \in Nat \ {0}, NEW now \in Int, NEW expiresAt \in Int,
         SaveReservation(id, now, expiresAt)
  PROVE  /\ TablesInv' /\ RowsKept
         /\ \A i \in DOMAIN rows : i # id => rows'[i] = rows[i]
         /\ id \in DOMAIN rows => rows'[id].state \in {"Active", rows[id].state}
  <1> DEFINE row == Held(IF id \in DOMAIN rows THEN rows[id].expiresAt ELSE expiresAt)
  <1>1. row \in Row /\ RowOK(row) /\ row.state = "Active"
    BY DEF TablesInv, Held, Row, RowOK, RowCheck, NoTime, ReservationStates
  <1>2. id \in DOMAIN rows => row.expiresAt = rows[id].expiresAt
    BY DEF Held
  <1>3. item' = item /\ outbox' = outbox
    BY DEF SaveReservation
  <1>4. \/ rows' = rows
        \/ rows' = [i \in DOMAIN rows \cup {id} |-> IF i = id THEN row ELSE rows[i]]
    BY DEF SaveReservation
  <1> HIDE DEF row
  <1> QED BY <1>1, <1>2, <1>3, <1>4 DEF TablesInv, RowsKept, RowOK, RowCheck

(* The CHECKs let a row be finished only while no timestamp of another     *)
(* terminal state is set.                                                  *)
LEMMA FinishStatement ==
  ASSUME TablesInv, NEW id \in DOMAIN rows, NEW state \in TerminalStates, NEW now \in Int,
         state = "Confirmed" => ~ Lapsed(rows[id], now),
         state = "Expired" => Lapsed(rows[id], now),
         UpdateReservation(id, state, now)
  PROVE  TablesInv' /\ RowsKept /\ TerminalKept
  <1> DEFINE new == Finished(rows[id], state, now)
  <1>1. rows[id] \in Row /\ RowOK(rows[id])
    BY DEF TablesInv
  <1>2. new \in Row /\ new.state = state /\ new.expiresAt = rows[id].expiresAt
    BY <1>1 DEF Finished, Row, TerminalStates, ReservationStates
  <1>3. RowCheck(new) => RowOK(new)
    BY <1>1 DEF Finished, RowOK, RowCheck, Row, TerminalStates, Lapsed, NoTime
  <1>4. RowCheck(new) /\ rows[id].state \in TerminalStates => new.state = rows[id].state
    BY <1>1 DEF Finished, RowOK, RowCheck, Row, TerminalStates, NoTime
  <1>5. item' = item /\ outbox' = outbox
    BY DEF UpdateReservation
  <1>6. rows' = rows \/ (RowCheck(new) /\ rows' = [rows EXCEPT ![id] = new])
    BY DEF UpdateReservation
  <1> HIDE DEF new
  <1>7. CASE rows' = rows
    BY <1>5, <1>7 DEF TablesInv, RowsKept, TerminalKept, RowOK, RowCheck
  <1>8. CASE RowCheck(new) /\ rows' = [rows EXCEPT ![id] = new]
    <2>1. rows' \in [DOMAIN rows -> Row] /\ DOMAIN rows' = DOMAIN rows
      BY <1>2, <1>8 DEF TablesInv
    <2>2. \A i \in DOMAIN rows : rows'[i] = IF i = id THEN new ELSE rows[i]
      BY <1>8 DEF TablesInv
    <2>3. \A i \in DOMAIN rows : RowOK(rows'[i])
      BY <1>3, <1>8, <2>2 DEF TablesInv
    <2>4. TablesInv'
      BY <1>5, <2>1, <2>2, <2>3 DEF TablesInv, RowOK, RowCheck
    <2>5. RowsKept /\ TerminalKept
      BY <1>2, <1>4, <1>8, <2>1, <2>2 DEF RowsKept, TerminalKept
    <2> QED BY <2>4, <2>5
  <1> QED BY <1>6, <1>7, <1>8

(* An event is appended or dropped.                                        *)
LEMMA EventStatement ==
  ASSUME TablesInv, NEW e \in Event, AppendEvent(e)
  PROVE  TablesInv' /\ RowsKept /\ TerminalKept
  <1>1. rows' = rows /\ item' = item
    BY DEF AppendEvent
  <1>2. outbox' \in Seq(Event)
    BY DEF AppendEvent, TablesInv
  <1> QED BY <1>1, <1>2 DEF TablesInv, RowsKept, TerminalKept, RowOK, RowCheck

(* A failed statement or a query leaves the tables as they are.            *)
LEMMA NoStatement ==
  ASSUME TablesInv, UNCHANGED dbVars
  PROVE  TablesInv' /\ RowsKept /\ TerminalKept
  BY DEF dbVars, TablesInv, RowsKept, TerminalKept, RowOK, RowCheck

-----------------------------------------------------------------------------
(* Each step of a replica.                                                 *)

(* The steps of one replica disturb no other's knowledge.                  *)
LEMMA OthersKept ==
  ASSUME RowsKept, NEW q \in Replicas, CallOK(q),
         op'[q] = op[q], pc'[q] = pc[q], sweep'[q] = sweep[q]
  PROVE  CallOK(q)'
  <1>1. \A ids, now : LapsedBy(ids, now) => LapsedBy(ids, now)'
    BY DEF LapsedBy, Lapsed, RowsKept
  <1>2. InTime(op[q]) => InTime(op[q])'
    BY DEF InTime, Lapsed, RowsKept
  <1> QED BY <1>1, <1>2 DEF CallOK, InTime, LapsedBy, RowsKept

(* What has to be shown of a step of r.                                    *)
LEMMA StepOf ==
  ASSUME IInv, NEW r \in Replicas, TablesInv', RowsKept, ProcessTypes', CallOK(r)',
         \A q \in Replicas \ {r} : op'[q] = op[q] /\ pc'[q] = pc[q] /\ sweep'[q] = sweep[q]
  PROVE  IInv'
  BY OthersKept DEF IInv

(* The local variables of a new call.                                      *)
LEMMA NewCall ==
  ASSUME NEW kind \in {"reserve", "confirm", "cancel", "sweep"}, NEW id \in Int, NEW now \in Int
  PROVE  LET o == [NoOp EXCEPT !.kind = kind, !.res = id, !.now = now]
         IN  o \in Op /\ o.res = id /\ o.todo = {} /\ o.now = now
  BY DEF NoOp, NilID, Op, EventTypes, ReservationStates

\* The types of one replica's call.
LEMMA CallTyped ==
  ASSUME ProcessTypes, NEW r \in Replicas
  PROVE  /\ op[r] \in Op /\ op[r].res \in Int /\ op[r].now \in Int /\ op[r].todo \subseteq Int
         /\ op[r].event \in EventTypes /\ op[r].found \in BOOLEAN
         /\ op[r].now + Hold \in Int
         /\ sweep[r] \in [todo : SUBSET Int, now : Int]
         /\ sweep[r].todo \subseteq Int /\ sweep[r].now \in Int
         /\ idCounter[r] \in Nat
  <1>1. op[r] \in Op /\ sweep[r] \in [todo : SUBSET Int, now : Int] /\ idCounter[r] \in Nat
    BY DEF ProcessTypes
  <1>2. op[r].now \in Int
    BY <1>1 DEF Op
  <1>3. op[r].now + Hold \in Int
    BY <1>2, DurableAssumption
  <1>4. /\ op[r].res \in Int /\ op[r].todo \subseteq Int
        /\ op[r].event \in EventTypes /\ op[r].found \in BOOLEAN
    BY <1>1 DEF Op
  <1> QED BY <1>1, <1>2, <1>3, <1>4

(* A replica moves on to the local variables o.                            *)
LEMMA Advances ==
  ASSUME ProcessTypes, NEW r \in Replicas, NEW o \in Op, op' = [op EXCEPT ![r] = o],
         NEW p \in Points, pc' = [pc EXCEPT ![r] = p],
         clock' \in Nat, idCounter' \in [Replicas -> Nat], up' \in [Replicas -> BOOLEAN],
         sweep' \in [Replicas -> [todo : SUBSET Int, now : Int]]
  PROVE  ProcessTypes' /\ op'[r] = o
  BY DEF ProcessTypes

\* However a listing ends, what it yields was found.
LEMMA ScanYields ==
  ASSUME NEW found, NEW ok \in BOOLEAN, NEW todo \in ScanReservations(found, ok)
  PROVE  todo \subseteq found
  BY DEF ScanReservations

(* The steps of ReserveItem: ids are positive, the stale list has lapsed.  *)
LEMMA ReserveSteps ==
  ASSUME IInv, NEW r \in Replicas,
         BeginReserve(r) \/ ListStale(r) \/ CheckStock(r) \/ SaveReserved(r) \/ HoldUnit(r)
  PROVE  IInv'
  <1> USE DEF Goto
  <1>0. TablesInv /\ ProcessTypes /\ CallOK(r)
    BY DEF IInv
  <1>1. CASE BeginReserve(r)
    <2>1. TablesInv' /\ RowsKept
      BY <1>0, <1>1, NoStatement DEF BeginReserve, Begin
    <2> DEFINE o == [NoOp EXCEPT !.kind = "reserve", !.res = NilID, !.now = clock]
    <2>2. o \in Op /\ o.todo = {}
      <3>1. clock \in Int /\ NilID \in Int
        BY <1>0 DEF ProcessTypes, NilID
      <3> QED BY <3>1, NewCall
    <2>3. op' = [op EXCEPT ![r] = o] /\ pc' = [pc EXCEPT ![r] = "list"] /\ "list" \in Points
      BY <1>1 DEF BeginReserve, Begin, Points
    <2> HIDE DEF o
    <2>4. ProcessTypes' /\ op'[r] = o
      BY <1>0, <1>1, <2>2, <2>3, Advances DEF BeginReserve, Begin, ProcessTypes
    <2>5. CallOK(r)'
      BY <1>0, <1>1, <2>1, <2>2, <2>3, <2>4 DEF BeginReserve, Begin, ProcessTypes, CallOK, LapsedBy, Lapsed, RowsKept
    <2> QED BY <1>0, <1>1, <2>1, <2>4, <2>5, StepOf DEF BeginReserve, Begin, ProcessTypes
  <1>2. CASE ListStale(r)
    <2>1. TablesInv' /\ RowsKept
      BY <1>0, <1>2, NoStatement DEF ListStale, Query
    <2>2. PICK todo \in SUBSET LapsedAt(op[r].now) : op' = [op EXCEPT ![r].todo = todo]
      BY <1>2, ScanYields DEF ListStale
    <2> DEFINE o == [op[r] EXCEPT !.todo = todo]
    <2>3. LapsedBy(todo, op[r].now) /\ todo \subseteq Int
      BY <1>0 DEF LapsedBy, LapsedAt, ActiveReservations, RowsIn, TablesInv
    <2>4. op' = [op EXCEPT ![r] = o] /\ pc' = [pc EXCEPT ![r] = "expire"] /\ "expire" \in Points
      BY <1>0, <1>2, <2>2 DEF ListStale, Points, ProcessTypes
    <2>5. o \in Op /\ o.todo = todo /\ o.now = op[r].now
      BY <1>0, <2>3, CallTyped DEF Op
    <2> HIDE DEF o
    <2>6. ProcessTypes' /\ op'[r] = o
      BY <1>0, <1>2, <2>4, <2>5, Advances DEF ListStale, ProcessTypes, restVars
    <2>7. CallOK(r)'
      BY <1>0, <1>2, <2>1, <2>3, <2>4, <2>5, <2>6 DEF ListStale, Query, dbVars, restVars, ProcessTypes, CallOK, LapsedBy, Lapsed
    <2> QED BY <1>0, <1>2, <2>1, <2>6, <2>7, StepOf DEF ListStale, ProcessTypes, restVars
  <1>3. CASE CheckStock(r)
    <2>1. TablesInv' /\ RowsKept
      BY <1>0, <1>3, NoStatement DEF CheckStock, Query
    <2>2. /\ op' = [op EXCEPT ![r] = op'[r]] /\ op'[r] \in Op
          /\ op'[r].now = op[r].now /\ op'[r].todo = op[r].todo
      <3> DEFINE a == [op[r] EXCEPT !.err = "ErrProductNotFound"]
                 b == [op[r] EXCEPT !.err = "ErrOutOfStock", !.event = "ReserveRejected",
                                    !.res = NilID, !.found = TRUE]
                 c == [op[r] EXCEPT !.event = "Reserved", !.res = idCounter[r] + 1, !.found = TRUE]
      <3>0. op[r] \in Op /\ NilID \in Int /\ idCounter[r] + 1 \in Int
        BY <1>0, CallTyped DEF NilID
      <3>1. a \in Op /\ a.now = op[r].now /\ a.todo = op[r].todo
        BY <3>0 DEF Op
      <3>2. b \in Op /\ b.now = op[r].now /\ b.todo = op[r].todo
        BY <3>0 DEF Op, EventTypes
      <3>3. c \in Op /\ c.now = op[r].now /\ c.todo = op[r].todo
        BY <3>0 DEF Op, EventTypes
      <3>4. op' \in {[op EXCEPT ![r] = a], [op EXCEPT ![r] = b], [op EXCEPT ![r] = c]}
        BY <1>0, <1>3 DEF CheckStock, ProcessTypes
      <3> HIDE DEF a, b, c
      <3> QED BY <1>0, <3>1, <3>2, <3>3, <3>4 DEF ProcessTypes
    <2>3. PICK p \in Points : pc' = [pc EXCEPT ![r] = p] /\ p \in {"answer", "append", "save"}
      BY <1>3 DEF CheckStock, Points
    <2>4. p = "save" => op'[r].res = idCounter[r] + 1
      <3> SUFFICES ASSUME p = "save" PROVE op'[r].res = idCounter[r] + 1
        OBVIOUS
      <3>1. pc'[r] = "save"
        BY <1>0, <2>3 DEF ProcessTypes
      <3>2. op' = [op EXCEPT ![r].event = "Reserved", ![r].res = idCounter[r] + 1, ![r].found = TRUE]
        BY <1>0, <1>3, <3>1 DEF CheckStock, ProcessTypes
      <3>3. op[r] \in Op /\ op \in [Replicas -> Op]
        BY <1>0 DEF ProcessTypes
      <3> QED BY <3>2, <3>3 DEF Op
    <2>5. idCounter' \in [Replicas -> Nat]
      BY <1>0, <1>3 DEF CheckStock, ProcessTypes
    <2>6. ProcessTypes'
      BY <1>0, <1>3, <2>2, <2>3, <2>5, Advances DEF CheckStock, ProcessTypes, restVars
    <2>7. CallOK(r)'
      BY <1>0, <1>3, <2>1, <2>2, <2>3, <2>4, CallTyped DEF CheckStock, Query, dbVars, restVars, ProcessTypes, CallOK, LapsedBy, Lapsed, RowsKept
    <2> QED BY <1>0, <1>3, <2>1, <2>2, <2>6, <2>7, StepOf DEF CheckStock, ProcessTypes, restVars
  <1>4. CASE SaveReserved(r)
    <2>1. TablesInv' /\ RowsKept
      <3>1. op[r].res \in Nat \ {0} /\ op[r].now \in Int /\ op[r].now + Hold \in Int
        BY <1>0, <1>4, CallTyped DEF SaveReserved, CallOK
      <3> QED BY <1>0, <1>4, <3>1, NoStatement, SaveStatement DEF SaveReserved, Attempt
    <2>2. ProcessTypes'
      BY <1>0, <1>4 DEF SaveReserved, ProcessTypes, restVars, Points
    <2>3. CallOK(r)'
      BY <1>0, <1>4, <2>1 DEF SaveReserved, restVars, ProcessTypes, CallOK, LapsedBy, Lapsed, RowsKept
    <2> QED BY <1>0, <1>4, <2>1, <2>2, <2>3, StepOf DEF SaveReserved, ProcessTypes, restVars
  <1>5. CASE HoldUnit(r)
    <2>1. TablesInv' /\ RowsKept
      BY <1>0, <1>5, NoStatement, ItemStatement DEF HoldUnit, Attempt
    <2>2. ProcessTypes'
      BY <1>0, <1>5 DEF HoldUnit, ProcessTypes, restVars, Points
    <2>3. CallOK(r)'
      BY <1>0, <1>5, <2>1 DEF HoldUnit, restVars, ProcessTypes, CallOK, LapsedBy, Lapsed, RowsKept
    <2> QED BY <1>0, <1>5, <2>1, <2>2, <2>3, StepOf DEF HoldUnit, ProcessTypes, restVars
  <1> QED BY <1>1, <1>2, <1>3, <1>4, <1>5

(* The steps of ConfirmReservation and CancelReservation: the decision is  *)
(* on the right side of the expiry.                                        *)
LEMMA FinalizeSteps ==
  ASSUME IInv, NEW r \in Replicas, BeginFinalize(r) \/ Fetch(r) \/ Decide(r)
  PROVE  IInv'
  <1> USE DEF Goto
  <1>0. TablesInv /\ ProcessTypes /\ CallOK(r)
    BY DEF IInv
  <1>1. CASE BeginFinalize(r)
    <2>1. TablesInv' /\ RowsKept
      BY <1>0, <1>1, NoStatement DEF BeginFinalize, Begin
    <2>2. PICK kind \in {"confirm", "cancel"}, id \in DOMAIN rows :
            op' = [op EXCEPT ![r] = [NoOp EXCEPT !.kind = kind, !.res = id, !.now = clock]]
      BY <1>1 DEF BeginFinalize, Begin
    <2> DEFINE o == [NoOp EXCEPT !.kind = kind, !.res = id, !.now = clock]
    <2>3. o \in Op /\ o.todo = {} /\ o.res = id
      <3>1. clock \in Int /\ id \in Int
        BY <1>0 DEF ProcessTypes, TablesInv
      <3>2. kind \in {"reserve", "confirm", "cancel", "sweep"}
        OBVIOUS
      <3> QED BY <3>1, <3>2 DEF NoOp, NilID, Op, EventTypes, ReservationStates
    <2>4. op' = [op EXCEPT ![r] = o] /\ pc' = [pc EXCEPT ![r] = "fetch"] /\ "fetch" \in Points
      BY <1>1, <2>2 DEF BeginFinalize, Begin, Points
    <2> HIDE DEF o
    <2>5. ProcessTypes' /\ op'[r] = o
      <3>1. UNCHANGED <<clock, idCounter, up, sweep>>
        BY <1>1 DEF BeginFinalize, Begin
      <3> QED BY <1>0, <2>3, <2>4, <3>1, Advances DEF ProcessTypes
    <2>6. CallOK(r)'
      BY <1>0, <1>1, <2>1, <2>3, <2>4, <2>5 DEF BeginFinalize, Begin, ProcessTypes, CallOK, LapsedBy, Lapsed, RowsKept
    <2> QED BY <1>0, <1>1, <2>1, <2>4, <2>5, <2>6, StepOf DEF BeginFinalize, Begin, ProcessTypes
  <1>2. CASE Fetch(r)
    <2>1. TablesInv' /\ RowsKept
      BY <1>0, <1>2, NoStatement DEF Fetch, Query
    <2>2. PICK ok \in BOOLEAN :
            op' = [op EXCEPT ![r].state = IF ok THEN rows[op[r].res].state ELSE ""]
      BY <1>2 DEF Fetch
    <2> DEFINE st == IF ok THEN rows[op[r].res].state ELSE ""
               o == [op[r] EXCEPT !.state = st]
    <2>3. st \in ReservationStates \cup {""}
      <3>1. op[r].res \in DOMAIN rows
        BY <1>0, <1>2 DEF Fetch, CallOK
      <3>2. rows[op[r].res] \in Row
        BY <1>0, <3>1 DEF TablesInv
      <3> QED BY <3>2 DEF Row
    <2>4. op' = [op EXCEPT ![r] = o] /\ pc' = [pc EXCEPT ![r] = "decide"] /\ "decide" \in Points
      BY <1>0, <1>2, <2>2 DEF Fetch, Points, ProcessTypes
    <2> HIDE DEF st
    <2>5. o \in Op /\ o.res = op[r].res /\ o.now = op[r].now /\ o.todo = op[r].todo
      <3>1. op[r] \in Op
        BY <1>0, CallTyped
      <3> QED BY <2>3, <3>1 DEF Op
    <2> HIDE DEF o
    <2>6. ProcessTypes' /\ op'[r] = o
      BY <1>0, <1>2, <2>4, <2>5, Advances DEF Fetch, ProcessTypes, restVars
    <2>7. CallOK(r)'
      BY <1>0, <1>2, <2>1, <2>4, <2>5, <2>6 DEF Fetch, Query, dbVars, restVars, ProcessTypes, CallOK, LapsedBy, Lapsed, RowsKept
    <2> QED BY <1>0, <1>2, <2>1, <2>4, <2>6, <2>7, StepOf DEF Fetch, ProcessTypes, restVars
  <1>3. CASE Decide(r)
    <2>1. TablesInv' /\ RowsKept
      BY <1>0, <1>3, NoStatement DEF Decide
    <2> DEFINE lapsed == Lapsed(rows[op[r].res], clock)
               late == [op[r] EXCEPT !.now = clock, !.todo = {op[r].res}, !.err = "ErrReservationExpired"]
               sold == [op[r] EXCEPT !.now = clock, !.event = "Confirmed"]
               dropped == [op[r] EXCEPT !.now = clock, !.event = "Cancelled"]
               err == IF op[r].kind = "confirm" /\ op[r].state = "Expired"
                      THEN "ErrReservationExpired" ELSE "ErrReservationAlreadyFinalized"
               over == [op[r] EXCEPT !.err = err]
    <2>2. \/ lapsed /\ pc' = [pc EXCEPT ![r] = "expire"] /\ op' = [op EXCEPT ![r] = late]
          \/ ~ lapsed /\ pc' = [pc EXCEPT ![r] = "finish"] /\ op' = [op EXCEPT ![r] = sold]
          \/ pc' = [pc EXCEPT ![r] = "finish"] /\ op' = [op EXCEPT ![r] = dropped]
          \/ pc' = [pc EXCEPT ![r] = "answer"] /\ op' = [op EXCEPT ![r] = over]
      BY <1>0, <1>3 DEF Decide, ProcessTypes
    <2>3. /\ op[r] \in Op /\ clock \in Int /\ op[r].res \in Int
          /\ op[r].res \in DOMAIN rows /\ op[r].todo = {}
      BY <1>0, <1>3, CallTyped DEF Decide, CallOK, ProcessTypes
    <2>4. late \in Op /\ late.now = clock /\ late.todo = {op[r].res}
      BY <2>3 DEF Op
    <2>5. sold \in Op /\ sold.now = clock /\ sold.todo = {} /\ sold.res = op[r].res /\ sold.event = "Confirmed"
      BY <2>3 DEF Op, EventTypes
    <2>6. dropped \in Op /\ dropped.todo = {} /\ dropped.res = op[r].res /\ dropped.event = "Cancelled"
      BY <2>3 DEF Op, EventTypes
    <2>7. over \in Op /\ over.todo = {}
      <3>1. err \in {"ErrReservationExpired", "ErrReservationAlreadyFinalized"}
        OBVIOUS
      <3> HIDE DEF err
      <3> QED BY <2>3, <3>1 DEF Op
    <2>8. "expire" \in Points /\ "finish" \in Points /\ "answer" \in Points
      BY DEF Points
    <2>9. rows' = rows /\ sweep' = sweep
      BY <1>3 DEF Decide, dbVars, restVars
    <2> HIDE DEF lapsed, late, sold, dropped, over
    <2>10. /\ ProcessTypes' /\ op' = [op EXCEPT ![r] = op'[r]]
           /\ op'[r] \in {late, sold, dropped, over}
      BY <1>0, <1>3, <2>2, <2>4, <2>5, <2>6, <2>7, <2>8, Advances DEF Decide, ProcessTypes, restVars
    <2>11. CallOK(r)'
      <3>1. LapsedBy(sweep[r].todo, sweep[r].now)'
        BY <1>0, <2>9 DEF CallOK, LapsedBy
      <3>2. CASE lapsed /\ pc' = [pc EXCEPT ![r] = "expire"] /\ op' = [op EXCEPT ![r] = late]
        <4>1. pc'[r] = "expire" /\ op'[r] = late
          BY <1>0, <3>2 DEF ProcessTypes
        <4> QED BY <2>3, <2>4, <2>9, <3>1, <3>2, <4>1 DEF CallOK, LapsedBy, lapsed
      <3>3. CASE ~ lapsed /\ pc' = [pc EXCEPT ![r] = "finish"] /\ op' = [op EXCEPT ![r] = sold]
        <4>1. pc'[r] = "finish" /\ op'[r] = sold
          BY <1>0, <3>3 DEF ProcessTypes
        <4> QED BY <2>3, <2>5, <2>9, <3>1, <3>3, <4>1 DEF CallOK, LapsedBy, lapsed, InTime, TerminalStates
      <3>4. CASE pc' = [pc EXCEPT ![r] = "finish"] /\ op' = [op EXCEPT ![r] = dropped]
        <4>1. pc'[r] = "finish" /\ op'[r] = dropped
          BY <1>0, <3>4 DEF ProcessTypes
        <4> QED BY <2>3, <2>6, <2>9, <3>1, <4>1 DEF CallOK, LapsedBy, InTime, TerminalStates
      <3>5. CASE pc' = [pc EXCEPT ![r] = "answer"] /\ op' = [op EXCEPT ![r] = over]
        <4>1. pc'[r] = "answer" /\ op'[r] = over
          BY <1>0, <3>5 DEF ProcessTypes
        <4> QED BY <2>7, <2>9, <3>1, <4>1 DEF CallOK, LapsedBy
      <3> QED BY <2>2, <3>2, <3>3, <3>4, <3>5
    <2> QED BY <1>0, <1>3, <2>1, <2>2, <2>10, <2>11, StepOf DEF Decide, ProcessTypes, restVars
  <1> QED BY <1>1, <1>2, <1>3

(* The steps of expireReservationLocked and the writes that follow a       *)
(* decision.                                                               *)
LEMMA ExpirySteps ==
  ASSUME IInv, NEW r \in Replicas,
         BeginExpiry(r) \/ Finish(r) \/ Release(r) \/ AppendEventStep(r) \/ ConfirmExpiryDone(r)
  PROVE  IInv'
  <1> USE DEF Goto
  <1>0. TablesInv /\ ProcessTypes /\ CallOK(r)
    BY DEF IInv
  <1>1. CASE BeginExpiry(r)
    <2>1. TablesInv' /\ RowsKept
      BY <1>0, <1>1, NoStatement DEF BeginExpiry, Query
    <2>2. PICK i \in op[r].todo, ok \in BOOLEAN :
            op' = [op EXCEPT ![r].res = i, ![r].todo = @ \ {i}, ![r].found = ok, ![r].event = "Expired"]
      BY <1>1 DEF BeginExpiry
    <2> DEFINE todo == op[r].todo \ {i}
               o == [op[r] EXCEPT !.res = i, !.todo = todo, !.found = ok, !.event = "Expired"]
    <2>3. op[r] \in Op /\ i \in Int /\ todo \subseteq Int /\ "Expired" \in EventTypes
      BY <1>0, CallTyped DEF EventTypes
    <2>4. op' = [op EXCEPT ![r] = o] /\ pc' = [pc EXCEPT ![r] = "finish"] /\ "finish" \in Points
      BY <1>0, <1>1, <2>2 DEF BeginExpiry, Points, ProcessTypes
    <2>5. \A j \in todo : j \in op[r].todo
      OBVIOUS
    <2> HIDE DEF todo
    <2>6. o \in Op /\ o.res = i /\ o.now = op[r].now /\ o.todo = todo /\ o.event = "Expired"
      BY <2>3 DEF Op
    <2> HIDE DEF o
    <2>7. UNCHANGED <<rows, clock, idCounter, up, sweep>>
      BY <1>1 DEF BeginExpiry, Query, dbVars, restVars
    <2>8. ProcessTypes' /\ op'[r] = o
      BY <1>0, <2>4, <2>6, <2>7, Advances DEF ProcessTypes
    <2>9. pc'[r] = "finish"
      BY <1>0, <2>4 DEF ProcessTypes
    <2>10. CallOK(r)'
      BY <1>0, <2>5, <2>6, <2>7, <2>8, <2>9 DEF CallOK, LapsedBy, InTime, TerminalStates
    <2> QED BY <1>0, <1>1, <2>1, <2>4, <2>7, <2>8, <2>10, StepOf DEF ProcessTypes
  <1>2. CASE Finish(r)
    <2>1. TablesInv' /\ RowsKept
      <3>1. InTime(op[r]) /\ op[r].now \in Int
        BY <1>0, <1>2, CallTyped DEF Finish, CallOK
      <3> QED BY <1>0, <1>2, <3>1, NoStatement, FinishStatement DEF Finish, Attempt, InTime
    <2>2. ProcessTypes'
      BY <1>0, <1>2 DEF Finish, ProcessTypes, restVars, Points
    <2>3. CallOK(r)'
      BY <1>0, <1>2, <2>1 DEF Finish, restVars, ProcessTypes, CallOK, LapsedBy, Lapsed, RowsKept
    <2> QED BY <1>0, <1>2, <2>1, <2>2, <2>3, StepOf DEF Finish, ProcessTypes, restVars
  <1>3. CASE Release(r)
    <2>1. TablesInv' /\ RowsKept
      <3>1. -1 \in Int /\ (IF op[r].event = "Confirmed" THEN 1 ELSE 0) \in Int
        OBVIOUS
      <3> QED BY <1>0, <1>3, <3>1, NoStatement, ItemStatement DEF Release, Attempt
    <2>2. ProcessTypes'
      BY <1>0, <1>3 DEF Release, ProcessTypes, restVars, Points
    <2>3. CallOK(r)'
      BY <1>0, <1>3, <2>1 DEF Release, restVars, ProcessTypes, CallOK, LapsedBy, Lapsed, RowsKept
    <2> QED BY <1>0, <1>3, <2>1, <2>2, <2>3, StepOf DEF Release, ProcessTypes, restVars
  <1>4. CASE AppendEventStep(r)
    <2>1. TablesInv' /\ RowsKept
      <3>1. EventOf(r) \in Event
        BY <1>0, CallTyped DEF EventOf, Event, EmptyID
      <3> QED BY <1>0, <1>4, <3>1, NoStatement, EventStatement DEF AppendEventStep, Attempt
    <2>2. ProcessTypes'
      BY <1>0, <1>4 DEF AppendEventStep, ProcessTypes, restVars, Points
    <2>3. CallOK(r)'
      BY <1>0, <1>4, <2>1 DEF AppendEventStep, restVars, ProcessTypes, CallOK, LapsedBy, Lapsed, RowsKept
    <2> QED BY <1>0, <1>4, <2>1, <2>2, <2>3, StepOf DEF AppendEventStep, ProcessTypes, restVars
  <1>5. CASE ConfirmExpiryDone(r)
    <2>1. TablesInv' /\ RowsKept
      BY <1>0, <1>5, NoStatement DEF ConfirmExpiryDone
    <2>2. ProcessTypes'
      BY <1>0, <1>5 DEF ConfirmExpiryDone, ProcessTypes, restVars, Points
    <2>3. CallOK(r)'
      BY <1>0, <1>5, <2>1 DEF ConfirmExpiryDone, restVars, ProcessTypes, CallOK, LapsedBy, Lapsed, RowsKept
    <2> QED BY <1>0, <1>5, <2>1, <2>2, <2>3, StepOf DEF ConfirmExpiryDone, ProcessTypes, restVars
  <1> QED BY <1>1, <1>2, <1>3, <1>4, <1>5

(* NoOp is the idle replica's record.                                      *)
LEMMA IdleCall == NoOp \in Op /\ NoOp.todo = {} /\ NoSweep \in [todo : SUBSET Int, now : Int]
              /\ NoSweep.todo = {} /\ "idle" \in Points
  BY DEF NoOp, NilID, Op, EventTypes, ReservationStates, NoSweep, Points

(* The end of a call.                                                      *)
LEMMA AnswerStep ==
  ASSUME IInv, NEW r \in Replicas, Answer(r) \/ UnlockSweep(r)
  PROVE  IInv'
  <1>0. TablesInv /\ ProcessTypes /\ CallOK(r)
    BY DEF IInv
  <1>1. /\ op' = [op EXCEPT ![r] = NoOp] /\ pc' = [pc EXCEPT ![r] = "idle"]
        /\ UNCHANGED <<dbVars, clock, sweep, idCounter, up>>
    BY DEF Answer, UnlockSweep, Goto, restVars
  <1>2. TablesInv' /\ RowsKept /\ rows' = rows
    BY <1>0, <1>1, NoStatement DEF dbVars
  <1>3. ProcessTypes'
    BY <1>0, <1>1, IdleCall, Advances DEF ProcessTypes
  <1>4. CallOK(r)'
    BY <1>0, <1>1, <1>2, IdleCall DEF ProcessTypes, CallOK, LapsedBy
  <1> QED BY <1>0, <1>1, <1>2, <1>3, <1>4, StepOf DEF ProcessTypes

(* The sweep's list has lapsed by the tick's time, which the loop is given. *)
LEMMA SweepSteps ==
  ASSUME IInv, NEW r \in Replicas, ListSweep(r) \/ LockSweep(r)
  PROVE  IInv'
  <1>0. TablesInv /\ ProcessTypes /\ CallOK(r)
    BY DEF IInv
  <1>1. CASE ListSweep(r)
    <2>1. TablesInv' /\ RowsKept /\ rows' = rows
      BY <1>0, <1>1, NoStatement DEF ListSweep, Query, dbVars
    <2>2. PICK now \in 0 .. clock : \E todo \in SUBSET LapsedAt(now) :
            sweep' = IF todo = {} THEN sweep ELSE [sweep EXCEPT ![r] = [todo |-> todo, now |-> now]]
      BY <1>1, ScanYields DEF ListSweep
    <2> PICK todo \in SUBSET LapsedAt(now) :
            sweep' = IF todo = {} THEN sweep ELSE [sweep EXCEPT ![r] = [todo |-> todo, now |-> now]]
      BY <2>2
    <2>3. LapsedBy(todo, now) /\ todo \subseteq Int /\ now \in Int
      BY <1>0 DEF LapsedBy, LapsedAt, ActiveReservations, RowsIn, TablesInv, ProcessTypes
    <2>4. UNCHANGED <<clock, up, idCounter, pc, op>>
      BY <1>1 DEF ListSweep
    <2>5. sweep' \in {sweep, [sweep EXCEPT ![r] = [todo |-> todo, now |-> now]]}
      OBVIOUS
    <2>6. sweep' \in [Replicas -> [todo : SUBSET Int, now : Int]]
      <3>1. [todo |-> todo, now |-> now] \in [todo : SUBSET Int, now : Int]
        BY <2>3
      <3>2. sweep \in [Replicas -> [todo : SUBSET Int, now : Int]]
        BY <1>0 DEF ProcessTypes
      <3> QED BY <2>5, <3>1, <3>2
    <2>7. ProcessTypes'
      BY <1>0, <2>4, <2>6 DEF ProcessTypes
    <2>8. sweep'[r] \in {sweep[r], [todo |-> todo, now |-> now]}
      BY <1>0, <2>5 DEF ProcessTypes
    <2>9. CallOK(r)'
      <3>1. LapsedBy(sweep'[r].todo, sweep'[r].now)
        <4>1. CASE sweep'[r] = sweep[r]
          BY <1>0, <4>1 DEF CallOK
        <4>2. CASE sweep'[r] = [todo |-> todo, now |-> now]
          BY <2>3, <4>2
        <4> QED BY <2>8, <4>1, <4>2
      <3> QED BY <1>0, <2>1, <2>4, <3>1 DEF CallOK, LapsedBy, InTime
    <2> QED BY <1>0, <2>1, <2>4, <2>5, <2>7, <2>9, StepOf DEF ProcessTypes
  <1>2. CASE LockSweep(r)
    <2>1. TablesInv' /\ RowsKept /\ rows' = rows
      BY <1>0, <1>2, NoStatement DEF LockSweep, dbVars
    <2> DEFINE o == [NoOp EXCEPT !.kind = "sweep", !.todo = sweep[r].todo, !.now = sweep[r].now]
    <2>2. o \in Op /\ o.todo = sweep[r].todo /\ o.now = sweep[r].now
      <3>1. sweep[r].todo \subseteq Int /\ sweep[r].now \in Int
        BY <1>0, CallTyped
      <3> DEFINE todo == sweep[r].todo
                 now == sweep[r].now
      <3>2. o = [NoOp EXCEPT !.kind = "sweep", !.todo = todo, !.now = now]
        OBVIOUS
      <3>3. todo \subseteq Int /\ now \in Int
        BY <3>1
      <3> HIDE DEF o, todo, now
      <3>4. o \in Op /\ o.todo = todo /\ o.now = now
        BY <3>2, <3>3, IdleCall DEF Op
      <3> QED BY <3>4 DEF todo, now
    <2>3. /\ op' = [op EXCEPT ![r] = o] /\ pc' = [pc EXCEPT ![r] = "expire"] /\ "expire" \in Points
          /\ sweep' = [sweep EXCEPT ![r] = NoSweep]
          /\ UNCHANGED <<clock, up, idCounter>>
      BY <1>2 DEF LockSweep, Goto, Points
    <2> HIDE DEF o
    <2>4. sweep' \in [Replicas -> [todo : SUBSET Int, now : Int]] /\ sweep'[r].todo = {}
      BY <1>0, <2>3, IdleCall DEF ProcessTypes
    <2>5. ProcessTypes' /\ op'[r] = o
      BY <1>0, <2>2, <2>3, <2>4, Advances DEF ProcessTypes
    <2>6. CallOK(r)'
      BY <1>0, <2>1, <2>2, <2>3, <2>4, <2>5 DEF ProcessTypes, CallOK, LapsedBy
    <2> QED BY <1>0, <2>1, <2>3, <2>5, <2>6, StepOf DEF ProcessTypes
  <1> QED BY <1>1, <1>2

(* A crash forgets the call; a start seeds.                                *)
LEMMA ProcessSteps ==
  ASSUME IInv, NEW r \in Replicas, Crash(r) \/ Start(r)
  PROVE  IInv'
  <1>0. TablesInv /\ ProcessTypes /\ CallOK(r)
    BY DEF IInv
  <1>1. CASE Crash(r)
    <2>1. TablesInv' /\ RowsKept /\ rows' = rows
      BY <1>0, <1>1, NoStatement DEF Crash, dbVars
    <2>2. /\ op' = [op EXCEPT ![r] = NoOp] /\ pc' = [pc EXCEPT ![r] = "idle"]
          /\ sweep' = [sweep EXCEPT ![r] = NoSweep]
          /\ up' = [up EXCEPT ![r] = FALSE] /\ idCounter' = [idCounter EXCEPT ![r] = 0]
          /\ clock' = clock
      BY <1>1 DEF Crash
    <2>3. /\ sweep' \in [Replicas -> [todo : SUBSET Int, now : Int]] /\ sweep'[r].todo = {}
          /\ up' \in [Replicas -> BOOLEAN] /\ idCounter' \in [Replicas -> Nat]
      BY <1>0, <2>2, IdleCall DEF ProcessTypes
    <2>4. ProcessTypes'
      BY <1>0, <2>2, <2>3, IdleCall, Advances DEF ProcessTypes
    <2>5. CallOK(r)'
      BY <1>0, <2>1, <2>2, <2>3, IdleCall DEF ProcessTypes, CallOK, LapsedBy
    <2> QED BY <1>0, <2>1, <2>2, <2>4, <2>5, StepOf DEF ProcessTypes
  <1>2. CASE Start(r)
    <2>1. TablesInv' /\ RowsKept
      <3>1. 0 \in Int
        OBVIOUS
      <3> QED BY <1>0, <1>2, <3>1, NoStatement, ItemStatement DEF Start, Attempt
    <2>2. ProcessTypes'
      BY <1>0, <1>2 DEF Start, ProcessTypes, restVars
    <2>3. CallOK(r)'
      BY <1>0, <1>2, <2>1, OthersKept DEF Start, restVars
    <2> QED BY <1>0, <1>2, <2>1, <2>2, <2>3, StepOf DEF Start, restVars
  <1> QED BY <1>1, <1>2

(* Every step of every replica, and the passing of time.                   *)
LEMMA InductiveStep == IInv /\ [Next]_vars => IInv'
  <1> SUFFICES ASSUME IInv, [Next]_vars PROVE IInv'
    OBVIOUS
  <1>1. ASSUME NEW r \in Replicas, Step(r) \/ SweepStep(r) PROVE IInv'
    BY <1>1, ReserveSteps, FinalizeSteps, ExpirySteps, AnswerStep, SweepSteps
    DEF Step, CallStep, SweepStep
  <1>2. ASSUME NEW r \in Replicas, Crash(r) \/ Start(r) PROVE IInv'
    BY <1>2, ProcessSteps
  <1>3. CASE AdvanceClock \/ Quiescent \/ UNCHANGED vars
    <2>1. UNCHANGED <<dbVars, idCounter, up, pc, op, sweep>> /\ clock' \in {clock, clock + 1}
      BY <1>3 DEF AdvanceClock, Quiescent, vars, restVars
    <2>2. TablesInv' /\ RowsKept
      BY <2>1, NoStatement DEF IInv
    <2>3. ProcessTypes'
      BY <2>1 DEF IInv, ProcessTypes
    <2> QED BY <2>1, <2>2, <2>3, OthersKept DEF IInv
  <1> QED BY <1>1, <1>2, <1>3 DEF Next

(* The seeded tables and idle replicas satisfy the invariant.              *)
LEMMA InitialStep == Init => IInv
  <1> SUFFICES ASSUME Init PROVE IInv
    OBVIOUS
  <1>1. item \in Item
    BY DurableAssumption DEF Init, Seeded, Item
  <1>2. TablesInv
    BY <1>1 DEF Init, TablesInv
  <1>3. ProcessTypes
    BY IdleCall DEF Init, ProcessTypes
  <1>4. \A r \in Replicas : CallOK(r)
    BY IdleCall DEF Init, CallOK, LapsedBy
  <1> QED BY <1>2, <1>3, <1>4 DEF IInv

(* In every reachable state the tables satisfy their CHECKs, with each row *)
(* on the right side of its expiry, and each call works on stored rows.    *)
THEOREM Invariance == Spec => []IInv
  BY InitialStep, InductiveStep, PTL DEF Spec

(* The counters stay in the range of the CHECKs and no call loses the row  *)
(* it works on, with any number of replicas, crashes and faults.           *)
THEOREM DurableTypeCorrect == Spec => []DurableTypeOK
  <1>1. IInv => DurableTypeOK
    <2> SUFFICES ASSUME IInv PROVE DurableTypeOK
      OBVIOUS
    <2>1. \A i \in DOMAIN rows : rows[i].state \in ReservationStates
      BY DEF IInv, TablesInv, Row
    <2>2. \A k \in DOMAIN outbox : outbox[k].type \in EventTypes
      <3>1. \A k \in DOMAIN outbox : outbox[k] \in Event
        BY DEF IInv, TablesInv
      <3> QED BY <3>1 DEF Event
    <2>3. \A r \in Replicas : op[r].todo \cup sweep[r].todo \subseteq DOMAIN rows
      BY DEF IInv, CallOK, LapsedBy
    <2>4. \A r \in Replicas : pc[r] \in {"fetch", "decide", "finish"} => op[r].res \in DOMAIN rows
      BY DEF IInv, CallOK, InTime
    <2> QED BY <2>1, <2>2, <2>3, <2>4 DEF IInv, TablesInv, Item, DurableTypeOK
  <1> QED BY <1>1, Invariance, PTL

(* No row is confirmed at or after its expiry nor expired before it: each  *)
(* decision is on the right side of an expiry that no later upsert moves.  *)
THEOREM WindowsRespected == Spec => []WindowRespected
  <1>1. IInv => WindowRespected
    BY DEF IInv, TablesInv, RowOK, WindowRespected
  <1> QED BY <1>1, Invariance, PTL

(* A terminal row moves to no other terminal state, since the CHECKs       *)
(* refuse a second timestamp; only a reused id makes it Active.            *)
THEOREM TerminalExclusion == Spec => TerminalStatesExclusive
  <1> DEFINE Exclusive ==
        \A i \in DOMAIN rows :
          rows[i].state \in TerminalStates /\ rows'[i].state # rows[i].state
            => /\ rows'[i].state = "Active"
               /\ \E r \in Replicas : pc[r] = "save" /\ op[r].res = i
  <1>1. IInv /\ [Next]_vars => [Exclusive]_vars
    <2> SUFFICES ASSUME IInv, Next PROVE Exclusive \/ TerminalKept
      BY DEF TerminalKept
    <2>1. ASSUME NEW r \in Replicas, SaveReserved(r) PROVE Exclusive \/ TerminalKept
      <3>1. CASE SaveReservation(op[r].res, op[r].now, op[r].now + Hold)
        <4>1. TablesInv /\ op[r].res \in Nat \ {0} /\ op[r].now \in Int /\ op[r].now + Hold \in Int
          BY <2>1, CallTyped DEF IInv, SaveReserved, Goto, CallOK
        <4>2. pc[r] = "save"
          BY <2>1 DEF SaveReserved, Goto
        <4> QED BY <3>1, <4>1, <4>2, SaveStatement
      <3>2. CASE UNCHANGED dbVars
        BY <3>2, NoStatement DEF IInv
      <3> QED BY <2>1, <3>1, <3>2 DEF SaveReserved, Attempt
    <2>2. ASSUME NEW r \in Replicas, Finish(r) PROVE TerminalKept
      <3>1. TablesInv /\ InTime(op[r]) /\ op[r].now \in Int
        BY <2>2, CallTyped DEF IInv, Finish, Goto, CallOK
      <3> QED BY <2>2, <3>1, NoStatement, FinishStatement DEF Finish, Attempt, InTime
    <2>3. ASSUME NEW r \in Replicas,
                 \/ BeginReserve(r) \/ ListStale(r) \/ CheckStock(r) \/ HoldUnit(r)
                 \/ BeginFinalize(r) \/ Fetch(r) \/ Decide(r) \/ Answer(r)
                 \/ BeginExpiry(r) \/ Release(r) \/ AppendEventStep(r) \/ ConfirmExpiryDone(r)
                 \/ SweepStep(r) \/ Crash(r) \/ Start(r)
          PROVE  TerminalKept
      <3>1. rows' = rows
        BY <2>3
        DEF BeginReserve, ListStale, CheckStock, HoldUnit, BeginFinalize, Fetch, Decide, Answer,
            BeginExpiry, Release, AppendEventStep, ConfirmExpiryDone, SweepStep, ListSweep,
            LockSweep, UnlockSweep, Crash, Start, Begin, Query, Attempt, dbVars,
            UpdateProduct, AddProduct, AppendEvent
      <3> QED BY <3>1 DEF TerminalKept
    <2>4. CASE AdvanceClock \/ Quiescent
      BY <2>4 DEF AdvanceClock, Quiescent, vars, dbVars, TerminalKept
    <2> QED BY <2>1, <2>2, <2>3, <2>4 DEF Next, Step, CallStep
  <1> QED BY <1>1, Invariance, PTL DEF Spec, TerminalStatesExclusive

=============================================================================
