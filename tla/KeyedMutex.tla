------------------------------ MODULE KeyedMutex ------------------------------
(***************************************************************************)
(* What infrastructure.LockManager promises its users: one mutex per key,  *)
(* held by one thread at a time, from the moment it begins the function it *)
(* has passed to With until it ends it, and independent of the other keys. *)
(***************************************************************************)
CONSTANTS Threads, Keys, NoThread, NoKey

VARIABLES
  owner,   \* key -> the thread its mutex is locked by, or NoThread
  inside   \* thread -> the key under which it runs its function, or NoKey

mutexVars == <<owner, inside>>

Init ==
  /\ owner = [k \in Keys |-> NoThread]
  /\ inside = [t \in Threads |-> NoKey]

Enter(t, k) ==
  /\ inside[t] = NoKey /\ owner[k] = NoThread
  /\ owner' = [owner EXCEPT ![k] = t]
  /\ inside' = [inside EXCEPT ![t] = k]

\* The thread ends its function and gives back the mutex it has entered with.
Leave(t, k) ==
  /\ inside[t] = k /\ owner[k] = t
  /\ owner' = [owner EXCEPT ![k] = NoThread]
  /\ inside' = [inside EXCEPT ![t] = NoKey]

Next == \E t \in Threads, k \in Keys : Enter(t, k) \/ Leave(t, k)

Spec == Init /\ [][Next]_mutexVars

=============================================================================
