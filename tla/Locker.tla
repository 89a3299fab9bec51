------------------------------- MODULE Locker -------------------------------
(***************************************************************************)
(* Locker (message_queue/locker.ts): a Redlock lock per key on one Redis.  *)
(* A lock is a Redis key with a random value and a time to live; only the  *)
(* holder of the value can delete it, and Redis deletes it by itself when  *)
(* the time to live is over, whatever the holder is doing.                 *)
(***************************************************************************)

CONSTANTS
    Owners,   \* who may hold a lock
    Keys,     \* the lock ids
    Free      \* null value: no Redis key

VARIABLE lock \* lock[k]: the holder whose value is stored under k

LockTypeOK == lock \in [Keys -> Owners \cup {Free}]

LockInit == lock = [k \in Keys |-> Free]

LockIsFree(k) == lock[k] = Free

\* redLock.acquire succeeds: SET key value NX PX ttl.
Acquire(o, k) ==
    /\ LockIsFree(k)
    /\ lock' = [lock EXCEPT ![k] = o]

\* Variant for the mutation check: unlock deletes the key without comparing values.
ReleaseAny(o, k) == lock' = [lock EXCEPT ![k] = Free]

\* lock.unlock: delete the key if it still holds our value. Redlock rejects when it
\* does not, and Locker.lock swallows that: for the caller both are a return.
Release(o, k) == lock' = [lock EXCEPT ![k] = IF @ = o THEN Free ELSE @]

\* The time to live is over.
Expire(k) ==
    /\ lock[k] # Free
    /\ lock' = [lock EXCEPT ![k] = Free]
=============================================================================
