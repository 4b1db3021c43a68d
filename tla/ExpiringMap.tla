---------------------------- MODULE ExpiringMap ----------------------------
(***************************************************************************)
(* What CacheMap promises to its callers, with no wheels, no buckets, no   *)
(* locks and no reference counts: a key with a timeout stays at least that *)
(* long after its last access and is gone at most one second later; a task *)
(* runs once, within the same limits.                                      *)
(***************************************************************************)
EXTENDS Integers

CONSTANTS Keys, TaskIds, Timeouts, None

VARIABLES
  timeout,   \* None for a key that is absent; 0 for one that never expires
  tasks,     \* the tasks that have not run yet
  rest       \* seconds each key and each task is still entitled to

\* What is left of the time of a key that has expired, or of a task that ran;
\* one that a caller removed has 0.
Spent == -1

vars == <<timeout, tasks, rest>>

Expires(k) == timeout[k] # None /\ timeout[k] > 0
Waiting    == {k \in Keys : Expires(k)} \cup tasks

Init ==
  /\ timeout = [k \in Keys |-> None]
  /\ tasks = {}
  /\ rest = [o \in Keys \cup TaskIds |-> 0]

Put(k, d) ==
  /\ timeout[k] = None
  /\ timeout' = [timeout EXCEPT ![k] = d]
  /\ rest' = [rest EXCEPT ![k] = d]
  /\ UNCHANGED tasks

\* An access never takes time away.
Access(k, d) ==
  /\ Expires(k)
  /\ d >= rest[k]
  /\ rest' = [rest EXCEPT ![k] = d]
  /\ UNCHANGED <<timeout, tasks>>

Remove(k) ==
  /\ timeout[k] # None
  /\ timeout' = [timeout EXCEPT ![k] = None]
  /\ rest' = [rest EXCEPT ![k] = 0]
  /\ UNCHANGED tasks

Expire(k) ==
  /\ Expires(k)
  /\ rest[k] <= 0
  /\ timeout' = [timeout EXCEPT ![k] = None]
  /\ rest' = [rest EXCEPT ![k] = Spent]
  /\ UNCHANGED tasks

Schedule(e, d) ==
  /\ e \notin tasks
  /\ tasks' = tasks \cup {e}
  /\ rest' = [rest EXCEPT ![e] = d]
  /\ UNCHANGED timeout

Run(e) ==
  /\ e \in tasks
  /\ rest[e] <= 0
  /\ tasks' = tasks \ {e}
  /\ rest' = [rest EXCEPT ![e] = Spent]
  /\ UNCHANGED timeout

\* One second passes.  Nothing may be more than one second overdue; a key that
\* is being accessed meanwhile does not age.
Second(accessed) ==
  LET aging == Waiting \ accessed
  IN  /\ \A o \in aging : rest[o] >= 0
      /\ rest' = [o \in Keys \cup TaskIds |->
                    IF o \in aging THEN rest[o] - 1 ELSE rest[o]]
      /\ UNCHANGED <<timeout, tasks>>

\* The object is destroyed: every task still waiting runs.
Destroy ==
  /\ timeout' = [k \in Keys |-> None]
  /\ tasks' = {}
  /\ rest' = [o \in Keys \cup TaskIds |-> 0]

Next ==
  \/ \E k \in Keys, d \in Timeouts : Put(k, d) \/ Access(k, d)
  \/ \E k \in Keys : Remove(k) \/ Expire(k)
  \/ \E e \in TaskIds, d \in Timeouts : Schedule(e, d)
  \/ \E e \in TaskIds : Run(e)
  \/ \E accessed \in {{}} \cup {{k} : k \in Keys} : Second(accessed)
  \/ Destroy

Spec == Init /\ [][Next]_vars
=============================================================================
