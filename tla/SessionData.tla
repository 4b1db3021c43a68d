---------------------------- MODULE SessionData ----------------------------
(***************************************************************************)
(* The data of a session (Session::sessionMap_), used by the handlers of   *)
(* several loops at once under the session's mutex, beside the attributes  *)
(* of a request (Attributes), which only its own handler uses.             *)
(*                                                                         *)
(* A value is [type, n], n counting what modify() did to it.               *)
(* An operation locks the mutex, looks the key up, acts, and unlocks.     *)
(***************************************************************************)
EXTENDS Integers, Sequences, FiniteSets

CONSTANTS
  Handlers,
  Keys,
  Types,
  MaxOps       \* bound of the model: operations begun

VARIABLES
  mutex,       \* the holder of mutex_, or "free"
  ops,         \* what each thread is in: [op, key, type, at, found]
  data,        \* sessionMap_
  got,         \* what each thread's last get or modify handler was given
  increments,  \* finished modify() calls that counted, per key, since the key appeared
  attributes,  \* attributesMap_ of the request of each thread
  begun

sessionDataVars == <<mutex, ops, data, got, increments, attributes, begun>>

Operations == {"get", "modify", "insert", "erase", "clear", "find"}
Resting == [op |-> "none", at |-> "rest"]
Default(type) == [type |-> type, n |-> 0]

Put(map, key, value) ==
  [k \in DOMAIN map \cup {key} |-> IF k = key THEN value ELSE map[k]]
Drop(map, keys) == [k \in DOMAIN map \ keys |-> map[k]]

DataInit ==
  /\ mutex = "free"
  /\ ops = [t \in Handlers |-> Resting]
  /\ data = [k \in {} |-> 0]
  /\ got = [t \in Handlers |-> Default("none")]
  /\ increments = [k \in Keys |-> 0]
  /\ attributes = [t \in Handlers |-> [k \in {} |-> 0]]
  /\ begun = 0

Begin(t) ==
  /\ ops[t].at = "rest" /\ begun < MaxOps
  /\ \E op \in Operations : \E key \in Keys : \E type \in Types :
       ops' = [ops EXCEPT ![t] = [op |-> op, key |-> key, type |-> type, at |-> "lock"]]
  /\ begun' = begun + 1
  /\ UNCHANGED <<mutex, data, got, increments, attributes>>

\* Mutant: the lock is not waited for.
LockFree(t) == TRUE

\* std::lock_guard<std::mutex> lck(mutex_)
Lockable(t) == mutex = "free"

Lock(t) ==
  /\ ops[t].at = "lock" /\ Lockable(t)
  /\ mutex' = t
  /\ ops' = [ops EXCEPT ![t].at = "find"]
  /\ UNCHANGED <<data, got, increments, attributes, begun>>

\* sessionMap_.find(key), and what the handler or the caller is given: the value, or a
\* new one if there is none.
Lookup(t) ==
  /\ ops[t].at = "find"
  /\ got' = [got EXCEPT ![t] =
               IF ops[t].key \in DOMAIN data THEN data[ops[t].key] ELSE Default(ops[t].type)]
  /\ ops' = [ops EXCEPT ![t].at = IF ops[t].key \in DOMAIN data THEN "known" ELSE "unknown"]
  /\ UNCHANGED <<mutex, data, increments, attributes, begun>>

Done(t) ==
  /\ ops' = [ops EXCEPT ![t] = Resting]
  /\ mutex' = "free"
At(t, op) == ops[t].op = op /\ ops[t].at \in {"known", "unknown"}

\* std::map::insert leaves a key that is there.
Inserts(t) == ops[t].at = "unknown"

insert(t) ==
  /\ At(t, "insert")
  /\ data' = IF Inserts(t) THEN Put(data, ops[t].key, Default(ops[t].type)) ELSE data
  /\ Done(t)
  /\ UNCHANGED <<got, increments, attributes, begun>>

\* typeid(T) == it->second.type()
Fits(t) == got[t].type = ops[t].type

\* modify: the handler counts one up.
modify(t) ==
  /\ At(t, "modify")
  /\ IF Fits(t)
     THEN /\ data' = Put(data, ops[t].key, [type |-> ops[t].type, n |-> got[t].n + 1])
          /\ increments' = [increments EXCEPT ![ops[t].key] = @ + 1]
     ELSE UNCHANGED <<data, increments>>
  /\ Done(t)
  /\ UNCHANGED <<got, attributes, begun>>

\* get, getOptional, find: another type gives the default value.
get(t) ==
  /\ At(t, "get") \/ At(t, "find")
  /\ got' = [got EXCEPT ![t] = IF Fits(t) THEN @ ELSE Default(ops[t].type)]
  /\ Done(t)
  /\ UNCHANGED <<data, increments, attributes, begun>>

erase(t) ==
  /\ At(t, "erase") \/ At(t, "clear")
  /\ LET gone == IF ops[t].op = "erase" THEN {ops[t].key} ELSE Keys
     IN  /\ data' = Drop(data, gone)
         /\ increments' = [k \in Keys |-> IF k \in gone THEN 0 ELSE increments[k]]
  /\ Done(t)
  /\ UNCHANGED <<got, attributes, begun>>

\* Attributes: insert replaces; get of another type gives the default.
AttributeInsert(t, key, type) ==
  attributes' = [attributes EXCEPT ![t] = Put(@, key, Default(type))]
AttributeErase(t, keys) ==
  attributes' = [attributes EXCEPT ![t] = Drop(@, keys)]
UseAttributes(t) ==
  /\ ops[t].at = "rest" /\ begun < MaxOps
  /\ \/ \E key \in Keys : \E type \in Types : AttributeInsert(t, key, type)
     \/ \E keys \in {{k} : k \in Keys} \cup {Keys} : AttributeErase(t, keys)
  /\ begun' = begun + 1
  /\ UNCHANGED <<mutex, ops, data, got, increments>>

DataNext ==
  \E t \in Handlers :
    \/ Begin(t) \/ Lock(t) \/ Lookup(t)
    \/ insert(t) \/ modify(t) \/ get(t) \/ erase(t)
    \/ UseAttributes(t)

DataSpec == DataInit /\ [][DataNext]_sessionDataVars

-----------------------------------------------------------------------------
\* "The changing of the data is protected by the mutex of the session": what the
\* handlers of modify() count up is what is stored, whatever other loops do meanwhile.
NoLostModify ==
  \A k \in Keys : increments[k] = IF k \in DOMAIN data THEN data[k].n ELSE 0

=============================================================================
