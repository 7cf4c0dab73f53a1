------------------------------ MODULE Singleton ------------------------------
(***************************************************************************)
(* getInstance of examples/DesignPattern/Singleton/safe_use: the pointer is *)
(* looked at without the mutex, again under it, and set there, before the   *)
(* mutex is free.  It is a shared_ptr, whose count follows its pointer: who  *)
(* copies it in between holds one that is not counted, which harms nobody    *)
(* while the static pointer lives, and is left out.                         *)
(***************************************************************************)
EXTENDS Naturals

CONSTANTS Caller, None

ASSUME CallerAssumption == None \notin Caller

VARIABLES m_instance_ptr,   \* the number of the instance, 0 for nullptr
          mutex,            \* the caller that holds m_mutex
          at,               \* per caller: its line of getInstance
          instance,         \* per caller: what it got
          made              \* the instances constructed

singletonVars == <<m_instance_ptr, mutex, at, instance, made>>

SingletonInit ==
    /\ m_instance_ptr = 0 /\ mutex = None /\ made = 0
    /\ at = [t \in Caller |-> "look"] /\ instance = [t \in Caller |-> 0]

Look(t) ==
    /\ at[t] = "look"
    /\ at' = [at EXCEPT ![t] = IF m_instance_ptr = 0 THEN "lock" ELSE "return"]
    /\ UNCHANGED <<m_instance_ptr, mutex, instance, made>>

LockMutex(t) ==
    /\ at[t] = "lock" /\ mutex = None
    /\ mutex' = t
    /\ at' = [at EXCEPT ![t] = "again"]
    /\ UNCHANGED <<m_instance_ptr, instance, made>>

Missing_Assumed == TRUE
Missing == m_instance_ptr = 0

LookAgain(t) ==
    /\ at[t] = "again"
    /\ IF Missing THEN at' = [at EXCEPT ![t] = "new"] /\ UNCHANGED mutex
                  ELSE at' = [at EXCEPT ![t] = "return"] /\ mutex' = None
    /\ UNCHANGED <<m_instance_ptr, instance, made>>

Construct(t) ==
    /\ at[t] = "new"
    /\ made' = made + 1
    /\ m_instance_ptr' = made + 1
    /\ at' = [at EXCEPT ![t] = "unlock"]
    /\ UNCHANGED <<mutex, instance>>

Unlock(t) ==
    /\ at[t] = "unlock"
    /\ mutex' = None
    /\ at' = [at EXCEPT ![t] = "return"]
    /\ UNCHANGED <<m_instance_ptr, instance, made>>

Return(t) ==
    /\ at[t] = "return"
    /\ instance' = [instance EXCEPT ![t] = m_instance_ptr]
    /\ at' = [at EXCEPT ![t] = "done"]
    /\ UNCHANGED <<m_instance_ptr, mutex, made>>

SingletonNext ==
    \E t \in Caller : \/ Look(t) \/ LockMutex(t) \/ LookAgain(t)
                      \/ Construct(t) \/ Unlock(t) \/ Return(t)

------------------------------------------------------------------------------
(* Properties. *)

\* However many callers meet in the first getInstance, one instance is made, all of
\* them get it and none a null pointer; and nobody leaves while it holds m_mutex.
OneInstance ==
    /\ made <= 1
    /\ \A t \in Caller : at[t] = "done" => instance[t] = 1 /\ mutex # t
==============================================================================
