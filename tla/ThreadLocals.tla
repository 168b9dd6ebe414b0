---------------------------- MODULE ThreadLocals ----------------------------
(***************************************************************************)
(* Singleton.h, ThreadLocal.h and ThreadLocalSingleton.h of muduo/base:    *)
(* one object for the process, made under pthread_once and deleted by an   *)
(* atexit handler, and one for each thread, kept under a pthread key whose *)
(* destructor deletes it when the thread ends.                             *)
(*                                                                         *)
(* When a thread ends, the destructor of the object under one key may      *)
(* still ask for the object under the other; pthread then goes round the   *)
(* keys again.  Objects are numbered as they are made.                     *)
(***************************************************************************)
EXTENDS Integers, FiniteSets

CONSTANTS Threads,    \* the threads that main starts and joins
          MaxObjects, \* bound of the model: objects of each kind
          NULL

VARIABLES
  ponce_, value_,     \* of Singleton: "init", "running" or "done"; an object, or NULL
  runner,             \* the threads in pthread_once, and in Singleton::init
  pkey_,              \* of ThreadLocal: each thread's value, or NULL
  t_value_, deleter_, \* of ThreadLocalSingleton: the thread's object, and its pthread key's value
  stage,              \* of each thread: "runs", "ends" or "gone"
  alive, deleted,     \* objects that are there, and the bag of those deleted
  process             \* "runs", "exits" or "gone"

vars == <<ponce_, value_, runner, pkey_, t_value_, deleter_, stage, alive, deleted, process>>

\* An object is what it is for, the thread it belongs to, and its number.
Object(kind, t) ==
  [kind |-> kind, thread |-> t,
   n |-> 1 + Cardinality({o \in alive \cup DOMAIN deleted : o.kind = kind /\ o.thread = t})]
None == [o \in {} |-> 0]

Init ==
  /\ ponce_ = "init" /\ value_ = NULL /\ runner = {}
  /\ pkey_ = [t \in Threads |-> NULL] /\ t_value_ = [t \in Threads |-> NULL]
  /\ deleter_ = [t \in Threads |-> NULL]
  /\ stage = [t \in Threads |-> "runs"] /\ alive = {} /\ deleted = None /\ process = "runs"

Delete(o) ==
  /\ alive' = alive \ {o}
  /\ deleted' = [d \in DOMAIN deleted \cup {o} |->
                   (IF d \in DOMAIN deleted THEN deleted[d] ELSE 0) + (IF d = o THEN 1 ELSE 0)]

\* A thread may run code of its own, and the destructors of its objects when it ends.
Runs(t) == stage[t] # "gone" /\ process = "runs"
Few(kind, t) == Object(kind, t).n <= MaxObjects
-----------------------------------------------------------------------------
(* Singleton *)

\* pthread_once runs init in one thread; the others wait until it has returned.
MayInit == ponce_ = "init"

\* instance() and init(), up to new T()
onceBegin(t) ==
  /\ Runs(t) /\ MayInit
  /\ ponce_' = "running" /\ runner' = runner \cup {t}
  /\ UNCHANGED <<value_, pkey_, t_value_, deleter_, stage, alive, deleted, process>>

\* value_ = new T(), and atexit(destroy)
onceEnd(t) ==
  /\ t \in runner
  /\ LET o == Object("Singleton", t) IN value_' = o /\ alive' = alive \cup {o}
  /\ ponce_' = "done" /\ runner' = runner \ {t}
  /\ UNCHANGED <<pkey_, t_value_, deleter_, stage, deleted, process>>

\* destroy(), when main returns
destroy ==
  /\ process = "exits"
  /\ IF ponce_ = "done" THEN Delete(value_) /\ value_' = NULL ELSE UNCHANGED <<value_, alive, deleted>>
  /\ process' = "gone"
  /\ UNCHANGED <<ponce_, runner, pkey_, t_value_, deleter_, stage>>

-----------------------------------------------------------------------------
(* ThreadLocal and ThreadLocalSingleton *)

\* ThreadLocal::value(), when the thread has no object yet
value(t) ==
  /\ Runs(t) /\ t \notin runner /\ pkey_[t] = NULL /\ Few("ThreadLocal", t)
  /\ LET o == Object("ThreadLocal", t)
     IN pkey_' = [pkey_ EXCEPT ![t] = o] /\ alive' = alive \cup {o}
  /\ UNCHANGED <<ponce_, value_, runner, t_value_, deleter_, stage, deleted, process>>

\* ThreadLocalSingleton::instance(), when the thread has no object yet, with Deleter::set
instance(t) ==
  /\ Runs(t) /\ t \notin runner /\ t_value_[t] = NULL /\ Few("ThreadLocalSingleton", t)
  /\ LET o == Object("ThreadLocalSingleton", t)
     IN /\ t_value_' = [t_value_ EXCEPT ![t] = o] /\ alive' = alive \cup {o}
        /\ deleter_' = [deleter_ EXCEPT ![t] = o]
  /\ UNCHANGED <<ponce_, value_, runner, pkey_, stage, deleted, process>>

\* The thread's function returns; pthread then calls the destructors of its keys that
\* have a value, and sets that to NULL first.
endThread(t) ==
  /\ stage[t] = "runs" /\ process = "runs" /\ t \notin runner
  /\ stage' = [stage EXCEPT ![t] = "ends"]
  /\ UNCHANGED <<ponce_, value_, runner, pkey_, t_value_, deleter_, alive, deleted, process>>

\* ThreadLocal::destructor
destructor(t) ==
  /\ stage[t] = "ends" /\ t \notin runner /\ pkey_[t] # NULL
  /\ Delete(pkey_[t]) /\ pkey_' = [pkey_ EXCEPT ![t] = NULL]
  /\ UNCHANGED <<ponce_, value_, runner, t_value_, deleter_, stage, process>>

\* t_value_ = 0
forgotten(t) == [t_value_ EXCEPT ![t] = NULL]

\* ThreadLocalSingleton::destructor
destructorSingleton(t) ==
  /\ stage[t] = "ends" /\ t \notin runner /\ deleter_[t] # NULL
  /\ Delete(t_value_[t]) /\ t_value_' = forgotten(t)
  /\ deleter_' = [deleter_ EXCEPT ![t] = NULL]
  /\ UNCHANGED <<ponce_, value_, runner, pkey_, stage, process>>

\* No key has a value: the thread is gone, and may be joined.
gone(t) ==
  /\ stage[t] = "ends" /\ t \notin runner /\ pkey_[t] = NULL /\ deleter_[t] = NULL
  /\ stage' = [stage EXCEPT ![t] = "gone"]
  /\ UNCHANGED <<ponce_, value_, runner, pkey_, t_value_, deleter_, alive, deleted, process>>

\* main has joined its threads, and returns.
exit ==
  /\ process = "runs" /\ \A t \in Threads : stage[t] = "gone"
  /\ process' = "exits"
  /\ UNCHANGED <<ponce_, value_, runner, pkey_, t_value_, deleter_, stage, alive, deleted>>

Next ==
  \/ \E t \in Threads : \/ onceBegin(t) \/ onceEnd(t) \/ value(t) \/ instance(t) \/ endThread(t)
                        \/ destructor(t) \/ destructorSingleton(t) \/ gone(t)
  \/ exit \/ destroy

Spec == Init /\ [][Next]_vars
-----------------------------------------------------------------------------
(* Properties *)

\* The types of the members, and of the threads' stages.
TypeOK ==
  /\ ponce_ \in {"init", "running", "done"} /\ runner \subseteq Threads
  /\ stage \in [Threads -> {"runs", "ends", "gone"}] /\ process \in {"runs", "exits", "gone"}

\* Every pointer a call may hand out is NULL or points to a living object of its own
\* kind and thread, at every moment of a thread's end, and the pthread key has the
\* thread's own object, as "assert(obj == t_value_);" says; the process has one Singleton;
\* nothing is deleted twice, and nothing is left when the process is gone
\* (Singleton.h:33-63, ThreadLocal.h:36-58, ThreadLocalSingleton.h:25-48).
OneObjectEach ==
  /\ value_ \in alive \cup {NULL}
  /\ Cardinality({o \in alive : o.kind = "Singleton"}) <= 1
  /\ \A t \in Threads :
       /\ pkey_[t] = NULL \/ (pkey_[t] \in alive /\ pkey_[t].thread = t)
       /\ t_value_[t] = NULL \/ (t_value_[t] \in alive /\ t_value_[t].thread = t)
       /\ deleter_[t] = t_value_[t]
       /\ \A kind \in {"ThreadLocal", "ThreadLocalSingleton"} :
            Cardinality({o \in alive : o.kind = kind /\ o.thread = t}) <= 1
  /\ \A o \in DOMAIN deleted : deleted[o] = 1
  /\ process = "gone" => alive = {}
=============================================================================
