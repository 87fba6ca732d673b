--------------------------- MODULE KVServer_proofs ----------------------------
(***************************************************************************)
(* Proofs about KVRegistry and KVServer, for any number of names, buckets, *)
(* callers, connections, keys and restarts: the table, the monitors and    *)
(* the DOWN messages always agree (IInv), a process that calls a bucket    *)
(* calls the one its name stands for (HInv), and the service implements    *)
(* KVStore, one step of the store or none for each of its own (SInv and    *)
(* OneName).                                                               *)
(***************************************************************************)
EXTENDS KVServer, TLAPS

-----------------------------------------------------------------------------
(* The registry *)

\* What the invariants rest on: nothing of a registry outlives it; buckets end
\* with their supervisor; a DOWN message is for a monitored bucket that is dead;
\* the bucket and the name of an unfinished create are in no table yet.
Bookkeeping ==
  /\ phase \in {"noBuckets", "down", "stopped"} => alive = {}
  /\ ~RegistryUp => downs = {} /\ handling = {} /\ refs = NoRefs
  /\ \A b \in downs : refs[b] # None /\ b \notin alive
  /\ \A b \in Buckets : refs[b] # None => b \in started
  /\ \A h \in handling :
       h.bucket \in started /\ refs[h.bucket] = None /\ names[h.name] = None
  /\ \A g, h \in handling : g = h

IInv == TypeOK /\ Bookkeeping /\ NoLeak /\ TablesAgree /\ StaleIsDue

LEMMA InitInv == Init => IInv
BY RegistryAssumption DEF Init, IInv, TypeOK, Bookkeeping, NoLeak, TablesAgree,
  StaleIsDue, Stale, RegistryUp, NoNames, NoRefs, Phases, Calls

\* Callers and messages: nothing but calls and call changes.
LEMMA CallersKeepInv ==
  ASSUME IInv, NEW c \in Callers,
         Take(c) \/ Timeout(c) \/ (\E n \in Names : Create(c, n))
  PROVE  IInv'
<1>1. TypeOK'
  BY DEF IInv, TypeOK, Take, Timeout, Create, Calls
<1>2. (Bookkeeping /\ NoLeak /\ TablesAgree /\ StaleIsDue)'
  BY DEF IInv, Take, Timeout, Create, Bookkeeping, NoLeak, TablesAgree,
    StaleIsDue, Stale, RegistryUp
<1> QED BY <1>1, <1>2 DEF IInv

LEMMA CreateFoundKeepsInv ==
  ASSUME IInv, NEW m \in calls, CreateFound(m)
  PROVE  IInv'
<1>1. TypeOK'
  BY DEF IInv, TypeOK, CreateFound, Known, Reply, Calls
<1>2. (Bookkeeping /\ NoLeak /\ TablesAgree /\ StaleIsDue)'
  BY DEF IInv, CreateFound, Bookkeeping, NoLeak, TablesAgree, StaleIsDue, Stale,
    RegistryUp
<1> QED BY <1>1, <1>2 DEF IInv

LEMMA CreateStartKeepsInv ==
  ASSUME IInv, NEW m \in calls, CreateStart(m)
  PROVE  IInv'
<1>1. PICK b \in Buckets \ started :
        /\ started' = started \cup {b}
        /\ alive' = alive \cup {b}
        /\ handling' = {[from |-> m.from, name |-> m.name, bucket |-> b]}
  BY DEF CreateStart
<1>2. m \in Calls /\ phase = "up" /\ names[m.name] = None
  BY DEF CreateStart, Known, IInv, TypeOK
<1>3. TypeOK'
  BY <1>1, <1>2 DEF IInv, TypeOK, CreateStart, Calls
<1>4. Bookkeeping'
  BY <1>1, <1>2 DEF IInv, TypeOK, CreateStart, Bookkeeping, RegistryUp, Calls
<1>5. NoLeak'
  BY <1>1, <1>2 DEF IInv, CreateStart, NoLeak
<1>6. (TablesAgree /\ StaleIsDue)'
  <2>1. \A n \in Names : names[n] # b
    BY <1>1, <1>2, RegistryAssumption DEF IInv, TypeOK, TablesAgree, Bookkeeping, RegistryUp
  <2> QED BY <1>1, <1>2, <2>1
        DEF IInv, TypeOK, CreateStart, TablesAgree, StaleIsDue, Stale, RegistryUp
<1> QED BY <1>3, <1>4, <1>5, <1>6 DEF IInv

LEMMA RegisterKeepsInv ==
  ASSUME IInv, NEW h \in handling, Register(h)
  PROVE  IInv'
<1>1. h \in [from : Callers, name : Names, bucket : Buckets] /\ h.bucket \in started
  BY DEF IInv, TypeOK, Bookkeeping
<1>2. /\ refs[h.bucket] = None /\ names[h.name] = None
      /\ handling = {h} /\ RegistryUp
  BY DEF IInv, Bookkeeping, Register
<1>3. TypeOK'
  BY <1>1 DEF IInv, TypeOK, Register, Monitored, Reply
<1>4. Bookkeeping'
  BY <1>1, <1>2, RegistryAssumption
    DEF IInv, TypeOK, Register, Monitored, Bookkeeping, RegistryUp
<1>5. NoLeak'
  BY <1>1, <1>2, RegistryAssumption DEF IInv, TypeOK, Register, NoLeak
<1>6. TablesAgree'
  BY <1>1, <1>2, RegistryAssumption
    DEF IInv, TypeOK, Register, TablesAgree, RegistryUp
<1>7. StaleIsDue'
  BY <1>1, <1>2 DEF IInv, TypeOK, Register, Monitored, StaleIsDue, Stale, RegistryUp
<1> QED BY <1>3, <1>4, <1>5, <1>6, <1>7 DEF IInv

LEMMA DownKeepsInv ==
  ASSUME IInv, NEW b \in downs, Down(b)
  PROVE  IInv'
<1>1. b \in Buckets /\ refs[b] \in Names /\ b \notin alive /\ RegistryUp
  BY DEF IInv, TypeOK, Bookkeeping, Down
<1>2. names[refs[b]] = b
  BY <1>1 DEF IInv, TablesAgree
<1>3. TypeOK'
  BY <1>1 DEF IInv, TypeOK, Down, Deleted
<1>4. Bookkeeping'
  BY <1>1 DEF IInv, TypeOK, Down, Deleted, Bookkeeping, RegistryUp
<1>5. NoLeak'
  BY <1>1, <1>2, RegistryAssumption DEF IInv, TypeOK, Down, Deleted, NoLeak
<1>6. TablesAgree'
  BY <1>1, <1>2, RegistryAssumption
    DEF IInv, TypeOK, Down, Deleted, TablesAgree, RegistryUp
<1>7. StaleIsDue'
  BY <1>1, <1>2 DEF IInv, TypeOK, Down, Deleted, StaleIsDue, Stale, RegistryUp, TablesAgree
<1> QED BY <1>3, <1>4, <1>5, <1>6, <1>7 DEF IInv

LEMMA BucketEndsKeepsInv ==
  ASSUME IInv, NEW b \in alive, BucketEnds(b)
  PROVE  IInv'
<1>1. TypeOK'
  BY DEF IInv, TypeOK, BucketEnds, Dies
<1>2. Bookkeeping'
  BY DEF IInv, TypeOK, BucketEnds, Dies, Bookkeeping, RegistryUp
<1>3. (NoLeak /\ TablesAgree)'
  BY DEF IInv, TypeOK, BucketEnds, Dies, NoLeak, TablesAgree, RegistryUp
<1>4. StaleIsDue'
  BY RegistryAssumption
    DEF IInv, TypeOK, BucketEnds, Dies, TablesAgree, StaleIsDue, Stale, RegistryUp
<1> QED BY <1>1, <1>2, <1>3, <1>4 DEF IInv

\* The registry ends, in whichever way.
LEMMA RegistryEndsKeepsInv ==
  ASSUME IInv, NEW next \in {"noRegistry", "down"}, RegistryEnds(next),
         next = "down" => phase = "noBuckets"
  PROVE  IInv'
<1>1. TypeOK'
  BY RegistryAssumption
    DEF IInv, TypeOK, RegistryEnds, NoRefs, Waiting, Phases
<1>2. (Bookkeeping /\ NoLeak /\ TablesAgree /\ StaleIsDue)'
  BY DEF IInv, RegistryEnds, Bookkeeping, NoLeak, TablesAgree, StaleIsDue,
    RegistryUp, NoRefs
<1> QED BY <1>1, <1>2 DEF IInv

LEMMA SupervisorKeepsInv ==
  ASSUME IInv, SupervisorCrash \/ TerminateBuckets \/ Restart
  PROVE  IInv'
<1>1. CASE SupervisorCrash
  <2>1. TypeOK'
    BY <1>1 DEF IInv, TypeOK, SupervisorCrash, Dies, Phases
  <2>2. Bookkeeping'
    BY <1>1 DEF IInv, TypeOK, SupervisorCrash, Dies, Bookkeeping, RegistryUp
  <2>3. (NoLeak /\ TablesAgree)'
    BY <1>1 DEF IInv, SupervisorCrash, Dies, NoLeak, TablesAgree, RegistryUp
  <2>4. StaleIsDue'
    BY <1>1, RegistryAssumption
      DEF IInv, TypeOK, SupervisorCrash, Dies, TablesAgree, StaleIsDue, Stale, RegistryUp
  <2> QED BY <2>1, <2>2, <2>3, <2>4 DEF IInv
<1>2. CASE TerminateBuckets
  BY <1>2 DEF IInv, TypeOK, TerminateBuckets, Strategy, Dies, Phases,
    Bookkeeping, NoLeak, TablesAgree, StaleIsDue, RegistryUp
<1>3. CASE Restart
  <2>1. alive = {} /\ handling = {} /\ downs = {} /\ refs = NoRefs
    BY <1>3 DEF IInv, Restart, Bookkeeping, RegistryUp
  <2>2. TypeOK'
    BY <1>3, RegistryAssumption
      DEF IInv, TypeOK, Restart, WithinIntensity, Phases, NoNames
  <2>3. (Bookkeeping /\ NoLeak)'
    BY <1>3, <2>1 DEF IInv, Restart, Bookkeeping, NoLeak, RegistryUp, NoRefs
  <2>4. (TablesAgree /\ StaleIsDue)'
    BY <1>3, <2>1, RegistryAssumption
      DEF Restart, TablesAgree, StaleIsDue, Stale, RegistryUp, NoNames, NoRefs
  <2> QED BY <2>2, <2>3, <2>4 DEF IInv
<1> QED BY <1>1, <1>2, <1>3

LEMMA NextKeepsInv == IInv /\ [Next]_regVars => IInv'
<1> SUFFICES ASSUME IInv, [Next]_regVars PROVE IInv'
  OBVIOUS
<1>1. CASE Registry
  <2>1. ASSUME NEW m \in calls, CreateFails(m) PROVE IInv'
    BY <2>1, RegistryEndsKeepsInv DEF CreateFails
  <2> QED BY <1>1, <2>1, CreateFoundKeepsInv, CreateStartKeepsInv,
        RegisterKeepsInv, DownKeepsInv DEF Registry, Handle
<1>2. CASE Supervisor
  BY <1>2, SupervisorKeepsInv, RegistryEndsKeepsInv DEF Supervisor, TerminateRegistry
<1>3. CASE Faults
  BY <1>3, BucketEndsKeepsInv, SupervisorKeepsInv, RegistryEndsKeepsInv
    DEF Faults, RegistryCrash
<1>4. CASE \E c \in Callers : Take(c) \/ Timeout(c) \/ \E n \in Names : Create(c, n)
  BY <1>4, CallersKeepInv
<1>5. CASE UNCHANGED regVars
  BY <1>5 DEF regVars, IInv, TypeOK, Bookkeeping, NoLeak, TablesAgree, StaleIsDue,
    Stale, RegistryUp
<1> QED BY <1>1, <1>2, <1>3, <1>4, <1>5 DEF Next

\* IInv is an invariant of the registry.
THEOREM Inductive == Spec => []IInv
<1> QED BY InitInv, NextKeepsInv, PTL DEF Spec

\* No running bucket is lost while the application is up (registry.ex:14-28,
\* supervisor.ex:16).
THEOREM BucketsAreFound == Spec => []NoLeak
<1>1. IInv => NoLeak BY DEF IInv
<1> QED BY <1>1, Inductive, PTL

\* The table and the monitors name the same buckets (registry.ex:14-35).
THEOREM TableMatchesMonitors == Spec => []TablesAgree
<1>1. IInv => TablesAgree BY DEF IInv
<1> QED BY <1>1, Inductive, PTL

\* A dead bucket in the table has its DOWN message on the way (registry.ex:23).
THEOREM StaleEntriesAreDue == Spec => []StaleIsDue
<1>1. IInv => StaleIsDue BY DEF IInv
<1> QED BY <1>1, Inductive, PTL

LEMMA StepKeepsName ==
  ASSUME IInv, Next, NEW n \in Names, names[n] \in alive \cap alive'
  PROVE  names'[n] = names[n]
<1>1. names[n] \in Buckets /\ names[n] # None
  BY RegistryAssumption DEF IInv, TypeOK
<1>2. ASSUME NEW h \in handling, Register(h) PROVE names'[n] = names[n]
  BY <1>1, <1>2 DEF IInv, TypeOK, Bookkeeping, Register
<1>3. ASSUME NEW b \in downs, Down(b) PROVE names'[n] = names[n]
  BY <1>1, <1>3 DEF IInv, TypeOK, Bookkeeping, TablesAgree, Down, Deleted
<1>4. CASE Restart
  BY <1>4 DEF IInv, Bookkeeping, Restart
<1> QED BY <1>2, <1>3, <1>4 DEF Next, Registry, Handle, Supervisor, Faults, Take, Timeout,
      Create, CreateFound, CreateStart, CreateFails, TerminateRegistry,
      TerminateBuckets, RegistryCrash, RegistryEnds, SupervisorCrash, BucketEnds

\* A running bucket keeps its name (registry.ex:14-35): a late DOWN message of
\* an earlier bucket does not take the name away.
THEOREM RunningBucketKeepsName == Spec => LiveKeepsName
<1>1. IInv /\ [Next]_regVars =>
        [\A n \in Names : names[n] \in alive \cap alive' => names'[n] = names[n]]_regVars
  BY StepKeepsName DEF regVars
<1> QED BY <1>1, Inductive, PTL DEF Spec, LiveKeepsName

-----------------------------------------------------------------------------
(* The service *)

\* What a process that calls a bucket has looked up.
Holding(c) ==
  /\ task[c] \in {"call", "late"}
  /\ cmd[c].op \in {"get", "put", "delete"} /\ cmd[c].name \in Names
  /\ held[c] \in started
  /\ held[c] \in alive => names[cmd[c].name] = held[c]

HInv ==
  /\ IInv
  /\ task \in [Callers -> {"none", "recv", "wait", "call", "late", "ended"}]
  /\ cmd \in [Callers -> Commands \cup {NoCmd}]
  /\ held \in [Callers -> Buckets \cup {None}]
  /\ \A c \in Callers : held[c] # None => Holding(c)

LEMMA ServerInitOK == ServerInit => HInv
BY InitInv DEF ServerInit, HInv, NoCmd

\* Commands by their kinds.
LEMMA CommandKinds ==
  \A m \in Commands :
    m.op \in {"create", "get", "put", "delete"} => m.name \in Names
BY DEF Commands

\* A bucket that runs after a step ran before it, or was made by it.
LEMMA NoneRevives ==
  ASSUME IInv, Registry \/ Supervisor \/ Faults \/ (\E c \in Callers : Timeout(c))
  PROVE  started \subseteq started' /\ alive' \cap started \subseteq alive
<1>1. ASSUME NEW m \in calls, CreateStart(m)
      PROVE  started \subseteq started' /\ alive' \cap started \subseteq alive
  BY <1>1 DEF CreateStart
<1>. QED
  BY <1>1 DEF Registry, Handle, CreateFound, CreateFails, Register, Down, Supervisor,
    TerminateRegistry, TerminateBuckets, Strategy, Restart, Faults, BucketEnds, RegistryCrash,
    SupervisorCrash, RegistryEnds, Dies, Timeout

\* What the application does by itself.
LEMMA ApplicationKeeps ==
  ASSUME HInv,
         Registry \/ Supervisor \/ Faults \/ (\E c \in Callers : Timeout(c)),
         UNCHANGED <<task, cmd, held>>
  PROVE  HInv'
<1>1. IInv' /\ Next
  BY NextKeepsInv DEF HInv, Next
<1>2. started \subseteq started' /\ alive' \cap started \subseteq alive
  BY NoneRevives DEF HInv
<1>3. ASSUME NEW c \in Callers, held[c] # None PROVE Holding(c)'
  <2>1. Holding(c)
    BY <1>3 DEF HInv
  <2>2. held[c] \in alive' => names'[cmd[c].name] = held[c]
    BY <1>1, <1>2, <2>1, StepKeepsName DEF HInv, Holding
  <2>. QED
    BY <1>2, <2>1, <2>2 DEF Holding
<1>. QED
  BY <1>1, <1>3 DEF HInv

\* The registry's invariant does not depend on which calls have exited.
LEMMA CallOnly ==
  ASSUME IInv, UNCHANGED regRest, call' \in [Callers -> Buckets \cup {"idle", "waiting", "exited"}]
  PROVE  IInv'
BY DEF regRest, IInv, TypeOK, Bookkeeping, NoLeak, TablesAgree, StaleIsDue, Stale, RegistryUp

\* Killed processes leave what they hold as it was.
LEMMA KillKeeps ==
  ASSUME HInv, NEW S \in SUBSET {c \in Callers : task[c] # "late"}, Kill(S),
         UNCHANGED regRest, UNCHANGED <<cmd, held>>
  PROVE  HInv'
<1>1. IInv'
  <2>1. call' \in [Callers -> Buckets \cup {"idle", "waiting", "exited"}]
    BY DEF HInv, IInv, TypeOK, Kill
  <2>. QED
    BY <2>1, CallOnly DEF HInv
<1>2. task' \in [Callers -> {"none", "recv", "wait", "call", "late", "ended"}]
  BY DEF HInv, Kill
<1>3. ASSUME NEW c \in Callers, held[c] # None PROVE Holding(c)'
  <2>1. Holding(c)
    BY <1>3 DEF HInv
  <2>2. task'[c] \in {"call", "late"}
    BY <2>1 DEF Holding, Kill
  <2>. QED
    BY <2>1, <2>2 DEF Holding, regRest
<1>. QED
  BY <1>1, <1>2, <1>3 DEF HInv

\* A step of one process that holds nothing, before and after it.
LEMMA EmptyHandedKeeps ==
  ASSUME HInv, NEW c \in Callers, IInv', UNCHANGED <<names, started, alive>>,
         held' = [held EXCEPT ![c] = None],
         NEW t \in {"none", "recv", "wait", "call", "late", "ended"}, task' = [task EXCEPT ![c] = t],
         NEW m \in Commands \cup {NoCmd}, cmd' = [cmd EXCEPT ![c] = m]
  PROVE  HInv'
BY DEF HInv, Holding

LEMMA ProcessKeeps ==
  ASSUME HInv, NEW c \in Callers,
         Process(c) \/ Ask(c) \/ Accept(c) \/ RecvFails(c) \/ CallTimeout(c)
  PROVE  HInv'
<1> USE DEF HInv
<1>1. held[c] # None => task[c] \in {"call", "late"} /\ cmd[c] # NoCmd
  BY DEF Holding, NoCmd
<1>2. /\ task[c] \notin {"call", "late"} => held = [held EXCEPT ![c] = None]
      /\ task = [task EXCEPT ![c] = task[c]] /\ cmd = [cmd EXCEPT ![c] = cmd[c]]
      /\ cmd[c] \in Commands \cup {NoCmd} /\ task[c] \in {"none", "recv", "wait", "call", "late", "ended"}
  BY <1>1
<1>3. UNCHANGED regVars => IInv' /\ UNCHANGED <<names, started, alive>>
  BY NextKeepsInv DEF regVars
<1>4. CASE ReadUnknown(c)
  BY <1>2, <1>3, <1>4, EmptyHandedKeeps DEF ReadUnknown, Reads, Answer
<1>5. CASE ReadCreate(c)
  <2>1. IInv'
    BY <1>5, CallersKeepInv, CommandKinds DEF ReadCreate, Reads, NoCmd
  <2>. QED
    BY <1>2, <1>5, <2>1, EmptyHandedKeeps DEF ReadCreate, Reads, Become, Create
<1>6. CASE CreateDone(c)
  <2>1. IInv'
    BY <1>6, CallersKeepInv DEF CreateDone
  <2>. QED
    BY <1>2, <1>6, <2>1, EmptyHandedKeeps DEF CreateDone, Become, Answer, Take
<1>7. CASE CreateExits(c)
  BY <1>2, <1>3, <1>7, EmptyHandedKeeps DEF CreateExits, Become
<1>8. CASE Lookup(c)
  <2>1. /\ task[c] = "recv" /\ cmd[c].op \in {"get", "put", "delete"} /\ UNCHANGED regVars
        /\ cmd[c].name \in Names
    <3>1. task[c] = "recv" /\ cmd[c].op \in {"get", "put", "delete"} /\ UNCHANGED regVars
      BY <1>8 DEF Lookup, Reads
    <3>2. cmd[c] \in Commands
      BY <3>1 DEF NoCmd
    <3>. QED
      BY <3>1, <3>2, CommandKinds
  <2>2. CASE Become(c, "ended") /\ UNCHANGED <<cmd, held>>
    BY <1>2, <1>3, <2>1, <2>2, EmptyHandedKeeps DEF Become
  <2>3. CASE Answer(c, "NOT FOUND") /\ UNCHANGED <<task, held>>
    BY <1>2, <1>3, <2>1, <2>3, EmptyHandedKeeps DEF Answer
  <2>4. CASE /\ RegistryUp /\ names[cmd[c].name] # None
             /\ held' = [held EXCEPT ![c] = names[cmd[c].name]]
             /\ Become(c, "call") /\ UNCHANGED cmd
    <3>1. names[cmd[c].name] \in started
      <4>1. names[cmd[c].name] \in Buckets
        BY <2>1, <2>4 DEF IInv, TypeOK
      <4>2. refs[names[cmd[c].name]] = cmd[c].name
        BY <2>1, <2>4, <4>1 DEF IInv, TablesAgree
      <4>. QED
        BY <2>1, <4>1, <4>2, RegistryAssumption DEF IInv, Bookkeeping
    <3>2. task' = [task EXCEPT ![c] = "call"]
      BY <2>4 DEF Become
    <3>3. UNCHANGED <<names, started, alive>> /\ IInv'
      BY <1>3, <2>1
    <3>4. held' \in [Callers -> Buckets \cup {None}]
      BY <3>1, <2>4 DEF IInv, TypeOK
    <3>5. \A d \in Callers : held'[d] # None => Holding(d)'
      BY <2>1, <2>4, <3>1, <3>2, <3>3 DEF Holding
    <3>. QED
      BY <2>4, <3>2, <3>3, <3>4, <3>5
  <2>. QED
    BY <1>8, <2>2, <2>3, <2>4 DEF Lookup
<1>9. CASE CallBucket(c)
  <2>1. UNCHANGED regVars /\ held' = [held EXCEPT ![c] = None]
    BY <1>9 DEF CallBucket
  <2>2. CASE Become(c, "recv") /\ cmd' = [cmd EXCEPT ![c] = NoCmd]
    BY <1>3, <2>1, <2>2, EmptyHandedKeeps DEF Become
  <2>3. CASE Become(c, "ended") /\ UNCHANGED cmd
    BY <1>2, <1>3, <2>1, <2>3, EmptyHandedKeeps DEF Become
  <2>. QED
    BY <1>9, <2>2, <2>3 DEF CallBucket, Answer
<1>10. CASE CallExits(c)
  BY <1>2, <1>3, <1>10, EmptyHandedKeeps DEF CallExits, Become
<1>11. CASE RecvEnds(c) \/ RecvFails(c)
  BY <1>2, <1>3, <1>11, EmptyHandedKeeps DEF RecvEnds, RecvFails, Become
<1>12. CASE Ask(c)
  BY <1>1, <1>3, <1>12 DEF Ask, Holding
<1>13. CASE Accept(c)
  BY <1>2, <1>3, <1>13, EmptyHandedKeeps DEF Accept
<1>14. CASE CallTimeout(c)
  BY <1>3, <1>14 DEF CallTimeout, Become, Holding
<1>. QED
  BY <1>4, <1>5, <1>6, <1>7, <1>8, <1>9, <1>10, <1>11, <1>12, <1>13, <1>14 DEF Process

LEMMA ServerStepOK == HInv /\ [ServerNext]_vars => HInv'
<1> SUFFICES ASSUME HInv, [ServerNext]_vars PROVE HInv'
  OBVIOUS
<1>1. CASE Application(Registry \/ Supervisor \/ Faults) \/ \E c \in Callers : Application(Timeout(c))
  BY <1>1, ApplicationKeeps DEF Application
<1>2. ASSUME NEW c \in Callers,
             Process(c) \/ Ask(c) \/ Accept(c) \/ RecvFails(c) \/ CallTimeout(c)
      PROVE  HInv'
  BY <1>2, ProcessKeeps
<1>3. CASE HandOver \/ AcceptFails
  <2>1. {} \in SUBSET {c \in Callers : task[c] # "late"} /\ Own \in SUBSET {c \in Callers : task[c] # "late"}
    BY DEF Own
  <2>. QED
    BY <1>3, <2>1, KillKeeps DEF HandOver, AcceptFails
<1>4. CASE Relist
  <2>1. /\ {} \in SUBSET {c \in Callers : task[c] # "late"}
        /\ {c \in Callers : task[c] \notin {"none", "late"}} \in SUBSET {c \in Callers : task[c] # "late"}
    OBVIOUS
  <2>. QED
    BY <1>4, <2>1, KillKeeps DEF Relist
<1>5. CASE UNCHANGED <<regVars, task, cmd, held>>
  <2>1. IInv'
    BY <1>5, NextKeepsInv DEF HInv
  <2>. QED
    BY <1>5, <2>1 DEF HInv, Holding, regVars
<1>. QED
  BY <1>1, <1>2, <1>3, <1>4, <1>5 DEF ServerNext, Acceptor, Connect, Close, vars, srvVars

\* No command is carried out on a bucket that others cannot find any more: what
\* a process looked up stays the bucket of that name while it runs, whatever
\* creates, DOWN messages and restarts come in between (command.ex:66-79).
THEOREM BucketsInUseAreNamed == ServerSpec => []HeldIsNamed
<1>1. HInv => HeldIsNamed
  BY RegistryAssumption DEF HInv, Holding, HeldIsNamed, IInv, TypeOK
<1>. QED
  BY ServerInitOK, ServerStepOK, <1>1, PTL DEF ServerSpec

-----------------------------------------------------------------------------
(* The refinement of KVStore *)

\* A create that is under way is of a process that waits for it or was killed
\* while it did; each process has at most one.
Requests ==
  /\ \A m \in calls \cup handling :
       /\ task[m.from] \in {"wait", "ended"} /\ call[m.from] \in {"waiting", "exited"}
       /\ cmd[m.from] = [op |-> "create", name |-> m.name]
  /\ \A m, k \in calls : m.from = k.from => m = k
  /\ \A m \in calls, h \in handling : m.from # h.from
  /\ \A c \in Callers :
       /\ call[c] # "idle" => task[c] \in {"wait", "ended"}
       /\ call[c] = "waiting" => task[c] = "wait"
       /\ task[c] = "wait" => call[c] # "idle" /\ cmd[c].op = "create"

\* Only buckets that run have content, and none before they can be found.
Contents ==
  /\ data \in [Buckets -> [Keys -> Values \cup {None}]]
  /\ \A b \in Buckets \ alive : data[b] = Empty
  /\ \A h \in handling : data[h.bucket] = Empty
  /\ DOMAIN out = Callers

SInv == HInv /\ Requests /\ Contents

\* Messages are from callers; the bucket of an unfinished create is in no table.
LEMMA MessageFacts ==
  ASSUME IInv
  PROVE  /\ \A m \in calls : m.from \in Callers /\ m.name \in Names
         /\ \A h \in handling :
              /\ h.from \in Callers /\ h.name \in Names /\ h.bucket \in Buckets
              /\ handling = {h} /\ RegistryUp
              /\ \A n \in Names : names[n] # h.bucket
<1>1. /\ \A m \in calls : m.from \in Callers /\ m.name \in Names
      /\ \A h \in handling : h.from \in Callers /\ h.name \in Names /\ h.bucket \in Buckets
  BY DEF IInv, TypeOK, Calls
<1>2. \A h \in handling : handling = {h} /\ RegistryUp /\ refs[h.bucket] = None
  BY DEF IInv, Bookkeeping
<1>3. ASSUME NEW h \in handling, NEW n \in Names, names[n] = h.bucket PROVE FALSE
  BY <1>1, <1>2, <1>3, RegistryAssumption DEF IInv, TablesAgree
<1>. QED
  BY <1>1, <1>2, <1>3

\* The registry answers, or goes on with, one message.
LEMMA AnswersKeepRequests ==
  ASSUME IInv, Requests, UNCHANGED <<task, cmd>>, NEW c \in Callers,
         NEW b \in Buckets, Reply(c, b),
         ~Sent(c)', calls' \subseteq calls, handling' \subseteq handling
  PROVE  Requests'
<1>1. /\ \A d \in Callers \ {c} : call'[d] = call[d]
      /\ call'[c] = IF call[c] = "waiting" THEN b ELSE call[c]
  BY DEF Reply, IInv, TypeOK
<1>2. b \notin {"idle", "waiting", "exited"}
  BY RegistryAssumption
<1>3. \A m \in calls' \cup handling' : m \in calls \cup handling /\ m.from \in Callers \ {c}
  BY MessageFacts DEF Sent
<1>. QED
  BY <1>1, <1>2, <1>3 DEF Requests

\* The application's own steps.
LEMMA ApplicationKeepsRequests ==
  ASSUME IInv, Requests, UNCHANGED <<task, cmd>>,
         Registry \/ Supervisor \/ Faults \/ (\E c \in Callers : Timeout(c))
  PROVE  Requests'
<1>1. ASSUME NEW m \in calls, CreateFound(m) PROVE Requests'
  <2>1. m.from \in Callers /\ names[m.name] \in Buckets
    BY <1>1, MessageFacts DEF CreateFound, Known, IInv, TypeOK
  <2>2. calls' = calls \ {m} /\ handling' = handling /\ Reply(m.from, names[m.name])
    BY <1>1 DEF CreateFound
  <2>3. ~Sent(m.from)'
    BY <2>2 DEF Sent, Requests
  <2>. QED
    BY <2>1, <2>2, <2>3, AnswersKeepRequests
<1>2. ASSUME NEW m \in calls, CreateStart(m) PROVE Requests'
  <2>1. PICK b : /\ handling' = {[from |-> m.from, name |-> m.name, bucket |-> b]}
                 /\ calls' = calls \ {m} /\ call' = call
    BY <1>2 DEF CreateStart
  <2>. QED
    BY <2>1 DEF Requests
<1>3. ASSUME NEW h \in handling, Register(h) PROVE Requests'
  <2>1. h.from \in Callers /\ h.bucket \in Buckets
    BY MessageFacts
  <2>2. calls' = calls /\ handling' = {} /\ Reply(h.from, h.bucket)
    BY <1>3 DEF Register
  <2>3. ~Sent(h.from)'
    BY <2>2 DEF Sent, Requests
  <2>. QED
    BY <2>1, <2>2, <2>3, AnswersKeepRequests
<1>4. ASSUME NEW next, RegistryEnds(next) PROVE Requests'
  BY <1>4 DEF RegistryEnds, Requests, Waiting
<1>5. ASSUME NEW c \in Callers, Timeout(c) PROVE Requests'
  BY <1>5 DEF Timeout, Requests, IInv, TypeOK
<1>6. ASSUME UNCHANGED <<calls, handling, call>> PROVE Requests'
  BY <1>6 DEF Requests
<1>7. CASE Registry
  BY <1>1, <1>2, <1>3, <1>4, <1>6, <1>7 DEF Registry, Handle, CreateFails, Down
<1>8. CASE Supervisor
  BY <1>4, <1>6, <1>8 DEF Supervisor, TerminateRegistry, TerminateBuckets, Restart
<1>9. CASE Faults
  BY <1>4, <1>6, <1>9 DEF Faults, RegistryCrash, SupervisorCrash, BucketEnds
<1>. QED
  BY <1>5, <1>7, <1>8, <1>9

LEMMA KillKeepsRequests ==
  ASSUME IInv, Requests, NEW S \in SUBSET Callers, \A c \in S : task[c] # "late", Kill(S),
         UNCHANGED <<calls, handling, cmd>>
  PROVE  Requests'
<1>1. \A c \in Callers :
        /\ task'[c] = IF c \in S THEN (IF task[c] = "call" THEN "late" ELSE "ended") ELSE task[c]
        /\ call'[c] = IF c \in S /\ call[c] = "waiting" THEN "exited" ELSE call[c]
  BY DEF Kill, Waiting
<1>. QED
  BY <1>1, MessageFacts DEF Requests

\* A step of one process, which has no message with the registry afterwards
\* unless it still waits or has been killed.
LEMMA ProcessKeepsRequests ==
  ASSUME IInv, Requests, NEW c \in Callers, UNCHANGED <<calls, handling>>,
         \A d \in Callers \ {c} : task'[d] = task[d] /\ call'[d] = call[d] /\ cmd'[d] = cmd[d],
         Sent(c) => /\ task'[c] \in {"wait", "ended"} /\ call'[c] \in {"waiting", "exited"}
                    /\ cmd'[c] = cmd[c],
         call'[c] # "idle" => task'[c] \in {"wait", "ended"},
         call'[c] = "waiting" => task'[c] = "wait",
         task'[c] = "wait" => call'[c] # "idle" /\ cmd'[c].op = "create"
  PROVE  Requests'
<1>1. ASSUME NEW m \in calls \cup handling
      PROVE  /\ task'[m.from] \in {"wait", "ended"} /\ call'[m.from] \in {"waiting", "exited"}
             /\ cmd'[m.from] = [op |-> "create", name |-> m.name]
  <2>1. m.from \in Callers
    BY MessageFacts
  <2>2. CASE m.from = c
    <3>1. Sent(c)
      BY <2>2 DEF Sent
    <3>. QED
      BY <2>2, <3>1 DEF Requests
  <2>3. CASE m.from # c
    BY <2>1, <2>3 DEF Requests
  <2>. QED
    BY <2>2, <2>3
<1>. QED
  BY <1>1 DEF Requests

\* What is known of a process by what it does.
LEMMA ProcessFacts ==
  ASSUME SInv, NEW c \in Callers
  PROVE  /\ task[c] \notin {"wait", "ended"} => call[c] = "idle" /\ ~Sent(c)
         /\ call[c] \in Buckets => ~Sent(c)
         /\ Sent(c) => cmd[c].op = "create"
         /\ call[c] \in Buckets \cup {"idle", "waiting", "exited"}
         /\ "idle" \notin Buckets /\ "waiting" \notin Buckets /\ "exited" \notin Buckets
<1>1. Sent(c) => /\ task[c] \in {"wait", "ended"} /\ call[c] \in {"waiting", "exited"}
                 /\ cmd[c].op = "create"
  <2>1. ASSUME NEW m \in calls \cup handling, m.from = c
        PROVE  /\ task[c] \in {"wait", "ended"} /\ call[c] \in {"waiting", "exited"}
               /\ cmd[c] = [op |-> "create", name |-> m.name]
    BY <2>1 DEF SInv, Requests
  <2>2. \A n : [op |-> "create", name |-> n].op = "create"
    OBVIOUS
  <2>. QED
    BY <2>1, <2>2 DEF Sent
<1>. QED
  BY <1>1, RegistryAssumption DEF SInv, Requests, HInv, IInv, TypeOK

LEMMA ServerKeepsRequests ==
  ASSUME SInv, NEW c \in Callers,
         \/ Process(c) \/ Ask(c) \/ Accept(c) \/ RecvFails(c) \/ CallTimeout(c)
  PROVE  Requests'
<1> USE DEF SInv
<1>1. IInv
  BY DEF HInv
<1>2. DOMAIN task = Callers /\ DOMAIN call = Callers /\ DOMAIN cmd = Callers
  BY DEF HInv, IInv, TypeOK
<1>3. CASE ReadUnknown(c)
  BY <1>1, <1>2, <1>3, ProcessFacts, ProcessKeepsRequests DEF ReadUnknown, Reads, Answer, regVars
<1>4. CASE ReadCreate(c)
  <2>1. /\ task[c] = "recv" /\ cmd[c].op = "create" /\ task' = [task EXCEPT ![c] = "wait"] /\ cmd' = cmd
        /\ handling' = handling
        /\ call' = [call EXCEPT ![c] = IF RegistryUp THEN "waiting" ELSE "exited"]
        /\ calls' = IF RegistryUp THEN calls \cup {[from |-> c, name |-> cmd[c].name]} ELSE calls
    BY <1>4 DEF ReadCreate, Reads, Create, Become
  <2>2. cmd[c] = [op |-> "create", name |-> cmd[c].name]
    BY <2>1 DEF HInv, Commands, NoCmd
  <2>3. ~Sent(c)
    BY <2>1, ProcessFacts
  <2>4. \A m \in calls \cup handling : m.from \in Callers \ {c}
    BY <1>1, <2>3, MessageFacts DEF Sent
  <2>5. task'[c] = "wait" /\ call'[c] \in {"waiting", "exited"}
    BY <1>2, <2>1
  <2>6. \A d \in Callers \ {c} : task'[d] = task[d] /\ call'[d] = call[d]
    BY <1>2, <2>1
  <2>. QED
    BY <2>1, <2>2, <2>4, <2>5, <2>6 DEF Requests
<1>5. CASE CreateDone(c)
  BY <1>1, <1>2, <1>5, ProcessFacts, ProcessKeepsRequests DEF CreateDone, Take, Become, Answer
<1>6. CASE CreateExits(c)
  BY <1>1, <1>2, <1>6, ProcessFacts, ProcessKeepsRequests DEF CreateExits, Become, regVars
<1>7. CASE Lookup(c)
  <2>1. task[c] = "recv" /\ cmd[c].op \in {"get", "put", "delete"} /\ UNCHANGED <<calls, handling, call>>
    BY <1>7 DEF Lookup, Reads, regVars
  <2>2. /\ \A d \in Callers \ {c} : task'[d] = task[d] /\ cmd'[d] = cmd[d]
        /\ task'[c] \in {"recv", "ended", "call"}
    BY <1>2, <1>7, <2>1 DEF Lookup, Become, Answer
  <2>. QED
    BY <1>1, <2>1, <2>2, ProcessFacts, ProcessKeepsRequests
<1>8. CASE CallBucket(c)
  <2>1. task[c] \in {"call", "late"} /\ UNCHANGED <<calls, handling, call>>
    BY <1>8 DEF CallBucket, regVars
  <2>2. /\ \A d \in Callers \ {c} : task'[d] = task[d] /\ cmd'[d] = cmd[d]
        /\ task'[c] \in {"recv", "ended"}
    BY <1>2, <1>8 DEF CallBucket, Become, Answer
  <2>. QED
    BY <1>1, <2>1, <2>2, ProcessFacts, ProcessKeepsRequests
<1>9. CASE CallExits(c) \/ CallTimeout(c) \/ RecvEnds(c) \/ RecvFails(c)
  BY <1>1, <1>2, <1>9, ProcessFacts, ProcessKeepsRequests
    DEF CallExits, CallTimeout, RecvEnds, RecvFails, Become, regVars
<1>10. CASE Ask(c)
  <2>1. /\ UNCHANGED <<calls, handling, call, task>> /\ cmd[c] = NoCmd
        /\ \A d \in Callers \ {c} : cmd'[d] = cmd[d]
    BY <1>2, <1>10 DEF Ask, regVars
  <2>2. ~Sent(c) /\ task[c] # "wait"
    BY <2>1, ProcessFacts DEF NoCmd, Requests
  <2>. QED
    BY <1>1, <2>1, <2>2, ProcessKeepsRequests DEF Requests
<1>11. CASE Accept(c)
  BY <1>1, <1>2, <1>11, ProcessFacts, ProcessKeepsRequests DEF Accept, regVars
<1>. QED
  BY <1>3, <1>4, <1>5, <1>6, <1>7, <1>8, <1>9, <1>10, <1>11 DEF Process

LEMMA ApplicationKeepsContents ==
  ASSUME IInv, Contents, NEW A, Application(A),
         A => Registry \/ Supervisor \/ Faults \/ (\E c \in Callers : Timeout(c))
  PROVE  Contents'
<1>1. data' = [b \in Buckets |-> IF b \in alive' THEN data[b] ELSE Empty] /\ out' = out
  BY DEF Application
<1>2. Empty \in [Keys -> Values \cup {None}]
  BY DEF Empty
<1>3. ASSUME NEW h \in handling' PROVE data'[h.bucket] = Empty
  <2>1. CASE h \in handling
    <3>1. h.bucket \in Buckets /\ data[h.bucket] = Empty
      BY <2>1, MessageFacts DEF Contents
    <3>. QED
      BY <1>1, <3>1
  <2>2. CASE h \notin handling
    <3>1. PICK m \in calls : CreateStart(m)
      BY <2>2 DEF Application, Registry, Handle, CreateFound, CreateFails, Register, Down, RegistryEnds,
         Supervisor, TerminateRegistry, TerminateBuckets, Restart,
         Faults, BucketEnds, RegistryCrash, SupervisorCrash, Timeout
    <3>2. PICK b \in Buckets \ started :
            handling' = {[from |-> m.from, name |-> m.name, bucket |-> b]}
      BY <3>1 DEF CreateStart
    <3>3. b \notin alive /\ h.bucket = b
      BY <3>2 DEF IInv, TypeOK
    <3>. QED
      BY <1>1, <3>3 DEF Contents
  <2>. QED
    BY <2>1, <2>2
<1>. QED
  BY <1>1, <1>2, <1>3 DEF Contents

\* Values written have their type.
LEMMA ValueType ==
  ASSUME SInv, NEW c \in Callers, held[c] \in Buckets
  PROVE  Value(held[c], cmd[c]) \in [Keys -> Values \cup {None}]
<1>1. held[c] # None
  BY RegistryAssumption
<1>2. cmd[c].op \in {"get", "put", "delete"} /\ cmd[c] \in Commands
  BY <1>1 DEF SInv, HInv, Holding, NoCmd
<1>3. data[held[c]] \in [Keys -> Values \cup {None}]
  BY DEF SInv, Contents
<1>4. cmd[c].op = "put" => cmd[c].val \in Values
  BY <1>2 DEF Commands
<1>5. CASE cmd[c].op = "get"
  BY <1>3, <1>5 DEF Value
<1>6. CASE cmd[c].op = "put"
  BY <1>3, <1>4, <1>6 DEF Value
<1>7. CASE cmd[c].op = "delete"
  BY <1>3, <1>7 DEF Value
<1>. QED
  BY <1>2, <1>5, <1>6, <1>7

LEMMA ServerKeepsContents ==
  ASSUME SInv, NEW c \in Callers,
         Process(c) \/ Ask(c) \/ Accept(c) \/ RecvFails(c) \/ CallTimeout(c) \/ Connect(c) \/ Close(c)
  PROVE  Contents'
<1>1. CASE CallBucket(c)
  <2>1. /\ held[c] \in alive /\ UNCHANGED <<alive, handling>>
        /\ data' = [data EXCEPT ![held[c]] = Value(held[c], cmd[c])]
        /\ DOMAIN out' = DOMAIN out
    BY <1>1 DEF CallBucket, regVars, Answer
  <2>2. held[c] \in Buckets /\ held[c] # None
    BY <2>1, RegistryAssumption DEF SInv, HInv, IInv, TypeOK
  <2>3. \A h \in handling : h.bucket # held[c]
    <3>1. cmd[c].name \in Names /\ names[cmd[c].name] = held[c]
      BY <2>1, <2>2 DEF SInv, HInv, Holding
    <3>. QED
      BY <3>1, MessageFacts DEF SInv, HInv
  <2>4. Value(held[c], cmd[c]) \in [Keys -> Values \cup {None}]
    BY <2>2, ValueType
  <2>. QED
    BY <2>1, <2>2, <2>3, <2>4 DEF SInv, Contents
<1>2. CASE ReadCreate(c) \/ CreateDone(c)
  BY <1>2 DEF ReadCreate, CreateDone, Create, Take, Answer, SInv, Contents
<1>3. CASE Lookup(c) \/ Ask(c) \/ ReadUnknown(c)
  BY <1>3 DEF Lookup, Ask, ReadUnknown, Answer, regVars, SInv, Contents
<1>4. CASE \/ CreateExits(c) \/ CallExits(c) \/ RecvEnds(c) \/ Accept(c) \/ RecvFails(c)
           \/ CallTimeout(c) \/ Connect(c) \/ Close(c)
  BY <1>4 DEF CreateExits, CallExits, RecvEnds, Accept, RecvFails, CallTimeout, Connect, Close,
     regVars, SInv, Contents
<1>. QED
  BY <1>1, <1>2, <1>3, <1>4 DEF Process

LEMMA InitSInv == ServerInit => SInv
<1> SUFFICES ASSUME ServerInit PROVE SInv
  OBVIOUS
<1>1. HInv
  BY ServerInitOK
<1>2. Requests
  BY DEF ServerInit, Init, Requests
<1>3. Contents
  BY DEF ServerInit, Init, Contents, Empty
<1>. QED
  BY <1>1, <1>2, <1>3 DEF SInv

LEMMA SInvKept == SInv /\ [ServerNext]_vars => SInv'
<1> SUFFICES ASSUME SInv, [ServerNext]_vars PROVE SInv'
  OBVIOUS
<1>1. HInv' /\ IInv
  BY ServerStepOK DEF SInv, HInv
<1>2. CASE Application(Registry \/ Supervisor \/ Faults) \/ \E c \in Callers : Application(Timeout(c))
  <2>1. Contents'
    BY <1>1, <1>2, ApplicationKeepsContents DEF SInv
  <2>2. Requests'
    BY <1>1, <1>2, ApplicationKeepsRequests DEF Application, SInv
  <2>. QED
    BY <1>1, <2>1, <2>2 DEF SInv
<1>3. ASSUME NEW c \in Callers,
             Process(c) \/ Ask(c) \/ Accept(c) \/ RecvFails(c) \/ CallTimeout(c)
      PROVE  SInv'
  BY <1>1, <1>3, ServerKeepsRequests, ServerKeepsContents DEF SInv
<1>4. ASSUME NEW c \in Callers, Connect(c) \/ Close(c) PROVE SInv'
  <2>1. Requests'
    BY <1>4 DEF Connect, Close, regVars, SInv, Requests
  <2>. QED
    BY <1>1, <1>4, <2>1, ServerKeepsContents DEF SInv
<1>5. CASE HandOver \/ AcceptFails \/ Relist
  <2>1. UNCHANGED <<calls, handling, cmd, alive, data, out>>
    BY <1>5 DEF HandOver, AcceptFails, Relist, regRest
  <2>2. PICK S \in SUBSET Callers : Kill(S) /\ \A c \in S : task[c] # "late"
    BY <1>5 DEF HandOver, AcceptFails, Relist, Own
  <2>3. Requests'
    BY <1>1, <2>1, <2>2, KillKeepsRequests DEF SInv
  <2>4. Contents'
    BY <2>1 DEF SInv, Contents
  <2>. QED
    BY <1>1, <2>3, <2>4 DEF SInv
<1>6. CASE UNCHANGED vars
  BY <1>1, <1>6 DEF vars, regVars, srvVars, SInv, Requests, Contents
<1>. QED
  BY <1>2, <1>3, <1>4, <1>5, <1>6 DEF ServerNext, Acceptor

\* No bucket has two names, also while the table is gone.
OneName == \A n, m \in Names : names[n] = names[m] => n = m \/ names[n] = None

LEMMA OneNameKept ==
  ASSUME IInv, IInv', OneName, [ServerNext]_vars
  PROVE  OneName'
<1>1. CASE RegistryUp'
  <2>1. \A n \in Names : names'[n] \in Buckets \cup {None}
    BY DEF IInv, TypeOK
  <2>2. \A n \in Names, b \in Buckets : names'[n] = b <=> refs'[b] = n
    BY <1>1 DEF IInv, TablesAgree
  <2>. QED
    BY <2>1, <2>2 DEF OneName
<1>2. CASE ~RegistryUp'
  <2>1. names' = names
    <3>1. CASE Application(Registry \/ Supervisor \/ Faults) \/ \E c \in Callers : Application(Timeout(c))
      BY <1>2, <3>1 DEF Application, Registry, Handle, CreateFound, CreateStart, CreateFails, Register, Down,
         RegistryEnds, Supervisor, TerminateRegistry, TerminateBuckets, Restart,
         Faults, BucketEnds, RegistryCrash, SupervisorCrash, Timeout, RegistryUp
    <3>2. CASE UNCHANGED regVars \/ UNCHANGED regRest
      BY <3>2 DEF regVars, regRest
    <3>3. ASSUME NEW c \in Callers, Process(c) PROVE names' = names
      BY <3>3 DEF Process, ReadUnknown, ReadCreate, Create, CreateDone, Take, CreateExits, Lookup,
         CallBucket, CallExits, RecvEnds, regVars
    <3>. QED
      BY <3>1, <3>2, <3>3 DEF ServerNext, Acceptor, Accept, HandOver, AcceptFails, Relist, Connect, Ask, Close,
         RecvFails, CallTimeout, vars
  <2>. QED
    BY <2>1 DEF OneName
<1>. QED
  BY <1>1, <1>2

\* What the store's names stand for here.
LEMMA StoreNames ==
  /\ Store!Commands = Commands /\ Store!NoCmd = NoCmd /\ Store!Nil = None
  /\ Store!Absent = [is |-> "absent", map |-> Empty]
  /\ Store!Broken = [is |-> "broken", map |-> Empty]
  /\ Store!Empty = Empty
BY DEF Store!Commands, Commands, Store!NoCmd, NoCmd, Store!Nil, None, Store!Absent, Store!Broken,
   Store!Empty, Empty

\* The cell of a name, by what the table has for it.
LEMMA CellFacts ==
  ASSUME NEW n \in Names, None \notin alive
  PROVE  /\ names[n] = None => cells[n] = Store!Absent
         /\ names[n] \in alive => cells[n] = Store!Live(data[names[n]])
         /\ names[n] \notin alive \cup {None} => cells[n] = Store!Broken
BY StoreNames DEF cells, Stale, Store!Live

LEMMA CellKinds ==
  ASSUME NEW n \in Names, None \notin alive
  PROVE  /\ cells[n] = Store!Absent <=> names[n] = None
         /\ cells[n].is = "live" <=> names[n] \in alive
         /\ cells[n].is = "broken" <=> names[n] \notin alive \cup {None}
<1>1. /\ Store!Absent.is = "absent" /\ Store!Broken.is = "broken"
      /\ \A map : Store!Live(map).is = "live"
  BY DEF Store!Absent, Store!Live, Store!Broken
<1>2. CASE names[n] = None
  BY <1>1, <1>2, CellFacts
<1>3. CASE names[n] \in alive
  <2>1. cells[n].is = "live"
    BY <1>1, <1>3, CellFacts
  <2>. QED
    BY <1>1, <1>3, <2>1
<1>4. CASE names[n] \notin alive \cup {None}
  <2>1. cells[n].is = "broken"
    BY <1>1, <1>4, CellFacts
  <2>. QED
    BY <1>1, <1>4, <2>1
<1>. QED
  BY <1>2, <1>3, <1>4

LEMMA CellsKept ==
  ASSUME UNCHANGED <<names, alive, data>>
  PROVE  cells' = cells
BY DEF cells, Stale

\* Steps that carry nothing out: connections are dropped, commands forgotten.
LEMMA Drops ==
  ASSUME cells' = cells, answered' = answered,
         \A c \in Callers : Dropped(c) => Dropped(c)',
         \A c \in Callers : wanted'[c] = wanted[c] \/ (wanted'[c] = NoCmd /\ Dropped(c)')
  PROVE  Store!Next
<1> DEFINE S == {c \in Callers : ~Dropped(c) /\ Dropped(c)'}
           T == {c \in Callers : wanted'[c] # wanted[c]}
<1>1. S \in SUBSET {c \in Callers : links[c] = "open"}
  BY DEF links
<1>2. links' = [c \in Callers |-> IF c \in S THEN "dropped" ELSE links[c]]
  BY DEF links
<1>3. T \in SUBSET {c \in Callers : links'[c] = "dropped"}
  BY DEF links
<1>4. wanted' = [c \in Callers |-> IF c \in T THEN Store!NoCmd ELSE wanted[c]]
  <2>1. wanted' = [c \in Callers |-> wanted'[c]]
    BY DEF wanted
  <2>2. \A c \in Callers : wanted'[c] = IF c \in T THEN Store!NoCmd ELSE wanted[c]
    BY StoreNames
  <2>. QED
    BY <2>1, <2>2
<1> HIDE DEF S, T
<1>. QED
  BY <1>1, <1>2, <1>3, <1>4 DEF Store!Next, Store!Drop

\* What a step of c does not change of the others.
Others(c) ==
  \A d \in Callers \ {c} :
    /\ task'[d] = task[d] /\ call'[d] = call[d] /\ out'[d] = out[d] /\ cmd'[d] = cmd[d]
    /\ Sent(d)' <=> Sent(d)

LEMMA OneProcess ==
  ASSUME NEW c \in Callers, Others(c)
  PROVE  /\ wanted' = [wanted EXCEPT ![c] = wanted'[c]]
         /\ answered' = [answered EXCEPT ![c] = answered'[c]]
         /\ \A d \in Callers \ {c} : (Dropped(d)' <=> Dropped(d)) /\ wanted'[d] = wanted[d]
<1>1. \A d \in Callers \ {c} :
        wanted'[d] = wanted[d] /\ answered'[d] = answered[d] /\ (Dropped(d)' <=> Dropped(d))
  BY DEF Others, wanted, answered, Dropped
<1>2. wanted' = [d \in Callers |-> wanted'[d]] /\ DOMAIN wanted = Callers
  BY DEF wanted
<1>3. answered' = [d \in Callers |-> answered'[d]] /\ DOMAIN answered = Callers
  BY DEF answered
<1>. QED
  BY <1>1, <1>2, <1>3

LEMMA Quiet ==
  ASSUME NEW c \in Callers, Others(c), cells' = cells,
         Dropped(c) => Dropped(c)', answered'[c] = answered[c],
         wanted'[c] = wanted[c] \/ (wanted'[c] = NoCmd /\ Dropped(c)')
  PROVE  Store!Next
<1>1. answered' = answered
  BY OneProcess DEF answered
<1>. QED
  BY <1>1, OneProcess, Drops

\* Steps that carry the command of c out.
LEMMA CarriesOut ==
  ASSUME NEW c \in Callers, Others(c), Dropped(c)' <=> Dropped(c),
         wanted[c] # NoCmd, wanted'[c] = NoCmd, NEW a,
         answered'[c] = IF Dropped(c) THEN answered[c] ELSE a
  PROVE  Store!Answer(c, a)
<1>1. links' = links
  BY OneProcess DEF links
<1>2. links[c] = "open" <=> ~Dropped(c)
  BY DEF links
<1>3. answered' = IF links[c] = "open" THEN [answered EXCEPT ![c] = a] ELSE answered
  <2>1. answered = [answered EXCEPT ![c] = answered[c]]
    BY DEF answered
  <2>. QED
    BY <1>2, <2>1, OneProcess
<1>4. wanted' = [wanted EXCEPT ![c] = NoCmd]
  BY OneProcess
<1>. QED
  BY <1>1, <1>3, <1>4, StoreNames DEF Store!Answer

\* A process by itself: nothing changes at the registry or in the buckets.
LEMMA ProcessAlone ==
  ASSUME SInv, NEW c \in Callers, UNCHANGED <<calls, handling>>,
         \A d \in Callers \ {c} :
           task'[d] = task[d] /\ call'[d] = call[d] /\ out'[d] = out[d] /\ cmd'[d] = cmd[d]
  PROVE  Others(c) /\ (Sent(c)' <=> Sent(c))
BY DEF Others, Sent

LEMMA Domains ==
  ASSUME SInv
  PROVE  /\ DOMAIN task = Callers /\ DOMAIN cmd = Callers /\ DOMAIN held = Callers
         /\ DOMAIN call = Callers /\ DOMAIN out = Callers
         /\ None \notin alive /\ None \notin Buckets
         /\ IInv /\ HInv /\ Requests /\ Contents
BY RegistryAssumption DEF SInv, HInv, IInv, TypeOK, Contents

\* Steps of a process that carry nothing out.
LEMMA QuietSteps ==
  ASSUME SInv, NEW c \in Callers,
         \/ CreateDone(c) \/ CreateExits(c) \/ CallExits(c) \/ CallTimeout(c)
         \/ RecvEnds(c) \/ RecvFails(c) \/ Accept(c) \/ Connect(c) \/ Close(c)
  PROVE  Store!Next
<1>1. /\ UNCHANGED <<calls, handling, names, alive, data>>
      /\ \A d \in Callers \ {c} :
           task'[d] = task[d] /\ call'[d] = call[d] /\ out'[d] = out[d] /\ cmd'[d] = cmd[d]
  BY Domains DEF CreateDone, CreateExits, CallExits, CallTimeout, RecvEnds, RecvFails, Accept,
     Connect, Close, Take, Become, Answer, regVars
<1>2. Others(c) /\ (Sent(c)' <=> Sent(c)) /\ cells' = cells
  BY <1>1, ProcessAlone, CellsKept
<1>3. /\ Dropped(c) => Dropped(c)'
      /\ answered'[c] = answered[c]
      /\ wanted'[c] = wanted[c] \/ (wanted'[c] = NoCmd /\ Dropped(c)')
  <2>1. CASE CreateDone(c)
    <3>1. /\ task[c] = "wait" /\ call[c] \in Buckets
          /\ task'[c] = "recv" /\ call'[c] = "idle" /\ cmd'[c] = NoCmd /\ out'[c] = "OK"
      BY <2>1, Domains DEF CreateDone, Take, Become, Answer
    <3>. QED
      BY <3>1, ProcessFacts DEF Dropped, answered, wanted
  <2>2. CASE CreateExits(c)
    <3>1. /\ task[c] = "wait" /\ call[c] = "exited"
          /\ task'[c] = "ended" /\ call'[c] = "exited" /\ cmd'[c] = cmd[c] /\ out'[c] = out[c]
      BY <2>2, Domains DEF CreateExits, Become, regVars
    <3>. QED
      BY <1>2, <3>1 DEF Dropped, answered, wanted
  <2>3. CASE CallExits(c) \/ RecvEnds(c) \/ RecvFails(c)
    <3>1. /\ task[c] \in {"call", "recv"} /\ task'[c] = "ended" /\ call'[c] = call[c]
          /\ cmd'[c] = cmd[c] /\ out'[c] = out[c]
      BY <2>3, Domains DEF CallExits, RecvEnds, RecvFails, Become, regVars
    <3>. QED
      BY <1>2, <3>1, ProcessFacts DEF Dropped, answered, wanted
  <2>4. CASE CallTimeout(c)
    <3>1. /\ task[c] = "call" /\ task'[c] = "late" /\ call'[c] = call[c]
          /\ cmd'[c] = cmd[c] /\ out'[c] = out[c]
      BY <2>4, Domains DEF CallTimeout, Become, regVars
    <3>. QED
      BY <1>2, <3>1 DEF Dropped, answered, wanted
  <2>5. CASE Accept(c) \/ Connect(c) \/ Close(c)
    <3>1. /\ task'[c] = task[c] \/ (task[c] = "none" /\ task'[c] = "recv")
          /\ call'[c] = call[c] /\ cmd'[c] = cmd[c] /\ out'[c] = out[c]
      BY <2>5, Domains DEF Accept, Connect, Close, regVars
    <3>. QED
      BY <1>2, <3>1 DEF Dropped, answered, wanted
  <2>. QED
    BY <2>1, <2>2, <2>3, <2>4, <2>5
<1>. QED
  BY <1>2, <1>3, Quiet

\* A process that reads is connected, and has nothing with the registry.
LEMMA ReaderFacts ==
  ASSUME SInv, NEW c \in Callers, task[c] \in {"none", "recv", "call"}
  PROVE  call[c] = "idle" /\ ~Sent(c) /\ ~Dropped(c) /\ wanted[c] = cmd[c] /\ answered[c] = out[c]
BY ProcessFacts DEF Dropped, wanted, answered

LEMMA AskMaps ==
  ASSUME SInv, NEW c \in Callers, Ask(c)
  PROVE  Store!Next
<1>1. /\ ~Dropped(c) /\ cmd[c] = NoCmd /\ UNCHANGED <<calls, handling, call, task, names, alive, data>>
      /\ out' = [out EXCEPT ![c] = None]
  BY DEF Ask, regVars
<1>2. PICK m \in Commands : cmd' = [cmd EXCEPT ![c] = m]
  BY DEF Ask
<1>3. /\ \A d \in Callers \ {c} :
           task'[d] = task[d] /\ call'[d] = call[d] /\ out'[d] = out[d] /\ cmd'[d] = cmd[d]
      /\ cmd'[c] = m /\ out'[c] = None
  BY <1>1, <1>2, Domains
<1>4. Others(c) /\ cells' = cells
  BY <1>1, <1>3, ProcessAlone, CellsKept
<1>5. task[c] \in {"none", "recv", "call"}
  <2>1. task[c] # "wait"
    BY <1>1, Domains DEF Requests, NoCmd
  <2>. QED
    BY <1>1, <2>1 DEF Dropped, SInv, HInv
<1>6. wanted[c] = NoCmd /\ wanted'[c] = m /\ answered'[c] = None /\ links' = links /\ links[c] = "open"
  <2>1. call[c] = "idle" /\ ~Sent(c) /\ wanted[c] = NoCmd
    BY <1>1, <1>5, ReaderFacts
  <2>2. ~Sent(c)'
    BY <1>1, <2>1 DEF Sent
  <2>3. wanted'[c] = m
    BY <1>1, <1>3, <1>5 DEF wanted
  <2>4. answered'[c] = None
    BY <1>1, <1>3, <2>1, ProcessFacts DEF answered
  <2>5. links' = links /\ links[c] = "open"
    BY <1>1 DEF links, Dropped
  <2>. QED
    BY <2>1, <2>3, <2>4, <2>5
<1>7. Store!Ask(c)
  BY <1>4, <1>6, OneProcess, StoreNames DEF Store!Ask
<1>. QED
  BY <1>7 DEF Store!Next

\* The answers a process gives without calling anybody.
LEMMA AnswerMaps ==
  ASSUME SInv, NEW c \in Callers, task[c] = "recv", cmd[c] # NoCmd, NEW a, Answer(c, a),
         UNCHANGED <<calls, handling, call, task, names, alive, data>>
  PROVE  Store!Answer(c, a) /\ cells' = cells
<1>1. /\ \A d \in Callers \ {c} :
           task'[d] = task[d] /\ call'[d] = call[d] /\ out'[d] = out[d] /\ cmd'[d] = cmd[d]
      /\ cmd'[c] = NoCmd /\ out'[c] = a
  BY Domains DEF Answer
<1>2. Others(c) /\ cells' = cells
  BY <1>1, ProcessAlone, CellsKept
<1>3. ~Dropped(c) /\ ~Dropped(c)' /\ wanted[c] # NoCmd /\ wanted'[c] = NoCmd /\ answered'[c] = a
  BY <1>1, ReaderFacts, ProcessFacts DEF Dropped, wanted, answered
<1>. QED
  BY <1>2, <1>3, CarriesOut

LEMMA ReadUnknownMaps ==
  ASSUME SInv, NEW c \in Callers, ReadUnknown(c)
  PROVE  Store!Next
<1>1. /\ task[c] = "recv" /\ cmd[c].op = "unknown" /\ Answer(c, "UNKNOWN COMMAND")
      /\ UNCHANGED <<calls, handling, call, task, names, alive, data>>
  BY DEF ReadUnknown, Reads, regVars
<1>2. cmd[c] # NoCmd
  <2>1. NoCmd.op = "none"
    BY DEF NoCmd
  <2>. QED
    BY <1>1, <2>1
<1>3. wanted[c] = cmd[c]
  BY <1>1, ReaderFacts
<1>4. Store!Unknown(c)
  BY <1>1, <1>2, <1>3, AnswerMaps DEF Store!Unknown
<1>. QED
  BY <1>4 DEF Store!Next

LEMMA ReadCreateMaps ==
  ASSUME SInv, NEW c \in Callers, ReadCreate(c)
  PROVE  Store!Next
<1>1. /\ task[c] = "recv" /\ task' = [task EXCEPT ![c] = "wait"] /\ cmd' = cmd /\ out' = out
      /\ UNCHANGED <<handling, names, alive, data>>
      /\ call' = [call EXCEPT ![c] = IF RegistryUp THEN "waiting" ELSE "exited"]
      /\ calls' = IF RegistryUp THEN calls \cup {[from |-> c, name |-> cmd[c].name]} ELSE calls
  BY DEF ReadCreate, Reads, Create, Become
<1>2. task'[c] = "wait" /\ call'[c] = (IF RegistryUp THEN "waiting" ELSE "exited")
  BY <1>1, Domains
<1>3. ~Sent(c) /\ wanted[c] = cmd[c] /\ answered[c] = out[c] /\ ~Dropped(c)
  BY <1>1, ReaderFacts
<1>4. Sent(c)' <=> RegistryUp
  <2>1. CASE RegistryUp
    <3>1. [from |-> c, name |-> cmd[c].name] \in calls' /\ [from |-> c, name |-> cmd[c].name].from = c
      BY <1>1, <2>1
    <3>. QED
      BY <2>1, <3>1 DEF Sent
  <2>2. CASE ~RegistryUp
    BY <1>1, <1>3, <2>2 DEF Sent
  <2>. QED
    BY <2>1, <2>2
<1>5. Others(c)
  <2>1. ASSUME NEW d \in Callers \ {c}
        PROVE  task'[d] = task[d] /\ call'[d] = call[d] /\ out'[d] = out[d] /\ cmd'[d] = cmd[d]
    BY <1>1, Domains
  <2>2. ASSUME NEW d \in Callers \ {c} PROVE Sent(d)' <=> Sent(d)
    <3>1. \A m : m \in calls' /\ m.from = d <=> m \in calls /\ m.from = d
      BY <1>1
    <3>. QED
      BY <1>1, <3>1 DEF Sent
  <2>. QED
    BY <2>1, <2>2 DEF Others
<1>6. cells' = cells
  BY <1>1, CellsKept
<1>7. /\ answered'[c] = answered[c]
      /\ wanted'[c] = wanted[c] \/ (wanted'[c] = NoCmd /\ Dropped(c)')
  BY <1>1, <1>2, <1>3, <1>4, ProcessFacts DEF answered, wanted, Dropped
<1>. QED
  BY <1>3, <1>5, <1>6, <1>7, Quiet

LEMMA LookupMaps ==
  ASSUME SInv, NEW c \in Callers, Lookup(c)
  PROVE  Store!Next
<1>1. /\ task[c] = "recv" /\ cmd[c].op \in {"get", "put", "delete"}
      /\ UNCHANGED <<calls, handling, call, names, alive, data>>
  BY DEF Lookup, Reads, regVars
<1>2. /\ wanted[c] = cmd[c] /\ answered[c] = out[c] /\ call[c] = "idle"
      /\ ~Sent(c) /\ ~Dropped(c)
  BY <1>1, ReaderFacts
<1>3. CASE names[cmd[c].name] = None /\ Answer(c, "NOT FOUND") /\ UNCHANGED task
  <2>1. cmd[c] # NoCmd /\ cmd[c].name \in Names
    <3>1. NoCmd.op = "none"
      BY DEF NoCmd
    <3>2. cmd[c] # NoCmd
      BY <1>1, <3>1
    <3>. QED
      BY <1>1, <3>2, Domains, CommandKinds DEF HInv
  <2>2. cells[cmd[c].name] = Store!Absent
    BY <1>3, <2>1, CellFacts, Domains
  <2>3. Store!Answer(c, "NOT FOUND") /\ cells' = cells
    BY <1>1, <1>3, <2>1, AnswerMaps
  <2>4. Store!NotFound(c)
    BY <1>1, <1>2, <2>2, <2>3 DEF Store!NotFound
  <2>. QED
    BY <2>4 DEF Store!Next
<1>4. CASE (Become(c, "ended") \/ Become(c, "call")) /\ UNCHANGED <<cmd, out>>
  <2>1. /\ \A d \in Callers \ {c} :
             task'[d] = task[d] /\ call'[d] = call[d] /\ out'[d] = out[d] /\ cmd'[d] = cmd[d]
        /\ task'[c] \in {"ended", "call"} /\ call'[c] = "idle" /\ cmd'[c] = cmd[c] /\ out'[c] = out[c]
    BY <1>1, <1>2, <1>4, Domains DEF Become
  <2>2. Others(c) /\ ~Sent(c)' /\ cells' = cells
    BY <1>1, <1>2, <2>1, ProcessAlone, CellsKept
  <2>3. /\ answered'[c] = answered[c]
        /\ wanted'[c] = wanted[c] \/ (wanted'[c] = NoCmd /\ Dropped(c)')
    BY <1>2, <2>1, <2>2, ProcessFacts DEF answered, wanted, Dropped
  <2>. QED
    BY <1>2, <2>2, <2>3, Quiet
<1>. QED
  BY <1>3, <1>4 DEF Lookup

\* A bucket handles a call: one cell changes, as the command says.
LEMMA CallMaps ==
  ASSUME SInv, OneName, NEW c \in Callers, CallBucket(c)
  PROVE  Store!Next
<1> DEFINE b == held[c]
           n == cmd[c].name
<1>1. /\ task[c] \in {"call", "late"} /\ b \in alive
      /\ data' = [data EXCEPT ![b] = Value(b, cmd[c])]
      /\ UNCHANGED <<calls, handling, call, names, alive>>
  BY DEF CallBucket, regVars
<1>2. b \in Buckets /\ b # None /\ cmd[c].op \in {"get", "put", "delete"} /\ n \in Names /\ names[n] = b
  <2>1. b \in Buckets /\ b # None
    BY <1>1, Domains DEF IInv, TypeOK
  <2>. QED
    BY <1>1, <2>1, Domains DEF HInv, Holding
<1>3. /\ data \in [Buckets -> [Keys -> Values \cup {None}]]
      /\ Value(b, cmd[c]) \in [Keys -> Values \cup {None}]
  BY <1>2, ValueType, Domains DEF Contents
<1>4. cells[n] = Store!Live(data[b]) /\ cells'[n] = Store!Live(Value(b, cmd[c]))
  <2>1. cells[n] = Store!Live(data[b])
    BY <1>1, <1>2, CellFacts, Domains
  <2>2. names'[n] = b /\ b \in alive' /\ None \notin alive' /\ data'[b] = Value(b, cmd[c])
    BY <1>1, <1>2, <1>3, Domains
  <2>3. cells'[n] = Store!Live(data'[b])
    BY <1>2, <2>2 DEF cells, Stale, Store!Live
  <2>. QED
    BY <2>1, <2>2, <2>3
<1>5. ASSUME NEW k \in Names \ {n} PROVE cells'[k] = cells[k]
  <2>1. names[k] # b
    BY <1>2, <1>5 DEF OneName
  <2>2. names[k] \in alive => names[k] \in Buckets
    BY Domains DEF IInv, TypeOK
  <2>3. names[k] \in alive => data'[names[k]] = data[names[k]]
    BY <1>1, <1>3, <2>1, <2>2
  <2>. QED
    BY <1>1, <2>3 DEF cells, Stale
<1>6. cells' = [cells EXCEPT ![n] = Store!Live(Value(b, cmd[c]))]
  <2>1. cells' = [k \in Names |-> cells'[k]] /\ DOMAIN cells = Names
    BY DEF cells
  <2>. QED
    BY <1>2, <1>4, <1>5, <2>1
<1>7. cmd[c] \in Commands /\ cmd[c] # NoCmd
  <2>1. NoCmd.op = "none"
    BY DEF NoCmd
  <2>2. cmd[c] # NoCmd
    BY <1>2, <2>1
  <2>. QED
    BY <2>2, Domains DEF HInv
<1>8. ~Sent(c) /\ call[c] = "idle" /\ wanted[c] = cmd[c] /\ answered[c] = out[c] /\ "idle" \notin Buckets
  BY <1>1, ProcessFacts DEF wanted, answered
<1>9. Store!Answer(c, Result(b, cmd[c]))
  <2>1. /\ \A d \in Callers \ {c} :
             task'[d] = task[d] /\ call'[d] = call[d] /\ out'[d] = out[d] /\ cmd'[d] = cmd[d]
        /\ IF task[c] = "call"
             THEN task'[c] = "recv" /\ cmd'[c] = NoCmd /\ out'[c] = Result(b, cmd[c])
             ELSE task'[c] = "ended" /\ cmd'[c] = cmd[c] /\ out'[c] = out[c]
    BY Domains DEF CallBucket, Become, Answer, regVars
  <2>2. Others(c) /\ ~Sent(c)'
    BY <1>1, <1>8, <2>1, ProcessAlone
  <2>3. Dropped(c) <=> task[c] = "late"
    BY <1>1, <1>8 DEF Dropped
  <2>4. Dropped(c)' <=> Dropped(c)
    BY <1>1, <1>8, <2>1, <2>3 DEF Dropped
  <2>5. wanted'[c] = NoCmd
    BY <1>1, <2>1, <2>2 DEF wanted
  <2>6. answered'[c] = IF Dropped(c) THEN answered[c] ELSE Result(b, cmd[c])
    BY <1>1, <1>8, <2>1, <2>3 DEF answered
  <2>. QED
    BY <1>7, <1>8, <2>2, <2>4, <2>5, <2>6, CarriesOut
<1> HIDE DEF b, n
<1>10. CASE cmd[c].op = "get"
  <2>1. Value(b, cmd[c]) = data[b] /\ Result(b, cmd[c]) = data[b][cmd[c].key]
    BY <1>10 DEF Value, Result
  <2>2. cells' = cells
    <3>1. cells = [cells EXCEPT ![n] = cells[n]]
      BY DEF cells
    <3>. QED
      BY <1>4, <1>6, <2>1, <3>1
  <2>3. cells[n].is = "live" /\ cells[n].map = data[b]
    BY <1>4 DEF Store!Live
  <2>4. Store!Get(c)
    BY <1>8, <1>9, <1>10, <2>1, <2>2, <2>3 DEF Store!Get, n
  <2>. QED
    BY <2>4 DEF Store!Next
<1>11. CASE cmd[c].op \in {"put", "delete"}
  <2> DEFINE v == IF cmd[c].op = "put" THEN cmd[c].val ELSE None
  <2>1. Value(b, cmd[c]) = [data[b] EXCEPT ![cmd[c].key] = v] /\ Result(b, cmd[c]) = "OK"
    <3>1. CASE cmd[c].op = "put"
      BY <3>1 DEF Value, Result
    <3>2. CASE cmd[c].op = "delete"
      BY <3>2 DEF Value, Result
    <3>. QED
      BY <1>11, <3>1, <3>2
  <2>2. cells[n].is = "live" /\ cells[n] = [is |-> "live", map |-> data[b]]
    BY <1>4 DEF Store!Live
  <2>3. Store!Live(Value(b, cmd[c])) = [cells[n] EXCEPT !.map[cmd[c].key] = v]
    <3>1. Store!Live(Value(b, cmd[c])) = [is |-> "live", map |-> [data[b] EXCEPT ![cmd[c].key] = v]]
      BY <2>1 DEF Store!Live
    <3>. HIDE DEF v
    <3>. QED
      BY <2>2, <3>1
  <2>4. cells' = [cells EXCEPT ![n].map[cmd[c].key] = v]
    <3>. HIDE DEF v
    <3>. QED
      BY <1>6, <2>3
  <2>5. v = IF cmd[c].op = "put" THEN cmd[c].val ELSE Store!Nil
    BY StoreNames
  <2>. HIDE DEF v
  <2>6. Store!Update(c)
    BY <1>8, <1>9, <1>11, <2>1, <2>2, <2>4, <2>5 DEF Store!Update, n
  <2>. QED
    BY <2>6 DEF Store!Next
<1>. QED
  BY <1>2, <1>10, <1>11

\* Connections are cut, and nothing else.
LEMMA KillMaps ==
  ASSUME SInv, NEW S \in SUBSET Callers, \A c \in S : task[c] # "late", Kill(S),
         UNCHANGED <<calls, handling, names, alive, data, cmd, out>>
  PROVE  Store!Next
<1>1. \A c \in Callers :
        /\ task'[c] = IF c \in S THEN (IF task[c] = "call" THEN "late" ELSE "ended") ELSE task[c]
        /\ call'[c] = IF c \in S /\ call[c] = "waiting" THEN "exited" ELSE call[c]
        /\ Sent(c)' <=> Sent(c)
  BY DEF Kill, Waiting, Sent
<1>2. \A c \in Callers : answered'[c] = answered[c]
  BY <1>1, ProcessFacts DEF answered
<1>3. answered' = answered /\ cells' = cells
  BY <1>2, CellsKept DEF answered
<1>4. ASSUME NEW c \in Callers
      PROVE  /\ Dropped(c) => Dropped(c)'
             /\ wanted'[c] = wanted[c] \/ (wanted'[c] = NoCmd /\ Dropped(c)')
  BY <1>1, <1>4, ProcessFacts DEF Dropped, wanted
<1>. QED
  BY <1>3, <1>4, Drops

\* The application's steps leave the processes of connections alone, and the
\* content of the buckets that run.
Apart ==
  /\ data' = [b \in Buckets |-> IF b \in alive' THEN data[b] ELSE Empty]
  /\ UNCHANGED <<task, cmd, out>>

LEMMA DataKept ==
  ASSUME SInv, Apart, \A b \in alive' : b \in alive \/ data[b] = Empty,
         alive \subseteq alive'
  PROVE  data' = data
<1>1. data = [b \in Buckets |-> data[b]]
  BY Domains DEF Contents
<1>2. \A b \in Buckets : data[b] = IF b \in alive' THEN data[b] ELSE Empty
  BY Domains DEF Contents
<1>. QED
  BY <1>1, <1>2 DEF Apart

\* The registry answers the create of c.
LEMMA CreateMaps ==
  ASSUME SInv, Apart, NEW c \in Callers, NEW n \in Names, NEW b \in Buckets,
         wanted[c] = [op |-> "create", name |-> n], Sent(c), ~Sent(c)',
         \A d \in Callers \ {c} : Sent(d)' <=> Sent(d),
         Reply(c, b),
         \/ names[n] # None /\ cells' = cells
         \/ /\ names[n] = None
            /\ \E cell \in {Store!Live(Empty), Store!Broken} : cells' = [cells EXCEPT ![n] = cell]
  PROVE  Store!Next
<1>1. /\ \A d \in Callers \ {c} : call'[d] = call[d]
      /\ call'[c] = IF call[c] = "waiting" THEN b ELSE call[c]
  BY Domains DEF Reply
<1>2. Others(c)
  BY <1>1 DEF Apart, Others
<1>3. /\ task[c] \in {"wait", "ended"} /\ call[c] \in {"waiting", "exited"}
      /\ call[c] = "waiting" => task[c] = "wait"
  <2>1. PICK m \in calls \cup handling : m.from = c
    BY DEF Sent
  <2>. QED
    BY <2>1, Domains DEF Requests
<1>4. Dropped(c) <=> call[c] = "exited" \/ task[c] = "ended"
  BY <1>3 DEF Dropped
<1>5. b # "exited" /\ "waiting" \notin Buckets /\ "exited" \notin Buckets
  BY RegistryAssumption
<1>6. Dropped(c)' <=> Dropped(c)
  BY <1>1, <1>3, <1>5 DEF Apart, Dropped
<1>7. wanted'[c] = NoCmd /\ wanted[c] # NoCmd /\ wanted[c].op = "create" /\ wanted[c].name = n
  <2>1. wanted'[c] = NoCmd
    BY <1>3 DEF Apart, wanted
  <2>2. wanted[c].op = "create" /\ wanted[c].name = n /\ NoCmd.op = "none"
    BY DEF NoCmd
  <2>. QED
    BY <2>1, <2>2
<1>8. CASE call[c] = "waiting"
  <2>1. ~Dropped(c)
    BY <1>3, <1>8 DEF Dropped
  <2>2. answered'[c] = "OK"
    BY <1>1, <1>8 DEF answered
  <2>3. Store!Answer(c, "OK")
    BY <1>2, <1>6, <1>7, <2>1, <2>2, CarriesOut
  <2>4. Store!Create(c)
    BY <1>7, <2>3, CellKinds, Domains, StoreNames DEF Store!Create
  <2>. QED
    BY <2>4 DEF Store!Next
<1>9. CASE call[c] = "exited"
  <2>1. Dropped(c)
    BY <1>9 DEF Dropped
  <2>2. answered'[c] = answered[c]
    BY <1>1, <1>5, <1>9 DEF Apart, answered
  <2>3. Store!Answer(c, "OK")
    BY <1>2, <1>6, <1>7, <2>1, <2>2, CarriesOut
  <2>4. Store!Create(c)
    BY <1>7, <2>3, CellKinds, Domains, StoreNames DEF Store!Create
  <2>. QED
    BY <2>4 DEF Store!Next
<1>. QED
  BY <1>3, <1>8, <1>9

LEMMA WantsCreate ==
  ASSUME SInv, NEW m \in calls \cup handling
  PROVE  /\ m.from \in Callers /\ m.name \in Names /\ Sent(m.from)
         /\ wanted[m.from] = [op |-> "create", name |-> m.name]
<1>1. m.from \in Callers /\ m.name \in Names
  BY MessageFacts, Domains
<1>2. Sent(m.from)
  BY DEF Sent
<1>. QED
  BY <1>1, <1>2, Domains DEF Requests, wanted

LEMMA CreateFoundMaps ==
  ASSUME SInv, Apart, NEW m \in calls, CreateFound(m)
  PROVE  Store!Next
<1>1. /\ names[m.name] # None /\ calls' = calls \ {m} /\ Reply(m.from, names[m.name])
      /\ UNCHANGED <<names, alive, handling>>
  BY DEF CreateFound, Known
<1>2. /\ m.from \in Callers /\ m.name \in Names /\ Sent(m.from)
      /\ wanted[m.from] = [op |-> "create", name |-> m.name]
  BY WantsCreate
<1>3. names[m.name] \in Buckets
  BY <1>1, <1>2, Domains DEF IInv, TypeOK
<1>4. ~Sent(m.from)'
  BY <1>1, Domains DEF Sent, Requests
<1>5. \A d \in Callers \ {m.from} : Sent(d)' <=> Sent(d)
  BY <1>1 DEF Sent
<1>6. cells' = cells
  BY <1>1, DataKept, CellsKept
<1>. QED
  BY <1>1, <1>2, <1>3, <1>4, <1>5, <1>6, CreateMaps

LEMMA RegisterMaps ==
  ASSUME SInv, Apart, NEW h \in handling, Register(h)
  PROVE  Store!Next
<1>1. /\ names' = [names EXCEPT ![h.name] = h.bucket] /\ handling' = {} /\ Reply(h.from, h.bucket)
      /\ UNCHANGED <<alive, calls>>
  BY DEF Register
<1>2. /\ h.from \in Callers /\ h.name \in Names /\ Sent(h.from) /\ h.bucket \in Buckets
      /\ wanted[h.from] = [op |-> "create", name |-> h.name] /\ handling = {h}
  BY WantsCreate, MessageFacts, Domains
<1>3. names[h.name] = None /\ data[h.bucket] = Empty /\ data' = data
  BY <1>1, Domains, DataKept DEF IInv, Bookkeeping, Contents
<1>4. ~Sent(h.from)'
  BY <1>1, Domains DEF Sent, Requests
<1>5. \A d \in Callers \ {h.from} : Sent(d)' <=> Sent(d)
  BY <1>1, <1>2 DEF Sent
<1>6. cells' = [cells EXCEPT ![h.name] = cells'[h.name]]
  <2>1. \A k \in Names \ {h.name} : names'[k] = names[k]
    BY <1>1, Domains DEF IInv, TypeOK
  <2>2. \A k \in Names \ {h.name} : cells'[k] = cells[k]
    BY <1>1, <1>3, <2>1 DEF cells, Stale
  <2>3. cells' = [k \in Names |-> cells'[k]] /\ DOMAIN cells = Names
    BY DEF cells
  <2>. QED
    BY <2>2, <2>3
<1>7. cells'[h.name] \in {Store!Live(Empty), Store!Broken}
  <2>1. names'[h.name] = h.bucket /\ h.bucket # None
    BY <1>1, <1>2, Domains DEF IInv, TypeOK
  <2>2. cells'[h.name] = IF h.bucket \in alive THEN Store!Live(Empty) ELSE Store!Broken
    BY <1>1, <1>2, <1>3, <2>1, StoreNames DEF cells, Stale, Store!Live
  <2>. QED
    BY <2>2
<1>. QED
  BY <1>1, <1>2, <1>3, <1>4, <1>5, <1>6, <1>7, CreateMaps

\* The new bucket is in no cell before the registry goes on.
LEMMA CreateStartMaps ==
  ASSUME SInv, Apart, NEW m \in calls, CreateStart(m)
  PROVE  Store!Next
<1>1. PICK b \in Buckets \ started :
        /\ alive' = alive \cup {b} /\ calls' = calls \ {m}
        /\ handling = {} /\ handling' = {[from |-> m.from, name |-> m.name, bucket |-> b]}
        /\ UNCHANGED <<names, call>> /\ RegistryUp
  BY DEF CreateStart, RegistryUp
<1>2. b \notin alive
  BY <1>1, Domains DEF IInv, TypeOK
<1>3. data' = data
  BY <1>1, <1>2, DataKept, Domains DEF Contents
<1>4. \A n \in Names : names[n] # b
  <2>1. \A n \in Names : names[n] = b => refs[b] = n
    BY <1>1, Domains DEF IInv, TablesAgree
  <2>2. refs[b] = None
    BY <1>1, Domains DEF IInv, Bookkeeping
  <2>. QED
    BY <2>1, <2>2, RegistryAssumption
<1>5. cells' = cells
  BY <1>1, <1>3, <1>4 DEF cells, Stale
<1>6. \A c \in Callers : Sent(c)' <=> Sent(c)
  <2>1. Sent(m.from) /\ Sent(m.from)'
    BY <1>1 DEF Sent
  <2>2. \A c \in Callers : c # m.from => (Sent(c)' <=> Sent(c))
    BY <1>1 DEF Sent
  <2>. QED
    BY <2>1, <2>2
<1>7. answered' = answered /\ wanted' = wanted /\ \A c \in Callers : Dropped(c)' <=> Dropped(c)
  BY <1>1, <1>6 DEF Apart, answered, wanted, Dropped
<1>. QED
  BY <1>5, <1>7, Drops

\* The registry ends: the calls it has not answered are forgotten.
LEMMA RegistryEndsMaps ==
  ASSUME SInv, Apart, NEW next, RegistryEnds(next)
  PROVE  Store!Next
<1>1. /\ calls' = {} /\ handling' = {} /\ UNCHANGED <<names, alive>>
      /\ call' = [c \in Callers |-> IF call[c] = "waiting" THEN "exited" ELSE call[c]]
  BY DEF RegistryEnds, Waiting
<1>2. cells' = cells
  BY <1>1, DataKept, CellsKept
<1>3. answered' = answered
  <2>1. \A c \in Callers : answered'[c] = answered[c]
    BY <1>1, RegistryAssumption DEF Apart, answered
  <2>. QED
    BY <2>1 DEF answered
<1>4. ASSUME NEW c \in Callers
      PROVE  /\ Dropped(c) => Dropped(c)'
             /\ wanted'[c] = wanted[c] \/ (wanted'[c] = NoCmd /\ Dropped(c)')
  <2>1. Dropped(c) => Dropped(c)'
    BY <1>1 DEF Apart, Dropped
  <2>2. ~Sent(c)'
    BY <1>1 DEF Sent
  <2>3. CASE Sent(c)
    <3>1. PICK m \in calls \cup handling : m.from = c
      BY <2>3 DEF Sent
    <3>2. task[c] \in {"wait", "ended"} /\ call[c] \in {"waiting", "exited"}
      BY <3>1, Domains DEF Requests
    <3>3. Dropped(c)' /\ wanted'[c] = NoCmd
      BY <1>1, <2>2, <3>2 DEF Apart, Dropped, wanted
    <3>. QED
      BY <2>1, <3>3
  <2>4. CASE ~Sent(c)
    BY <2>1, <2>2, <2>4 DEF Apart, wanted
  <2>. QED
    BY <2>3, <2>4
<1>. QED
  BY <1>2, <1>3, <1>4, Drops

LEMMA TimeoutMaps ==
  ASSUME SInv, Apart, NEW c \in Callers, Timeout(c)
  PROVE  Store!Next
<1>1. /\ call[c] = "waiting" /\ call' = [call EXCEPT ![c] = "exited"]
      /\ UNCHANGED <<calls, handling, names, alive>>
  BY DEF Timeout
<1>2. call'[c] = "exited" /\ \A d \in Callers \ {c} : call'[d] = call[d]
  BY <1>1, Domains
<1>3. Others(c) /\ (Sent(c)' <=> Sent(c)) /\ cells' = cells
  BY <1>1, <1>2, ProcessAlone, DataKept, CellsKept DEF Apart
<1>4. Dropped(c)' /\ wanted'[c] = wanted[c] /\ answered'[c] = answered[c]
  BY <1>1, <1>2, <1>3, RegistryAssumption DEF Apart, Dropped, wanted, answered
<1>. QED
  BY <1>3, <1>4, Quiet

\* The rest of the application's steps do not touch the calls.
LEMMA ClientsKept ==
  ASSUME Apart, UNCHANGED <<calls, handling, call>>
  PROVE  UNCHANGED <<wanted, answered, links>>
BY DEF Apart, wanted, answered, links, Sent, Dropped

\* Buckets end: their cells break.
LEMMA DeathsMap ==
  ASSUME SInv, Apart, UNCHANGED <<calls, handling, call, names>>, alive' \subseteq alive
  PROVE  Store!Next
<1> DEFINE S == {n \in Names : names[n] \in alive \ alive'}
<1>1. S \in SUBSET {n \in Names : cells[n].is = "live"}
  BY CellKinds, Domains
<1>2. ASSUME NEW n \in Names PROVE cells'[n] = IF n \in S THEN Store!Broken ELSE cells[n]
  <2>1. CASE n \in S
    BY <2>1, Domains, StoreNames DEF cells, Stale
  <2>2. CASE n \notin S
    <3>1. names[n] \in alive => names[n] \in alive' /\ names[n] \in Buckets
      BY <2>2, Domains DEF IInv, TypeOK
    <3>2. names[n] \in alive => data'[names[n]] = data[names[n]]
      BY <3>1 DEF Apart
    <3>. QED
      BY <2>2, <3>1, <3>2 DEF cells, Stale
  <2>. QED
    BY <2>1, <2>2
<1>3. cells' = [n \in Names |-> IF n \in S THEN Store!Broken ELSE cells[n]]
  <2>1. cells' = [n \in Names |-> cells'[n]]
    BY DEF cells
  <2>. QED
    BY <1>2, <2>1
<1> HIDE DEF S
<1>4. Store!Change("live", Store!Broken)
  BY <1>1, <1>3, ClientsKept DEF Store!Change
<1>. QED
  BY <1>4 DEF Store!Next

\* Names of buckets that have ended are free again.
LEMMA NoticedMaps ==
  ASSUME SInv, Apart, UNCHANGED <<calls, handling, call, alive>>,
         \A n \in Names : names'[n] = names[n] \/ (names'[n] = None /\ names[n] \notin alive)
  PROVE  Store!Next
<1> DEFINE S == {n \in Names : names'[n] # names[n]}
<1>1. S \in SUBSET {n \in Names : cells[n].is = "broken"}
  BY CellKinds, Domains
<1>2. data' = data
  BY DataKept
<1>3. ASSUME NEW n \in Names PROVE cells'[n] = IF n \in S THEN Store!Absent ELSE cells[n]
  <2>1. CASE n \in S
    BY <2>1, Domains, StoreNames DEF cells, Stale
  <2>2. CASE n \notin S
    BY <1>2, <2>2 DEF cells, Stale
  <2>. QED
    BY <2>1, <2>2
<1>4. cells' = [n \in Names |-> IF n \in S THEN Store!Absent ELSE cells[n]]
  <2>1. cells' = [n \in Names |-> cells'[n]]
    BY DEF cells
  <2>. QED
    BY <1>3, <2>1
<1> HIDE DEF S
<1>5. Store!Change("broken", Store!Absent)
  BY <1>1, <1>4, ClientsKept DEF Store!Change
<1>. QED
  BY <1>5 DEF Store!Next

LEMMA ApplicationMaps ==
  ASSUME SInv, Apart, Registry \/ Supervisor \/ Faults
  PROVE  Store!Next
<1>1. ASSUME NEW m \in calls, CreateFound(m) \/ CreateStart(m) \/ CreateFails(m) PROVE Store!Next
  BY <1>1, CreateFoundMaps, CreateStartMaps, RegistryEndsMaps DEF CreateFails
<1>2. ASSUME NEW h \in handling, Register(h) PROVE Store!Next
  BY <1>2, RegisterMaps
<1>3. ASSUME NEW b \in downs, Down(b) PROVE Store!Next
  <2>1. b \notin alive /\ refs[b] \in Names /\ RegistryUp /\ b \in Buckets
    BY <1>3, Domains DEF Down, IInv, TypeOK, Bookkeeping
  <2>2. names[refs[b]] = b
    BY <2>1, Domains DEF IInv, TablesAgree
  <2>3. UNCHANGED <<calls, handling, call, alive>> /\ names' = [names EXCEPT ![refs[b]] = None]
    BY <1>3 DEF Down, Deleted
  <2>4. \A n \in Names : names'[n] = names[n] \/ (names'[n] = None /\ names[n] \notin alive)
    BY <2>1, <2>2, <2>3, Domains DEF IInv, TypeOK
  <2>. QED
    BY <2>3, <2>4, NoticedMaps
<1>4. CASE Restart
  <2>1. UNCHANGED <<calls, handling, call, alive>> /\ (names' = NoNames \/ names' = names) /\ phase = "down"
    BY <1>4 DEF Restart
  <2>2. alive = {}
    BY <2>1, Domains DEF IInv, Bookkeeping
  <2>. QED
    BY <2>1, <2>2, NoticedMaps DEF NoNames
<1>5. CASE TerminateBuckets \/ SupervisorCrash \/ \E b \in alive : BucketEnds(b)
  BY <1>5, DeathsMap DEF TerminateBuckets, Strategy, SupervisorCrash, BucketEnds, Dies
<1>6. CASE TerminateRegistry \/ RegistryCrash
  BY <1>6, RegistryEndsMaps DEF TerminateRegistry, RegistryCrash
<1>. QED
  BY <1>1, <1>2, <1>3, <1>4, <1>5, <1>6 DEF Registry, Handle, Supervisor, Faults

LEMMA StepMaps ==
  ASSUME SInv, OneName, [ServerNext]_vars
  PROVE  [Store!Next]_(Store!storeVars)
<1>1. CASE Application(Registry \/ Supervisor \/ Faults)
  BY <1>1, ApplicationMaps DEF Application, Apart
<1>2. ASSUME NEW c \in Callers, Application(Timeout(c)) PROVE Store!Next
  BY <1>2, TimeoutMaps DEF Application, Apart
<1>3. ASSUME NEW c \in Callers, Process(c) PROVE Store!Next
  BY <1>3, ReadUnknownMaps, ReadCreateMaps, LookupMaps, CallMaps, QuietSteps DEF Process
<1>4. ASSUME NEW c \in Callers, \/ Accept(c) \/ Connect(c) \/ Close(c) \/ RecvFails(c)
                                \/ CallTimeout(c)
      PROVE  Store!Next
  BY <1>4, QuietSteps
<1>5. ASSUME NEW c \in Callers, Ask(c) PROVE Store!Next
  BY <1>5, AskMaps
<1>6. CASE HandOver \/ AcceptFails \/ Relist
  <2>1. UNCHANGED <<calls, handling, names, alive, data, cmd, out>>
    BY <1>6 DEF HandOver, AcceptFails, Relist, regRest
  <2>2. PICK S \in SUBSET Callers : Kill(S) /\ \A c \in S : task[c] # "late"
    BY <1>6 DEF HandOver, AcceptFails, Relist, Own
  <2>. QED
    BY <2>1, <2>2, KillMaps
<1>7. CASE UNCHANGED vars
  BY <1>7, CellsKept
    DEF vars, regVars, srvVars, Store!storeVars, wanted, answered, links, Sent, Dropped
<1>. QED
  BY <1>1, <1>2, <1>3, <1>4, <1>5, <1>6, <1>7 DEF ServerNext, Acceptor

LEMMA InitMaps == ServerInit => Store!Init /\ OneName
<1> SUFFICES ASSUME ServerInit PROVE Store!Init /\ OneName
  OBVIOUS
<1>1. OneName
  BY DEF ServerInit, Init, NoNames, OneName
<1>2. \A n \in Names : cells[n] = Store!Absent
  BY InitSInv, CellFacts, Domains DEF ServerInit, Init, NoNames
<1>3. cells = [n \in Names |-> Store!Absent]
  <2>1. cells = [n \in Names |-> cells[n]]
    BY DEF cells
  <2>. QED
    BY <1>2, <2>1
<1>4. /\ wanted = [c \in Callers |-> NoCmd] /\ links = [c \in Callers |-> "open"]
      /\ answered = [c \in Callers |-> None]
  BY RegistryAssumption DEF ServerInit, Init, wanted, links, answered, Dropped
<1>. QED
  BY <1>1, <1>3, <1>4, StoreNames DEF Store!Init

\* Every command takes effect at one instant between request and answer, and at
\* most once also when its connection is cut: the service implements KVStore
\* (command.ex:48-79, registry.ex:62-76), for any number of connections, names,
\* buckets, keys and values, and any crashes and time-outs.
THEOREM ServiceIsLinearizable == ServerSpec => Implements
<1>1. SInv /\ OneName /\ [ServerNext]_vars => (SInv /\ OneName)' /\ [Store!Next]_(Store!storeVars)
  <2>1. SInv => IInv
    BY Domains
  <2>2. SInv' => IInv'
    BY DEF SInv, HInv
  <2>. QED
    BY <2>1, <2>2, SInvKept, OneNameKept, StepMaps
<1>2. ServerInit => SInv /\ OneName /\ Store!Init
  BY InitSInv, InitMaps
<1>. QED
  BY <1>1, <1>2, PTL DEF ServerSpec, Implements, Store!Spec
=============================================================================
