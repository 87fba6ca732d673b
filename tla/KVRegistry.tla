----------------------------- MODULE KVRegistry ------------------------------
(***************************************************************************)
(* elixir/kv_umbrella/apps/kv: the :kv application.  KV.Registry is one    *)
(* process that names buckets.  It keeps its names in an ETS table every   *)
(* process may read, and in its own state a map from monitors to names.    *)
(* Buckets live under KV.BucketSupervisor; KV.Supervisor restarts that and *)
(* the registry together (one_for_all).                                    *)
(*                                                                         *)
(* A process identifier is never used again, so a bucket stands for its    *)
(* process and also for the one monitor the registry has on it.  Messages  *)
(* of different processes arrive in any order: the mailbox of the registry *)
(* is a set of calls and a set of DOWN messages.                           *)
(***************************************************************************)
EXTENDS Naturals, FiniteSets

CONSTANTS
  Names,     \* bucket names
  Buckets,   \* process identifiers the buckets can get
  Callers,   \* processes that call KV.Registry.create
  Intensity  \* restarts after which KV.Supervisor gives up (3 in 5 seconds;
             \* here all of them count as within those seconds)

None == "none"

ASSUME RegistryAssumption ==
  /\ Buckets \cap {None, "idle", "waiting", "exited"} = {}
  /\ None \notin Names
  /\ Intensity \in Nat

VARIABLES
  phase,    \* which children of KV.Supervisor run
  restarts, \* how often it has restarted them
  names,    \* the ETS table; it is gone while the registry is
  refs,     \* the registry's map from monitors to names
  calls,    \* {:create, name} calls the registry has not handled
  downs,    \* :DOWN messages the registry has not handled
  handling, \* the call waiting for a bucket to be started: a set of 0 or 1
  started,  \* the buckets ever started
  alive,    \* those that run
  call      \* what KV.Registry.create has come to in each caller

regVars == <<phase, restarts, names, refs, calls, downs, handling, started,
             alive, call>>

Phases == {"up", "noRegistry", "noBuckets", "down", "stopped"}
RegistryUp == phase \in {"up", "noBuckets"}
NoNames == [n \in Names |-> None]
NoRefs == [b \in Buckets |-> None]

\* The entry of n is for a bucket that runs no more.
Stale(n) == names[n] \notin alive \cup {None}
Waiting == {c \in Callers : call[c] = "waiting"}

-----------------------------------------------------------------------------
(* KV.Registry *)

\* GenServer.call answers a caller that still waits.
Reply_From(c, b) == call' = [call EXCEPT ![c] = c]  \* mutant: {:reply, from, ...}
Reply_Silent(c, b) == UNCHANGED call  \* mutant: {:noreply, state}
Reply(c, b) == call' = IF call[c] = "waiting" THEN [call EXCEPT ![c] = b] ELSE call

\* KV.Registry.create: a call exits at once when there is no registry.
Create(c, n) ==
  /\ call[c] = "idle"
  /\ call' = [call EXCEPT ![c] = IF RegistryUp THEN "waiting" ELSE "exited"]
  /\ calls' = IF RegistryUp THEN calls \cup {[from |-> c, name |-> n]} ELSE calls
  /\ UNCHANGED <<phase, restarts, names, refs, downs, handling, started, alive>>

\* The caller waits five seconds, exits, and leaves its message behind.
Timeout(c) ==
  /\ call[c] = "waiting"
  /\ call' = [call EXCEPT ![c] = "exited"]
  /\ UNCHANGED <<phase, restarts, names, refs, calls, downs, handling, started,
                 alive>>

Known_Never(n) == FALSE  \* mutant: create without looking first
Known(n) == names[n] # None

\* handle_call for a name in the table
CreateFound(m) ==
  /\ RegistryUp /\ handling = {}
  /\ m \in calls /\ Known(m.name)
  /\ calls' = calls \ {m}
  /\ Reply(m.from, names[m.name])
  /\ UNCHANGED <<phase, restarts, names, refs, downs, handling, started, alive>>

\* handle_call for a new name, up to the answer of DynamicSupervisor.start_child
CreateStart(m) ==
  /\ phase = "up" /\ handling = {}
  /\ m \in calls /\ ~Known(m.name)
  /\ calls' = calls \ {m}
  /\ \E b \in Buckets \ started :
       /\ started' = started \cup {b}
       /\ alive' = alive \cup {b}
       /\ handling' = {[from |-> m.from, name |-> m.name, bucket |-> b]}
  /\ UNCHANGED <<phase, restarts, names, refs, downs, call>>

Monitored_Live(b) == {}  \* mutant: no message for a bucket that died before
Monitored(b) == {b} \ alive

\* The rest of handle_call.  The monitor of a bucket that is dead already sends
\* its DOWN message at once.
Register(h) ==
  /\ RegistryUp /\ h \in handling
  /\ handling' = {}
  /\ refs' = [refs EXCEPT ![h.bucket] = h.name]
  /\ downs' = downs \cup Monitored(h.bucket)
  /\ names' = [names EXCEPT ![h.name] = h.bucket]
  /\ Reply(h.from, h.bucket)
  /\ UNCHANGED <<phase, restarts, calls, started, alive>>

Deleted_Nothing(b) == names  \* mutant: only the monitor is forgotten
Deleted(b) == [names EXCEPT ![refs[b]] = None]

\* handle_info for the DOWN message of b
Down(b) ==
  /\ RegistryUp /\ handling = {}
  /\ b \in downs
  /\ downs' = downs \ {b}
  /\ names' = Deleted(b)
  /\ refs' = [refs EXCEPT ![b] = None]
  /\ UNCHANGED <<phase, restarts, calls, handling, started, alive, call>>

-----------------------------------------------------------------------------
(* Deaths and the supervisor *)

\* The monitored buckets of S send their DOWN messages.
Dies(S) ==
  /\ alive' = alive \ S
  /\ downs' = downs \cup (IF RegistryUp THEN {b \in S \cap alive : refs[b] # None}
                          ELSE {})

\* A bucket ends; its supervisor does not start it again (restart: :temporary).
BucketEnds(b) ==
  /\ b \in alive
  /\ Dies({b})
  /\ UNCHANGED <<phase, restarts, names, refs, calls, handling, started, call>>

\* The registry process ends, with its mailbox, state and table.  The content
\* of `names` stays in the variable, and nothing reads it before Restart.
RegistryEnds(next) ==
  /\ phase' = next
  /\ refs' = NoRefs
  /\ calls' = {} /\ downs' = {} /\ handling' = {}
  /\ call' = [c \in Callers |-> IF c \in Waiting THEN "exited" ELSE call[c]]
  /\ UNCHANGED <<restarts, names, started, alive>>

RegistryCrash == phase = "up" /\ RegistryEnds("noRegistry")

\* The buckets are linked to their supervisor and end with it.
SupervisorCrash ==
  /\ phase = "up"
  /\ phase' = "noBuckets"
  /\ Dies(alive)
  /\ UNCHANGED <<restarts, names, refs, calls, handling, started, call>>

\* handle_call for a new name while there is no supervisor of buckets
CreateFails(m) ==
  /\ phase = "noBuckets" /\ handling = {}
  /\ m \in calls /\ ~Known(m.name)
  /\ RegistryEnds("down")

TerminateRegistry == phase = "noBuckets" /\ RegistryEnds("down")

Strategy_OneForOne == UNCHANGED <<alive, downs>>  \* mutant
Strategy == Dies(alive)

TerminateBuckets ==
  /\ phase = "noRegistry"
  /\ phase' = "down"
  /\ Strategy
  /\ UNCHANGED <<restarts, names, refs, calls, handling, started, call>>

WithinIntensity == restarts < Intensity

\* KV.Registry.init makes a new table.
Restart ==
  /\ phase = "down"
  /\ IF WithinIntensity
       THEN phase' = "up" /\ restarts' = restarts + 1 /\ names' = NoNames
       ELSE phase' = "stopped" /\ UNCHANGED <<restarts, names>>
  /\ UNCHANGED <<refs, calls, downs, handling, started, alive, call>>

-----------------------------------------------------------------------------
Init ==
  /\ phase = "up" /\ restarts = 0
  /\ names = NoNames /\ refs = NoRefs
  /\ calls = {} /\ downs = {} /\ handling = {}
  /\ started = {} /\ alive = {}
  /\ call = [c \in Callers |-> "idle"]

\* The caller goes on with the bucket it was given.
Take(c) ==
  /\ call[c] \in Buckets
  /\ call' = [call EXCEPT ![c] = "idle"]
  /\ UNCHANGED <<phase, restarts, names, refs, calls, downs, handling, started,
                 alive>>

Handle(c) == \E m \in calls :
  m.from = c /\ (CreateFound(m) \/ CreateStart(m) \/ CreateFails(m))

Registry ==
  \/ \E c \in Callers : Handle(c)
  \/ \E h \in handling : Register(h)
  \/ \E b \in downs : Down(b)

Supervisor == TerminateRegistry \/ TerminateBuckets \/ Restart

Faults == (\E b \in alive : BucketEnds(b)) \/ RegistryCrash \/ SupervisorCrash

Next ==
  \/ Registry \/ Supervisor \/ Faults
  \/ \E c \in Callers : Take(c) \/ Timeout(c) \/ \E n \in Names : Create(c, n)

\* The registry handles every message it gets, and the supervisor acts.
Fairness ==
  /\ WF_regVars(Supervisor)
  /\ WF_regVars(\E h \in handling : Register(h))
  /\ \A c \in Callers : WF_regVars(Handle(c))
  /\ \A b \in Buckets : WF_regVars(Down(b))

Spec == Init /\ [][Next]_regVars
FairSpec == Spec /\ Fairness

-----------------------------------------------------------------------------
(* Properties *)

Calls == [from : Callers, name : Names]
TypeOK ==
  /\ phase \in Phases /\ restarts \in 0..Intensity
  /\ names \in [Names -> Buckets \cup {None}]
  /\ refs \in [Buckets -> Names \cup {None}]
  /\ calls \in SUBSET Calls /\ downs \in SUBSET Buckets
  /\ handling \in SUBSET [from : Callers, name : Names, bucket : Buckets]
  /\ started \in SUBSET Buckets /\ alive \in SUBSET started
  /\ call \in [Callers -> Buckets \cup {"idle", "waiting", "exited"}]

\* While the application is up, every bucket that runs can be found: it is in
\* the table under some name, or create is about to put it there.  None leaks,
\* whatever crashes and whenever a DOWN message comes.
NoLeak ==
  phase = "up" =>
    \A b \in alive : b \in {names[n] : n \in Names} \cup {h.bucket : h \in handling}

\* The table and the monitors agree, although one is deleted through the other:
\* a bucket is in the table under a name exactly when its monitor has that name.
TablesAgree ==
  RegistryUp => \A n \in Names, b \in Buckets : names[n] = b <=> refs[b] = n

\* A dead bucket stays in the table only while its DOWN message is on its way,
\* also when it died before the registry monitored it.
StaleIsDue == RegistryUp => \A n \in Names : Stale(n) => names[n] \in downs

\* A step takes a running bucket out of the table, or gives its name to another
\* bucket, only if the whole application is restarted: neither create nor the
\* DOWN message of an earlier bucket of that name does.
LiveKeepsName ==
  [][\A n \in Names : names[n] \in alive \cap alive' => names'[n] = names[n]]_regVars

\* A dead bucket does not stay in the table for ever.
Reaped == \A n \in Names, b \in Buckets :
  (names[n] = b /\ Stale(n)) ~> (names[n] # b \/ phase = "stopped")

\* Every call of create is answered, or its caller exits.  (A create for which
\* no process identifier is left is this model's bound.)
Answered == \A c \in Callers :
  (c \in Waiting) ~> (c \notin Waiting \/ started = Buckets)

\* registry.ex:69 says create "ensures there is a bucket associated with the
\* given name": a bucket it finds in the table and answers with runs when it
\* answers.
CreateEnsures ==
  [][\A c \in Callers :
       call[c] = "waiting" /\ call'[c] \in {names[n] : n \in Names} \ {None}
         => call'[c] \in alive]_regVars
=============================================================================
