------------------------------ MODULE KVServer -------------------------------
(***************************************************************************)
(* elixir/kv_umbrella/apps/kv_server on top of apps/kv: one acceptor       *)
(* process, and one process per connection that reads a line, runs it as a *)
(* command against the registry and the buckets, and writes the answer.    *)
(* The connection processes are the callers of KVRegistry.  A process      *)
(* looks a bucket up in one step and calls it in another; the bucket may   *)
(* end in between.                                                         *)
(*                                                                         *)
(* A client sends its next line when it has the answer to the last one     *)
(* (this model's bound on input), and each connection is opened once.      *)
(***************************************************************************)
EXTENDS KVRegistry

CONSTANTS
  Keys,     \* keys of a bucket
  Values    \* values of a key

ASSUME ServerAssumption == Callers \cap {"accepting", "down", "stopped"} = {}

VARIABLES
  acceptor, \* "accepting", a connection being handed over, "down", "stopped"
  relisted, \* how often the acceptor was restarted
  peer,     \* the client's end of each connection: "away", "open", "closed"
  task,     \* what the process of each connection does
  cmd,      \* the command the client sent and has no answer to
  held,     \* the bucket a process looked up and calls
  data,     \* the map in each bucket
  out       \* the last answer on each connection

regRest == <<phase, restarts, names, refs, calls, downs, handling, started, alive>>
srvVars == <<acceptor, relisted, peer, task, cmd, held, data, out>>
vars == <<regVars, srvVars>>

NoCmd == [op |-> "none"]
Empty == [k \in Keys |-> None]
Commands ==
  [op : {"unknown"}] \cup [op : {"create"}, name : Names]
  \cup [op : {"get", "delete"}, name : Names, key : Keys]
  \cup [op : {"put"}, name : Names, key : Keys, val : Values]

-----------------------------------------------------------------------------
(* Clients *)

Listening == acceptor \notin {"down", "stopped"}

\* A connection whose process is gone, or is about to be.
Dropped(c) == task[c] \in {"late", "ended"} \/ call[c] = "exited"

Connect(c) ==
  /\ Listening /\ peer[c] = "away"
  /\ peer' = [peer EXCEPT ![c] = "open"]
  /\ UNCHANGED <<regVars, acceptor, relisted, task, cmd, held, data, out>>

Ask(c) ==
  /\ peer[c] = "open" /\ ~Dropped(c) /\ cmd[c] = NoCmd
  /\ \E m \in Commands : cmd' = [cmd EXCEPT ![c] = m]
  /\ out' = [out EXCEPT ![c] = None]
  /\ UNCHANGED <<regVars, acceptor, relisted, peer, task, held, data>>

Close(c) ==
  /\ peer[c] = "open"
  /\ peer' = [peer EXCEPT ![c] = "closed"]
  /\ UNCHANGED <<regVars, acceptor, relisted, task, cmd, held, data, out>>

-----------------------------------------------------------------------------
(* The acceptor *)

\* loop_acceptor: gen_tcp.accept and Task.Supervisor.start_child
Accept(c) ==
  /\ acceptor = "accepting" /\ peer[c] # "away" /\ task[c] = "none"
  /\ acceptor' = c
  /\ task' = [task EXCEPT ![c] = "recv"]
  /\ UNCHANGED <<regVars, relisted, peer, cmd, held, data, out>>

\* The processes of S are killed; what they sent stays in the mailboxes.
Kill(S) ==
  /\ task' = [c \in Callers |->
       IF c \in S THEN (IF task[c] = "call" THEN "late" ELSE "ended") ELSE task[c]]
  /\ call' = [c \in Callers |-> IF c \in S \cap Waiting THEN "exited" ELSE call[c]]

\* The connections whose sockets the acceptor owns or has not accepted.
Own == {c \in Callers : peer[c] # "away" /\ task[c] = "none"}

\* gen_tcp.controlling_process fails when the new owner has ended already; the
\* match with :ok fails then, and the acceptor ends with its listening socket.
HandOver ==
  /\ acceptor \in Callers
  /\ IF task[acceptor] \notin {"late", "ended"}
       THEN acceptor' = "accepting" /\ Kill({})
       ELSE acceptor' = "down" /\ Kill(Own)
  /\ UNCHANGED <<regRest, relisted, peer, cmd, held, data, out>>

\* listen, accept or start_child fails, and the match with it: the acceptor ends.
AcceptFails ==
  /\ acceptor = "accepting"
  /\ acceptor' = "down" /\ Kill(Own)
  /\ UNCHANGED <<regRest, relisted, peer, cmd, held, data, out>>

MayRelist == relisted < Intensity

\* KVServer.Supervisor restarts the acceptor (restart: :permanent), or gives up
\* and ends with all the processes of connections.
Relist ==
  /\ acceptor = "down"
  /\ IF MayRelist
       THEN acceptor' = "accepting" /\ relisted' = relisted + 1 /\ Kill({})
       ELSE /\ acceptor' = "stopped" /\ UNCHANGED relisted
            /\ Kill({c \in Callers : task[c] \notin {"none", "late"}})
  /\ UNCHANGED <<regRest, peer, cmd, held, data, out>>

-----------------------------------------------------------------------------
(* The process of a connection *)

Become(c, t) == task' = [task EXCEPT ![c] = t]
Answer(c, a) ==
  /\ out' = [out EXCEPT ![c] = a]
  /\ cmd' = [cmd EXCEPT ![c] = NoCmd]
Reads(c, ops) == task[c] = "recv" /\ cmd[c].op \in ops

ReadUnknown(c) ==
  /\ Reads(c, {"unknown"})
  /\ Answer(c, "UNKNOWN COMMAND")
  /\ UNCHANGED <<regVars, acceptor, relisted, peer, task, held, data>>

ReadCreate(c) ==
  /\ Reads(c, {"create"})
  /\ Create(c, cmd[c].name)
  /\ Become(c, "wait")
  /\ UNCHANGED <<acceptor, relisted, peer, cmd, held, data, out>>

CreateDone(c) ==
  /\ task[c] = "wait"
  /\ Take(c)
  /\ Become(c, "recv")
  /\ Answer(c, "OK")
  /\ UNCHANGED <<acceptor, relisted, peer, held, data>>

CreateExits(c) ==
  /\ task[c] = "wait" /\ call[c] = "exited"
  /\ Become(c, "ended")
  /\ UNCHANGED <<regVars, acceptor, relisted, peer, cmd, held, data, out>>

\* Command.lookup; without the table, ets.lookup ends the process.
Lookup(c) ==
  LET b == names[cmd[c].name]
  IN  /\ Reads(c, {"get", "put", "delete"})
      /\ \/ ~RegistryUp /\ Become(c, "ended") /\ UNCHANGED <<cmd, held, out>>
         \/ RegistryUp /\ b = None /\ Answer(c, "NOT FOUND") /\ UNCHANGED <<task, held>>
         \/ /\ RegistryUp /\ b # None
            /\ held' = [held EXCEPT ![c] = b]
            /\ Become(c, "call")
            /\ UNCHANGED <<cmd, out>>
      /\ UNCHANGED <<regVars, acceptor, relisted, peer, data>>

Value_Keys(b, m) ==  \* mutant: Map.put(&1, key, key)
  IF m.op = "put" THEN [data[b] EXCEPT ![m.key] = m.key] ELSE data[b]
Value_Popped(b, m) ==  \* mutant: Agent.get in place of get_and_update
  IF m.op = "put" THEN [data[b] EXCEPT ![m.key] = m.val] ELSE data[b]
Value(b, m) ==
  CASE m.op = "get" -> data[b]
    [] m.op = "put" -> [data[b] EXCEPT ![m.key] = m.val]
    [] m.op = "delete" -> [data[b] EXCEPT ![m.key] = None]

Result(b, m) == IF m.op = "get" THEN data[b][m.key] ELSE "OK"

\* The bucket handles the call, also when the caller has ended since.
CallBucket(c) ==
  /\ task[c] \in {"call", "late"} /\ held[c] \in alive
  /\ data' = [data EXCEPT ![held[c]] = Value(held[c], cmd[c])]
  /\ held' = [held EXCEPT ![c] = None]
  /\ IF task[c] = "call"
       THEN Become(c, "recv") /\ Answer(c, Result(held[c], cmd[c]))
       ELSE Become(c, "ended") /\ UNCHANGED <<cmd, out>>
  /\ UNCHANGED <<regVars, acceptor, relisted, peer>>

CallExits(c) ==
  /\ task[c] = "call" /\ held[c] \notin alive
  /\ Become(c, "ended")
  /\ held' = [held EXCEPT ![c] = None]
  /\ UNCHANGED <<regVars, acceptor, relisted, peer, cmd, data, out>>

CallTimeout(c) ==
  /\ task[c] = "call"
  /\ Become(c, "late")
  /\ UNCHANGED <<regVars, acceptor, relisted, peer, cmd, held, data, out>>

\* recv reports the end of input (write_line exits with :shutdown), or fails.
RecvEnds(c) ==
  /\ task[c] = "recv" /\ cmd[c] = NoCmd /\ peer[c] = "closed"
  /\ Become(c, "ended")
  /\ UNCHANGED <<regVars, acceptor, relisted, peer, cmd, held, data, out>>

RecvFails(c) ==
  /\ task[c] = "recv"
  /\ Become(c, "ended")
  /\ UNCHANGED <<regVars, acceptor, relisted, peer, cmd, held, data, out>>

\* A bucket's map ends with it.
Application(A) ==
  /\ A
  /\ data' = [b \in Buckets |-> IF b \in alive' THEN data[b] ELSE Empty]
  /\ UNCHANGED <<acceptor, relisted, peer, task, cmd, held, out>>

-----------------------------------------------------------------------------
ServerInit ==
  /\ Init
  /\ acceptor = "accepting" /\ relisted = 0
  /\ peer = [c \in Callers |-> "away"]
  /\ task = [c \in Callers |-> "none"]
  /\ cmd = [c \in Callers |-> NoCmd]
  /\ held = [c \in Callers |-> None]
  /\ data = [b \in Buckets |-> Empty]
  /\ out = [c \in Callers |-> None]

Process(c) ==
  \/ ReadUnknown(c) \/ ReadCreate(c) \/ CreateDone(c) \/ CreateExits(c)
  \/ Lookup(c) \/ CallBucket(c) \/ CallExits(c) \/ RecvEnds(c)

Acceptor == (\E c \in Callers : Accept(c)) \/ HandOver \/ Relist

ServerNext ==
  \/ Application(Registry \/ Supervisor \/ Faults)
  \/ Acceptor \/ AcceptFails
  \/ \E c \in Callers :
       \/ Process(c) \/ Connect(c) \/ Ask(c) \/ Close(c)
       \/ RecvFails(c) \/ CallTimeout(c) \/ Application(Timeout(c))

ServerSpec == ServerInit /\ [][ServerNext]_vars

\* Every process runs: the registry, the supervisors, the acceptor and the
\* processes of the connections.
ServerFairness ==
  /\ WF_vars(Application(Supervisor))
  /\ WF_vars(Application(\E h \in handling : Register(h)))
  /\ \A b \in Buckets : WF_vars(Application(Down(b)))
  /\ WF_vars(HandOver) /\ WF_vars(Relist)
  /\ \A c \in Callers :
       WF_vars(Process(c)) /\ WF_vars(Accept(c)) /\ WF_vars(Application(Handle(c)))

-----------------------------------------------------------------------------
(* Properties *)

\* The bucket a process calls is, as long as it runs, still the bucket of the
\* name it was looked up by: no answer comes from a bucket nobody else can find.
HeldIsNamed ==
  \A c \in Callers :
    held[c] \in alive /\ RegistryUp => names[cmd[c].name] = held[c]

\* Every command a client sent is answered, or its connection ends.  (A create
\* of a new name for which no process identifier is left is this model's bound.)
Served ==
  \A c \in Callers :
    (cmd[c] # NoCmd) ~> \/ cmd[c] = NoCmd \/ Dropped(c)
                        \/ /\ cmd[c].op = "create"
                           /\ started = Buckets /\ ~Known(cmd[c].name)

\* The refinement of KVStore.  A command counts as carried out when the registry
\* or the bucket has handled it.
Sent(c) == (\E m \in calls : m.from = c) \/ (\E h \in handling : h.from = c)
cells ==
  [n \in Names |->
     [is |-> CASE names[n] = None -> "absent"
               [] Stale(n) -> "broken"
               [] OTHER -> "live",
      map |-> IF names[n] \in alive THEN data[names[n]] ELSE Empty]]
wanted ==
  [c \in Callers |-> IF task[c] \in {"wait", "ended"} /\ ~Sent(c) THEN NoCmd ELSE cmd[c]]
answered == [c \in Callers |-> IF call[c] \in Buckets THEN "OK" ELSE out[c]]
links == [c \in Callers |-> IF Dropped(c) THEN "dropped" ELSE "open"]

Store == INSTANCE KVStore WITH
  Conns <- Callers, store <- cells, cmd <- wanted, out <- answered, link <- links

\* The service is linearizable: it implements KVStore.
Implements == Store!Spec
=============================================================================
