------------------------------- MODULE KVStore -------------------------------
(***************************************************************************)
(* What the key-value service of elixir/kv_umbrella promises its clients:  *)
(* a bucket is one map, every command acts on it at one instant between    *)
(* the request and the answer, and at most once also when the connection   *)
(* is dropped before the answer.  A bucket may break, which loses its map; *)
(* until that is noticed its name is taken but useless.  KVServer is shown *)
(* to implement this specification.                                        *)
(***************************************************************************)
EXTENDS FiniteSets

CONSTANTS
  Names,    \* bucket names
  Keys,     \* keys of a bucket
  Values,   \* values of a key
  Conns     \* connections

VARIABLES
  store,    \* the cell of each name
  cmd,      \* the command of each connection that was not carried out yet
  out,      \* the answer to the last one
  link      \* whether the connection is "open" or was "dropped"

storeVars == <<store, cmd, out, link>>

Nil == "none"
NoCmd == [op |-> "none"]
Empty == [k \in Keys |-> Nil]
Absent == [is |-> "absent", map |-> Empty]
Broken == [is |-> "broken", map |-> Empty]
Live(map) == [is |-> "live", map |-> map]

Commands ==
  [op : {"unknown"}] \cup [op : {"create"}, name : Names]
  \cup [op : {"get", "delete"}, name : Names, key : Keys]
  \cup [op : {"put"}, name : Names, key : Keys, val : Values]

-----------------------------------------------------------------------------
Init ==
  /\ store = [n \in Names |-> Absent]
  /\ cmd = [c \in Conns |-> NoCmd]
  /\ out = [c \in Conns |-> Nil]
  /\ link = [c \in Conns |-> "open"]

Ask(c) ==
  /\ link[c] = "open" /\ cmd[c] = NoCmd
  /\ \E m \in Commands : cmd' = [cmd EXCEPT ![c] = m]
  /\ out' = [out EXCEPT ![c] = Nil]
  /\ UNCHANGED <<store, link>>

\* A command is carried out and, if the connection is open, answered with a.
Answer(c, a) ==
  /\ cmd[c] # NoCmd
  /\ cmd' = [cmd EXCEPT ![c] = NoCmd]
  /\ out' = IF link[c] = "open" THEN [out EXCEPT ![c] = a] ELSE out
  /\ UNCHANGED link

Unknown(c) == cmd[c].op = "unknown" /\ Answer(c, "UNKNOWN COMMAND") /\ UNCHANGED store

\* The new bucket may break as soon as it is made.
Create(c) ==
  LET n == cmd[c].name
  IN  /\ cmd[c].op = "create"
      /\ Answer(c, "OK")
      /\ IF store[n] = Absent
           THEN \E cell \in {Live(Empty), Broken} : store' = [store EXCEPT ![n] = cell]
           ELSE UNCHANGED store

NotFound(c) ==
  /\ cmd[c].op \in {"get", "put", "delete"}
  /\ store[cmd[c].name] = Absent
  /\ Answer(c, "NOT FOUND")
  /\ UNCHANGED store

Get(c) ==
  /\ cmd[c].op = "get"
  /\ store[cmd[c].name].is = "live"
  /\ Answer(c, store[cmd[c].name].map[cmd[c].key])
  /\ UNCHANGED store

Update(c) ==
  /\ cmd[c].op \in {"put", "delete"}
  /\ store[cmd[c].name].is = "live"
  /\ Answer(c, "OK")
  /\ store' = [store EXCEPT ![cmd[c].name].map[cmd[c].key] =
                 IF cmd[c].op = "put" THEN cmd[c].val ELSE Nil]

\* Connections are dropped; what they still wanted may be forgotten.
Drop ==
  \E S \in SUBSET {c \in Conns : link[c] = "open"} :
    /\ link' = [c \in Conns |-> IF c \in S THEN "dropped" ELSE link[c]]
    /\ \E T \in SUBSET {c \in Conns : link'[c] = "dropped"} :
         cmd' = [c \in Conns |-> IF c \in T THEN NoCmd ELSE cmd[c]]
    /\ UNCHANGED <<store, out>>

\* Some buckets break, or some broken ones are noticed.
Change(from, to) ==
  /\ \E S \in SUBSET {n \in Names : store[n].is = from} :
       store' = [n \in Names |-> IF n \in S THEN to ELSE store[n]]
  /\ UNCHANGED <<cmd, out, link>>

Next ==
  \/ \E c \in Conns : Ask(c) \/ Unknown(c) \/ Create(c) \/ NotFound(c) \/ Get(c) \/ Update(c)
  \/ Drop
  \/ Change("live", Broken)
  \/ Change("broken", Absent)

Spec == Init /\ [][Next]_storeVars
=============================================================================
