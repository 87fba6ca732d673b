------------------------------- MODULE MCLoops --------------------------------
(***************************************************************************)
(* Small instances of EventLoop and of NetServer with their fairness:      *)
(* `program` says which one a behaviour is of.  The coroutines of the      *)
(* first do whatever the library offers.                                   *)
(***************************************************************************)
EXTENDS NetServer

CONSTANTS
  LoopFds, LoopCoros,  \* those of Fds and Coros the first one has
  FirstCoro            \* one of them

\* One peer sends more than the handler reads, the others a byte.
Sends == [p \in Peers |-> IF p \in Quitters THEN 1 ELSE Want + 1]

VARIABLES program, kernel

L == INSTANCE EventLoop WITH
       Fds <- LoopFds, Coros <- LoopCoros, ErrorHandler <- "NULL",
       HandlersDelete <- TRUE, Events <- {"IN", "HUP", "ERR"}

LoopsInit ==
  /\ program \in {"any", "server"}
  /\ Init
  /\ coros = <<FirstCoro>>
  /\ kernel = [f \in Fds |-> {}]

RestAny == program = "any" /\ UNCHANGED <<program, net>>
RestServer == program = "server" /\ UNCHANGED <<program, kernel>>

LoopsNext ==
  \/ RestAny /\ L!Next
  \/ RestServer /\ Next

\* The fairness of the two specifications.  A behaviour is of one program, so
\* that a condition on each of two actions is one on their disjunction.
Turn1 == (RestAny /\ L!LoopStep) \/ (RestServer /\ Process)
Turn2(p) == (RestAny /\ L!Return) \/ (RestServer /\ Recv(p))

LoopsSpec ==
  /\ LoopsInit /\ [][LoopsNext]_<<vars, program, kernel>>
  /\ WF_<<vars, kernel>>(Turn1)
  /\ \A p \in Peers : WF_<<vars, kernel>>(Turn2(p))
  /\ SF_<<vars, kernel>>(RestAny /\ L!Poll)

\* The server is an instance of the event loop: Implements, of its behaviours.
ServerImplements ==
  /\ program = "server" => EL!Init
  /\ [][program = "server" => [EL!Next]_(EL!vars)]_<<vars, program, kernel>>

\* No starvation: a coroutine whose descriptor has input is resumed, or is
\* deleted, or the loop ends.
LoopServed == L!Served

\* Once running is cleared the pass in progress is the last one.
LoopStops == program = "any" => L!StopEnds
=============================================================================
