------------------------------ MODULE EventLoop ------------------------------
(***************************************************************************)
(* c/krimskrams/src/{eventloop,coro}.c and pushRD.h: an event loop that    *)
(* owns two growable arrays, `coros` and `pollfds`, matched by position.   *)
(* Every descriptor has one coroutine; the loop polls the descriptors and  *)
(* resumes the coroutine of each one that has input.                       *)
(*                                                                         *)
(* A coroutine is a client of the library, so this module lets it do       *)
(* whatever the API offers while it runs: read its descriptor, register a  *)
(* new one, delete another one, stop the loop, and then switch back by     *)
(* yielding, finishing or failing.  NetServer gives it a concrete program. *)
(*                                                                         *)
(* Array positions count from 1 here and from 0 in the code.               *)
(***************************************************************************)
EXTENDS LoopState, Naturals, Sequences, SequencesExt, FiniteSets

CONSTANTS
  ErrorHandler,  \* "NULL" or "set": loop->errorHandler
  HandlersDelete,\* TRUE: coroutines may call krk_eventloop_delFd
  Events         \* what poll can report: "IN", "HUP" or any other event

ASSUME LoopAssumption ==
  /\ Listener \in Fds
  /\ ErrorHandler \in {"NULL", "set"}
  /\ HandlersDelete \in BOOLEAN
  /\ Coros # {}
  /\ "IN" \in Events

VARIABLE kernel  \* what poll would report for each descriptor now

vars == <<running, coros, pollfds, state, home, open, kernel, pc, i, due>>

CoroStates == {"INVALID", "RUNNING", "PAUSED", "FINISHED", "ERRORED"}
Entries == [fd : Fds, revents : SUBSET Events]
live == DOMAIN home
Current == coros[i]

-----------------------------------------------------------------------------
(* The library calls. *)

Slot_StaleRevents(f) == [fd |-> f, revents |-> {"IN"}]  \* mutant: not zeroed
Slot(f) == [fd |-> f, revents |-> {}]

\* krk_eventloop_addFd: a new coroutine and a poll entry with no revents, each
\* appended to its array.  krk_coro_mk zeroes the coroutine.
AddFd(c, f) ==
  /\ coros' = Append(coros, c)
  /\ pollfds' = Append(pollfds, Slot(f))
  /\ home' = [d \in live \cup {c} |-> IF d = c THEN f ELSE home[d]]
  /\ state' = [d \in live \cup {c} |-> IF d = c THEN "INVALID" ELSE state[d]]
  /\ open' = open \cup {f}

\* krk_coro_free and free
FreeAll_Leak(S) == UNCHANGED <<home, state, due>>  \* mutant
FreeAll(S) ==
  /\ home' = Restrict(home, live \ S)
  /\ state' = Restrict(state, live \ S)
  /\ due' = due \ S

\* krk_pushrd_del on both arrays
DropAt_LastEntry(k) ==  \* mutant: the arrays lose different positions
  coros' = RemoveAt(coros, k) /\ pollfds' = RemoveAt(pollfds, Len(pollfds))
DropAt(k) ==
  coros' = RemoveAt(coros, k) /\ pollfds' = RemoveAt(pollfds, k)

\* krk_eventloop_delAt
DelAt(k) ==
  /\ open' = open \ {pollfds[k].fd}
  /\ kernel' = [kernel EXCEPT ![pollfds[k].fd] = {}]
  /\ FreeAll({coros[k]})
  /\ DropAt(k)

-----------------------------------------------------------------------------
(* krk_eventloop_run *)

First_Second == 2  \* mutant
First == 1

\* poll(): blocks until something is reported; it overwrites every revents.
Poll ==
  /\ pc = "poll"
  /\ \E k \in DOMAIN pollfds : kernel[pollfds[k].fd] # {}
  /\ pollfds' = [k \in DOMAIN pollfds |->
                   [pollfds[k] EXCEPT !.revents = kernel[pollfds[k].fd]]]
  /\ due' = {coros[k] : k \in {j \in DOMAIN coros : "IN" \in kernel[pollfds[j].fd]}}
  /\ pc' = "scan"
  /\ i' = First
  /\ UNCHANGED <<running, coros, state, home, open, kernel>>

\* poll() fails: the loop warns and scans what the last pass left in revents.
PollFails ==
  /\ pc = "poll"
  /\ due' = {coros[k] : k \in {j \in DOMAIN coros : "IN" \in pollfds[j].revents}}
  /\ pc' = "scan"
  /\ i' = First
  /\ UNCHANGED <<running, coros, pollfds, state, home, open, kernel>>

\* The loop over the arrays has a position to look at.
Scanning == pc = "scan" /\ i <= Len(pollfds)

Skip ==
  /\ Scanning
  /\ pollfds[i].revents = {}
  /\ i' = i + 1
  /\ UNCHANGED <<running, coros, pollfds, state, home, open, kernel, pc, due>>

\* krk_coro_run: the coroutine has the processor until it switches back.
Resume ==
  /\ Scanning
  /\ "IN" \in pollfds[i].revents
  /\ state' = [state EXCEPT ![Current] = "RUNNING"]
  /\ due' = due \ {Current}
  /\ pc' = "handler"
  /\ UNCHANGED <<running, coros, pollfds, home, open, kernel, i>>

HungUp(revents) == "HUP" \in revents /\ "IN" \notin revents

\* The entry is deleted and the error handler called, if there is one or not.
HangUp ==
  /\ Scanning
  /\ HungUp(pollfds[i].revents)
  /\ DelAt(i)
  /\ pc' = IF ErrorHandler = "NULL" THEN "crashed" ELSE "scan"
  /\ i' = i + 1
  /\ UNCHANGED running

UnknownEvent ==
  /\ Scanning
  /\ pollfds[i].revents # {}
  /\ pollfds[i].revents \cap {"IN", "HUP"} = {}
  /\ DelAt(i)
  /\ i' = i + 1
  /\ UNCHANGED <<running, pc>>

GoesOn_Forever == TRUE  \* mutant
GoesOn == running

\* The end of a pass: poll again, or leave and free what is left.
EndPass ==
  /\ pc = "scan"
  /\ i > Len(pollfds)
  /\ IF GoesOn
     THEN /\ pc' = "poll"
          /\ UNCHANGED <<coros, pollfds, state, home, due>>
     ELSE /\ pc' = "exited"
          /\ FreeAll(Range(coros))
          /\ coros' = <<>>
          /\ pollfds' = <<>>
  /\ i' = 1
  /\ UNCHANGED <<running, open, kernel>>

-----------------------------------------------------------------------------
(* What the running coroutine can do. *)

InHandler == pc = "handler"

\* It reads all there is on its own descriptor.
Read ==
  /\ InHandler
  /\ "IN" \in kernel[home[Current]]
  /\ kernel' = [kernel EXCEPT ![home[Current]] = @ \ {"IN"}]
  /\ UNCHANGED <<running, coros, pollfds, state, home, open, pc, i, due>>

\* It opens a descriptor (accept, open, ...), which may use up the input of its
\* own one and may have input already, and registers it.
Register ==
  /\ InHandler
  /\ \E f \in Fds \ open, c \in Coros \ live, now \in SUBSET Events, used \in SUBSET {"IN"} :
       /\ AddFd(c, f)
       /\ kernel' = [kernel EXCEPT ![f] = now, ![home[Current]] = @ \ used]
  /\ UNCHANGED <<running, pc, i, due>>

\* krk_eventloop_delFd for a descriptor registered after its own: deleting an
\* earlier one moves the coroutine away from position i under the loop's feet.
Unregister ==
  /\ InHandler
  /\ HandlersDelete
  /\ \E k \in (i + 1) .. Len(pollfds) : DelAt(k)
  /\ UNCHANGED <<running, pc, i>>

Stop ==
  /\ InHandler
  /\ running
  /\ running' = FALSE
  /\ UNCHANGED <<coros, pollfds, state, home, open, kernel, pc, i, due>>

\* What the loop may do with a coroutine that switched back in state s: a
\* failed one stays when the error handler returns 0.
Stays_Finished(s) == s # "ERRORED"             \* mutant
Stays_Failed(s) == s \in {"PAUSED", "ERRORED"}  \* mutant
Stays(s) == s = "PAUSED" \/ (s = "ERRORED" /\ ErrorHandler # "NULL")
Goes(s) == s \in {"FINISHED", "ERRORED"}

\* krk_coro_back, and the switch on coro->state after krk_coro_run.
SwitchBack(s) ==
  /\ InHandler
  /\ \/ Goes(s) /\ DelAt(i)
     \/ /\ Stays(s)
        /\ state' = [state EXCEPT ![Current] = s]
        /\ UNCHANGED <<coros, pollfds, home, open, kernel, due>>
  /\ pc' = "scan"
  /\ i' = i + 1
  /\ UNCHANGED running

Yield == SwitchBack("PAUSED")
Finish == SwitchBack("FINISHED")
Error == SwitchBack("ERRORED")
Return == Yield \/ Finish \/ Error

-----------------------------------------------------------------------------
\* The world outside: input, a hang-up or an error reaches an open descriptor.
Happens ==
  /\ pc \notin {"exited", "crashed"}
  /\ \E f \in open, new \in SUBSET Events :
       /\ ~(new \subseteq kernel[f])
       /\ kernel' = [kernel EXCEPT ![f] = @ \cup new]
  /\ UNCHANGED <<running, coros, pollfds, state, home, open, pc, i, due>>

Init ==
  \E c0 \in Coros :
    /\ running = TRUE
    /\ coros = <<c0>>
    /\ pollfds = <<Slot(Listener)>>
    /\ state = [c \in {c0} |-> "INVALID"]
    /\ home = [c \in {c0} |-> Listener]
    /\ open = {Listener}
    /\ kernel = [f \in Fds |-> {}]
    /\ pc = "poll"
    /\ i = 1
    /\ due = {}

LoopStep == Poll \/ Skip \/ Resume \/ HangUp \/ UnknownEvent \/ EndPass
HandlerStep == Read \/ Register \/ Unregister \/ Stop \/ Return

Next == LoopStep \/ PollFails \/ HandlerStep \/ Happens

Spec == Init /\ [][Next]_vars

\* The process runs: the loop takes its steps and a coroutine that has the
\* processor gives it back.  Poll is strong: it may fail, but not every time.
\* Nothing outside is promised.
FairSpec == Spec /\ WF_vars(LoopStep) /\ WF_vars(Return) /\ SF_vars(Poll)

-----------------------------------------------------------------------------
(* Properties *)

\* Every variable keeps the type its declaration in the code gives it.
TypeOK ==
  /\ running \in BOOLEAN
  /\ coros \in Seq(Coros)
  /\ pollfds \in Seq(Entries)
  /\ live \subseteq Coros
  /\ home \in [live -> Fds]
  /\ state \in [live -> CoroStates]
  /\ open \in SUBSET Fds
  /\ kernel \in [Fds -> SUBSET Events]
  /\ pc \in {"poll", "scan", "handler", "exited", "crashed"}
  /\ i \in Nat \ {0}
  /\ due \in SUBSET Coros

\* The two arrays stay matched by position whatever is registered, finished
\* or deleted in the middle of a pass: position k of coros is the coroutine
\* that was made for the descriptor at position k of pollfds.
Aligned ==
  /\ Len(coros) = Len(pollfds)
  /\ \A k \in DOMAIN coros : home[coros[k]] = pollfds[k].fd

OwnsCoros == IsInjective(coros) /\ Range(coros) = live

OwnsFds ==
  /\ \A k, l \in DOMAIN pollfds : pollfds[k].fd = pollfds[l].fd => k = l
  /\ {pollfds[k].fd : k \in DOMAIN pollfds} = open

\* The arrays own their coroutines and descriptors: every allocated coroutine
\* is at exactly one position (nothing leaks, nothing is freed twice, nothing
\* freed is resumed), and the same holds of the open descriptors until the
\* loop exits, which frees the coroutines and leaves the descriptors open.
Owned == OwnsCoros /\ (pc # "exited" => OwnsFds)

\* The coroutine that runs is at position i.  No other one in the array is
\* marked running or finished, so the loop never jumps back into one that is
\* over; a failed one stays only when an error handler asked for it.
NoneOver ==
  /\ pc = "handler" => i \in DOMAIN coros
  /\ \A k \in DOMAIN coros :
       /\ state[coros[k]] # "FINISHED"
       /\ state[coros[k]] = "RUNNING" <=> (pc = "handler" /\ k = i)
       /\ ErrorHandler = "NULL" => state[coros[k]] # "ERRORED"

\* A coroutine is resumed only for input that poll reported for its own
\* descriptor, and once per pass, although deletions shift the arrays and
\* registrations extend them while they are scanned.  What is reported is what
\* the last poll that did not fail has left in the entries.
ResumedOnlyIfDue ==
  [][\A c \in live' : state'[c] = "RUNNING" /\ (c \in live => state[c] # "RUNNING")
        => c \in due]_vars

\* No starvation: a coroutine whose descriptor has input is resumed, or is
\* deleted, or the loop ends.  Deleting position i makes the scan skip the
\* entry that moves into it; poll is level-triggered, so it is reported again.
Served ==
  \A c \in Coros :
    (c \in live /\ "IN" \in kernel[home[c]])
      ~> (c \in live => state[c] = "RUNNING" \/ pc = "crashed")

\* Once running is cleared the pass in progress is the last one.
StopEnds == ~running ~> pc \in {"exited", "crashed"}
=============================================================================
