------------------------------ MODULE LoopState -------------------------------
(***************************************************************************)
(* The state of the event loop of c/krimskrams, which EventLoop shares     *)
(* with the programs that run on it (NetServer, Broadcast).                *)
(***************************************************************************)
CONSTANTS
  Fds,     \* descriptor numbers the kernel can hand out
  Coros,   \* addresses malloc can return for a coroutine
  Listener \* the descriptor registered before krk_eventloop_run

VARIABLES
  running,  \* loop->running
  coros,    \* loop->coros
  pollfds,  \* loop->pollfds: records of a descriptor and its revents
  state,    \* krk_coro_t.state of each coroutine allocated and not yet freed
  home,     \* the descriptor each of them was made for
  open,     \* the descriptors that are open
  pc,       \* where krk_eventloop_run is
  i,        \* its scan position
  due       \* history: coroutines that were reported with input when the pass
            \* began and that have not been resumed since

loop == <<running, coros, pollfds, state, home, open, pc, i, due>>
=============================================================================
