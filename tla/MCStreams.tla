------------------------------ MODULE MCStreams -------------------------------
(***************************************************************************)
(* Small instances of the programs that pass streams on: Zeolite, Bridge   *)
(* and Unet.  They have nothing to do with each other: `program` says      *)
(* which one a behaviour is about, and the others stay in an initial       *)
(* state.                                                                  *)
(***************************************************************************)
EXTENDS Zeolite, Bridge, Unet

Msgs == <<2, 1>>
Sends == [up |-> 1, down |-> 3]

VARIABLE program

StreamsInit ==
  /\ Init /\ BridgeInit /\ UnetInit
  /\ program \in {"zeolite", "bridge", "unet"}
  /\ program # "zeolite" => conn = "hose" /\ proto[1] = proto[2] /\ trusts = Sides

\* What the step of one program leaves alone.
RestZ == UNCHANGED <<program, bridgeVars, unetVars>>
RestB == UNCHANGED <<program, vars, unetVars>>
RestU == UNCHANGED <<program, vars, bridgeVars>>

StreamsNext ==
  \/ program = "zeolite" /\ Next /\ RestZ
  \/ program = "bridge" /\ BridgeNext /\ RestB
  \/ program = "unet" /\ UnetNext /\ RestU

\* The fairness of the three specifications.  A behaviour is about one program,
\* so that a condition on each of three actions is one on their disjunction.
Turn1 == \/ program = "zeolite" /\ NewSession(1) /\ RestZ
         \/ program = "bridge" /\ HandlerProc /\ RestB
         \/ program = "unet" /\ Handler /\ RestU
Turn2 == \/ program = "zeolite" /\ NewSession(2) /\ RestZ
         \/ program = "bridge" /\ MainCloses /\ RestB
         \/ program = "unet" /\ Reader("CLIENT") /\ RestU
Turn3 == \/ program = "bridge" /\ Pump("up") /\ RestB
         \/ program = "unet" /\ Reader("SERVER") /\ RestU
Turn4 == \/ program = "bridge" /\ Pump("down") /\ RestB
         \/ program = "unet" /\ CommandReads /\ RestU
Turn5 == \/ program = "bridge" /\ Recv("up") /\ RestB
         \/ program = "unet" /\ FilterExits /\ RestU
Turn6 == \/ program = "bridge" /\ Recv("down") /\ RestB
         \/ program = "unet" /\ ClientReads /\ RestU

StreamsSpec ==
  /\ StreamsInit /\ [][StreamsNext]_<<program, vars, bridgeVars, unetVars>>
  /\ WF_<<vars, bridgeVars, unetVars>>(Turn1)
  /\ WF_<<vars, bridgeVars, unetVars>>(Turn2)
  /\ WF_<<vars, bridgeVars, unetVars>>(Turn3)
  /\ WF_<<vars, bridgeVars, unetVars>>(Turn4)
  /\ WF_<<vars, bridgeVars, unetVars>>(Turn5)
  /\ WF_<<vars, bridgeVars, unetVars>>(Turn6)

\* Zeolite: NewSession returns, unless the other side's returned an error: its
\* caller may keep the connection open.
SessionsFinish ==
  \A s \in Sides :
    (program = "zeolite" /\ ~Returned(s)) ~> Returned(s) \/ pc[Other(s)] = "failed"
=============================================================================
