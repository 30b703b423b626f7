------------------------------- MODULE RpcMC -------------------------------
(***************************************************************************)
(* A client and a server in two scenes.  On a faulty line the client alone *)
(* asks, for a command both know and for one neither knows.  On a perfect  *)
(* line both ask, for the command both know: a frame of an odd length lets *)
(* the parser find the second frame behind it, so that two messages are    *)
(* handled in either direction.  The CRC is the sum of the payload's       *)
(* bytes, as in the unit test.                                             *)
(***************************************************************************)
EXTENDS Rpc, SequencesExt

CONSTANTS Client, Server

VARIABLE scene

sceneVars == <<vars, scene>>

MCNodes == {Client, Server}
MCMaxRequests == (Client :> 3) @@ (Server :> 1)

Odd == <<1>>
Even == <<1, 2>>
MCPayloads == {Odd, Even}
MCReply == <<3>>

SumCrc(p) == LET sum == FoldSeq(LAMBDA x, y : x + y, 0, p) IN <<Lo(sum), Hi(sum) % 256>>

\* Uuids and commands known and unknown, a size that fits what is behind and one
\* that does not.
MCMisread ==
  {Header(u, t, c, size) :
     u \in {0, 1, 4}, t \in {REQ, RESP, EVENT}, c \in {1, 2}, size \in {2, HEADER_BYTES}}

\* The requests n may make.
Asks(n) ==
  IF scene = "perfect line" THEN {<<1, Odd>>}
  ELSE IF n = Client THEN {<<1, Odd>>, <<2, Even>>}
  ELSE {}

MCInit == Init /\ scene \in {"perfect line", "faulty line"}

MCNext ==
  /\ \E n \in Nodes :
       \/ \E a \in Asks(n) : ezRPC_CreateRpcRequest(n, a[1], a[2])
       \/ ezRPC_Run(n)
       \/ scene = "faulty line" /\ Fault(n)
  /\ UNCHANGED scene

MCSpec ==
  /\ MCInit /\ [][MCNext]_sceneVars
  /\ \A n \in Nodes : WF_vars(ezRPC_Run(n)) /\ SF_vars(ReceiveByte(n))

\* What the theorems about a perfect line ask of the frames holds of these.
ASSUME MarksAssumption == MarksOnlyAtStarts
=============================================================================
