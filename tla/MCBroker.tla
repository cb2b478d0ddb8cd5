------------------------------ MODULE MCBroker ------------------------------
(***************************************************************************)
(* Instances of Broker for TLC.  Two subscriber nodes whose names are a    *)
(* prefix of one another, as Subscriber-1 and Subscriber-10 are.           *)
(***************************************************************************)
EXTENDS Broker, TLC

CONSTANTS pa, pb, pb2, px

MCNameOf == <<<<1>>, <<1, 0>>>>
MCIdOf   == <<10, 11>>

(* pa is the process of node 1; pb, and pb2 after a restart, of node 2; px *)
(* has a name the configuration does not list.                             *)
MCProcName == [p \in Proc |-> CASE p = pa          -> <<1>>
                                [] p \in {pb, pb2} -> <<1, 0>>
                                [] p = px          -> <<1, 1>>]

Bcast(ids) == [cmdSendType |-> IH_CMD_TYPE_SEND_PARALLEL, cmdid |-> IH_CMD_ID_DEFAULT, ids |-> ids]
Reserve(i) == [cmdSendType |-> IH_CMD_TYPE_SEND_RESERVE, cmdid |-> i, ids |-> <<>>]
Serial     == [cmdSendType |-> IH_CMD_TYPE_SEND_SERIAL, cmdid |-> IH_CMD_ID_DEFAULT, ids |-> <<>>]

(* A broadcast to both nodes: the broker is stopped by a dead or slow peer *)
(* of either.                                                              *)
ToBoth == {Bcast(<<11, 10>>)}

(* Broadcasts to both and to one, and a reserve command without answer. *)
Mixed == {Bcast(<<11, 10>>), Bcast(<<10>>), Reserve(IH_CMD_ID_RESERVE)}

(* With a command of the type main passes over. *)
WithSerial == {Bcast(<<11, 10>>), Serial}

(* A broadcast that names node 2 twice, and a query. *)
Repeated == {Bcast(<<11, 10, 11>>), Reserve(IH_RESERVE_CMD_ID_GET_SHM_NUM)}
=============================================================================
