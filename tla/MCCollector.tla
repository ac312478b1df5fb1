---------------------------- MODULE MCCollector ----------------------------
(***************************************************************************)
(* Instances of Collector for TLC.                                          *)
(***************************************************************************)
EXTENDS Collector

\* Inventories of one and of three devices.
MCOne   == <<"core1">>
MCThree == <<"core1", "edge1", "edge2">>

MCSecret   == {"core1"}
MCHung     == {"edge1"}
MCNone     == {}

\* A configuration, a rejection, and a rejection too long to be seen as one.
MCConfig   == [lines |-> 40, rejects |-> FALSE]
MCReject   == [lines |-> 1,  rejects |-> TRUE]
MCAtLimit  == [lines |-> MAX_ERROR_REPLY_LINES,     rejects |-> TRUE]
MCPastLimit == [lines |-> MAX_ERROR_REPLY_LINES + 1, rejects |-> TRUE]
MCEmpty    == [lines |-> 0,  rejects |-> FALSE]

MCTwoReplies == {MCConfig, MCReject}
MCAllReplies == {MCConfig, MCReject, MCAtLimit, MCPastLimit, MCEmpty}

MCTwoExceptions == {"refused", "auth"}
=============================================================================
