-------------------------- MODULE MCChannelManager --------------------------
(* The root channel and a throttled, sequential channel under it.  Two jobs *)
(* belong to that channel and one to the root.                              *)
EXTENDS ChannelManager

MCKey == <<2, 1, 3>>
MCParent == [seq |-> "root"]
MCUp == [root |-> {"root"}, seq |-> {"seq", "root"}]
MCCapacity == [root |-> 1, seq |-> 1]
MCThrottle == [root |-> 0, seq |-> 2]
MCChannelOf == <<"seq", "root", "seq">>
=============================================================================
