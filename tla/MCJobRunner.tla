---------------------------- MODULE MCJobRunner ----------------------------
(* A job of a subchannel and one of the root channel that depends on it.    *)
EXTENDS JobRunner, TLC

MCKey == <<1, 2>>
MCParent == [sub |-> "root"]
MCUp == [root |-> {"root"}, sub |-> {"sub", "root"}]
MCCapacity == [root |-> 1, sub |-> 1]
MCThrottle == [root |-> 0, sub |-> 0]
MCChannelOf == <<"sub", "root">>
MCDependsOn == <<{}, {1}>>
MCMaxRetries == <<2, 1>>
SeqChannelOf == <<"sub", "sub">>

\* For liveness: the second job of the subchannel depends on the first and on
\* one of the root channel, which may end together.
LiveKey == <<3, 1, 2>>
LiveCapacity == [root |-> 2, sub |-> 1]
LiveChannelOf == <<"sub", "sub", "root">>
LiveDependsOn == <<{}, {1, 3}, {}>>
LiveMaxRetries == <<2, 1, 1>>
Symmetry == Permutations(Workers)
=============================================================================
