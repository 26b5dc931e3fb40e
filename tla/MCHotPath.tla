------------------------------- MODULE MCHotPath -------------------------------
(* Values of the constants of HotPath for TLC. *)
EXTENDS HotPath

MCSegments == <<"s1">>
MCChannels == <<"ota">>
MCShardOf == [s \in {"s1"} |-> "shard"]
MCApartmentsOf == [s \in {"s1"} |-> {"a1"}]
MCOverridden == {<<"a1", 1>>}
===============================================================================
