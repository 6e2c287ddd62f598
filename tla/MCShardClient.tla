--------------------------- MODULE MCShardClient ---------------------------
(***************************************************************************)
(* Values of the constants of ShardClient for model checking.              *)
(***************************************************************************)
EXTENDS ShardClient

CONSTANTS k1, k2

\* Two shards; the label of the first is the beginning of the label of the
\* second, as with "node1" and "node10".
TwoShards == <<[label |-> <<"n", "1">>, address |-> "h1"],
               [label |-> <<"n", "1", "0">>, address |-> "h2"]>>

\* The same two shards given in the other order.
TwoShardsLongerFirst == <<TwoShards[2], TwoShards[1]>>

\* The arrays an application may give shardcache_client_create: the shards,
\* an empty array, and an array with an address the expression rejects.
Arrays(good) == {good, <<>>, <<[label |-> <<"n", "1">>, address |-> "h 1"]>>}

TwoShardsArgs == Arrays(TwoShards)
LongerFirstArgs == Arrays(TwoShardsLongerFirst)

Rejected == {"h 1"}

\* k1 belongs to the first shard of TwoShards and k2 to the second.
OwnerOf == (k1 :> <<"n", "1">>) @@ (k2 :> <<"n", "1", "0">>)

\* The names an application asks stats, check and index about.
SomeNames == {<<"n", "1">>, <<"n", "1", "0">>, <<"n">>}

\* The arrays given to migration_begin: one that is accepted, one that is not.
NewShards == {<<[label |-> <<"n", "2">>, address |-> "h3"]>>,
              <<[label |-> <<"n", "2">>, address |-> "h 1"]>>}

OneByte  == {<<1>>}
TwoBytes == {<<2, 3>>}
TwoSizes == {<<1>>, <<2, 3>>}

SomeOffsets == {<<0, 1>>, <<1, 2>>}

\* Item arrays of up to two items: a key alone (for get_multi, or a delete
\* of set_multi) or a key with data; and arrays that end with an item a
\* failed get of get_multi has left with its data and the length 0.
PairsOf(vals) ==
    LET one == {Item(k, d) : k \in Keys, d \in vals \cup {NoValue}}
        left(x) == [x EXCEPT !.dlen = 0]
    IN  {<<x>> : x \in one} \cup {<<x, y>> : x \in one, y \in one}
            \cup {<<left(x)>> : x \in one} \cup {<<x, left(x)>> : x \in one}

Pairs == PairsOf(Values)

\* What the application does: in one group of runs every call of one
\* thread, in the other the calls that start threads.
SingleCalls == {"get", "offset", "exists", "touch", "set", "add", "del", "evict",
                "stats", "check", "index", "get_async",
                "migration_begin", "migration_abort", "destroy"}
MultiCalls  == {"get_multi", "set_multi", "del"}
=============================================================================
