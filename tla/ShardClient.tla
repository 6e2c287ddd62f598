------------------------------ MODULE ShardClient ------------------------------
(***************************************************************************)
(* The sharded client of src/shardcache_client.c: one client structure,    *)
(* the thread of the application that calls it, the threads get_multi and  *)
(* set_multi start, the descriptors of the process, and the shard nodes    *)
(* the calls go to.                                                        *)
(*                                                                         *)
(* What the model keeps and what it abstracts:                             *)
(*  - every function of the file is one action; a function that talks to   *)
(*    a node is two steps, up to the request and from the answer on,       *)
(*    because the call to the node blocks and other threads run meanwhile; *)
(*  - labels and values are short sequences, so that strncmp, strlen and   *)
(*    the copy of shardcache_client_offset are modelled by what they do;   *)
(*  - keys and addresses are opaque; chash_lookup is the constant chash;   *)
(*  - auth, errstr and the wording of the messages are left out;           *)
(*  - the connection pool, the nodes and the asynchronous reader are not   *)
(*    in the repository: they are modelled from how this file uses them    *)
(*    (connections_pool_get, PeerCall, AsyncDone, NodeDown, NodeUp).       *)
(***************************************************************************)
EXTENDS Integers, Sequences, FiniteSets, SequencesExt

CONSTANTS
    Nodes,          \* the array of a successful shardcache_client_create
    CreateArgs,     \* the arrays the application may give shardcache_client_create
    BadAddrs,       \* the address strings ADDR_REGEXP does not match
    Keys,           \* the cache keys
    Values,         \* the values the application stores: non-empty byte sequences
    chash,          \* chash[k]: the label chash_lookup returns for key k
    NodeNames,      \* the names given to stats, check and index
    MigrationArgs,  \* the arrays given to shardcache_client_migration_begin
    Offsets,        \* the <<offset, dlen>> pairs given to shardcache_client_offset
    ItemLists,      \* the item arrays given to get_multi and set_multi
    Calls,          \* the functions the application calls, by their names
    LostAnswers,    \* whether a node may serve a request and its answer be lost
    MaxFds,         \* bound: descriptors the process may have open
    MaxOutages,     \* bound: times a node becomes unreachable
    NoKey           \* the key field of a request that names no key

Labels == {Nodes[i].label : i \in DOMAIN Nodes}
Addrs  == {Nodes[i].address : i \in DOMAIN Nodes}

ASSUME /\ Nodes \in CreateArgs
       /\ Addrs \cap BadAddrs = {}
       /\ chash \in [Keys -> Labels]
       /\ \A v \in Values : v # <<>>
       /\ LostAnswers \in BOOLEAN
       /\ MaxFds \in Nat \ {0} /\ MaxOutages \in Nat

Main    == 0                      \* the application's thread
Workers == 1 .. Len(Nodes)        \* the threads of get_multi and set_multi
Threads == {Main} \cup Workers
Fds     == 0 .. MaxFds - 1
NoValue == <<>>                   \* no data: a NULL pointer or a length of zero

VARIABLES
    shards,     \* c->shards (c->num_shards is its length); <<>>: no client
    errno,      \* c->errno
    pool,       \* pool[a]: the descriptors c->connections holds for address a
    conn,       \* conn[f]: what the open descriptor f is connected to
    async,      \* the descriptors handed to fetch_from_peer_async
    th,         \* th[t]: where thread t is, its request, descriptor and result
    loop,       \* loop[t]: the list thread t walks and the index i of its loop
    items,      \* the item array of the last get_multi or set_multi
    multi,      \* which of the two is running, or "none"
    peer,       \* peer[a]: the store and the migration flag of the node at a
    up,         \* up[a]: whether the node at a accepts and answers
    gen,        \* gen[a]: how often the node at a came back
    outages     \* number of outages so far

job  == <<items, loop, multi>>
node == <<up, gen, outages>>
vars == <<shards, errno, pool, conn, async, th, job, peer, node>>

-----------------------------------------------------------------------------
(* Values of the state *)

Errors   == {"OK", "ERROR_NODE", "ERROR_ARGS"}
KeyOps   == {"get", "offset", "exists", "touch", "set", "add", "del", "evict"}
NodeOps  == {"stats", "check", "index", "migration_begin", "migration_abort"}
Closed   == [node |-> "", gen |-> 0]
NoReq    == [op |-> "none", key |-> NoKey, val |-> NoValue, off |-> 0, len |-> 0]
Req(op, k, v) == [op |-> op, key |-> k, val |-> v, off |-> 0, len |-> 0]
Ret(rc, data) == [rc |-> rc, data |-> data]
AtRest   == [pc |-> "idle", req |-> NoReq, fd |-> -1, ret |-> Ret(0, NoValue)]
NoLoop   == [list |-> <<>>, i |-> 0]
NewPeer  == [data |-> [k \in Keys |-> NoValue], migrating |-> FALSE]
Item(k, data) == [key |-> k, data |-> data, dlen |-> Len(data), status |-> 0]

Idle(t)         == th[t].pc = "idle"
Awaiting(t, op) == th[t].pc = "peer" /\ th[t].req.op = op

\* int check_address_string(char *str): 0 when the regular expression matches
check_address_string(str) == IF str \in BadAddrs THEN -1 ELSE 0

-----------------------------------------------------------------------------
(* The nodes, the connection pool and the descriptors: not in the          *)
(* repository, modelled from the way the client uses them.                 *)

FreeFds == {f \in Fds : conn[f] = Closed}

\* The descriptors connections_pool_get(pool, a) may return: one the pool
\* holds for a, else a new connection, else -1.
connections_pool_get(a) ==
    IF pool[a] # {} THEN pool[a]
    ELSE IF up[a] /\ FreeFds # {} THEN {Min(FreeFds)} ELSE {-1}

\* The descriptor still reaches the process it was connected to.
Reachable(f) == up[conn[f].node] /\ conn[f].gen = gen[conn[f].node]

\* What the node answers to a request it serves: the rc and the value.
Answer(p, r) ==
    LET v == p.data[r.key] IN
    CASE r.op = "get"    -> Ret(0, v)
      [] r.op = "offset" -> Ret(0, SubSeq(v, r.off + 1, Min({r.off + r.len, Len(v)})))
      [] r.op = "exists" -> Ret(IF v = NoValue THEN 0 ELSE 1, NoValue)
      [] r.op = "add"    -> Ret(IF v = NoValue THEN 0 ELSE 1, NoValue)
      [] OTHER           -> Ret(0, NoValue)

\* The state of the node after it served the request.
Served(p, r) ==
    CASE r.op = "set" -> [p EXCEPT !.data[r.key] = r.val]
      [] r.op = "add" -> [p EXCEPT !.data[r.key] = IF @ = NoValue THEN r.val ELSE @]
      [] r.op = "del" -> [p EXCEPT !.data[r.key] = NoValue]
      [] r.op = "migration_begin" -> [p EXCEPT !.migrating = TRUE]
      [] r.op = "migration_abort" -> [p EXCEPT !.migrating = FALSE]
      [] OTHER -> p

\* The outcomes of a request sent on descriptor f: answered, served with the
\* answer lost, or not served at all.
PeerCall(f, r) ==
    LET p    == peer[conn[f].node]
        lost == [rc |-> -1, data |-> NoValue] IN
    IF Reachable(f)
    THEN {[ans |-> Answer(p, r), state |-> Served(p, r)], [ans |-> lost, state |-> p]}
            \cup IF LostAnswers THEN {[ans |-> lost, state |-> Served(p, r)]} ELSE {}
    ELSE {[ans |-> lost, state |-> p]}

-----------------------------------------------------------------------------
(* Node selection *)

\* The shards whose label strncmp finds equal to the name chash_lookup
\* returned, over the length of that name.
Hits(k) == {i \in DOMAIN shards : IsPrefix(chash[k], shards[i].label)}

\* select_node with the break of its loop left out: the last shard that matches.
select_node_unbroken(k) == shards[Max(Hits(k))].address

\* char *select_node(c, key, klen): the address of the first shard that matches.
select_node(k) == shards[Min(Hits(k))].address

\* shardcache_node_t *shardcache_get_node(c, node_name): the index of the
\* first shard whose label strcmp finds equal, 0 for NULL.
shardcache_get_node(name) ==
    LET hits == {i \in DOMAIN shards : shards[i].label = name}
    IN  IF hits = {} THEN 0 ELSE Min(hits)

-----------------------------------------------------------------------------
(* What every call does with its descriptor *)

\* Descriptor f, returned by connections_pool_get(a), leaves the pool or is
\* a new connection to a.
Take(a, f) ==
    /\ pool' = [pool EXCEPT ![a] = @ \ {f}]
    /\ conn' = IF f \in pool[a] THEN conn
               ELSE [conn EXCEPT ![f] = [node |-> a, gen |-> gen[a]]]

\* fd = connections_pool_get(c->connections, node), with the test of
\* fd < 0 left out: the request goes out on whatever was returned.
Connect_unchecked(t, r, a, miss) ==
    /\ \E f \in connections_pool_get(a) :
         /\ th' = [th EXCEPT ![t] = [@ EXCEPT !.pc = "peer", !.req = r, !.fd = f]]
         /\ IF f < 0 THEN UNCHANGED <<pool, conn>> ELSE Take(a, f)
    /\ UNCHANGED <<shards, errno, async, peer, node>>

\* fd = connections_pool_get(c->connections, node); if (fd < 0) return miss;
\* then the request goes out on fd.
Connect(t, r, a, miss) ==
    /\ \E f \in connections_pool_get(a) :
         IF f < 0
         THEN /\ th' = [th EXCEPT ![t] = [AtRest EXCEPT !.ret = miss]]
              /\ UNCHANGED <<pool, conn>>
         ELSE /\ th' = [th EXCEPT ![t] = [@ EXCEPT !.pc = "peer", !.req = r, !.fd = f]]
              /\ Take(a, f)
    /\ UNCHANGED <<shards, errno, async, peer, node>>

\* close(fd) left out: the descriptor stays open.
close_skipped(f) == conn

\* close(fd)
close(f) == [conn EXCEPT ![f] = Closed]

\* The end of a call: close(fd) and ERROR_NODE when the node call failed,
\* connections_pool_add(c->connections, node, fd) and OK when it did not.
\* conn[f].node is the local variable node the descriptor was got for.
Settle(t, failed, result) ==
    LET f == th[t].fd IN
    /\ conn' = IF failed THEN close(f) ELSE conn
    /\ pool' = IF failed THEN pool ELSE [pool EXCEPT ![conn[f].node] = @ \cup {f}]
    /\ errno' = IF failed THEN "ERROR_NODE" ELSE "OK"
    /\ th' = [th EXCEPT ![t] = [AtRest EXCEPT !.ret = result]]
    /\ UNCHANGED <<shards, async, node>>

\* The outcomes of the node call thread t is in.
Answers(t) == PeerCall(th[t].fd, th[t].req)

\* The node call of thread t returns with outcome o and the function ends:
\* failed is the function's test of the rc, result the value it returns.
Finish(t, o, failed, result) ==
    /\ peer' = [peer EXCEPT ![conn[th[t].fd].node] = o.state]
    /\ Settle(t, failed, result)

RcOf(ans) == Ret(ans.rc, NoValue)

-----------------------------------------------------------------------------
(* The calls that name a key: thread t is the application's thread or a    *)
(* thread of get_multi or set_multi.                                       *)

\* size_t shardcache_client_get(c, key, klen, data)
shardcache_client_get(t, k) ==
    \/ /\ Idle(t)
       /\ Connect(t, Req("get", k, NoValue), select_node(k), Ret(0, NoValue))
    \/ /\ th[t].req.key = k
       /\ Awaiting(t, "get")
       /\ \E o \in Answers(t) :
            Finish(t, o, o.ans.rc # 0,
                   IF o.ans.rc = 0 THEN Ret(Len(o.ans.data), o.ans.data) ELSE Ret(0, NoValue))

\* size_t shardcache_client_offset(c, key, klen, offset, data, dlen)
shardcache_client_offset(t, k, off, dlen) ==
    \/ /\ Idle(t)
       /\ Connect(t, [Req("offset", k, NoValue) EXCEPT !.off = off, !.len = dlen],
                  select_node(k), Ret(0, NoValue))
    \/ /\ th[t].req.key = k /\ th[t].req.off = off /\ th[t].req.len = dlen
       /\ Awaiting(t, "offset")
       /\ \E o \in Answers(t) :
            LET to_copy == IF dlen > Len(o.ans.data) THEN Len(o.ans.data) ELSE dlen IN
            Finish(t, o, o.ans.rc # 0,
                   IF o.ans.rc = 0 THEN Ret(to_copy, SubSeq(o.ans.data, 1, to_copy))
                                   ELSE Ret(0, NoValue))

\* The body of the calls that return the rc of the node call: select_node,
\* the descriptor, the node call named sent, and close or
\* connections_pool_add by the function's test of the rc, which is
\* rc != 0 when strict and rc == -1 when not.
KeyCall(t, r, sent, strict) ==
    \/ /\ Idle(t)
       /\ Connect(t, r, select_node(r.key), Ret(-1, NoValue))
    \/ /\ th[t].pc = "peer" /\ th[t].req = r
       /\ \E o \in PeerCall(th[t].fd, [r EXCEPT !.op = sent]) :
            Finish(t, o, IF strict THEN o.ans.rc # 0 ELSE o.ans.rc = -1, RcOf(o.ans))

\* shardcache_client_exists with the test of the rc of shardcache_client_del.
shardcache_client_exists_as_del(t, k) ==
    KeyCall(t, Req("exists", k, NoValue), "exists", TRUE)

\* int shardcache_client_exists(c, key, klen)
shardcache_client_exists(t, k) ==
    KeyCall(t, Req("exists", k, NoValue), "exists", FALSE)

\* int shardcache_client_touch(c, key, klen)
shardcache_client_touch(t, k) ==
    KeyCall(t, Req("touch", k, NoValue), "touch", FALSE)

\* The two node calls exchanged: send_to_peer when inx, add_to_peer when not.
add_or_send_exchanged(inx) == IF inx # 0 THEN "set" ELSE "add"

\* if (inx) rc = add_to_peer(...); else rc = send_to_peer(...);
add_or_send(inx) == IF inx # 0 THEN "add" ELSE "set"

\* static int _shardcache_client_set_internal(c, key, klen, data, dlen,
\* expire, inx), called by the function named op.
shardcache_client_set_internal(t, op, k, v, inx) ==
    KeyCall(t, Req(op, k, v), add_or_send(inx), FALSE)

\* int shardcache_client_set(c, key, klen, data, dlen, expire)
shardcache_client_set(t, k, v) == shardcache_client_set_internal(t, "set", k, v, 0)

\* int shardcache_client_add(c, key, klen, data, dlen, expire)
shardcache_client_add(t, k, v) == shardcache_client_set_internal(t, "add", k, v, 1)

\* int shardcache_client_del(c, key, klen)
shardcache_client_del(t, k) == KeyCall(t, Req("del", k, NoValue), "del", TRUE)

\* int shardcache_client_evict(c, key, klen)
shardcache_client_evict(t, k) == KeyCall(t, Req("evict", k, NoValue), "evict", TRUE)

-----------------------------------------------------------------------------
(* The calls that name a node *)

\* The body stats, check and index share: shardcache_get_node, the
\* descriptor, the node call, and close or connections_pool_add.
NodeCall(op, name) ==
    LET n == shardcache_get_node(name) IN
    \/ /\ Idle(Main) /\ n = 0
       /\ errno' = "ERROR_ARGS"
       /\ th' = [th EXCEPT ![Main].ret = Ret(-1, NoValue)]
       /\ UNCHANGED <<shards, pool, conn, async, peer, node>>
    \/ /\ Idle(Main) /\ n # 0
       /\ Connect(Main, Req(op, NoKey, NoValue), shards[n].address, Ret(-1, NoValue))
    \/ /\ Awaiting(Main, op)
       /\ \E o \in Answers(Main) : Finish(Main, o, o.ans.rc # 0, RcOf(o.ans))

\* int shardcache_client_stats(c, node_name, buf, len)
shardcache_client_stats(name) == NodeCall("stats", name)

\* int shardcache_client_check(c, node_name)
shardcache_client_check(name) == NodeCall("check", name)

\* shardcache_storage_index_t *shardcache_client_index(c, node_name):
\* rc 0 stands for an index, -1 for NULL
shardcache_client_index(name) == NodeCall("index", name)

\* int shardcache_client_get_async(c, key, klen, data_cb, priv): the
\* descriptor goes to fetch_from_peer_async and is not seen here again;
\* what that call returns, 0 or -1, is what the function returns.
shardcache_client_get_async(k) ==
    /\ Idle(Main)
    /\ \E f \in connections_pool_get(select_node(k)) :
         IF f < 0
         THEN /\ th' = [th EXCEPT ![Main].ret = Ret(-1, NoValue)]
              /\ UNCHANGED <<pool, conn, async>>
         ELSE /\ \E rc \in {0, -1} : th' = [th EXCEPT ![Main].ret = Ret(rc, NoValue)]
              /\ Take(select_node(k), f)
              /\ async' = async \cup {f}
    /\ UNCHANGED <<shards, errno, peer, node>>

\* The asynchronous reader is done with a descriptor and closes it.
AsyncDone(f) ==
    /\ f \in async
    /\ async' = async \ {f}
    /\ conn' = close(f)
    /\ UNCHANGED <<shards, errno, pool, th, job, peer, node>>

-----------------------------------------------------------------------------
(* Migration: one node call per shard, in the order of c->shards *)

\* The loop over c->shards of migration_begin and migration_abort, with
\* the return at the first descriptor or node call that fails.
ShardLoop(op) ==
    LET i == loop[Main].i IN
    \/ /\ th[Main].pc = "loop" /\ th[Main].req.op = op /\ i > Len(shards)
       /\ errno' = "OK"
       /\ th' = [th EXCEPT ![Main] = AtRest]
       /\ loop' = [loop EXCEPT ![Main] = NoLoop]
       /\ UNCHANGED <<shards, pool, conn, async, peer, node, items, multi>>
    \/ /\ th[Main].pc = "loop" /\ th[Main].req.op = op /\ i <= Len(shards)
       /\ Connect(Main, Req(op, NoKey, NoValue), shards[i].address, Ret(-1, NoValue))
       /\ loop' = IF Idle(Main)' THEN [loop EXCEPT ![Main] = NoLoop] ELSE loop
       /\ UNCHANGED <<items, multi>>
    \/ /\ Awaiting(Main, op)
       /\ \E o \in Answers(Main) :
            IF o.ans.rc # 0
               THEN /\ Finish(Main, o, TRUE, Ret(-1, NoValue))
                    /\ loop' = [loop EXCEPT ![Main] = NoLoop]
                    /\ UNCHANGED <<items, multi>>
               ELSE /\ peer' = [peer EXCEPT ![shards[i].address] = o.state]
                    /\ pool' = [pool EXCEPT ![shards[i].address] = @ \cup {th[Main].fd}]
                    /\ th' = [th EXCEPT ![Main] = [@ EXCEPT !.pc = "loop", !.fd = -1]]
                    /\ loop' = [loop EXCEPT ![Main].i = i + 1]
                    /\ UNCHANGED <<shards, errno, conn, async, node, items, multi>>

\* int shardcache_client_migration_begin(c, nodes, num_nodes)
shardcache_client_migration_begin(nodes) ==
    \/ /\ Idle(Main)
       /\ IF \E j \in DOMAIN nodes : check_address_string(nodes[j].address) # 0
          THEN /\ errno' = "ERROR_ARGS"
               /\ th' = [th EXCEPT ![Main].ret = Ret(-1, NoValue)]
               /\ UNCHANGED loop
          ELSE /\ th' = [th EXCEPT ![Main] = [@ EXCEPT !.pc = "loop",
                                                !.req = Req("migration_begin", NoKey, NoValue)]]
               /\ loop' = [loop EXCEPT ![Main] = [list |-> <<>>, i |-> 1]]
               /\ UNCHANGED errno
       /\ UNCHANGED <<shards, pool, conn, async, peer, node, items, multi>>
    \/ ShardLoop("migration_begin")

\* int shardcache_client_migration_abort(c)
shardcache_client_migration_abort ==
    \/ /\ Idle(Main)
       /\ th' = [th EXCEPT ![Main] = [@ EXCEPT !.pc = "loop",
                                        !.req = Req("migration_abort", NoKey, NoValue)]]
       /\ loop' = [loop EXCEPT ![Main] = [list |-> <<>>, i |-> 1]]
       /\ UNCHANGED <<shards, errno, pool, conn, async, peer, node, items, multi>>
    \/ ShardLoop("migration_abort")

-----------------------------------------------------------------------------
(* get_multi and set_multi: one thread per node that owns an item *)

\* The item is put at the head of the list.
push_value_head(list, i) == <<i>> \o list

\* push_value(tval->value, item): the item goes to the end of the list.
push_value(list, i) == Append(list, i)

\* static linked_list_t *shc_split_buckets(c, items): the lists of item
\* indexes, one per node name in the order the names are met, each list in
\* the order of the array.
shc_split_buckets(its) ==
    LET push(pools, i) ==
            LET name == chash[its[i].key]
                at   == {j \in DOMAIN pools : pools[j].name = name}
                tval == IF at = {} THEN Len(pools) + 1 ELSE Min(at)
                all  == IF at = {} THEN Append(pools, [name |-> name, list |-> <<>>])
                        ELSE pools
            IN  [all EXCEPT ![tval].list = push_value(@, i)]
    IN  FoldLeftDomain(push, <<>>, its)

\* The pthread_create loop: thread j gets list j and starts at its head.
Started(kind, its) ==
    LET pools == shc_split_buckets(its) IN
    /\ Idle(Main)
    /\ multi' = kind
    /\ items' = its
    /\ loop' = [t \in Threads |-> IF t \in DOMAIN pools
                                  THEN [list |-> pools[t].list, i |-> 1] ELSE NoLoop]
    /\ th' = [t \in Threads |-> IF t = Main THEN [th[t] EXCEPT !.pc = "join"]
                                ELSE IF t \in DOMAIN pools THEN AtRest ELSE th[t]]
    /\ UNCHANGED <<shards, errno, pool, conn, async, peer, node>>

\* The pthread_join loop has come to its end.
Joined == \A w \in Workers : th[w].pc = "off"

\* pthread_join of every thread, destroy_list, return 0
Finished(kind) ==
    /\ th[Main].pc = "join" /\ multi = kind
    /\ Joined
    /\ th' = [th EXCEPT ![Main] = AtRest]
    /\ multi' = "none"
    /\ loop' = [t \in Threads |-> NoLoop]
    /\ UNCHANGED <<shards, errno, pool, conn, async, peer, node, items>>

\* int shardcache_client_get_multi(c, items)
shardcache_client_get_multi ==
    \/ \E its \in ItemLists : Started("get", its)
    \/ Finished("get")

\* int shardcache_client_set_multi(c, items)
shardcache_client_set_multi ==
    \/ \E its \in ItemLists : Started("set", its)
    \/ Finished("set")

\* The thread has walked its list and returns.
Exit(w) ==
    /\ Idle(w) /\ loop[w].i > Len(loop[w].list)
    /\ th' = [th EXCEPT ![w] = [AtRest EXCEPT !.pc = "off"]]
    /\ UNCHANGED <<shards, errno, pool, conn, async, peer, node, job>>

\* The item the loop of thread w is at.
At(w) == loop[w].list[loop[w].i]

\* for (i = 0; i < list_count(items); i++), item = pick_value(items, i) and
\* the call made for the item: a step of the call; when it returns the item
\* becomes done and i becomes next.
ForEachItem(w, kind, call, done, next) ==
    /\ multi = kind
    /\ \/ Exit(w)
       \/ /\ th[w].pc # "off" /\ loop[w].i <= Len(loop[w].list)
          /\ call
          /\ IF Idle(w)'
             THEN /\ items' = [items EXCEPT ![At(w)] = done]
                  /\ loop' = [loop EXCEPT ![w].i = next]
             ELSE UNCHANGED <<items, loop>>
          /\ UNCHANGED multi

\* The get of thread w ends at line 127, having stored the value in *data.
Fetched(w) == th[w].pc = "peer" /\ errno' = "OK"

\* item->dlen = shardcache_client_get(..., &item->data): a get that fails
\* gives dlen 0 and leaves item->data what it was.
GetInto(w) ==
    [items[At(w)] EXCEPT !.dlen = th'[w].ret.rc,
                         !.data = IF Fetched(w) THEN th'[w].ret.data ELSE @]

\* shc_get_multi going back to the same item when the get brought nothing.
shc_get_multi_again(w) ==
    ForEachItem(w, "get", shardcache_client_get(w, items[At(w)].key), GetInto(w),
                IF th'[w].ret.rc = 0 THEN loop[w].i ELSE loop[w].i + 1)

\* static void *shc_get_multi(void *priv)
shc_get_multi(w) ==
    ForEachItem(w, "get", shardcache_client_get(w, items[At(w)].key), GetInto(w),
                loop[w].i + 1)

\* static void *shc_set_multi(void *priv)
shc_set_multi(w) ==
    ForEachItem(w, "set",
                IF items[At(w)].data # NoValue /\ items[At(w)].dlen # 0
                THEN shardcache_client_set(w, items[At(w)].key, items[At(w)].data)
                ELSE shardcache_client_del(w, items[At(w)].key),
                [items[At(w)] EXCEPT !.status = th'[w].ret.rc], loop[w].i + 1)

-----------------------------------------------------------------------------
(* The life of the client, and of the nodes *)

\* shardcache_client_t *shardcache_client_create(nodes, num_nodes, auth):
\* NULL, and no client, for an empty array or an address that does not match
shardcache_client_create(nodes) ==
    /\ th[Main].pc = "none"
    /\ IF Len(nodes) = 0 \/ \E i \in DOMAIN nodes : check_address_string(nodes[i].address) # 0
       THEN UNCHANGED <<shards, errno, pool, th>>
       ELSE /\ shards' = nodes
            /\ errno' = "OK"
            /\ pool' = [a \in Addrs |-> {}]
            /\ th' = [th EXCEPT ![Main] = AtRest]
    /\ UNCHANGED <<conn, async, job, peer, node>>

\* void shardcache_client_destroy(c): connections_pool_destroy closes the
\* descriptors the pool holds
shardcache_client_destroy ==
    /\ Idle(Main)
    /\ shards' = <<>>
    /\ conn' = [f \in Fds |-> IF \E a \in Addrs : f \in pool[a] THEN Closed ELSE conn[f]]
    /\ pool' = [a \in Addrs |-> {}]
    /\ th' = [th EXCEPT ![Main] = [AtRest EXCEPT !.pc = "none"]]
    /\ UNCHANGED <<errno, async, job, peer, node>>

\* The node at a stops answering: its process dies or the network fails.
NodeDown(a) ==
    /\ up[a] /\ outages < MaxOutages
    /\ up' = [up EXCEPT ![a] = FALSE]
    /\ outages' = outages + 1
    /\ UNCHANGED <<shards, errno, pool, conn, async, th, job, peer, gen>>

\* The node at a answers again; the connections made before are dead.
NodeUp(a) ==
    /\ ~up[a]
    /\ up' = [up EXCEPT ![a] = TRUE]
    /\ gen' = [gen EXCEPT ![a] = @ + 1]
    /\ UNCHANGED <<shards, errno, pool, conn, async, th, job, peer, outages>>

-----------------------------------------------------------------------------
(* The specification *)

Init ==
    /\ shards = <<>>
    /\ errno = "OK"
    /\ pool = [a \in Addrs |-> {}]
    /\ conn = [f \in Fds |-> Closed]
    /\ async = {}
    /\ th = [t \in Threads |-> [AtRest EXCEPT !.pc = IF t = Main THEN "none" ELSE "off"]]
    /\ loop = [t \in Threads |-> NoLoop]
    /\ items = <<>>
    /\ multi = "none"
    /\ peer = [a \in Addrs |-> NewPeer]
    /\ up = [a \in Addrs |-> TRUE]
    /\ gen = [a \in Addrs |-> 0]
    /\ outages = 0

Next ==
    \/ \E nodes \in CreateArgs : shardcache_client_create(nodes)
    \/ "destroy" \in Calls /\ shardcache_client_destroy
    \/ "get" \in Calls /\ \E k \in Keys : shardcache_client_get(Main, k) /\ UNCHANGED job
    \/ "offset" \in Calls /\ \E k \in Keys, o \in Offsets : shardcache_client_offset(Main, k, o[1], o[2]) /\ UNCHANGED job
    \/ "exists" \in Calls /\ \E k \in Keys : shardcache_client_exists(Main, k) /\ UNCHANGED job
    \/ "touch" \in Calls /\ \E k \in Keys : shardcache_client_touch(Main, k) /\ UNCHANGED job
    \/ "set" \in Calls /\ \E k \in Keys, v \in Values : shardcache_client_set(Main, k, v) /\ UNCHANGED job
    \/ "add" \in Calls /\ \E k \in Keys, v \in Values : shardcache_client_add(Main, k, v) /\ UNCHANGED job
    \/ "del" \in Calls /\ \E k \in Keys : shardcache_client_del(Main, k) /\ UNCHANGED job
    \/ "evict" \in Calls /\ \E k \in Keys : shardcache_client_evict(Main, k) /\ UNCHANGED job
    \/ "stats" \in Calls /\ \E name \in NodeNames : shardcache_client_stats(name) /\ UNCHANGED job
    \/ "check" \in Calls /\ \E name \in NodeNames : shardcache_client_check(name) /\ UNCHANGED job
    \/ "index" \in Calls /\ \E name \in NodeNames : shardcache_client_index(name) /\ UNCHANGED job
    \/ "get_async" \in Calls /\ \E k \in Keys : shardcache_client_get_async(k) /\ UNCHANGED job
    \/ \E f \in Fds : AsyncDone(f)
    \/ "migration_begin" \in Calls /\ \E nodes \in MigrationArgs : shardcache_client_migration_begin(nodes)
    \/ "migration_abort" \in Calls /\ shardcache_client_migration_abort
    \/ "get_multi" \in Calls /\ shardcache_client_get_multi
    \/ "set_multi" \in Calls /\ shardcache_client_set_multi
    \/ \E w \in Workers : shc_get_multi(w)
    \/ \E w \in Workers : shc_set_multi(w)
    \/ \E a \in Addrs : NodeDown(a)
    \/ \E a \in Addrs : NodeUp(a)

Spec == Init /\ [][Next]_vars

\* The threads of a multi call are scheduled, every node call returns (with
\* an answer or with -1), and the thread that waits in pthread_join goes on
\* when the last thread has returned.
FairSpec ==
    /\ Spec
    /\ \A w \in Workers : WF_vars(shc_get_multi(w)) /\ WF_vars(shc_set_multi(w))
    /\ WF_vars(Finished("get")) /\ WF_vars(Finished("set"))

-----------------------------------------------------------------------------
(* Properties *)

Bytes    == UNION {{v[i] : i \in DOMAIN v} : v \in Values}
MaxLen   == Max({Len(v) : v \in Values})
Data     == BoundedSeq(Bytes, MaxLen)
Requests == [op : KeyOps \cup NodeOps \cup {"none"}, key : Keys \cup {NoKey},
             val : Data, off : Nat, len : Nat]

\* The type of every variable; a thread inside a node call has a descriptor.
ClientTypeOK ==
    /\ shards \in {<<>>, Nodes}
    /\ errno \in Errors
    /\ pool \in [Addrs -> SUBSET Fds]
    /\ conn \in [Fds -> {Closed} \cup [node : Addrs, gen : 0 .. MaxOutages]]
    /\ async \subseteq Fds
    /\ th \in [Threads -> [pc : {"none", "idle", "peer", "loop", "join", "off"},
                           req : Requests, fd : Fds \cup {-1},
                           ret : [rc : -1 .. MaxLen, data : Data]]]
    /\ \A t \in Threads : th[t].pc = "peer" => th[t].fd \in Fds
    /\ loop \in [Threads -> [list : Seq(Nat), i : Nat]]
    /\ \A i \in DOMAIN items :
         items[i] \in [key : Keys, data : Data, dlen : 0 .. MaxLen, status : -1 .. 1]
    /\ multi \in {"none", "get", "set"}
    /\ peer \in [Addrs -> [data : [Keys -> Data], migrating : BOOLEAN]]
    /\ up \in [Addrs -> BOOLEAN]
    /\ gen \in [Addrs -> 0 .. MaxOutages]
    /\ outages \in 0 .. MaxOutages

Holders(f) == {t \in Threads : th[t].pc = "peer" /\ th[t].fd = f}
Pools(f)   == {a \in Addrs : f \in pool[a]}

\* Every open descriptor has exactly one owner: the thread whose call is
\* using it, the pool (under the address it is connected to), or the
\* asynchronous reader; a closed descriptor has none.  Every function ends
\* with close(fd) or connections_pool_add(fd) on each of its paths, also
\* when threads of a multi call and outages of the nodes interleave, and a
\* descriptor number the system gives out again is in no list any more.
ConnectionsAccounted ==
    \A f \in Fds :
        /\ Cardinality(Holders(f)) + Cardinality(Pools(f)) + (IF f \in async THEN 1 ELSE 0)
              = IF conn[f] = Closed THEN 0 ELSE 1
        /\ Pools(f) \subseteq {conn[f].node}

\* The address of the shard that has the label chash_lookup gives for k.
Home(k) == LET i == CHOOSE i \in DOMAIN shards : shards[i].label = chash[k]
           IN  shards[i].address

\* A request about a key goes to the node that owns the key: select_node
\* turns the name chash_lookup returned into the address of that very shard.
RequestsReachOwner ==
    \A t \in Threads :
        th[t].pc = "peer" /\ th[t].req.op \in KeyOps
            => conn[th[t].fd].node = Home(th[t].req.key)

\* A call keeps its connection exactly when the node answered it.  When a
\* call ends, its descriptor is closed and c->errno is ERROR_NODE, or the
\* descriptor is back in the pool, c->errno is OK and the connection worked;
\* a call that returns an rc returns -1 exactly when it closed the
\* descriptor.  The functions test the rc in two ways (rc == -1 and rc != 0)
\* and 1 is an answer of exists and add, not a failure.
ConnectionKeptIffAnswered ==
    [][\A t \in Threads :
          th[t].pc = "peer" /\ th'[t].pc = "idle" =>
              LET f == th[t].fd
                  closed == conn'[f] = Closed IN
              /\ closed <=> errno' = "ERROR_NODE"
              /\ ~closed <=> (f \in pool'[conn[f].node] /\ errno' = "OK" /\ Reachable(f))
              /\ th[t].req.op \notin {"get", "offset"} => (closed <=> th'[t].ret.rc = -1)]_vars

\* set_multi writes the items of one key in the order of the array: when
\* it returns and the last item of a key has status 0, the node that owns
\* the key holds the dlen bytes of that item's data (nothing, for an item
\* without data or of length 0, which line 533 turns into a delete).  The
\* items of a key are in one list, walked by one thread, whatever the other
\* threads do at the same time.
SetMultiLastWriteWins ==
    [][th[Main].pc = "join" /\ multi = "set" /\ Idle(Main)' =>
          \A k \in Keys :
              LET at == {i \in DOMAIN items : items[i].key = k}
                  last == items[Max(at)] IN
              at # {} /\ last.status = 0
                  => peer'[Home(k)].data[k] = SubSeq(last.data, 1, last.dlen)]_vars

\* A multi call returns: every thread comes to the end of its list, whether
\* its node calls succeed or not, and the pthread_join loop ends.
MultiReturns == th[Main].pc = "join" ~> Idle(Main)

-----------------------------------------------------------------------------
(* The client as one store *)

\* The node that owns key k: the shard whose label chash_lookup gives.
Owner(k) == LET i == CHOOSE i \in DOMAIN Nodes : Nodes[i].label = chash[k]
            IN  Nodes[i].address

\* The stores of the nodes seen as one: each key at the node that owns it.
View == [k \in Keys |-> peer[Owner(k)].data[k]]

\* The calls about a key that are between their request and their answer.
InCall == [t \in Threads |-> IF th[t].pc = "peer" /\ th[t].req.op \in KeyOps
                             THEN th[t].req ELSE NoReq]

Returned == [t \in Threads |-> th[t].ret]

KS == INSTANCE KeyStore WITH Callers <- Threads, NoCall <- NoReq,
                             store <- View, pending <- InCall, answer <- Returned

\* The client implements the store of module KeyStore: every call about a
\* key, of the application's thread or of a thread of a multi call, takes
\* effect once, on the value of its key at the node that owns the key, and
\* returns what that value was; a call that fails changed its key or left it
\* alone.  This is what select_node, the choice of the node call and the
\* value each function makes of the rc have to get right together.
ImplementsKeyStore == KS!Spec

-----------------------------------------------------------------------------
(* What the code does not keep *)

\* int shardcache_client_errno(c)
shardcache_client_errno == errno

\* shardcache_client_errno tells whether the last call failed: after a call
\* of the application's thread that returned -1, c->errno is not OK.  Every
\* function sets c->errno where the node call fails; the return after
\* connections_pool_get (if (fd < 0) return -1) does not.
ErrnoTellsFailure ==
    Idle(Main) /\ th[Main].ret.rc = -1 => shardcache_client_errno # "OK"

\* A migration is begun on all the shards or on none (the comment at the
\* return of shardcache_client_migration_begin asks whether the shards
\* already notified should be told to abort): when no call is running, the
\* nodes agree on whether a migration is under way.
MigrationAllOrNone ==
    Idle(Main) => \A a, b \in Addrs : peer[a].migrating = peer[b].migrating

=============================================================================
