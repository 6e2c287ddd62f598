------------------------------ MODULE KeyStore ------------------------------
(***************************************************************************)
(* What the sharded client promises an application, whatever the number of *)
(* shards: one store of values by key.  A call about a key takes effect at *)
(* one instant between the call and its return and returns what the store  *)
(* held at that instant; or it fails, and then it took effect or it did    *)
(* not.  Calls of different callers overlap.                               *)
(*                                                                         *)
(* The answers are those of the functions of shardcache_client.c: a length *)
(* and the data for get and offset, an rc for the others.                  *)
(***************************************************************************)
EXTENDS Integers, Sequences

CONSTANTS
    Keys,       \* the keys
    Values,     \* the values: non-empty sequences
    Callers,    \* the threads that call
    NoCall      \* no call is in progress

VARIABLES
    store,      \* store[k]: the value of key k, <<>> when there is none
    pending,    \* pending[c]: the call caller c is in
    answer      \* answer[c]: what the last call of c returned

vars == <<store, pending, answer>>

Absent == <<>>
Ops    == {"get", "offset", "exists", "touch", "set", "add", "del", "evict"}

IsCall(r) ==
    /\ r.op \in Ops /\ r.key \in Keys
    /\ r.val \in Values \cup {Absent}
    /\ r.off \in Nat /\ r.len \in Nat

\* The part of value v a call of offset reads.
Part(v, off, len) ==
    SubSeq(v, off + 1, IF off + len < Len(v) THEN off + len ELSE Len(v))

\* The store after the call took effect.
Effect(s, r) ==
    CASE r.op = "set" -> [s EXCEPT ![r.key] = r.val]
      [] r.op = "add" -> IF s[r.key] = Absent THEN [s EXCEPT ![r.key] = r.val] ELSE s
      [] r.op = "del" -> [s EXCEPT ![r.key] = Absent]
      [] OTHER -> s

\* What the call returns when it took effect on store s.
Outcome(s, r) ==
    LET v == s[r.key] IN
    CASE r.op = "get"    -> [rc |-> Len(v), data |-> v]
      [] r.op = "offset" -> [rc |-> Len(Part(v, r.off, r.len)), data |-> Part(v, r.off, r.len)]
      [] r.op = "exists" -> [rc |-> IF v = Absent THEN 0 ELSE 1, data |-> Absent]
      [] r.op = "add"    -> [rc |-> IF v = Absent THEN 0 ELSE 1, data |-> Absent]
      [] OTHER           -> [rc |-> 0, data |-> Absent]

\* What a call that fails returns.
Failure(r) ==
    [rc |-> IF r.op \in {"get", "offset"} THEN 0 ELSE -1, data |-> Absent]

Init ==
    /\ store = [k \in Keys |-> Absent]
    /\ pending = [c \in Callers |-> NoCall]
    /\ answer \in [Callers -> {[rc |-> 0, data |-> Absent]}]

\* Caller c calls.
Invoke(c) ==
    /\ pending[c] = NoCall
    /\ pending'[c] # NoCall /\ IsCall(pending'[c])
    /\ pending' = [pending EXCEPT ![c] = pending'[c]]
    /\ UNCHANGED <<store, answer>>

\* The call of c takes effect and returns.
Serve(c) ==
    /\ pending[c] # NoCall
    /\ store' = Effect(store, pending[c])
    /\ answer' = [answer EXCEPT ![c] = Outcome(store, pending[c])]
    /\ pending' = [pending EXCEPT ![c] = NoCall]

\* The call of c fails, having taken effect or not.
Fail(c) ==
    /\ pending[c] # NoCall
    /\ store' \in {store, Effect(store, pending[c])}
    /\ answer' = [answer EXCEPT ![c] = Failure(pending[c])]
    /\ pending' = [pending EXCEPT ![c] = NoCall]

\* Calls that are not about a key, and calls that end before they reach the
\* store, change what callers that are in no call were last answered.
Elsewhere ==
    /\ \A c \in Callers : pending[c] # NoCall => answer'[c] = answer[c]
    /\ DOMAIN answer' = Callers
    /\ UNCHANGED <<store, pending>>

Next ==
    \/ \E c \in Callers : Invoke(c) \/ Serve(c) \/ Fail(c)
    \/ Elsewhere

Spec == Init /\ [][Next]_vars
=============================================================================
