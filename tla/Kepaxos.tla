------------------------------- MODULE Kepaxos -------------------------------
(***************************************************************************)
(* The per-key Egalitarian Paxos engine of src/kepaxos.c: a fixed set of   *)
(* replicas, each with its local ballot, its durable key log, its table of *)
(* in-flight commands and its engine mutex, and the messages between them. *)
(*                                                                         *)
(* What the model keeps and what it abstracts:                             *)
(*  - every handler of kepaxos_received_command is one action per outcome  *)
(*    (early return, reply, commit, ...), taken under the engine mutex;    *)
(*  - the ballot update of line 432 runs before the mutex is taken and is  *)
(*    an action of its own (ReceivedCommand);                              *)
(*  - kepaxos_commit runs after the mutex is released and is two steps     *)
(*    (the host's commit callback, then the log write and the COMMIT);     *)
(*  - keys, command types and data are model values; a message in flight   *)
(*    is the record of its fields, laid out in bytes and parsed again with *)
(*    the operators of KeCodec when it is received;                        *)
(*  - the votes array is kept as its length only: the loop that counts the *)
(*    votes reads no slot the program has defined (see CountOkOutcomes);   *)
(*  - the ballot column of the log is left out: nothing reads it back.     *)
(***************************************************************************)
EXTENDS Naturals, Sequences, FiniteSets, TLC, KeBallot, KeCodec

CONSTANTS
    Replicas,     \* the replicas; replica i is the process labelled peers[i]
    num_peers,    \* the field ke->num_peers
    my_index,     \* my_index[r]: the field ke->my_index of replica r
    Keys,         \* the cache keys
    CmdTypes,     \* the host's command types (set, delete, evict)
    Data,         \* the payloads given to kepaxos_run_command
    InitLogs,     \* the contents the log files may have at start
    Crashable,    \* the replicas whose process the host may kill and restart
    ReadFaults,   \* the replicas whose log may fail a SELECT
    WriteFaults,  \* the replicas whose log may fail an INSERT
    MaxSeq,       \* bound: no sequence number is raised above MaxSeq
    MaxRuns,      \* bound: MaxRuns[r] calls of kepaxos_run_command at r
    Lossy,        \* whether the transport may lose a message
    Threads,      \* bound: host threads of a replica inside kepaxos_received_command
    MaxDups,      \* bound: messages the transport delivers a second time
    NoCmd,        \* ht_get returned NULL
    NoType,       \* a type field still zero from calloc
    NoData,       \* a NULL data pointer, or data of length zero
    NoPeer        \* a NULL max_voter

ASSUME /\ Replicas \subseteq Nat /\ IsFiniteSet(Replicas)
       /\ num_peers \in Nat
       /\ my_index \in [Replicas -> 0 .. (2^IndexBits - 1)]
       /\ Crashable \subseteq Replicas
       /\ ReadFaults \subseteq Replicas /\ WriteFaults \subseteq Replicas
       /\ MaxSeq \in Nat /\ MaxDups \in Nat /\ Threads \in Nat \ {0} /\ Lossy \in BOOLEAN
       /\ MaxRuns \in [Replicas -> Nat]
       /\ InitLogs \subseteq [Replicas -> [Keys -> 0 .. MaxSeq]]

VARIABLES
    ballot,       \* ballot[r]: ke->ballot
    commands,     \* commands[r][k]: the entry of ke->commands for k, or NoCmd
    log,          \* log[r][k]: the seq of the ReplicaLog row of k (0: no row)
    lock,         \* lock[r]: TRUE when ke->lock is held by a handler that returned
    net,          \* messages handed to the send callback and not yet received
    inbox,        \* messages parsed by a thread that has not left the handler
    checking,     \* COMMIT handlers past line 611, with the statement each is at
    committing,   \* committing[r]: commands inside kepaxos_commit
    applied,      \* history: the calls of the commit callback
    recovered,    \* history: the calls of the recover callback
    runs,         \* runs[r]: number of kepaxos_run_command calls at r so far
    dups          \* number of duplicated deliveries so far

hist   == <<applied, recovered>>    \* what the host has been called with
counts == <<runs, dups>>            \* the counters of the bounds
vars   == <<ballot, commands, log, lock, net, inbox, checking, committing,
            hist, counts>>

-----------------------------------------------------------------------------
(* Values of the C program.                                                *)

Status   == {"NONE", "PRE_ACCEPTED", "ACCEPTED", "COMMITTED"}
MsgTypes == {"PRE_ACCEPT", "PRE_ACCEPT_RESPONSE", "ACCEPT",
             "ACCEPT_RESPONSE", "COMMIT"}
Seqs     == 0 .. MaxSeq

(* struct __kepaxos_cmd_s.  dlen has no assignment anywhere in the file;   *)
(* it is kept to show what kepaxos_commit passes on.                       *)
Cmd == [type : CmdTypes \cup {NoType}, data : Data \cup {NoData}, dlen : {0},
        status : Status, seq : Seqs, ballot : Ballots,
        num_votes : Nat, max_seq : Seqs, max_voter : Replicas \cup {NoPeer}]

(* calloc(1, sizeof(kepaxos_cmd_t)) *)
ZeroCmd == [type |-> NoType, data |-> NoData, dlen |-> 0, status |-> "NONE",
            seq |-> 0, ballot |-> 0, num_votes |-> 0,
            max_seq |-> 0, max_voter |-> NoPeer]

(* A message as the receiver parses it (lines 406-426), with the peer the  *)
(* transport names as its sender.                                          *)
Message == [type : MsgTypes, ctype : CmdTypes \cup {NoType}, ballot : Ballots,
            key : Keys, data : Data \cup {NoData}, seq : Seqs,
            committed : BOOLEAN, src : Replicas, dst : Replicas]

MaxOf(a, b) == IF a > b THEN a ELSE b

(* The votes a handler waits for: ke->num_peers/2.                         *)
Quorum == num_peers \div 2

-----------------------------------------------------------------------------
(* The durable key log.                                                    *)

(* last_seq_for_key, as the values a call may return: SELECT MAX(seq) for  *)
(* the key, 0 when there is no row, and 0 as well when sqlite3_step gives  *)
(* no row because it failed (lines 173-176), which happens too when the    *)
(* statement was never prepared (lines 99-102).                            *)
last_seq_for_key(r, k) ==
    IF r \in ReadFaults THEN {log[r][k], 0} ELSE {log[r][k]}

(* Fault: a failed INSERT leaves a row of seq 0 behind. *)
set_last_seq_for_key_torn(lg, r, k, seq) ==
    {[lg EXCEPT ![r][k] = s] : s \in IF r \in WriteFaults THEN {seq, 0} ELSE {seq}}

(* set_last_seq_for_key, as the logs a call may leave: INSERT OR REPLACE,  *)
(* whatever the row held before; a failed INSERT is printed and the row    *)
(* stays as it was (lines 209-213).                                        *)
set_last_seq_for_key(lg, r, k, seq) ==
    {[lg EXCEPT ![r][k] = seq]} \cup IF r \in WriteFaults THEN {lg} ELSE {}

-----------------------------------------------------------------------------
(* The wire codec and the send helpers.                                    *)

(* kepaxos_build_message: the fields of the message.  The data field is    *)
(* dlen bytes long: with dlen = 0 no byte of the data is copied, and the   *)
(* receiver's parser (line 426) turns a zero dlen into a NULL pointer.     *)
kepaxos_build_message(mtype, ctype, b, key, data, dlen, seq, committed) ==
    [type |-> mtype, ctype |-> ctype, ballot |-> b, key |-> key,
     data |-> IF dlen = 0 THEN NoData ELSE data,
     seq |-> seq, committed |-> committed]

(* The receivers[] array of the three broadcasts: every peer index below   *)
(* num_peers but my_index.                                                 *)
(* Fault: the loop runs to i <= num_peers and reads peers[num_peers]. *)
Receivers_one_past(r) == {i \in 0 .. num_peers : i # my_index[r]}

Receivers(r) == {i \in 0 .. num_peers : i < num_peers /\ i # my_index[r]}

(* The send callback: one message for each recipient, tagged by the        *)
(* transport with the sender, which the receiver gets as `peer'.           *)
Send(r, dsts, wire) == {wire @@ [src |-> r, dst |-> d] : d \in dsts}

kepaxos_send_preaccept(r, b, k, seq) ==
    Send(r, Receivers(r),
         kepaxos_build_message("PRE_ACCEPT", NoType, b, k, NoData, 0, seq, FALSE))

kepaxos_send_pre_accept_response(r, peer, b, k, seq, committed) ==
    Send(r, {peer},
         kepaxos_build_message("PRE_ACCEPT_RESPONSE", NoType, b, k, NoData, 0,
                               seq, committed))

kepaxos_send_accept(r, b, k, seq) ==
    Send(r, Receivers(r),
         kepaxos_build_message("ACCEPT", NoType, b, k, NoData, 0, seq, FALSE))

kepaxos_send_accept_response(r, peer, b, k, seq, committed) ==
    Send(r, {peer},
         kepaxos_build_message("ACCEPT_RESPONSE", NoType, b, k, NoData, 0,
                               seq, committed))

kepaxos_send_commit(r, k, c) ==
    Send(r, Receivers(r),
         kepaxos_build_message("COMMIT", c.type, c.ballot, k, c.data, c.dlen,
                               c.seq, TRUE))

-----------------------------------------------------------------------------
(* kepaxos_context_create: calloc leaves the ballot zero and the table     *)
(* empty; the log is whatever the file at dbfile holds.                    *)

FreshEngine(r) == [k \in Keys |-> NoCmd]

Init ==
    /\ ballot     = [r \in Replicas |-> 0]
    /\ commands   = [r \in Replicas |-> FreshEngine(r)]
    /\ log        \in InitLogs
    /\ lock       = [r \in Replicas |-> FALSE]
    /\ net        = {}
    /\ inbox      = {}
    /\ checking   = {}
    /\ committing = [r \in Replicas |-> {}]
    /\ applied    = {}
    /\ recovered  = {}
    /\ runs       = [r \in Replicas |-> 0]
    /\ dups       = 0

(* The process of r dies and the host starts it again: everything but the  *)
(* log file is lost, the threads of r with a parsed message included.      *)
Reboot(r) ==
    /\ ballot'     = [ballot EXCEPT ![r] = 0]
    /\ commands'   = [commands EXCEPT ![r] = FreshEngine(r)]
    /\ lock'       = [lock EXCEPT ![r] = FALSE]
    /\ committing' = [committing EXCEPT ![r] = {}]
    /\ inbox'      = {m \in inbox : m.dst # r}
    /\ checking'   = {c \in checking : c.msg.dst # r}
    /\ UNCHANGED log

Crash(r) ==
    /\ r \in Crashable
    /\ Reboot(r)
    /\ UNCHANGED <<net, hist, counts>>

-----------------------------------------------------------------------------
(* MUTEX_LOCK returns: no handler that returned has kept the mutex, and no  *)
(* COMMIT handler is inside it.                                            *)
MutexFree(r) == ~lock[r] /\ \A c \in checking : c.msg.dst # r

-----------------------------------------------------------------------------
(* kepaxos_run_command                                                     *)

(* The entry after lines 287-307: a new zeroed entry, or the entry already *)
(* in the table with its votes, max_seq, max_voter and ballot as they are. *)
RunEntry(r, k, type, data, last_seq) ==
    LET old == IF commands[r][k] = NoCmd THEN ZeroCmd ELSE commands[r][k]
    IN  [old EXCEPT !.seq    = MaxOf(last_seq, old.seq),
                    !.type   = type,
                    !.data   = data,
                    !.status = "PRE_ACCEPTED"]

RunCommand(r, k, type, data) ==
    /\ runs[r] < MaxRuns[r]
    /\ MutexFree(r)
    /\ \E last_seq \in last_seq_for_key(r, k) :
          LET cmd == RunEntry(r, k, type, data, last_seq)
          IN  /\ commands' = [commands EXCEPT ![r][k] = cmd]
              /\ net' = net \cup kepaxos_send_preaccept(
                            r, MintBallot(ballot[r], my_index[r]), k, cmd.seq)
    /\ runs' = [runs EXCEPT ![r] = @ + 1]
    /\ UNCHANGED <<ballot, log, lock, inbox, checking, committing, hist, dups>>

-----------------------------------------------------------------------------
(* kepaxos_received_command, before the mutex: the message is parsed and   *)
(* the local ballot is raised (lines 403-432).  The transport may deliver  *)
(* a message twice, and may lose it.                                       *)

(* The host threads of r that are inside kepaxos_received_command: one for *)
(* each message received and not yet handled (waiting for the mutex, or    *)
(* for ever when it has leaked) and one for each command whose             *)
(* kepaxos_commit has not returned.                                        *)
Busy(r) == Cardinality({m \in inbox : m.dst = r}) + Cardinality(committing[r])

Absorb(m) ==
    /\ ballot' = [ballot EXCEPT ![m.dst] =
                     SetIfLess(@, UpdatedBallot(m.ballot, my_index[m.dst]))]
    /\ inbox' = inbox \cup {m}

(* The arguments kepaxos_build_message gets for message m: a key is one     *)
(* byte long, and data that is not there has no byte.                      *)
Frame(m) ==
    [ballot |-> m.ballot, seq |-> m.seq, mtype |-> m.type, ctype |-> m.ctype,
     committed |-> m.committed, key |-> <<m.key>>,
     data |-> IF m.data = NoData THEN <<>> ELSE <<m.data>>]

(* The buffer the send callback is given for message m. *)
Wire(m) == Build(Frame(m))

(* What the parser makes of the buffer of m: the local variables of        *)
(* kepaxos_received_command, data being NULL when dlen is 0.               *)
Parsed(m) ==
    LET f == Parse(Wire(m)) IN
    [type |-> f.mtype, ctype |-> f.ctype, ballot |-> f.ballot, key |-> f.key[1],
     data |-> IF Len(f.data) = 0 THEN NoData ELSE f.data[1],
     seq |-> f.seq, committed |-> f.committed, src |-> m.src, dst |-> m.dst]

(* kepaxos_received_command up to the mutex: the length check, the parser  *)
(* and the ballot update.  The transport takes the message off the network *)
(* or keeps it to deliver it again.                                        *)
ReceivedCommand(m) ==
    /\ m \in net
    /\ Busy(m.dst) < Threads
    /\ \E p \in {Parsed(m)} :
          IF TooShort(Wire(m)) THEN UNCHANGED <<ballot, inbox>> ELSE Absorb(p)
    /\ \/ net' = net \ {m} /\ UNCHANGED dups
       \/ dups < MaxDups /\ dups' = dups + 1 /\ UNCHANGED net
    /\ UNCHANGED <<commands, log, lock, checking, committing, hist, runs>>

Lose(m) ==
    /\ Lossy /\ m \in net
    /\ net' = net \ {m}
    /\ UNCHANGED <<ballot, commands, log, lock, inbox, checking, committing,
                   hist, counts>>

(* What every handler starts from: a parsed message of the given type, and *)
(* the mutex free.                                                         *)
Handling(m, mtype) == m \in inbox /\ m.type = mtype /\ MutexFree(m.dst)

(* MUTEX_UNLOCK and `return kepaxos_send_...': the thread leaves the       *)
(* handler with the messages it gave to the send callback.                 *)
Replied(m, msgs) ==
    /\ net' = net \cup msgs
    /\ inbox' = inbox \ {m}
    /\ UNCHANGED <<ballot, log, lock, checking, committing, hist, counts>>

(* The handler returns (or breaks) with the mutex released and the table   *)
(* as it was.                                                              *)
Dropped(m) == Replied(m, {}) /\ UNCHANGED commands

(* The handler returns without MUTEX_UNLOCK: no thread of the replica      *)
(* enters the engine again.                                                *)
LeakLock(m) ==
    /\ lock' = [lock EXCEPT ![m.dst] = TRUE]
    /\ inbox' = inbox \ {m}
    /\ UNCHANGED <<ballot, log, net, checking, committing, hist, counts>>

-----------------------------------------------------------------------------
(* case KEPAXOS_MSG_TYPE_PRE_ACCEPT                                        *)

(* interfering_seq of lines 441-450: the seq of the entry, if any. *)
EntrySeq(r, k) == IF commands[r][k] = NoCmd THEN 0 ELSE commands[r][k].seq

(* Fault: the reply proposes the seq after the largest one known. *)
PreAcceptMaxSeq_next(r, m, local_seq) ==
    MaxOf(m.seq, MaxOf(local_seq, EntrySeq(r, m.key)) + 1)

(* max_seq of lines 451-452, local_seq being what line 439 read. *)
PreAcceptMaxSeq(r, m, local_seq) ==
    MaxOf(m.seq, MaxOf(local_seq, EntrySeq(r, m.key)))

(* Lines 443-447: the ballot is older than the entry's. *)
PreAcceptStale(m) ==
    /\ Handling(m, "PRE_ACCEPT")
    /\ commands[m.dst][m.key] # NoCmd
    /\ m.ballot < commands[m.dst][m.key].ballot
    /\ Dropped(m)

(* Line 454 with no entry for the key: cmd is NULL and cmd->status is      *)
(* written.  The process dies of the fault.                                *)
PreAcceptNullDeref(m) ==
    /\ Handling(m, "PRE_ACCEPT")
    /\ commands[m.dst][m.key] = NoCmd
    /\ \E local_seq \in last_seq_for_key(m.dst, m.key) :
          PreAcceptMaxSeq(m.dst, m, local_seq) = m.seq
    /\ Reboot(m.dst)
    /\ UNCHANGED <<net, hist, counts>>

(* Lines 448-457: the entry, if any, takes the ballot and, when the        *)
(* proposed seq is the largest, the status; the reply carries the local    *)
(* ballot, the largest seq, and whether that seq is the logged one.        *)
PreAcceptReply(m) ==
    LET r == m.dst
        cmd == commands[r][m.key]
    IN  /\ Handling(m, "PRE_ACCEPT")
        /\ cmd # NoCmd => m.ballot >= cmd.ballot
        /\ \E local_seq \in last_seq_for_key(r, m.key) :
              LET max_seq == PreAcceptMaxSeq(r, m, local_seq)
              IN  /\ cmd = NoCmd => max_seq # m.seq
                  /\ commands' =
                        IF cmd = NoCmd THEN commands
                        ELSE [commands EXCEPT ![r][m.key] =
                                [cmd EXCEPT !.ballot = MaxOf(m.ballot, cmd.ballot),
                                            !.status = IF max_seq = m.seq
                                                       THEN "PRE_ACCEPTED" ELSE @]]
                  /\ Replied(m, kepaxos_send_pre_accept_response(
                         r, m.src, ballot[r], m.key, max_seq, max_seq = local_seq))

-----------------------------------------------------------------------------
(* Votes.                                                                  *)

(* Fault: max_voter is the peer of the last vote, whatever its seq. *)
AddVote_last_voter(cmd, m) ==
    [cmd EXCEPT !.num_votes = @ + 1,
                !.max_seq   = MaxOf(@, m.seq),
                !.max_voter = m.src]

(* Lines 473-479 and 555-561: the vote is appended and the largest seq     *)
(* seen, with the peer that reported it, is kept.                          *)
AddVote(cmd, m) ==
    [cmd EXCEPT !.num_votes = @ + 1,
                !.max_seq   = MaxOf(@, m.seq),
                !.max_voter = IF MaxOf(cmd.max_seq, m.seq) = m.seq
                              THEN m.src ELSE @]

(* The entry response m is for, with the vote of m in it. *)
Voted(m) == AddVote(commands[m.dst][m.key], m)

(* Lines 492-497 and 577-581: the votes are freed. *)
ResetVotes(cmd) ==
    [cmd EXCEPT !.num_votes = 0, !.max_seq = 0, !.max_voter = NoPeer]

(* Lines 562-566: count_ok.  The vote is written to votes[num_votes] after *)
(* the increment, one slot past the end of the array, and the loop reads   *)
(* votes[0 .. num_votes-1]: slot 0 is never written, and each later slot   *)
(* was written out of bounds before realloc grew the array.  Every slot    *)
(* read may hold anything, so the count may be any number of slots.        *)
CountOkOutcomes(cmd) == 0 .. cmd.num_votes

(* A thread that enters kepaxos_commit(ke, cmd): the commit callback is    *)
(* the first of its calls.                                                 *)
Entering(k, cmd) == [key |-> k, cmd |-> cmd, stage |-> "commit"]

(* The entry leaves the table and goes to kepaxos_commit (ht_delete, then  *)
(* MUTEX_UNLOCK, then the call).                                           *)
HandOver(m, cmd) ==
    /\ commands' = [commands EXCEPT ![m.dst][m.key] = NoCmd]
    /\ committing' = [committing EXCEPT ![m.dst] = @ \cup {Entering(m.key, cmd)}]
    /\ inbox' = inbox \ {m}
    /\ UNCHANGED <<ballot, log, lock, net, checking, hist, counts>>

(* A response is looked at: there is an entry, the ballot is not older     *)
(* than the entry's and the entry is in the status the response is for.    *)
Counted(m, status) ==
    LET cmd == commands[m.dst][m.key]
    IN  cmd # NoCmd /\ m.ballot >= cmd.ballot /\ cmd.status = status

-----------------------------------------------------------------------------
(* case KEPAXOS_MSG_TYPE_PRE_ACCEPT_RESPONSE                               *)

(* Lines 464-472 and 504: no entry, an older ballot, or another status. *)
PreAcceptResponseDrop(m) ==
    /\ Handling(m, "PRE_ACCEPT_RESPONSE") /\ ~Counted(m, "PRE_ACCEPTED")
    /\ Dropped(m)

(* Lines 480-481: not enough votes yet; `return 0' with the mutex held. *)
PreAcceptResponseWait(m) ==
    /\ Handling(m, "PRE_ACCEPT_RESPONSE") /\ Counted(m, "PRE_ACCEPTED")
    /\ Voted(m).num_votes < Quorum
    /\ commands' = [commands EXCEPT ![m.dst][m.key] = Voted(m)]
    /\ LeakLock(m)

(* Lines 482-486: no peer reported a larger seq; commit (short path). *)
PreAcceptResponseFast(m) ==
    /\ Handling(m, "PRE_ACCEPT_RESPONSE") /\ Counted(m, "PRE_ACCEPTED")
    /\ Voted(m).num_votes >= Quorum
    /\ Voted(m).seq >= Voted(m).max_seq
    /\ HandOver(m, Voted(m))

(* One call of the host's recover callback, as the history keeps it. *)
Recovery(r, peer, k) == [rep |-> r, peer |-> peer, key |-> k]

(* Lines 488-489: a larger seq was reported and this response has the      *)
(* committed flag; the host is asked to recover from max_voter.  The entry *)
(* stays in the table, the vote in it.                                     *)
PreAcceptResponseRecover(m) ==
    /\ Handling(m, "PRE_ACCEPT_RESPONSE") /\ Counted(m, "PRE_ACCEPTED")
    /\ Voted(m).num_votes >= Quorum
    /\ Voted(m).seq < Voted(m).max_seq
    /\ m.committed
    /\ commands' = [commands EXCEPT ![m.dst][m.key] = Voted(m)]
    /\ recovered' = recovered \cup {Recovery(m.dst, Voted(m).max_voter, m.key)}
    /\ inbox' = inbox \ {m}
    /\ UNCHANGED <<ballot, log, lock, net, checking, committing, applied, counts>>

(* Lines 491-500: the long path.  The votes are reset, the seq goes one    *)
(* past the largest reported, and ACCEPT is sent with the ballot of the    *)
(* response.  The status is not touched.                                   *)
PreAcceptResponseSlow(m) ==
    LET new_seq == Voted(m).max_seq + 1
    IN  /\ Handling(m, "PRE_ACCEPT_RESPONSE") /\ Counted(m, "PRE_ACCEPTED")
        /\ Voted(m).num_votes >= Quorum
        /\ Voted(m).seq < Voted(m).max_seq
        /\ ~m.committed
        /\ new_seq <= MaxSeq
        /\ commands' = [commands EXCEPT ![m.dst][m.key] =
                           [ResetVotes(Voted(m)) EXCEPT !.seq = new_seq]]
        /\ Replied(m, kepaxos_send_accept(m.dst, m.ballot, m.key, new_seq))

-----------------------------------------------------------------------------
(* case KEPAXOS_MSG_TYPE_ACCEPT                                            *)

(* Lines 514-519: the ballot is older than the entry's. *)
AcceptStale(m) ==
    /\ Handling(m, "ACCEPT")
    /\ commands[m.dst][m.key] # NoCmd
    /\ m.ballot < commands[m.dst][m.key].ballot
    /\ Dropped(m)

(* Fault: every proposed seq is taken. *)
AcceptsSeq_any(cmd, m) == TRUE

(* Line 531: the proposed seq is not below the entry's. *)
AcceptsSeq(cmd, m) == m.seq >= cmd.seq

(* Lines 520-539: an entry is made when there is none; a seq not below the *)
(* entry's is accepted with its ballot, and a lower one is answered with   *)
(* the entry's own ballot and seq.                                         *)
AcceptReply(m) ==
    LET r == m.dst
        cmd == IF commands[r][m.key] = NoCmd THEN ZeroCmd ELSE commands[r][m.key]
        acc == IF AcceptsSeq(cmd, m)
               THEN [cmd EXCEPT !.seq = m.seq, !.ballot = m.ballot,
                                !.status = "ACCEPTED"]
               ELSE cmd
    IN  /\ Handling(m, "ACCEPT")
        /\ m.ballot >= cmd.ballot
        /\ commands' = [commands EXCEPT ![r][m.key] = acc]
        /\ Replied(m, kepaxos_send_accept_response(
               r, m.src, acc.ballot, m.key, acc.seq, FALSE))

-----------------------------------------------------------------------------
(* case KEPAXOS_MSG_TYPE_ACCEPT_RESPONSE                                   *)

(* Lines 546 and 594: no entry; `break' with the mutex held. *)
AcceptResponseNoCmd(m) ==
    /\ Handling(m, "ACCEPT_RESPONSE")
    /\ commands[m.dst][m.key] = NoCmd
    /\ LeakLock(m)
    /\ UNCHANGED commands

(* Lines 547-554: an older ballot, or the entry is not ACCEPTED. *)
AcceptResponseDrop(m) ==
    /\ Handling(m, "ACCEPT_RESPONSE") /\ ~Counted(m, "ACCEPTED")
    /\ commands[m.dst][m.key] # NoCmd
    /\ Dropped(m)

(* Lines 568-587: too few matching votes.  With a quorum of votes the seq   *)
(* is raised when it is not above the largest reported, the entry takes    *)
(* the local ballot, the votes are reset and ACCEPT is sent again; with    *)
(* fewer votes the handler waits for more.                                 *)
AcceptResponseRetry(m) ==
    LET r == m.dst
        cmd == Voted(m)
        retry == cmd.num_votes >= Quorum
        new_seq == IF cmd.seq <= cmd.max_seq THEN cmd.seq + 1 ELSE cmd.seq
    IN  /\ Handling(m, "ACCEPT_RESPONSE") /\ Counted(m, "ACCEPTED")
        /\ \E count_ok \in CountOkOutcomes(cmd) : count_ok < Quorum
        /\ retry => new_seq <= MaxSeq
        /\ commands' = [commands EXCEPT ![r][m.key] =
              IF retry THEN [ResetVotes(cmd) EXCEPT !.seq = new_seq,
                                                    !.ballot = ballot[r]]
              ELSE cmd]
        /\ Replied(m, IF retry THEN kepaxos_send_accept(r, ballot[r], m.key, new_seq)
                      ELSE {})

(* Lines 589-592: the command has been accepted by a quorum. *)
AcceptResponseCommit(m) ==
    /\ Handling(m, "ACCEPT_RESPONSE") /\ Counted(m, "ACCEPTED")
    /\ \E count_ok \in CountOkOutcomes(Voted(m)) : count_ok >= Quorum
    /\ HandOver(m, Voted(m))

-----------------------------------------------------------------------------
(* case KEPAXOS_MSG_TYPE_COMMIT                                            *)

(* Line 601: an entry at the same seq with a newer ballot. *)
NewerInFlight(m) ==
    LET cmd == commands[m.dst][m.key]
    IN  cmd # NoCmd /\ cmd.seq = m.seq /\ cmd.ballot > m.ballot

(* Lines 606-607: the seq is below the one read from the log. *)
StaleCommit(m, last_recorded_seq) == m.seq < last_recorded_seq

(* Lines 601-611: the two early returns. *)
CommitDrop(m) ==
    /\ Handling(m, "COMMIT")
    /\ \/ NewerInFlight(m)
       \/ \E last_recorded_seq \in last_seq_for_key(m.dst, m.key) :
             StaleCommit(m, last_recorded_seq)
    /\ Dropped(m)

(* Lines 598-611 with neither early return taken: the handler is inside    *)
(* the mutex and has tested the seq against the log as line 606 read it.   *)
PastEarlyReturns(m) ==
    /\ Handling(m, "COMMIT")
    /\ ~NewerInFlight(m)
    /\ \E last_recorded_seq \in last_seq_for_key(m.dst, m.key) :
          ~StaleCommit(m, last_recorded_seq)

(* One call of the host's commit callback, as the history keeps it. *)
Applied(r, k, seq, type, data) ==
    [rep |-> r, key |-> k, seq |-> seq, type |-> type, data |-> data]

(* Something of replica r may fall between two statements of a thread    *)
(* that is at work on key k: kepaxos_commit of another thread, which takes *)
(* no mutex, or the death of the process.  Where neither may, the          *)
(* statements are one step.                                                *)
Interruptible(r, k) == r \in Crashable \/ \E c \in committing[r] : c.key = k

(* The handler of COMMIT m is inside the mutex, before the call of stage. *)
InHandler(m, stage) == [msg |-> m, stage |-> stage]

(* Lines 598-611: the handler has passed its early returns and stops       *)
(* before line 612, the mutex held.                                        *)
CommitCheck(m) ==
    /\ PastEarlyReturns(m) /\ Interruptible(m.dst, m.key)
    /\ checking' = checking \cup {InHandler(m, "commit")}
    /\ UNCHANGED <<ballot, commands, log, lock, net, inbox, committing,
                   hist, counts>>

(* Line 612: the host's commit callback, and the handler stops before the  *)
(* write of line 613.                                                      *)
CommitCall(m) ==
    /\ InHandler(m, "commit") \in checking
    /\ applied' = applied \cup {Applied(m.dst, m.key, m.seq, m.ctype, m.data)}
    /\ checking' = (checking \ {InHandler(m, "commit")}) \cup {InHandler(m, "record")}
    /\ UNCHANGED <<ballot, commands, log, lock, net, inbox, committing,
                   recovered, counts>>

(* Lines 612-616: the host commits (if it has not, at line 612), the log   *)
(* takes the seq, and an entry at that seq leaves the table.               *)
CommitApply(m) ==
    LET r == m.dst
        cmd == commands[r][m.key]
    IN  /\ InHandler(m, "record") \in checking \/ PastEarlyReturns(m)
        /\ applied' = applied \cup {Applied(r, m.key, m.seq, m.ctype, m.data)}
        /\ log' \in set_last_seq_for_key(log, r, m.key, m.seq)
        /\ commands' = IF cmd # NoCmd /\ cmd.seq = m.seq
                       THEN [commands EXCEPT ![r][m.key] = NoCmd]
                       ELSE commands
        /\ inbox' = inbox \ {m}
        /\ checking' = checking \ {InHandler(m, "record")}
        /\ UNCHANGED <<ballot, lock, net, committing, recovered, counts>>

-----------------------------------------------------------------------------
(* kepaxos_commit, called with the mutex released: other threads of the    *)
(* replica run between its steps.                                          *)

(* Fault: kepaxos_commit takes the engine mutex before each of its calls. *)
InCommit_locked(r, c, stage) ==
    MutexFree(r) /\ c \in committing[r] /\ c.stage = stage

(* kepaxos_commit of command c has come to the call named by stage. *)
InCommit(r, c, stage) == c \in committing[r] /\ c.stage = stage

(* Line 361: the host's commit callback. *)
KepaxosCommitCallback(r, c) ==
    /\ InCommit(r, c, "commit")
    /\ applied' = applied \cup
          {Applied(r, c.key, c.cmd.seq, c.cmd.type,
                   IF c.cmd.dlen = 0 THEN NoData ELSE c.cmd.data)}
    /\ committing' = [committing EXCEPT ![r] =
                         (@ \ {c}) \cup {[c EXCEPT !.stage = "record"]}]
    /\ UNCHANGED <<ballot, commands, log, lock, net, inbox, checking,
                   recovered, counts>>

(* Lines 362-363: the log takes the seq of the command and COMMIT is sent; *)
(* where the process may be killed, the thread stops between the two.      *)
KepaxosCommitRecord(r, c) ==
    /\ InCommit(r, c, "record")
    /\ log' \in set_last_seq_for_key(log, r, c.key, c.cmd.seq)
    /\ \/ /\ net' = net \cup kepaxos_send_commit(r, c.key, c.cmd)
          /\ committing' = [committing EXCEPT ![r] = @ \ {c}]
       \/ /\ r \in Crashable
          /\ committing' = [committing EXCEPT ![r] =
                               (@ \ {c}) \cup {[c EXCEPT !.stage = "send"]}]
          /\ UNCHANGED net
    /\ UNCHANGED <<ballot, commands, lock, inbox, checking, hist, counts>>

(* Line 363, after a stop: COMMIT is sent. *)
KepaxosCommitSend(r, c) ==
    /\ InCommit(r, c, "send")
    /\ net' = net \cup kepaxos_send_commit(r, c.key, c.cmd)
    /\ committing' = [committing EXCEPT ![r] = @ \ {c}]
    /\ UNCHANGED <<ballot, commands, log, lock, inbox, checking, hist, counts>>

-----------------------------------------------------------------------------

(* The steps of the threads inside the engine: a handler that has parsed  *)
(* its message, and kepaxos_commit between its calls.                     *)
HandlerStep ==
    \/ \E m \in inbox : PreAcceptStale(m)
    \/ \E m \in inbox : PreAcceptNullDeref(m)
    \/ \E m \in inbox : PreAcceptReply(m)
    \/ \E m \in inbox : PreAcceptResponseDrop(m)
    \/ \E m \in inbox : PreAcceptResponseWait(m)
    \/ \E m \in inbox : PreAcceptResponseFast(m)
    \/ \E m \in inbox : PreAcceptResponseRecover(m)
    \/ \E m \in inbox : PreAcceptResponseSlow(m)
    \/ \E m \in inbox : AcceptStale(m)
    \/ \E m \in inbox : AcceptReply(m)
    \/ \E m \in inbox : AcceptResponseNoCmd(m)
    \/ \E m \in inbox : AcceptResponseDrop(m)
    \/ \E m \in inbox : AcceptResponseRetry(m)
    \/ \E m \in inbox : AcceptResponseCommit(m)
    \/ \E m \in inbox : CommitDrop(m)
    \/ \E m \in inbox : CommitCheck(m)
    \/ \E m \in inbox : CommitCall(m)
    \/ \E m \in inbox : CommitApply(m)
    \/ \E r \in Replicas : \E c \in committing[r] : KepaxosCommitCallback(r, c)
    \/ \E r \in Replicas : \E c \in committing[r] : KepaxosCommitRecord(r, c)
    \/ \E r \in Replicas : \E c \in committing[r] : KepaxosCommitSend(r, c)

Next ==
    \/ \E r \in Replicas, k \in Keys, t \in CmdTypes, d \in Data :
           RunCommand(r, k, t, d)
    \/ \E m \in net : ReceivedCommand(m)
    \/ \E m \in net : Lose(m)
    \/ HandlerStep
    \/ \E r \in Replicas : Crash(r)

Spec == Init /\ [][Next]_vars

-----------------------------------------------------------------------------

(* What the parser reads is what kepaxos_build_message wrote: for every    *)
(* message in flight the parser, which checks the length of the buffer     *)
(* against sixteen only, stays inside the buffer the sender allocated, and *)
(* the fields it returns are those the sender was given.                   *)
WireFaithful ==
    \A m \in net : Extent(Wire(m)) <= Len(Wire(m)) /\ Parsed(m) = m

TypeOK ==
    /\ ballot \in [Replicas -> Ballots]
    /\ commands \in [Replicas -> [Keys -> Cmd \cup {NoCmd}]]
    /\ log \in [Replicas -> [Keys -> Seqs]]
    /\ lock \in [Replicas -> BOOLEAN]
    /\ net \subseteq Message
    /\ inbox \subseteq Message
    /\ checking \subseteq {InHandler(m, stage) : m \in inbox, stage \in {"commit", "record"}}
    /\ \A r \in Replicas : \A c \in committing[r] :
          /\ c.key \in Keys
          /\ c.cmd \in Cmd
          /\ c.stage \in {"commit", "record", "send"}
    /\ \A a \in applied :
          /\ a.rep \in Replicas /\ a.key \in Keys /\ a.seq \in Seqs
          /\ a.type \in CmdTypes \cup {NoType}
          /\ a.data \in Data \cup {NoData}
    /\ \A c \in recovered :
          c.rep \in Replicas /\ c.peer \in Replicas /\ c.key \in Keys
    /\ \A r \in Replicas : runs[r] \in 0 .. MaxRuns[r]
    /\ dups \in 0 .. MaxDups

-----------------------------------------------------------------------------
(* The threads of a replica take their steps sooner or later: the host     *)
(* runs every handler to its end, and the transport is not fair (a message *)
(* may be lost, when Lossy) but a message that stays is received.          *)
FairSpec == Spec /\ WF_vars(Next)

(* Less than that: a thread inside the engine takes its next step (the      *)
(* system schedules it), and nothing is assumed of the transport or of the  *)
(* host, which may hold a message back or never call again.                 *)
ThreadsRun == Spec /\ WF_vars(HandlerStep)

-----------------------------------------------------------------------------
(* Properties the code keeps.                                              *)

(* The step is the start of a new process of r: kepaxos_context_create on  *)
(* the log file the old process left.                                      *)
Restarted(r) ==
    /\ ballot'[r] = 0
    /\ commands'[r] = FreshEngine(r)
    /\ committing'[r] = {}
    /\ MutexFree(r)'

(* The local ballot of a process never decreases: ATOMIC_SET_IF on line    *)
(* 432 is the only store to ke->ballot, and it stores larger values only,  *)
(* whatever order the messages of several peers are parsed in.             *)
BallotNeverDecreases ==
    [][\A r \in Replicas : ballot'[r] < ballot[r] => Restarted(r)]_vars

(* Started on new log files, no replica ever leaves seq 0: the seq that    *)
(* kepaxos_run_command proposes, the max_seq a PRE_ACCEPT is answered with *)
(* and the seq a COMMIT records are all the largest of seqs already there, *)
(* so no log, no entry and no message ever holds another seq, and neither  *)
(* the recover callback nor the long path is ever taken.                   *)
NewLogsStayAtSeqZero ==
    /\ \A r \in Replicas, k \in Keys :
          /\ log[r][k] = 0
          /\ commands[r][k] # NoCmd => commands[r][k].seq = 0
    /\ \A m \in net \cup inbox : m.seq = 0 /\ m.type \notin {"ACCEPT", "ACCEPT_RESPONSE"}
    /\ recovered = {}

(* kepaxos_commit calls the host's commit callback before it writes the    *)
(* log and before it sends COMMIT, and the COMMIT handler calls it before  *)
(* it writes the log: a seq reaches a log file, and a COMMIT reaches the   *)
(* transport, only when the host of that replica has applied the command   *)
(* at that seq, also when the process is killed between the steps.         *)
AppliedBeforeRecorded ==
    [][/\ \A r \in Replicas, k \in Keys :
             log'[r][k] # log[r][k] =>
                 \E a \in applied' : a.rep = r /\ a.key = k /\ a.seq = log'[r][k]
       /\ \A m \in net' \ net :
             m.type = "COMMIT" =>
                 Applied(m.src, m.key, m.seq, m.ctype, m.data) \in applied]_vars

(* kepaxos_commit is called after MUTEX_UNLOCK and takes no lock, and the   *)
(* COMMIT handler holds the mutex from its test to its write: a command     *)
(* that got its quorum is applied, logged and announced, and a COMMIT past  *)
(* the test is written, also at a replica where a handler has returned with *)
(* the mutex held (lines 481 and 594) and every other thread waits for it.  *)
StartedCommitsFinish ==
    <>[](checking = {} /\ \A r \in Replicas : committing[r] = {})

(* The COMMIT handler never lowers the seq of a log (lines 606-611 drop a  *)
(* COMMIT below it): a step that takes a log back is a step of             *)
(* kepaxos_commit, which writes the seq of its command without reading the *)
(* log.                                                                    *)
OnlyLocalCommitLowersLog ==
    [][\A r \in Replicas, k \in Keys :
          log'[r][k] < log[r][k] => committing'[r] # committing[r]]_vars

(* While an entry stays in the table its seq never goes down: run_command  *)
(* keeps the larger of the log and the entry, the long path and the retry  *)
(* go up, and ACCEPT (line 531) takes a proposed seq only when it is not   *)
(* below the entry's, answering a lower one with the entry's own.          *)
EntrySeqNeverDecreases ==
    [][\A r \in Replicas, k \in Keys :
          (commands[r][k] # NoCmd /\ commands'[r][k] # NoCmd) =>
              commands'[r][k].seq >= commands[r][k].seq]_vars

(* The recover callback names a peer that has what the caller misses.  The *)
(* branch of lines 488-489 tests the committed flag of the response in     *)
(* hand and passes max_voter, the peer of the vote with the largest seq,   *)
(* which may be an earlier vote of a command that reused the entry: all    *)
(* the same the peer named is another replica, and its log holds a seq not *)
(* below the largest reported, which is above the seq of the entry.        *)
RecoverNamesPeerAhead ==
    [][\A c \in recovered' \ recovered :
          LET cmd == commands'[c.rep][c.key]
          IN  /\ c.peer # c.rep
              /\ cmd.seq < cmd.max_seq
              /\ log[c.peer][c.key] >= cmd.max_seq]_vars

-----------------------------------------------------------------------------
(* What the specification of the engine promises, and the code does not    *)
(* keep.                                                                   *)

(* Two replicas that commit at the same seq for a key commit the same      *)
(* command (invariant 2 of the specification).                             *)
SameSeqSameCommand ==
    \A a, b \in applied :
        (a.key = b.key /\ a.seq = b.seq) => (a.type = b.type /\ a.data = b.data)

(* The commits of a key at a replica are non-decreasing in seq (invariant  *)
(* 1 of the specification): the commit callback is never called with a seq *)
(* below one it was called with before at that replica.                    *)
CommitSeqNonDecreasing ==
    [][\A a \in applied' \ applied : \A b \in applied :
          (a.rep = b.rep /\ a.key = b.key) => b.seq <= a.seq]_vars

(* Every handler returns with the engine mutex released ("NoQuorumYet      *)
(* returns success to the caller, awaits more votes").                     *)
HandlersReleaseMutex == \A r \in Replicas : ~lock[r]

(* The low 8 bits of every ballot a replica originates are its index       *)
(* (invariant 4 of the specification): the ballot of a PRE_ACCEPT names    *)
(* the replica that sent it.                                               *)
OriginatedBallotNamesReplica ==
    \A m \in net : m.type = "PRE_ACCEPT" => LowBits(m.ballot) = my_index[m.src]

(* "The local high-24 counter is advanced past any seen ballot" (section 3  *)
(* of the specification): once kepaxos_received_command has parsed a        *)
(* message, the ballot of the replica is above the ballot of the message.   *)
SeenBallotIsPassed ==
    [][\A m \in inbox' \ inbox : ballot'[m.dst] > m.ballot]_vars

(* kepaxos_run_command installs a fresh entry, with no votes (step 4 of    *)
(* run_command in the specification): a call leaves no vote and no         *)
(* reported seq of an earlier command in the entry.                        *)
RunCommandInstallsFreshEntry ==
    [][\A r \in Replicas : runs'[r] # runs[r] =>
          \A k \in Keys : commands'[r][k] # commands[r][k] =>
              /\ commands'[r][k].num_votes = 0
              /\ commands'[r][k].max_seq = 0]_vars

(* A committed command reaches the host with the data it was run with      *)
(* (scenario A of the specification: every replica invokes                 *)
(* commit(SET, "k", "v1")).                                                *)
CommitCarriesData == \A a \in applied : a.type \in CmdTypes => a.data \in Data

(* A storage error aborts the command and no commit fires (section 7 of   *)
(* the specification), and record is durable before COMMIT goes out        *)
(* (section 4.2): a replica sends COMMIT for a seq only when its own log    *)
(* holds that seq.                                                         *)
CommitSentIsLogged ==
    [][\A m \in net' \ net :
          m.type = "COMMIT" => log'[m.src][m.key] = m.seq]_vars

(* The test of lines 606-611 protects the log of a replica whose SELECT    *)
(* succeeds: there the COMMIT handler never takes the seq of a log back,    *)
(* whatever kepaxos_commit of another thread writes meanwhile.              *)
CommitHandlerNeverLowersLog ==
    [][\A r \in Replicas \ ReadFaults, k \in Keys :
          log'[r][k] < log[r][k] => committing'[r] # committing[r]]_vars

(* "Replica identity in the low bits then guarantees globally unique       *)
(* ballots" (section 3 of the specification): the ballots minted on lines  *)
(* 308-310 by two replicas differ, so no two PRE_ACCEPTs of different      *)
(* senders carry one ballot.                                               *)
BallotsGloballyUnique ==
    \A m, n \in net :
        (m.type = "PRE_ACCEPT" /\ n.type = "PRE_ACCEPT" /\ m.ballot = n.ballot)
            => m.src = n.src

(* An entry is destroyed "when the engine explicitly triggers recovery and *)
(* hands off" (section 3 of the specification, Lifecycle): after the       *)
(* recover callback of line 489 the table has no entry for the key.        *)
RecoveryDestroysEntry ==
    [][\A c \in recovered' \ recovered : commands'[c.rep][c.key] = NoCmd]_vars

(* Scenario A of the specification: a command run at one replica, with no  *)
(* other command in flight, is committed by every replica.                 *)
LoneCommandCommits ==
    \A k \in Keys :
        (\E r \in Replicas : commands[r][k] # NoCmd) ~>
            (\A r \in Replicas : \E a \in applied : a.rep = r /\ a.key = k)

=============================================================================
