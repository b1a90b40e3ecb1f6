-------------------------- MODULE RepoTransactions ---------------------------
(***************************************************************************)
(* The repository of the Firebase client (FRepo.m): transactions, sets and *)
(* their local effects.  A transaction runs its block on the data the      *)
(* client believes in, shows the result at once, sends it with the hash of *)
(* what it was computed from, and runs again when the server has other     *)
(* data.  Writes not yet acknowledged lie over the cached server data; a   *)
(* value listener at the root is told of every visible change.             *)
(*                                                                         *)
(* The data is a log at each child of the root: a transaction appends its  *)
(* number to every child of its location, a set starts the logs anew,      *)
(* another client appends Foreign.  The hash of a value is the value.      *)
(***************************************************************************)
EXTENDS Integers, Sequences, FiniteSets, FiniteSetsExt, SequencesExt, Functions, TLC

CONSTANTS
    Kids,         \* the children of the root
    NTxns,        \* transactions the app runs
    NSets,        \* sets the app does
    TxnPaths,     \* locations of the transactions
    SetPaths,     \* locations of the sets
    Hidden,       \* transactions run with localEvents NO
    Picky,        \* transactions whose block gives up on data of another client
    MaxRetries,   \* kFTransactionMaxRetries
    MaxForeign,   \* changes by another client
    MaxDrops,     \* lost connections
    MaxDenials,   \* writes the server's rules refuse
    MaxPurges     \* calls of purgeOutstandingWrites

Root == "/"
Paths == Kids \cup {Root}
Txns == 1..NTxns
Sets == (NTxns + 1)..(NTxns + NSets)
Foreign == 0
Stored == NTxns + NSets + 1    \* what was there before

ASSUME ConstantsAssumption ==
    /\ Root \notin Kids /\ IsFiniteSet(Kids) /\ Kids # {}
    /\ NTxns \in Nat /\ NSets \in Nat /\ MaxRetries \in Nat \ {0}
    /\ TxnPaths \subseteq Paths /\ SetPaths \subseteq Paths
    /\ Hidden \subseteq Txns /\ Picky \subseteq Txns
    /\ {MaxForeign, MaxDrops, MaxDenials, MaxPurges} \subseteq Nat

VARIABLES
    client,     \* the repository, its sync tree, its puts and what it has sent
    replies,    \* messages on their way to the client
    server,     \* the data
    applied,    \* history: how often the server applied each transaction
    left        \* what the world may still do

vars == <<client, replies, server, applied, left>>

Under(p) == IF p = Root THEN Kids ELSE {p}
AtOrAbove(p, q) == p \in {Root, q}
NoHash == <<>>
NoValue == <<>>

\* The elements of s that are in T, in their order.
Those(s, T) ==
    LET those[i \in 0..Len(s)] ==
            IF i = 0 THEN <<>>
            ELSE IF s[i] \in T THEN Append(those[i - 1], s[i]) ELSE those[i - 1]
    IN  those[Len(s)]

-----------------------------------------------------------------------------
(* FWriteTree: all writes in their order, and visibleWrites, the compound  *)
(* write kept beside them: whole when the root is overwritten.             *)

NothingWritten == [whole |-> FALSE, value |-> <<>>]

\* A write below the root goes into the value of the root, if that is written.
AddWrite(v, p, value) == [whole |-> v.whole \/ p = Root, value |-> value @@ v.value]

\* A write at a higher location is not modified.
RemoveWriteAtPath(v, p) ==
    CASE p = Root -> NothingWritten
      [] p # Root /\ v.whole -> v
      [] p # Root /\ ~ v.whole -> [v EXCEPT !.value = Restrict(@, DOMAIN @ \ {p})]

\* layerTreeFromWrites
Layer(writes) == FoldLeft(LAMBDA v, w : AddWrite(v, w.path, w.value), NothingWritten, writes)

\* shadowingWriteAtPath:
Shadowed(v, p) == v.whole \/ p \in DOMAIN v.value

\* resetTree layers every write: defaultFilter keeps the hidden ones too.
Remaining(r, i) ==
    LET w == r.writes[i]
        rest == RemoveAt(r.writes, i)
    IN  IF \E x \in Range(rest) : x.visible /\ AtOrAbove(w.path, x.path)
        THEN Layer(rest)
        ELSE RemoveWriteAtPath(r.visibleWrites, w.path)

\* removeWriteId: a write that was hidden, or is covered by a later one, changes nothing.
WasVisible(r, i) ==
    /\ r.writes[i].visible
    /\ \A j \in (i + 1)..Len(r.writes) :
          r.writes[j].visible => ~ AtOrAbove(r.writes[j].path, r.writes[i].path)

\* calcCompleteEventCacheAtPath, as seen by transactions: hidden writes count, and
\* what is not cached is empty.
LatestState(r, p, excluded) ==
    Restrict(Layer(SelectSeq(r.writes, LAMBDA w : w.owner \notin excluded)).value @@ r.cache,
             Under(p))

-----------------------------------------------------------------------------
(* FSyncTree and the view of the listener: the event cache follows the     *)
(* operations, each at its location.                                       *)

\* An operation on the sync tree returns the events to raise: the new value, if the
\* view is complete and has changed.  `op` is a repository and the events so far.
Quiet(r) == [r |-> r, events |-> <<>>]
Apply(op, r) ==
    [r |-> r,
     events |-> IF r.complete /\ (r.event # op.r.event \/ ~ op.r.complete)
                THEN Append(op.events, r.event)
                ELSE op.events]

\* A write over the location hides what is below it.  After a revert without server
\* data the view is not complete any more.
Reevaluate(r, p, revert) ==
    IF Shadowed(r.visibleWrites, p) THEN r
    ELSE [r EXCEPT !.event = Restrict(r.visibleWrites.value @@ r.cache, Under(p)) @@ @,
                   !.complete = IF revert THEN r.loaded ELSE @ \/ p = Root]

ApplyServerOverwrite(op, p, value) ==
    Apply(op, Reevaluate([op.r EXCEPT !.cache = value @@ @, !.loaded = @ \/ p = Root], p, FALSE))

ApplyUserOverwrite(op, owner, p, value, visible) ==
    LET w == [owner |-> owner, path |-> p, value |-> value, visible |-> visible]
        written == [op.r EXCEPT !.writes = Append(@, w)]
    IN  IF ~ visible THEN [op EXCEPT !.r = written]
        ELSE Apply(op, [written EXCEPT !.visibleWrites = AddWrite(@, p, value),
                                       !.event = value @@ @,
                                       !.complete = @ \/ p = Root])

RemoveWrite(op, i, revert) ==
    IF WasVisible(op.r, i)
    THEN Apply(op, Reevaluate([op.r EXCEPT !.writes = RemoveAt(@, i),
                                           !.visibleWrites = Remaining(op.r, i)],
                              op.r.writes[i].path, revert))
    ELSE [op EXCEPT !.r.writes = RemoveAt(@, i)]

\* writeForId
OldestWrite(r, owner) == SelectInSeq(r.writes, LAMBDA w : w.owner = owner)

\* The oldest write of the owner goes; there is an assertion that it exists.
AckUserWrite(op, owner, revert) ==
    LET i == OldestWrite(op.r, owner)
    IN  IF i = 0 THEN [op EXCEPT !.r.trap = "no such write"] ELSE RemoveWrite(op, i, revert)

RevertUserWrite(op, owner) == AckUserWrite(op, owner, TRUE)

\* The writes of a queue of transactions, one after the other.
AckUserWrites(r, queue, revert) ==
    LET acked[i \in 0..Len(queue)] ==
            IF i = 0 THEN Quiet(r) ELSE AckUserWrite(acked[i - 1], queue[i], revert)
    IN  acked[Len(queue)]

RemoveAllWrites(r) ==
    LET none == [r EXCEPT !.writes = <<>>, !.visibleWrites = NothingWritten]
    IN  IF r.writes = <<>> THEN Quiet(none)
        ELSE Apply(Quiet(r), Reevaluate(none, Root, TRUE))

\* FEventRaiser: the listener's queue gets the events in this order.
RaiseEvents(r, events) == IF events = <<>> THEN r ELSE [r EXCEPT !.told = Last(events)]
Raise(op) == RaiseEvents(op.r, op.events)

-----------------------------------------------------------------------------
(* The tree of transaction queues.                                         *)

Block(t, input) == [k \in DOMAIN input |-> Append(input[k], t)]
GivesUp(t, input) == t \in Picky /\ \E k \in DOMAIN input : Foreign \in Range(input[k])

InTree(r) == UNION {Range(r.tree[n]) : n \in Paths}

\* getAncestorTransactionNodeForPath
AncestorTransactionNode(r, p) == IF r.tree[Root] # <<>> THEN Root ELSE p

\* Mutation of BuildTransactionQueue: the nodes one after the other, unsorted.
BuildTransactionQueueUnsorted(r, n) ==
    r.tree[n] \o (IF n = Root THEN FoldLeft(LAMBDA q, k : q \o r.tree[k], <<>>, SetToSeq(Kids))
                  ELSE <<>>)

\* Transactions at and below the node, in the order they were started.
BuildTransactionQueue(r, n) ==
    Those([t \in Txns |-> t], UNION {Range(r.tree[m]) : m \in {n} \cup Under(n)})

Prune(r) ==
    [r EXCEPT !.tree = [n \in Paths |->
        Those(@[n], {t \in Txns : r.txn[t].status # "completed"})]]

Complete(r, T, outcome) ==
    [r EXCEPT !.txn = [t \in Txns |-> IF t \in T THEN [r.txn[t] EXCEPT !.status = "completed"]
                                      ELSE r.txn[t]],
              !.done = [t \in Txns |-> IF t \in T THEN Append(@[t], outcome) ELSE @[t]]]

-----------------------------------------------------------------------------
(* Sending.                                                                *)

\* putData: sent at once if the connection allows, else with the next one.
PutData(r, owners, p, value, hash) ==
    LET put == [owners |-> owners, path |-> p, value |-> value, hash |-> hash,
                sent |-> r.connected]
    IN  [r EXCEPT !.puts = Append(@, put),
                  !.wire = IF r.connected THEN Append(@, put) ELSE @]

\* The results of the queue over the data without them.
Snapshot(r, queue, latest) ==
    FoldLeft(LAMBDA data, t : r.txn[t].output @@ data, latest, queue)

SendTransactionQueue(r, queue, p) ==
    LET latest == LatestState(r, p, Range(queue))
        marked == [r EXCEPT !.txn = [t \in Txns |->
                     IF t \in Range(queue)
                     THEN [r.txn[t] EXCEPT !.status = "sent", !.retries = @ + 1]
                     ELSE r.txn[t]]]
    IN  PutData(marked, queue, p, Snapshot(r, queue, latest), latest)

SendReadyAtNode(r, n) ==
    LET queue == BuildTransactionQueue(r, n)
    IN  IF r.tree[n] # <<>> /\ \A t \in Range(queue) : r.txn[t].status = "run"
        THEN SendTransactionQueue(r, queue, n)
        ELSE r

\* A node with a queue speaks for everything below it.
SendAllReadyTransactions(s) ==
    LET r == Prune(s)
        kids == SetToSeq(Kids)
        sent[i \in 0..Len(kids)] == IF i = 0 THEN r ELSE SendReadyAtNode(sent[i - 1], kids[i])
    IN  IF r.tree[Root] # <<>> THEN SendReadyAtNode(r, Root) ELSE sent[Len(kids)]

-----------------------------------------------------------------------------
(* Rerunning and aborting.                                                 *)

TooManyRetries(x) == x.retries >= MaxRetries

\* Why a transaction of the queue ends now, or "no".
Ending(x, t, input) ==
    CASE x.status = "needsAbort" -> x.abort
      [] x.status = "run" /\ TooManyRetries(x) -> "maxretry"
      [] x.status = "run" /\ ~ TooManyRetries(x) /\ GivesUp(t, input) -> "given up"
      [] OTHER -> "no"

\* Its block is run and the result written over the old one.  `blind` is history: the
\* block saw data without the result of a transaction that is still on its way.
RunAgain(r, t, input, excluded) ==
    ApplyUserOverwrite(
        Quiet([r EXCEPT
            !.txn[t].output = Block(t, input),
            !.txn[t].shadowed = FALSE,
            !.txn[t].blind = \E u \in excluded \ {t} :
                                 r.txn[u].status \in {"sent", "sentNeedsAbort"}]),
        t, r.txn[t].path, Block(t, input), t \notin Hidden)

\* The old write goes, unless it is on its way or a purge has removed it.
Rerun(r, t, input, excluded, end) ==
    IF end = "canceled" \/ r.txn[t].status \notin {"run", "needsAbort"} THEN Quiet(r)
    ELSE RevertUserWrite(IF end = "no" THEN RunAgain(r, t, input, excluded) ELSE Quiet(r), t)

\* `events` is nil after the first round: what later rounds add to it is dropped.
AfterRerun(acc, t, op, end) ==
    LET r == IF acc.events THEN Raise(op) ELSE op.r
    IN  [r |-> IF end = "no" THEN r ELSE Complete(r, {t}, end),
         excluded |-> IF acc.r.txn[t].status = "run" THEN acc.excluded \ {t} ELSE acc.excluded,
         events |-> FALSE]

RerunOn(acc, t, input, end) ==
    AfterRerun(acc, t, Rerun(acc.r, t, input, acc.excluded, end), end)

RerunNext(acc, t) ==
    LET input == LatestState(acc.r, acc.r.txn[t].path, acc.excluded)
    IN  RerunOn(acc, t, input, Ending(acc.r.txn[t], t, input))

RerunEach(r, queue, excluded) ==
    LET rerun[i \in 0..Len(queue)] ==
            IF i = 0 THEN [r |-> r, excluded |-> excluded, events |-> TRUE]
            ELSE RerunNext(rerun[i - 1], queue[i])
    IN  rerun[Len(queue)].r

\* Mutation of RerunTransactionQueue: the old results are not left out of the data.
RerunTransactionQueueOnTop(r, queue) ==
    IF queue = <<>> THEN r ELSE SendAllReadyTransactions(RerunEach(r, queue, {}))

\* All writes of the queue are left out of the data until their transaction has run.
RerunTransactionQueue(r, queue) ==
    IF queue = <<>> THEN r ELSE SendAllReadyTransactions(RerunEach(r, queue, Range(queue)))

RerunTransactionsForPath(r, p) ==
    RerunTransactionQueue(r, BuildTransactionQueue(r, AncestorTransactionNode(r, p)))

\* Mutation of Unsent: transactions on their way are ended too.
UnsentOrSent(r, queue) ==
    Those(queue, {t \in Txns : r.txn[t].status # "sentNeedsAbort"})

Unsent(r, queue) ==
    Those(queue, {t \in Txns : r.txn[t].status \notin {"sent", "sentNeedsAbort"}})

\* After a purge the writes are gone already.
RevertAborted(r, aborted, error) ==
    IF error = "set" THEN AckUserWrites(r, aborted, TRUE) ELSE Quiet(r)

\* Unsent transactions end, sent ones are marked; the queue keeps as many as were
\* marked now.
AbortTransactionsAtNode(r, n, error) ==
    LET queue == r.tree[n]
        sent == Those(queue, {t \in Txns : r.txn[t].status = "sent"})
        aborted == Unsent(r, queue)
    IN  [Raise(RevertAborted(r, aborted, error)) EXCEPT
           !.txn = [t \in Txns |-> IF t \in Range(sent)
                                  THEN [@[t] EXCEPT !.status = "sentNeedsAbort", !.abort = error]
                                  ELSE @[t]],
           !.done = [t \in Txns |-> IF t \in Range(aborted) THEN Append(@[t], error) ELSE @[t]],
           !.tree[n] = IF sent = <<>> THEN <<>> ELSE SubSeq(queue, 1, Len(sent))]

\* The queue of a child is emptied while the dictionary of children is enumerated,
\* and another child follows: the enumeration raises an exception.
MutatedWhileEnumerated(r, children) ==
    \E i \in 1..(Len(children) - 1) :
        ~ \E t \in Range(r.tree[children[i]]) : r.txn[t].status = "sent"

\* The location, the root above it, or its children in the dictionary's order.
AbortTransactionsAtPath(r, p, error, order) ==
    LET children == IF p = Root THEN Those(order, {k \in Kids : r.tree[k] # <<>>}) ELSE <<p>>
        aborted[i \in 0..Len(children)] ==
            IF i = 0 THEN AbortTransactionsAtNode(r, Root, error)
            ELSE AbortTransactionsAtNode(aborted[i - 1], children[i], error)
        s == aborted[Len(children)]
    IN  IF MutatedWhileEnumerated(r, children) THEN [s EXCEPT !.trap = "enumeration"] ELSE s

Orders(p) == IF p = Root THEN SetToSeqs(Kids) ELSE {<<p>>}

-----------------------------------------------------------------------------
(* Answers to puts.                                                        *)

\* Events stand for a change at the location: its transactions are run again first.
RerunAndRaise(op, p) ==
    RaiseEvents(IF op.events = <<>> THEN op.r ELSE RerunTransactionsForPath(op.r, p), op.events)

\* Mutation of AckWrite: a purged write is acknowledged like another.
AckWriteCanceled(r, s, p, status) ==
    RerunAndRaise(AckUserWrite(Quiet(r), s, status # "ok"), p)

\* ackWrite:rerunTransactionsAtPath:
AckWrite(r, s, p, status) ==
    IF status = "canceled" THEN r
    ELSE RerunAndRaise(AckUserWrite(Quiet(r), s, status # "ok"), p)

Committed(op, queue) ==
    [op EXCEPT !.r = SendAllReadyTransactions(Complete(op.r, Range(queue), "committed"))]

\* Tried again when the data was stale, otherwise to be ended.
Refused(r, queue, status) ==
    [r EXCEPT !.txn = [t \in Txns |->
        IF t \notin Range(queue) THEN r.txn[t]
        ELSE IF status # "datastale"
        THEN [r.txn[t] EXCEPT !.status = "needsAbort", !.abort = status]
        ELSE [r.txn[t] EXCEPT !.status = IF @ = "sentNeedsAbort" THEN "needsAbort" ELSE "run"]]]

\* The callback of sendTransactionQueue.
TransactionAnswered(r, queue, p, status) ==
    LET op == IF status = "ok"
              THEN Committed(AckUserWrites(r, queue, FALSE), queue)
              ELSE Quiet(Refused(r, queue, status))
    IN  RaiseEvents(RerunTransactionsForPath(op.r, p), op.events)

PutAnswered(r, put, status) ==
    IF put.hash = NoHash
    THEN AckWrite(r, put.owners[1], put.path, status)
    ELSE TransactionAnswered(r, put.owners, put.path, status)

-----------------------------------------------------------------------------
Init ==
    /\ client = [txn |-> [t \in Txns |-> [status |-> "none", path |-> Root, retries |-> 0,
                                         output |-> NoValue, abort |-> "no",
                                         blind |-> FALSE, shadowed |-> FALSE]],
                 tree |-> [n \in Paths |-> <<>>],
                 writes |-> <<>>, visibleWrites |-> NothingWritten,
                 cache |-> [k \in Kids |-> <<>>], loaded |-> FALSE,
                 event |-> [k \in Kids |-> <<>>], complete |-> FALSE, told |-> NoValue,
                 puts |-> <<>>, wire |-> <<>>, connected |-> FALSE,
                 done |-> [t \in Txns |-> <<>>], trap |-> "no"]
    /\ replies = <<>>
    /\ server \in {[k \in Kids |-> log] : log \in {<<>>, <<Stored>>}}
    /\ applied = [t \in Txns |-> 0]
    /\ left = [foreign |-> MaxForeign, drops |-> MaxDrops, denials |-> MaxDenials,
               purges |-> MaxPurges, sets |-> Sets]

Running == client.trap = "no"

\* Transactions are numbered in the order they are started.
StartTransaction(t, p) ==
    LET input == LatestState(client, p, {})
        output == Block(t, input)
        queued == [client EXCEPT !.txn[t] = [status |-> "run", path |-> p, retries |-> 0,
                                             output |-> output, abort |-> "no",
                                             blind |-> FALSE, shadowed |-> FALSE],
                                 !.tree[p] = Append(@, t)]
    IN  /\ Running
        /\ client.txn[t].status = "none"
        /\ \A u \in 1..(t - 1) : client.txn[u].status # "none"
        /\ client' = IF GivesUp(t, input)
                     THEN Complete(client, {t}, "given up")
                     ELSE SendAllReadyTransactions(Raise(
                              ApplyUserOverwrite(Quiet(queued), t, p, output, t \notin Hidden)))
        /\ UNCHANGED <<replies, server, applied, left>>

Set(p, order) ==
    LET s == Min(left.sets)
        value == [k \in Under(p) |-> <<s>>]
        written == Raise(ApplyUserOverwrite(Quiet(client), s, p, value, TRUE))
        put == PutData(written, <<s>>, p, value, NoHash)
        aborted == AbortTransactionsAtPath(put, p, "set", order)
    IN  /\ Running
        /\ left.sets # {}
        /\ left' = [left EXCEPT !.sets = @ \ {s}]
        /\ client' = RerunTransactionsForPath(aborted, AncestorTransactionNode(put, p))
        /\ UNCHANGED <<replies, server, applied>>

\* Mutation of PurgeOutstandingWrites: the puts go without a word.
PurgeOutstandingWritesSilently(order) ==
    LET purged == Raise(RemoveAllWrites(client))
        aborted == AbortTransactionsAtPath(purged, Root, "canceled", order)
    IN  /\ Running
        /\ left.purges > 0
        /\ left' = [left EXCEPT !.purges = @ - 1]
        /\ client' = [aborted EXCEPT !.puts = <<>>]
        /\ UNCHANGED <<replies, server, applied>>

PurgeOutstandingWrites(order) ==
    LET purged == Raise(RemoveAllWrites(client))
        aborted == AbortTransactionsAtPath(purged, Root, "canceled", order)
        puts == aborted.puts
        answered[i \in 0..Len(puts)] ==
            IF i = 0 THEN aborted ELSE PutAnswered(answered[i - 1], puts[i], "canceled")
    IN  /\ Running
        /\ left.purges > 0
        /\ left' = [left EXCEPT !.purges = @ - 1]
        /\ client' = [answered[Len(puts)] EXCEPT !.puts = <<>>]
        /\ UNCHANGED <<replies, server, applied>>

-----------------------------------------------------------------------------
(* The connection.                                                         *)

\* History: data that changes under a waiting transaction without an event.
Shadowing(op, cache) ==
    IF op.events # <<>> THEN op
    ELSE [op EXCEPT !.r.txn = [t \in Txns |-> [op.r.txn[t] EXCEPT !.shadowed =
             @ \/ /\ op.r.txn[t].status = "run"
                  /\ \E k \in Under(op.r.txn[t].path) : op.r.cache[k] # cache[k]]]]

\* onDataUpdate
DeliverData ==
    LET message == Head(replies)
        op == Shadowing(ApplyServerOverwrite(Quiet(client), message.path, message.value),
                        client.cache)
    IN  /\ Running
        /\ replies # <<>> /\ message.type = "data"
        /\ client' = RerunAndRaise(op, message.path)
        /\ replies' = Tail(replies)
        /\ UNCHANGED <<server, applied, left>>

\* The answer to a put that was purged meanwhile is ignored.
DeliverAnswer ==
    LET message == Head(replies)
        own == {put \in Range(client.puts) : put.owners[1] = message.owner}
        answered == Those(client.puts, own)
        others == [client EXCEPT !.puts = Those(@, Range(@) \ own)]
    IN  /\ Running
        /\ replies # <<>> /\ message.type = "answer"
        /\ client' = IF answered = <<>> THEN client
                     ELSE PutAnswered(others, answered[1], message.status)
        /\ replies' = Tail(replies)
        /\ UNCHANGED <<server, applied, left>>

\* Sent transactions are told "disconnect", in the order of a dictionary.
Disconnect(order) ==
    LET cut == [client EXCEPT !.connected = FALSE, !.wire = <<>>]
        canceled[i \in 0..Len(order)] ==
            IF i = 0 THEN cut
            ELSE [PutAnswered(canceled[i - 1], order[i], "disconnect") EXCEPT
                    !.puts = Those(@, Range(@) \ {order[i]})]
    IN  /\ Running
        /\ client.connected /\ left.drops > 0
        /\ left' = [left EXCEPT !.drops = @ - 1]
        /\ replies' = <<>>
        /\ client' = canceled[Len(order)]
        /\ UNCHANGED <<server, applied>>

SentTransactions == {put \in Range(client.puts) : put.hash # NoHash /\ put.sent}

\* restoreState: the listen is sent, then every outstanding put in its order.
Connect ==
    LET puts == [i \in DOMAIN client.puts |-> [client.puts[i] EXCEPT !.sent = TRUE]]
    IN  /\ Running
        /\ ~ client.connected
        /\ client' = [client EXCEPT !.connected = TRUE, !.puts = puts, !.wire = puts]
        /\ replies' = <<[type |-> "data", path |-> Root, value |-> server]>>
        /\ UNCHANGED <<server, applied, left>>

-----------------------------------------------------------------------------
(* The server: a put with a hash needs the data it was computed from; the  *)
(* listener hears of a change before the writer gets the answer.           *)

AnswerTo(put, status) == [type |-> "answer", owner |-> put.owners[1], status |-> status]

ServerApplies ==
    LET put == Head(client.wire)
    IN  /\ Running
        /\ client.wire # <<>>
        /\ put.hash \in {NoHash, Restrict(server, Under(put.path))}
        /\ server' = put.value @@ server
        /\ replies' = replies \o <<[type |-> "data", path |-> put.path, value |-> put.value],
                                   AnswerTo(put, "ok")>>
        /\ applied' = [t \in Txns |-> IF t \in Range(put.owners) THEN applied[t] + 1
                                                               ELSE applied[t]]
        /\ client' = [client EXCEPT !.wire = Tail(@)]
        /\ UNCHANGED left

ServerRefuses ==
    LET put == Head(client.wire)
        stale == put.hash \notin {NoHash, Restrict(server, Under(put.path))}
    IN  /\ Running
        /\ client.wire # <<>>
        /\ \/ stale /\ UNCHANGED left
              /\ replies' = Append(replies, AnswerTo(put, "datastale"))
           \/ left.denials > 0 /\ left' = [left EXCEPT !.denials = @ - 1]
              /\ replies' = Append(replies, AnswerTo(put, "permission_denied"))
        /\ client' = [client EXCEPT !.wire = Tail(@)]
        /\ UNCHANGED <<server, applied>>

OtherClientWrites(k) ==
    /\ Running
    /\ left.foreign > 0
    /\ left' = [left EXCEPT !.foreign = @ - 1]
    /\ server' = [server EXCEPT ![k] = Append(@, Foreign)]
    /\ replies' = IF client.connected
                  THEN Append(replies, [type |-> "data", path |-> k,
                                        value |-> (k :> Append(server[k], Foreign))])
                  ELSE replies
    /\ UNCHANGED <<client, applied>>

Next ==
    \/ \E t \in Txns, p \in TxnPaths : StartTransaction(t, p)
    \/ \E p \in SetPaths : \E order \in Orders(p) : Set(p, order)
    \/ \E order \in Orders(Root) : PurgeOutstandingWrites(order)
    \/ DeliverData \/ DeliverAnswer
    \/ \E order \in SetToSeqs(SentTransactions) : Disconnect(order)
    \/ Connect
    \/ ServerApplies \/ ServerRefuses
    \/ \E k \in Kids : OtherClientWrites(k)

\* The socket hands on what has arrived, on the queue of the repository.
Arrives == Running /\ replies # <<>> /\ replies' = Tail(replies)

Fairness ==
    /\ WF_replies(Arrives)
    /\ WF_vars(Connect)
    /\ WF_vars(ServerApplies \/ ServerRefuses)

Spec == Init /\ [][Next]_vars
FairSpec == Spec /\ Fairness

-----------------------------------------------------------------------------
(* Properties.                                                             *)

Statuses == {"none", "run", "sent", "sentNeedsAbort", "needsAbort", "completed"}
Outcomes == {"committed", "set", "canceled", "disconnect", "maxretry", "given up",
             "permission_denied"}

TypeOK ==
    /\ \A t \in Txns :
          /\ client.txn[t].status \in Statuses
          /\ client.txn[t].retries \in 0..MaxRetries
          /\ client.done[t] \in Seq(Outcomes)
    /\ \A n \in Paths : Range(client.tree[n]) \subseteq {t \in Txns : client.txn[t].path = n}
    /\ \A i \in DOMAIN client.writes :
          DOMAIN client.writes[i].value = Under(client.writes[i].path)
    /\ \A i \in DOMAIN client.puts : DOMAIN client.puts[i].value = Under(client.puts[i].path)
    /\ DOMAIN server = Kids /\ DOMAIN client.cache = Kids
    /\ client.trap \in {"no", "no such write", "enumeration"}

Extended == \A k \in Kids : IsPrefix(server[k], server'[k]) \/ \E s \in Sets : server'[k] = <<s>>

\* A transaction only adds to what the server has: whatever was there when its put
\* arrived, from this client or another, stays.  Only a set replaces.
NoLostUpdate == [][Extended]_vars

\* An update is lost only to a transaction that went out with the output of stale data:
\* its block was run again without the result of an earlier one that was on its way, or
\* the data changed under its own write and no event had it run again.  No set, refusal,
\* retry, lost connection or purge makes one transaction overwrite another's.
LostOnlyToStaleRun ==
    [][\/ Extended
       \/ \E t \in Range(Head(client.wire).owners) :
             client.txn[t].blind \/ client.txn[t].shadowed]_vars

\* In particular what another client wrote goes only with a set.
ForeignKept ==
    [][\A k \in Kids : \/ Len(SelectSeq(server'[k], LAMBDA x : x = Foreign))
                         >= Len(SelectSeq(server[k], LAMBDA x : x = Foreign))
                     \/ \E s \in Sets : server'[k] = <<s>>]_vars

\* Transactions reach one location in the order they were started.
TransactionsInOrder ==
    \A k \in Kids : \A i, j \in DOMAIN server[k] :
        i < j /\ {server[k][i], server[k][j]} \subseteq Txns => server[k][i] < server[k][j]

\* The completion block of a transaction is called once, and what it says is so: a
\* committed transaction was applied once, one that was overwritten, refused, given up
\* or tried too often never was or will be.  After a lost connection or a purge the
\* app cannot know.
OutcomeIsTrue ==
    \A t \in Txns :
        /\ applied[t] <= 1
        /\ Len(client.done[t]) <= 1
        /\ client.done[t] = <<"committed">> => applied[t] = 1
        /\ Range(client.done[t]) \cap {"set", "maxretry", "given up", "permission_denied"} # {}
           => applied[t] = 0

Idle == client.connected /\ client.wire = <<>> /\ replies = <<>>

\* Once every message has arrived the client believes what the server has: no write
\* and no transaction is left over.
IdleShowsServer ==
    Idle => /\ client.cache = server
            /\ client.writes = <<>> /\ client.puts = <<>>
            /\ InTree(client) = {}

\* ... and the last event the listener was given is that data.
ListenerSeesServer == Idle => client.told = server

\* A transaction with localEvents NO shows nothing before the server has applied it.
HiddenNotShown ==
    \A t \in Hidden : (\E k \in DOMAIN client.told : t \in Range(client.told[k])) => applied[t] > 0

\* ackUserWriteWithWriteId: always finds its write: no answer, purge, abort or rerun
\* acknowledges one that is gone, which the assertion of removeWriteId: would trap.
AcksFindTheirWrite == client.trap # "no such write"

-----------------------------------------------------------------------------
(* What the documentation and the comments say, and the code does not do.  *)

\* abortTransactionsAtPath: "Aborts all transactions on ancestors or descendants of
\* the specified path": the enumeration of the descendants reaches its end, although
\* each step may empty a queue and take it out of the dictionary being enumerated.
NoEnumerationTrap == client.trap # "enumeration"

\* runTransactionBlock: the completion block is triggered "once the transaction is
\* complete, whether it was successful or not": every transaction ends and is told.
EveryTransactionEnds ==
    \A t \in Txns : client.txn[t].status # "none" ~> client.done[t] # <<>>
=============================================================================
