------------------------------ MODULE Tracker ------------------------------
(***************************************************************************)
(* The tracker daemon: the reconnect loop of main.rs, the Apply and Undo   *)
(* handlers of process.rs and the backoff of upstream/retry.rs, composed   *)
(* with the store and the upstream node.                                   *)
(***************************************************************************)
EXTENDS Store, Upstream

CONSTANTS
    Intersect,      \* [upstream].intersect: a block, or None for "tip"
    StatusCodes,    \* the gRPC status codes the node may answer with
    Unreadable,     \* transactions whose Apply handler fails whenever it runs
    Foreign,        \* transactions the node sends without a Cardano body
    InitialDelay,   \* Backoff::new's first argument
    MaxDelay,       \* Backoff::new's second argument
    MissCap         \* `misses` stops counting here

ASSUME TrackerAssumption ==
    /\ Intersect \in Blocks \cup {None}
    /\ Unreadable \subseteq Txs
    /\ Foreign \subseteq Txs
    /\ \A t \in Foreign : MatchedBy[t] = {}
    /\ InitialDelay \in Nat
    /\ MaxDelay \in Nat
    /\ InitialDelay <= MaxDelay
    /\ MissCap \in Nat

(* None is no value of any other kind. *)
ASSUME NoneAssumption ==
    /\ None \notin Blocks
    /\ None \notin Txs
    /\ None \notin Points
    /\ None \notin Transactions
    /\ None \notin Sessions
    /\ None \notin Events

VARIABLES
    pc,         \* where the process is
    request,    \* the intersect point of the WatchTxRequest, None when empty
    event,      \* the event being handled, or None
    signalled,  \* SIGINT or SIGTERM reached this process
    backoff,    \* Backoff::current
    delay,      \* the delay of the backoff sleep
    misses,     \* history: delays taken since the last message, up to MissCap
    origin      \* history: the blocks the first session began above;
                \* Blocks while there was none

processVars == <<pc, request, event, signalled>>
backoffVars == <<backoff, delay, misses>>
vars == <<db, txn, tip, sess, pc, request, event, signalled,
          backoff, delay, misses, origin>>

Running == {"resume", "connect", "subscribe", "stream", "handle", "commit", "sleep"}
Exited == {"stopped", "failed", "crashed"}

Init ==
    /\ StoreInit
    /\ UpstreamInit
    /\ pc = "crashed"
    /\ request = None
    /\ event = None
    /\ signalled = FALSE
    /\ backoff = InitialDelay
    /\ delay = 0
    /\ misses = 0
    /\ origin = Blocks

-----------------------------------------------------------------------------
(* upstream/retry.rs *)

IsTransient(code) ==
    code \in {"Unknown", "Unavailable", "Aborted", "Cancelled",
              "DeadlineExceeded", "Internal", "ResourceExhausted"}

AtMost(n, bound) == IF n < bound THEN n ELSE bound

(* Variant: the delay is doubled before it is returned. *)
NextDelayDoubledFirst ==
    /\ delay' = AtMost(2 * backoff, MaxDelay)
    /\ backoff' = AtMost(2 * backoff, MaxDelay)
    /\ misses' = AtMost(misses + 1, MissCap)

NextDelay ==
    /\ delay' = backoff
    /\ backoff' = AtMost(2 * backoff, MaxDelay)
    /\ misses' = AtMost(misses + 1, MissCap)

ResetBackoff ==
    /\ backoff' = InitialDelay
    /\ delay' = 0
    /\ misses' = 0

-----------------------------------------------------------------------------
(* Control shared by the actions. *)

Goto(here, there) == pc = here /\ pc' = there

(* SessionOutcome::Reconnect: the loop of `run` takes the next delay. *)
Reconnect(here) ==
    /\ Goto(here, "sleep")
    /\ NextDelay
    /\ CloseSession
    /\ UNCHANGED <<storeVars, request, event, signalled, origin>>

(* `run` returns, with Ok ("stopped") or with Err ("failed"). *)
Exit(here, status) ==
    /\ Goto(here, status)
    /\ event' = None
    /\ CloseSession
    /\ UNCHANGED <<storeVars, request, signalled, backoffVars, origin>>

-----------------------------------------------------------------------------
(* main.rs: run and stream_session *)

(* A new process: configuration, Store::open, specialize_all, signal_listener. *)
Start ==
    /\ pc \in Exited
    /\ pc' = "resume"
    /\ request' = None
    /\ signalled' = FALSE
    /\ ResetBackoff
    /\ UNCHANGED <<storeVars, upstreamVars, event, origin>>

(* Variant: the intersect is worked out once, by the first session. *)
ReadCursorOnce ==
    /\ Goto("resume", "connect")
    /\ request' = IF request # None THEN request
                  ELSE IF db.cursor # None THEN db.cursor
                  ELSE IF Intersect = None THEN None ELSE Point(Intersect)
    /\ UNCHANGED <<storeVars, upstreamVars, event, signalled, backoffVars, origin>>

(* Variant: every session streams from the tip. *)
ReadCursorNever ==
    /\ Goto("resume", "connect")
    /\ request' = None
    /\ UNCHANGED <<storeVars, upstreamVars, event, signalled, backoffVars, origin>>

(* The head of the loop: the stored cursor, else the configured intersect. *)
ReadCursor ==
    /\ Goto("resume", "connect")
    /\ request' = IF db.cursor # None THEN db.cursor
                  ELSE IF Intersect = None THEN None ELSE Point(Intersect)
    /\ UNCHANGED <<storeVars, upstreamVars, event, signalled, backoffVars, origin>>

ConnectOk ==
    /\ Goto("connect", "subscribe")
    /\ UNCHANGED <<storeVars, upstreamVars, request, event, signalled,
                   backoffVars, origin>>

(* Error::TonicTransport: the server cannot be reached. *)
ConnectFails == Reconnect("connect")

SubscribeOk ==
    /\ Goto("subscribe", "stream")
    /\ OpenSession(request)
    /\ origin' = IF origin # Blocks THEN origin
                 ELSE IF request = None THEN Ancestors[tip]
                 ELSE Ancestors[request.hash] \ {request.hash}
    /\ UNCHANGED <<storeVars, request, event, signalled, backoffVars>>

(* The node does not know the intersect: a NOT_FOUND status, which is fatal. *)
SubscribeRefused ==
    /\ request # None
    /\ MayRefuse(request)
    /\ Exit("subscribe", "failed")

(* Any other status ends the call (subscribe) or the stream. *)
StatusError ==
    \E here \in {"subscribe", "stream"}, code \in StatusCodes :
        /\ here = "stream" => ~signalled
        /\ IF IsTransient(code) THEN Reconnect(here) ELSE Exit(here, "failed")

(* The select is biased: a message is taken only while no signal is pending. *)
Receive ==
    /\ Goto("stream", "handle")
    /\ ~signalled
    /\ \E e \in Events :
         /\ SendApply(e) \/ SendUndo(e) \/ SendIdle(e)
         /\ event' = e
    /\ ResetBackoff
    /\ UNCHANGED <<storeVars, request, signalled, origin>>

(* Ok(None): the server closed the stream. *)
StreamClosed ==
    /\ ~signalled
    /\ Reconnect("stream")

(* Variant: only the stream listens to the signal. *)
ShutdownFromStreamOnly ==
    /\ signalled
    /\ Exit("stream", "stopped")

(* The shutdown branch of the two selects. *)
Shutdown ==
    /\ signalled
    /\ Exit("stream", "stopped") \/ Exit("sleep", "stopped")

SleepEnds ==
    /\ ~signalled
    /\ Goto("sleep", "resume")
    /\ delay' = 0
    /\ UNCHANGED <<storeVars, upstreamVars, request, event, signalled,
                   backoff, misses, origin>>

-----------------------------------------------------------------------------
(* process.rs: apply_tx and undo_tx *)

(* The early returns of the handlers: an Idle event, a `chain` that is not  *)
(* Cardano, an Apply without native bytes.                                  *)
Dropped ==
    \/ event.kind = "idle"
    \/ event.tx \in Foreign
    \/ event.kind = "apply" /\ ~event.bytes

(* apply_tx up to Store::apply_block: the cursor is the containing block. *)
HandleApply ==
    /\ Goto("handle", "commit")
    /\ event.kind = "apply"
    /\ ~Dropped
    /\ event.tx \notin Unreadable
    /\ BeginApplyBlock(Point(event.block), MatchRows(event.block, event.tx))
    /\ UNCHANGED <<upstreamVars, request, event, signalled, backoffVars, origin>>

(* Variant: the failure is logged and the event dropped. *)
HandleFailsSoftly ==
    /\ Goto("handle", "stream")
    /\ event.kind = "apply"
    /\ ~Dropped
    /\ event.tx \in Unreadable
    /\ event' = None
    /\ UNCHANGED <<storeVars, upstreamVars, request, signalled, backoffVars, origin>>

(* The block, the transaction, a match or a lift fails: the error reaches main. *)
HandleFails ==
    /\ event # None
    /\ event.kind = "apply"
    /\ ~Dropped
    /\ event.tx \in Unreadable
    /\ Exit("handle", "failed")

(* Variant: the event stays in hand. *)
HandleNothingKeepsEvent ==
    /\ Goto("handle", "stream")
    /\ Dropped
    /\ UNCHANGED <<storeVars, upstreamVars, request, event, signalled, backoffVars, origin>>

(* Nothing is stored and the session goes on. *)
HandleNothing ==
    /\ Goto("handle", "stream")
    /\ Dropped
    /\ event' = None
    /\ UNCHANGED <<storeVars, upstreamVars, request, signalled, backoffVars, origin>>

(* The point undo_tx rewinds to: the parent's hash, the slot before b's. *)
ParentPoint(b) ==
    IF b = Genesis THEN None
    ELSE [slot |-> IF Slot[b] = 0 THEN 0 ELSE Slot[b] - 1, hash |-> Parent[b]]

HandleUndo ==
    /\ Goto("handle", "commit")
    /\ event.kind = "undo"
    /\ ~Dropped
    /\ BeginUndoTx(event.tx, IF event.bytes THEN ParentPoint(event.block) ELSE None)
    /\ UNCHANGED <<upstreamVars, request, event, signalled, backoffVars, origin>>

StoreRow ==
    /\ pc = "commit"
    /\ InsertRow
    /\ UNCHANGED <<upstreamVars, processVars, backoffVars, origin>>

(* Variant: a failed commit is ignored. *)
StoreCommitUnchecked ==
    /\ Goto("commit", "stream")
    /\ txn.todo = {}
    /\ Commit \/ LoseConnection
    /\ event' = None
    /\ UNCHANGED <<upstreamVars, request, signalled, backoffVars, origin>>

StoreCommit ==
    /\ Goto("commit", "stream")
    /\ Commit
    /\ event' = None
    /\ UNCHANGED <<upstreamVars, request, signalled, backoffVars, origin>>

(* A statement of the store fails, in `cursor`, apply_block or undo_tx: the  *)
(* error reaches main, and the transaction is dropped, which rolls it back.  *)
StoreFails ==
    /\ Goto("resume", "failed") \/ Goto("commit", "failed")
    /\ event' = None
    /\ LoseConnection
    /\ CloseSession
    /\ UNCHANGED <<request, signalled, backoffVars, origin>>

-----------------------------------------------------------------------------
(* What happens to the process from outside. *)

Signal ==
    /\ pc \in Running
    /\ ~signalled
    /\ signalled' = TRUE
    /\ UNCHANGED <<storeVars, upstreamVars, pc, request, event, backoffVars, origin>>

(* The process is killed: everything but the committed file is lost. *)
Crash ==
    /\ pc \in Running
    /\ pc' = "crashed"
    /\ request' = None
    /\ event' = None
    /\ signalled' = FALSE
    /\ ResetBackoff
    /\ LoseConnection
    /\ CloseSession
    /\ UNCHANGED origin

NodeAdopts ==
    /\ AdoptBlock
    /\ UNCHANGED <<storeVars, processVars, backoffVars, origin>>

NodeMoves ==
    /\ EnterBlock \/ LeaveBlock
    /\ UNCHANGED <<storeVars, processVars, backoffVars, origin>>

-----------------------------------------------------------------------------

(* The steps the process takes of its own when nothing goes wrong. *)
Work ==
    \/ ReadCursor \/ ConnectOk \/ SubscribeOk \/ SubscribeRefused
    \/ Receive \/ Shutdown \/ SleepEnds
    \/ HandleApply \/ HandleFails \/ HandleNothing \/ HandleUndo
    \/ StoreRow \/ StoreCommit

(* The session, the store, the process or the connection is interrupted. *)
Interruption == ConnectFails \/ StatusError \/ StreamClosed \/ StoreFails \/ Crash

Next == Start \/ Work \/ Interruption \/ Signal \/ NodeAdopts \/ NodeMoves

Spec == Init /\ [][Next]_vars

(* tokio runs a ready task and fires its timers, the supervisor restarts an *)
(* exited process, and the node goes on sending what a session is owed.     *)
FairSpec == Spec /\ WF_vars(Start) /\ WF_vars(Work) /\ WF_vars(NodeMoves)

-----------------------------------------------------------------------------
(* Properties *)

(* Every variable has its type; an event is in hand exactly while a handler *)
(* runs and a transaction is open exactly while it writes.                  *)
TypeOK ==
    /\ StoreTypeOK
    /\ UpstreamTypeOK
    /\ pc \in Running \cup Exited
    /\ request \in Points \cup {None}
    /\ event \in Events \cup {None}
    /\ signalled \in BOOLEAN
    /\ backoff \in Nat /\ delay \in Nat /\ misses \in Nat
    /\ origin \in SUBSET Blocks
    /\ (event # None) <=> (pc \in {"handle", "commit"})
    /\ (txn # None) <=> (pc = "commit")
    /\ (sess # None) <=> (pc \in {"stream", "handle", "commit"})

(* The rows of a transaction are stored all together, under one block, or   *)
(* not at all, whatever is replayed, undone or lost in a crash: the single  *)
(* SQLite transaction of apply_block and the INSERT OR IGNORE in it.        *)
AllOrNothing ==
    \A t \in Txs :
        \/ RowsOf(db.rows, t) = {}
        \/ \E b \in Blocks : RowsOf(db.rows, t) = MatchRows(b, t)

(* The cursor brackets the table: every row of the blocks below it is       *)
(* stored and no row lies beyond it, so that resuming at the cursor block   *)
(* (main.rs:65-75) leaves neither a gap nor a row without an owner.         *)
CursorBrackets ==
    db.cursor # None =>
        LET last == db.cursor.hash IN
        /\ RowsUpTo(origin, last, 0) \subseteq db.rows
        /\ db.rows \subseteq RowsUpTo(origin, last, Count(last))

(* Between two messages, all the node has sent and not undone is stored:    *)
(* a session that ends here, by a clean shutdown above all, forgets nothing *)
(* it was told (stream_session awaits each handler before the next select). *)
ReceivedIsStored ==
    pc = "stream" /\ ~sess.back =>
        RowsUpTo(origin, sess.at, sess.done) \subseteq db.rows

(* The node has nothing left to send. *)
CaughtUp == pc = "stream" /\ sess = Position(tip, Count(tip))

(* A tracker that has caught up holds the matches of the canonical chain    *)
(* and no others: the rows of every block that was undone are gone.         *)
SyncedRows == CaughtUp => db.rows = RowsUpTo(origin, tip, Count(tip))

(* The delay before a reconnection is InitialDelay doubled once for every   *)
(* delay taken since the last message, capped at MaxDelay; only a message   *)
(* or a new process starts the schedule again (retry.rs:49-62).             *)
BackoffSchedule ==
    pc = "sleep" => delay = AtMost(InitialDelay * 2^(misses - 1), MaxDelay)

(* A block is being taken back: some of its Undo events have been sent and  *)
(* not all of them handled.                                                 *)
MidUndo ==
    \/ event # None /\ event.kind = "undo"
    \/ sess # None /\ sess.back /\ sess.done \in 1..(Count(sess.at) - 1)

(* Everything may happen, except that no session ends, and no signal comes, *)
(* in the middle; WholeSpec takes just these steps.                         *)
WholeBlocks == MidUndo => sess' # None /\ signalled' = signalled

WholeSpec == Init /\ [][Next /\ WholeBlocks]_vars

F == INSTANCE Follower WITH rows <- db.rows, origin <- origin

(* The file the tracker keeps, seen from outside, behaves as Follower       *)
(* promises, whatever happens to the session and to the process.            *)
FollowsChain == F!Spec

(* A signal ends the process, even while the node cannot be reached: both   *)
(* selects of main.rs listen to it.                                         *)
ShutdownStops == signalled ~> pc \in Exited

(* Once interruptions and signals cease, the tracker catches up with the    *)
(* node and stays there (main.rs:57-61: each interruption is recoverable).  *)
EventuallySynced ==
    <>[][~(Interruption \/ Signal)]_vars => <>[](CaughtUp /\ SyncedRows)

-----------------------------------------------------------------------------
(* What the documentation says of the file and the code does not keep. *)

(* docs/tracker-database.md:76-78: an undo "rewinds the cursor to the       *)
(* parent block"; the cursor is then the slot and the hash of a block.      *)
CursorNamesBlock == db.cursor # None => db.cursor = Point(db.cursor.hash)

(* docs/tracker-database.md:67-68: the cursor is "the highest block whose   *)
(* matches have all been committed".                                        *)
CursorBlockCommitted ==
    db.cursor # None => RowsIn(db.cursor.hash, Count(db.cursor.hash)) \subseteq db.rows

(* docs/tracker-database.md:74-76: every row belongs to a block that is     *)
(* "somewhere on the canonical chain as the upstream sees it", here once    *)
(* everything the upstream had to say has been handled.                     *)
RowsCanonical == CaughtUp => \A r \in db.rows : OnChain(r.block)

(* main.rs:57-60: "Each interruption is recoverable: reconnect and resume   *)
(* from the persisted cursor".                                              *)
NothingMissed == CaughtUp => RowsUpTo(origin, tip, Count(tip)) \subseteq db.rows

(* docs/tracker-database.md:79-80: the cursor table has no row only in a    *)
(* "fresh DB, never run".                                                   *)
NoCursorMeansFresh == db.cursor = None => db.rows = {}
=============================================================================
