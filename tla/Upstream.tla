------------------------------ MODULE Upstream ------------------------------
(***************************************************************************)
(* The utxorpc node at the other end of the WatchTx stream.  It is not     *)
(* part of the repository: what is modelled is the contract main.rs and    *)
(* process.rs rely on.  A session is a position on the node's chain; the   *)
(* node sends Apply for the transactions above it, Undo (last transaction  *)
(* first) for those of blocks that left the chain, and Idle for blocks     *)
(* without a transaction of interest.  Events of one session arrive in     *)
(* order; what is in flight when a session ends is lost, which is the same *)
(* as never having been sent, so an event is produced when it is received. *)
(***************************************************************************)
EXTENDS Chain

CONSTANTS
    LookupBySlot,   \* whether an intersect is found by slot and hash or by hash
    RollsBack,      \* whether an intersect off the chain is undone or refused
    NativeBytes     \* whether an event carries block.native_bytes

(* Each is a set of answers, BOOLEAN where the node may do either. *)
ASSUME UpstreamAssumption ==
    \A answers \in {LookupBySlot, RollsBack, NativeBytes} :
        answers \subseteq BOOLEAN /\ answers # {}

VARIABLES
    tip,    \* the last block of the node's chain
    sess    \* the open session, or None: the first `done` transactions of block
            \* `at` stand, `back` when the node is taking the block back

upstreamVars == <<tip, sess>>

UpstreamInit ==
    /\ tip = Genesis
    /\ sess = None

OnChain(b) == b \in Ancestors[tip]

Count(b) == Len(TxsOf[b])

(* The node adopts a longer chain, an extension of its own or a fork. *)
AdoptBlock ==
    /\ tip' \in {b \in Blocks : Height(b) > Height(tip)}
    /\ sess' = sess

(* The node finds the block an intersect point names. *)
Finds(p, bySlot, back) ==
    /\ bySlot => p.slot = Slot[p.hash]
    /\ OnChain(p.hash) \/ back

MayFind(p) == \E bySlot \in LookupBySlot, back \in RollsBack : Finds(p, bySlot, back)
MayRefuse(p) == \E bySlot \in LookupBySlot, back \in RollsBack : ~Finds(p, bySlot, back)

Sessions == [at : Blocks, done : Nat, back : BOOLEAN]

Position(b, n) == [at |-> b, done |-> n, back |-> FALSE]

(* Open a session.  No point: stream from the tip.  A point: the block it   *)
(* names is sent again first (docs/integration-test-report.md:210), or      *)
(* undone first when it has left the chain.                                 *)
OpenSession(p) ==
    /\ IF p = None
       THEN sess' = Position(tip, Count(tip))
       ELSE /\ MayFind(p)
            /\ sess' = IF OnChain(p.hash) THEN Position(p.hash, 0)
                       ELSE [Position(p.hash, Count(p.hash)) EXCEPT !.back = TRUE]
    /\ tip' = tip

CloseSession ==
    /\ sess' = None
    /\ tip' = tip

(* The next block of the chain above b. *)
IsNext(c, b) == c # Genesis /\ Parent[c] = b /\ OnChain(b) /\ OnChain(c)

Event(kind, b, t, bytes) == [kind |-> kind, block |-> b, tx |-> t, bytes |-> bytes]

Events ==
    [kind : {"apply", "undo"}, block : Blocks, tx : Txs, bytes : BOOLEAN]
    \cup [kind : {"idle"}, block : Blocks, tx : {None}, bytes : {TRUE}]

(* The events of a block are sent whole, as the node's log has them: all    *)
(* its Apply events before the first Undo, all its Undo events before       *)
(* anything else.                                                           *)
Complete == sess # None /\ ~sess.back /\ sess.done = Count(sess.at)

SendApply(x) ==
    /\ sess # None
    /\ ~sess.back
    /\ sess.done < Count(sess.at)
    /\ \E bytes \in NativeBytes :
         x = Event("apply", sess.at, TxsOf[sess.at][sess.done + 1], bytes)
    /\ sess' = [sess EXCEPT !.done = @ + 1]
    /\ tip' = tip

SendUndo(x) ==
    /\ sess # None
    /\ sess.back \/ (Complete /\ ~OnChain(sess.at))
    /\ sess.done > 0
    /\ \E bytes \in NativeBytes :
         x = Event("undo", sess.at, TxsOf[sess.at][sess.done], bytes)
    /\ sess' = [sess EXCEPT !.done = @ - 1, !.back = TRUE]
    /\ tip' = tip

(* The node goes on with a block that has nothing of interest. *)
SendIdle(x) ==
    /\ Complete
    /\ \E b \in Blocks :
         /\ IsNext(b, sess.at)
         /\ Count(b) = 0
         /\ x = Event("idle", b, None, TRUE)
         /\ sess' = Position(b, 0)
    /\ tip' = tip

(* The node goes on with a block that has something to send. *)
EnterBlock ==
    /\ Complete
    /\ \E b \in Blocks :
         /\ IsNext(b, sess.at)
         /\ Count(b) > 0
         /\ sess' = Position(b, 0)
    /\ tip' = tip

(* A block has been taken back: the node goes on with its parent. *)
LeaveBlock ==
    /\ sess # None
    /\ sess.at # Genesis
    /\ sess.done = 0
    /\ sess.back \/ (Complete /\ ~OnChain(sess.at))
    /\ sess' = Position(Parent[sess.at], Count(Parent[sess.at]))
    /\ tip' = tip

UpstreamTypeOK ==
    /\ tip \in Blocks
    /\ sess \in Sessions \cup {None}
    /\ sess # None => sess.done <= Count(sess.at)
=============================================================================
