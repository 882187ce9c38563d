# tx3-lift, specified

TLA+ specifications of [tx3-lift](../src/README.md): the tracker daemon that follows a Cardano
chain over utxorpc's `WatchTx` and stores the transactions that belong to configured Tx3 protocols,
and the matching library it is built on. TLC checks small instances, TLAPS proves what is said
below under "Proofs" for every value of the constants.

Source paths are relative to the repository. `PROJECT.json` maps each definition to the lines it
models.

## 1. Inventory

| Component | State | Operations | Interacts with |
|---|---|---|---|
| session loop: `bin/tracker/src/main.rs`, `upstream/retry.rs` | the request, the open stream, the backoff, the shutdown handle | connect, subscribe, select between signal and message, back off, exit | store (reads the cursor before every session), node (stream), handlers (calls and awaits them) |
| event handlers: `bin/tracker/src/process.rs` | none of their own | `apply_tx`, `undo_tx`, `run_specializations`, `select_matches` | store, library |
| store: `bin/tracker/src/store.rs` | the SQLite file: `matches`, `cursor`, `_schema_versions` | `open` (migrations), `cursor`, `apply_block`, `undo_tx`, each in one SQL transaction | the file may be opened by a second process |
| upstream node (outside the repository) | its chain, the position of the session | adopts blocks and forks, sends Apply, Undo, Idle, closes, refuses | session loop |
| start-up: `bin/tracker/src/{config,specialization}.rs`, `upstream/predicate.rs`, `crates/tx3-lift/src/{specialize,expr}.rs` | computed once: the API key, the specialized sources, the predicate | `load`, `specialize_all`, `args_from_profile`, `decode_tir`, `const_*`, `compile` | gives the handlers their sources and the node its predicate |
| anchors, fingerprint: `crates/tx3-lift/src/{anchors,fingerprint}.rs` | cached with a source | `from_profile`, `hits`, `extract`, `matches` | start-up, handlers |
| summary, matcher, lifter: `crates/tx3-lift-cardano/src/{summarize,matching,lifting}.rs` | none | `summarize`, `match_tx`, `lift` | handlers |
| library front: `crates/tx3-lift-cardano/src/lib.rs` | none | `route_and_lift`, `route_and_lift_with_profile` | the same operators as the handlers, without gate and ranking |
| errors | none | conversions | everything that fails |

The behaviours that are hard:

- **Interruption at any step.** The stream ends, the process is killed or a handler fails between any
  two steps, and everything but the committed file is lost. What the file says must then be enough
  to go on: cursor and rows agree, nothing is missing below the cursor, nothing lies beyond it.
- **Replay.** The node sends the cursor block again, so every row may be inserted twice.
- **Rollbacks.** They arrive one transaction at a time while the cursor moves one block at a time.
- **Reconnection.** Status codes are permanent or transient, delays double up to a cap, any message
  starts them again, and a signal may arrive while the tracker waits.
- **Start-up.** A crash between two statements of a migration, or a second process in the same
  migration.
- **Greedy matching and cheap filters.** A gate, a fingerprint and a greedy assignment stand in
  front of each other; each could lose a match the others would make, or let one through.
- **One transaction read several times.** Summary, matcher and lifter each read the resolved outputs
  again; the first two shrug off bytes that do not decode, the last ends the process on them.
- **Partial specialization.** Fingerprints are cached before the arguments of any invocation are
  known, from a profile whose parties and environment share one name space.

What makes the components right: the store is atomic and idempotent; the tracker's file always holds
a prefix of one fork (`Follower`); a caught-up tracker holds the canonical matches; a signal ends the
process; migrations are applied whole; a match means that the protocol was engaged and that every
part of the template has slots of its own; a literal template is never missed; rows are the ranked
best candidates, and the parties in them do what the transaction shows; the process fails on undecodable
bytes only where it needs them; it runs with exactly the sources that can match; a cached fingerprint
asks for nothing an invocation decides.

## 2. Modules

| Module | Models | State and actions |
|---|---|---|
| `Chain` | what the handlers read of blocks and transactions; the rows of a transaction | constants only |
| `Store` | `store.rs` `apply_block`, `undo_tx` | `db` is the committed file, `txn` the open SQL transaction; one action per statement, `Commit` publishes |
| `Upstream` | the `WatchTx` contract (external) | `tip`, `sess`; sends Apply, Undo (last transaction of a block first), Idle; may refuse an intersect |
| `Tracker` | `main.rs`, the handlers and `retry.rs`, composed with `Store` and `Upstream` | `pc` is the place in `run`/`stream_session`; one action per outcome of each await |
| `Follower` | what the tracker promises of the table | the table changes by one whole transaction at a time, along one fork |
| `Migrations` | `Store::open`, `run_migrations` | per process: place, migration, statement; the file, the write lock and the writer's copy |
| `Orderings` | the sequence of a set that an order gives (a sort, the iteration of a map or a set) | operators |
| `Payload`, `Anchors`, `Fingerprint`, `Matching` | `summarize`; `from_profile`, `hits`; `extract`, `matches`; `match_tx` | operators |
| `Lifting` | `lift`: parties, roles, signers, what fails to decode | operators |
| `Process` | `run_specializations`, `select_matches` with all of the above | one action per source gated, template tried, selection and lift |
| `Front` | `route_and_lift`, `route_and_lift_with_profile` | operators |
| `Filter` | `predicate::compile`, and what a pattern means to the node (external) | operators |
| `ProcessProperties` | what `Process` promises | properties stated on payloads and profiles, not on the summary and the fingerprint |
| `Expr` | `expr.rs` and the constants that `extract` takes of a TIR | recursive functions on the table of a transaction's expressions |
| `Startup` | `main.rs` before the first session: `config::load`, `Store::open` (an outcome), `specialize_all`, `predicate::compile` | `stage` is the place in `run`; one action per transaction specialized and source finished, one per error |
| `MCTracker`, `MCMigrations`, `MCProcess`, `MCStartup` | instances for TLC | constants |
| `TrackerProofs` | theorems about `Tracker`, on any chain and on chains with forks | |
| `MigrationsProofs` | theorems about `Migrations` | |
| `Foundations` | lemmas about induction, recursive functions, folds, sums, sorted sets, sequences | |
| `ProcessProofs`, `MatchingProofs`, `SelectionProofs`, `LiftingProofs` | theorems about `Process`, each EXTENDS the one before: gate, filter and search; assignment and fingerprint; selection and rows; roles and the library's front | |
| `StartupProofs` | theorems about `Startup` | |

`Tracker` EXTENDS `Store` and `Upstream`, which EXTEND `Chain`; `Process` EXTENDS `Anchors`,
`Fingerprint`, `Matching` and `Lifting`, which EXTEND `Payload`, and `ProcessProperties` adds `Front` and
`Filter`. `Startup` EXTENDS `Expr`, `Anchors` and `Fingerprint`. The three state machines meet in
values: `Startup` ends with `active`, a sequence of sources of the form that `Process` starts from;
`Process` decides which sources a transaction matches, which to `Tracker` is the constant
`MatchedBy`. A source is `[name, profile, txs]`, a template is what `Expr!TemplateOf` leaves of a
TIR: everything that is not constant is gone. The expressions of a TIR, which the code has as trees, are a table
whose nodes name their parts by smaller places, so that `classify` and its siblings are recursive functions on
the places; `apply_args` puts the value of the parameter at place q at place -q. A definition whose comment begins "Variant:" is a plausible mistake kept next to
the definition it is a mistake in; no specification uses one.

How `Tracker` reads beside the code: each `.await` whose outcome matters is a value of `pc`:
"resume" (`store.cursor()`), "connect", "subscribe", "stream" (the select), "handle" (inside
`apply_tx` or `undo_tx`), "commit" (inside the store), "sleep" (the backoff). "stopped" and "failed"
are the two returns of `run`, "crashed" is the end nobody returns from. A signal sets `signalled`,
which only "stream" and "sleep" look at, and look at first (`biased`). `origin` and `misses` are
history variables that no action reads.

## 3. Runs

| Run | Shows | Distinct states |
|---|---|---|
| `line_crash` | a chain without forks with an unreadable transaction; crash, signal, lost connection, failing statement of the store, permanent and transient status at any step: `AllOrNothing`, `CursorBrackets`, `ReceivedIsStored`, `BackoffSchedule`, and `Tracker` implements `Follower` | 1821 |
| `reorg` | two forks that outgrow each other, blocks of one and two transactions, one transaction in both forks, a node that may look an intersect up by slot or by hash and may refuse it: `AllOrNothing`, `SyncedRows`, implements `Follower` | 3198 |
| `reorg_live` | the forks with at most one transaction of interest in a block, one of them foreign (sent without a Cardano body, in both directions), and interruptions anywhere: `CursorBrackets`, `SyncedRows`, `Follower`, and the liveness properties `ShutdownStops` and `EventuallySynced` | 3019 |
| `migrations` | two processes and the two real migrations, a crash and a failing statement at any point of opening: `RecordedIffApplied`, `OpenIsMigrated`, `EventuallyOpen` | 3012 |
| `pipeline` | every small transaction of several shapes against fifteen templates that use every part, and one to three sources with tied scores, repeated names, several parties at one address or with one key, and no anchors, in both modes: `OnlyEngaged`, `AssignmentSound`, `NoMissedMatch`, `RowsAreRanked`, `RolesAreExact`, `PartiesPlayTheirParts`, `FailsOnlyOnUse`, `FrontAgrees`, `FilterLosesNothing` | 84430 |
| `startup` | two sources where the first has any of 48 TIIs (parties, environment and transactions varied, undecodable and foreign ones included), files and sources that cannot be read, keys and filters of every kind: `StartIsExact`, `PartialIsWeaker`, `PartiesAreAsked`, `PolicyEitherWay`, `ExpressionsClassified` | 553 |
| `from_tip`, `undo_point`, `half_block`, `half_undo`, `bare_undo`, `necessary` | a statement of the documentation that the code does not keep, see section 6 | violation |

`reorg` runs under the action constraint `WholeBlocks`: no session ends and no signal comes while some but not all Undo
events of a block have been handled (`WholeSpec` has just these steps). Without that restriction the file is left with rows of a dead
block, which is what `half_undo` shows; `reorg_live` allows interruptions everywhere, but its blocks
have one transaction, whose undo is one event. The theorems of section 5 say the same of every tree of forks.

**Bounds.** Blocks: five in a line with an empty one between, or seven in a tree of two forks that
overtake each other twice; an extension, a rollback of two blocks, a rollback past an empty block and
a transaction that moves from one fork to the other all happen. Two sources, so a transaction has
zero, one or two rows. `InitialDelay` 1, `MaxDelay` 6 and `MissCap` 4 in `line_crash` reach the cap
(1, 2, 4, 6) and one delay past it; elsewhere the delays carry no information and are 1. The number
of crashes, reconnections and signals is not bounded: the state space is finite without it. Two
status codes stand for the permanent and the transient ones. Migrations: two processes, because
the interesting race is between a reader and the writer; the theorems lift the bound. Process: two
inputs, two outputs, two policies and two parts of a kind are the least on which a greedy order
matters; three sources are the least on which dense ranks differ from positions. Four parties, two of them at one
address and two with one key, are the least on which the order of names decides who takes a role.
Startup: two transactions and two sources are the least in which something could be carried from one to the
next; the arguments an invocation may add are all subsets of eight (`MCCompletions`), which fill every
kind of parameter of the two TIRs.

**Deadlock** is checked in every run: an exited tracker can be started, an opened store can
crash, `Process` has the explicit action `Returned` and `Startup` the explicit action `Over`.

**Fairness.** `Tracker!FairSpec`: weak fairness of `Work` (tokio runs a ready task and fires its
timers; the two RPC calls end because the HTTP/2 keep-alive of `upstream/mod.rs:46-54` ends a dead
connection), of `Start` (a supervisor restarts the container; a tracker without one stays down) and
of `NodeMoves` (a node goes on sending what a session is owed). No fairness is assumed of
interruptions, signals or new blocks. `EventuallySynced` assumes that interruptions and signals
cease. It does not hold if the node refuses the cursor for ever, and `reorg_live` therefore has a node
that finds a block by its hash and undoes what has left its chain. `Migrations!FairSpec`: weak
fairness of each process's own steps, of opening again after a failure in particular. `EventuallyOpen` assumes that processes cease
to die and that statements cease to fail, but for those that create what is there already (`StatementFails`).

## 4. Properties worth a word

- `CursorBrackets` is why replaying the cursor block is enough: all below the cursor block is stored,
  nothing beyond it is.
- `FollowsChain` is the refinement `Tracker => Follower`: with `rows <- db.rows` every step of the
  tracker adds the next transaction of a fork, takes the last one back, or leaves the table alone.
- `NoMissedMatch` compares the code's three filters with a definition that knows none of them: some
  assignment of distinct places in the transaction to the parts of the template exists (`Builds`).
  It is restricted to `Literal` templates; outside them the matcher really misses matches: an
  output at any address listed before one at a known address takes its slot, a query before
  constant references takes their inputs, two mints under one policy are one entry on chain, and a
  constant reference that is named twice is never found, because the number of slots must be the number of
  references named (`matching.rs:171-193`). An empty constant list of reference inputs requires nothing of the
  fingerprint (`fingerprint.rs:304`) and fails every match (`matching.rs:146`).
  The README's limitation (`README.md:55`) names only inputs that differ by redeemer.
- `OnlyEngaged` restates the gate of `README.md:17` on the transaction itself.
- `RolesAreExact` defines a role from what a row shows a party doing (`Deeds`), where the code
  accumulates it over three loops. `PartiesPlayTheirParts` goes the other way, from the template: what it
  asks of a party by name the row shows that party doing, so the address in the template, the slot of
  the matcher and the address the lifter reads again agree.
- `FailsOnlyOnUse` says exactly when undecodable bytes end the process: a candidate that is kept reads
  them, through a reference or through an input that was not asked for at an address. An input asked
  for at an address is safe, because the matcher never gives it such a slot.
- `FrontAgrees`: the library finds something where the tracker does, for a source that is engaged; it lifts
  the first match in the order of the TII's keys, the tracker the best by score, and the lifts are equal when the
  two are one. The type of the TII's maps is the SDK's and not in this repository, so the property
  is stated for every order of the keys (`Orders`), while the tracker's are sorted (`specialization.rs:37`).
- `RowsAreRanked` defines the winner of a name by comparison with all other candidates, and two configured sources
  may have one name: the earlier one wins a tie, as the map the code builds one at a time has it.
- `FilterLosesNothing`: a filter that names all anchors of a source costs no match. A source with
  UTxO anchors cannot be covered: the filter has no words for them.
- `PartialIsWeaker` compares the fingerprint cached without an invocation's arguments with the one
  of the same TIR with them, for all of `MCCompletions`.
- `PolicyEitherWay` pins down what the two parsers of an environment string make of a policy: in plain hex it is an
  anchor, and the fingerprint does not require it unless the template itself spells it out as bytes; behind `0x` it is bytes that a
  fingerprint can require, and no anchor.
- `AssignmentSound` allows what the code allows: a query may be left without a slot, and a mint and a
  burn may share the slot of one policy. That a query whose input was not resolved gets no slot and the
  template matches all the same (`matching.rs:233`) is therefore modelled, and no property forbids it.

## 5. Proofs

`TrackerProofs` assumes the named assumptions of `Chain`, `Upstream` and `Tracker`: blocks form a
tree along which slots grow, contents are functions, the node's answers are Booleans, and `None` is no
other value. Nothing is assumed of the number of blocks, transactions, sources or delays.

- `TypeCorrect`: `Spec => []TypeOK`. `TypeOK` is inductive because it ties the control state to what
  is open: an event exactly in "handle" and "commit", a transaction exactly in "commit", a session
  exactly in "stream", "handle" and "commit". One lemma for each helper of `Store` and `Upstream`,
  then one step per action.
- `BackoffScheduleHolds`: `CountsLongEnough => Spec => []BackoffSchedule`, for delays of any size. `BackoffInv` keeps the
  delay to come at the initial one doubled once per delay taken, capped, and the one being slept at the one before. The
  history counter `misses` stops at `MissCap`, where the schedule must have reached the cap already:
  `CountsLongEnough` says so, of the counter and not of the code, which has none. The provers know nothing of
  powers; `PowerDoubles` gets 2^(n + 1) = 2 * 2^n from counting the subsets of `1 .. n + 1`.
- `AllOrNothingHolds`: `Spec => []AllOrNothing`. Not inductive alone: `Commit` publishes whatever the
  transaction has. `TxnInv` says what that is: either a whole table already (an undo), or the rows
  of one transaction for one block are being written, where what is no longer to do has been
  inserted, unless the transaction was stored before, in which case every insert collides and is
  ignored. The `INSERT OR IGNORE` on `(tx_hash, source_name)` never mixes rows of two blocks,
  because all keys of a transaction collide or none does.

What the file holds depends on the forks. `Forking` says of them: no transaction occurs twice on one chain, though it may
on two; the configured intersect is on every fork, and the node can find it; events carry native bytes; a transaction
without a Cardano body, which neither handler does anything about, may be there only if `Single` holds too. A block
is `Final` if every fork has it, and `Single` says that a block which is not has one transaction of interest at
most. Of the number of forks, their lengths, how often the node goes from one to another, the sources, the
crashes, signals, lost connections, refused intersects and statuses nothing is assumed. A chain without forks is
the case in which every block is final. The hypotheses hold of the trees of `line_crash`, `reorg` and `reorg_live`
(`Single` not of `reorg`), and TLC finds the invariant below true there.

- `CursorBracketsHolds`, `ReceivedIsStoredHolds`, `SyncedRowsHolds`: `Forking /\ Single => Spec => []...`, and
  `FollowsChainHolds`: `Forking /\ Single => Spec => FollowsChain`, the refinement. None is inductive: what
  a Commit publishes depends on what the session has sent, that on what the request was, and that on what
  the file said when the last session began. `ForkInv` follows the value around: the file holds the
  matches of a prefix of one fork that ends in the cursor block (`Resumable`), a request is what the file says
  (`RequestInv`), the session has sent a prefix that the table holds (`SessionInv`), and the event in
  hand and the rows still to be written or to be deleted lead from the table before to the table after it (`EventInv`).
  Inside the cursor block the table may be ahead of the session (`Reaches`, from a lower bound on): that is
  replay, in which every insert collides, and the step is a stutter of `Follower`. While a block is taken back the
  table may be behind the session (`Within`, up to an upper bound): the node undoes a block the tracker had stored in part,
  and the delete finds nothing.
- Two facts about the forks carry it. What the tracker follows contains no final block that the node has
  lost (`Followed`, kept by `FollowedStays`, since the node adopts only longer chains and a final block is on all
  of them); so a block that is undone is not final. And a delete removes the rows of the last transaction of
  the chain and no other (`RowsBack`, `RowsEarlier`), because no transaction is twice on one chain.
- `SyncedWhenWhole`, `FollowsWhenWhole`: the same of blocks with any number of transactions, without `Single`, of
  `WholeSpec`. `undo_tx` rewinds the cursor to the parent with the first Undo of a block, and until the last one is committed the file
  is not resumable (`FileInv` says nothing of it while `MidUndo`); no session ends there, so none resumes there.
  With `half_undo` beside it this says what the early rewind costs, and that under `Forking` a rollback loses nothing else.

The theorems about `Process` hold for any transactions, sources, templates, scores and modes that have the shapes
the code's types give them:

- `CasesAssumption`: a transaction has four finite sequences, its inputs and its reference inputs have none twice (the ledger
  keeps both as sets); a source has sequences of parties and transactions, every party has an address
  (`anchors.rs:75-78` fails otherwise), and the names of its transactions ascend (a `BTreeMap`,
  `specialization.rs:37`); a template has finite sequences and finite sets.
- `NoneAssumption`, `NothingAssumption`: the value that stands for `None` is neither a number nor an assignment.

`Foundations` holds what the proofs stand on. The library's induction and recursion theorems take an operator
as a parameter, which the installed provers cannot instantiate; here they are stated with sets and
functions instead: `Inductive` and `UpTo` (a set that holds 0 and is closed under successor holds every
number), `Recursion` and `FoldTrace` (a step function, given as a function on pairs, has a trace, which is what a
fold of the community modules computes), sums of functions, sorted sets and sequences. The
proofs about the loops of the code are inductions over such traces.

1. **Search** (`ProcessProofs`). `GateIsExact`: the gate computed from the summary is open exactly when the
   transaction engages the protocol. `SearchInv`: the position is inside the sources, a source is searched only
   behind an open gate (the gate is asked once and the templates are tried later), and every
   candidate is what the matcher found for the template of some place. `OnlyEngaged` follows.
   `CompleteInv` adds the other direction, that every matching place before the position is a candidate; it is needed because
   nothing in the state at the end tells what was tried. `FilterLosesNothing` needs neither: each of the four ways to
   engage a protocol is forwarded by the pattern of its anchor.
2. **Assignment** (`MatchingProofs`). `MatchIsSound` is an induction over the greedy loops: the
   slots given so far serve their parts and meet in nothing. `MatchIsComplete` is the converse for literal templates, by counting seats: when it is the
   turn of the n-th part at one address, the n parts that want that address have n distinct places, of which at most
   n - 1 are taken. `FingerprintIsSound`, for the same templates: the places claimed by the parts are disjoint, so the sum of what is
   required is at most their number. `NoMissedMatch` puts gate, fingerprint, matcher and `CompleteInv` together.
3. **Selection** (`SelectionProofs`). The fold over the candidates holds, for each name, the candidate that leads among
   those seen (`LeadsAre`); the sort orders the winners; a rank is one more than the number of better
   scores (`RankedDensely`), though the code compares neighbours only. `SelectionInv` carries this through
   the loop: the rows are the first entries of the selection, the survivors the others, and a failed call has
   no row and an entry that cannot be lifted. `TypeOK`, `RowsAreRanked` and `FailsOnlyOnUse` follow; the last needs `MatchIsSound`,
   which says that the slots of an input asked for at an address could be read.
4. **Lifting** (`LiftingProofs`). Of the three loops over inputs, outputs and signers each adds its deed to the role of
   the first party at an address or with a key; the role after all of them is the set of deeds, whatever their
   number and order (`RoleOfDeeds`). `RolesAreExact` and `PartiesPlayTheirParts` follow, the latter with
   `MatchIsSound` again. `FrontAgrees`: the front tries a template as the search does (`TryAgrees`), and
   the first result over several profiles is the first result of one of them.

`MigrationsProofs` assumes that the names of the migrations differ and no object is created twice.

- `TypeCorrect`: `Spec => []TypeOK`.
- `RecordedIffAppliedHolds` and `OpenIsMigratedHolds`, for any migrations and any number of processes.
  The strengthening says: the writer's copy differs from the file by the statements executed so far
  of the one migration in hand, which is not recorded (`WriterInv`), and a process has passed only
  recorded migrations (`ProgressInv`). That a process reads `_schema_versions` outside the transaction
  does no harm to either: `RunStatement` needs an object that does not exist yet, so a process that
  lost the race fails at its first statement.

`StartupProofs` assumes of a configuration what the types of the code and the format of a TII give it:

- `ConfigurationsAssumption`: the sources are a finite sequence; in a TII that parses a party has one name, addresses are
  not absent, digits behind `0x` read neither as a reference nor as a policy (`x` is no hex digit), and the
  nodes of a transaction form a table (`IsTable`): a literal has no parts, parts lie before the node they are
  parts of.
- `CompletionsAssumption`: arguments of an invocation are literals, and one that is a list of references is not empty
  (an empty one would ask for less than no argument at all: a reference that is not constant counts as one, a constant one as its length). `EmptyAssumption`: the empty key is not the absent key.

The argument has two halves.

1. **The state machine.** `StartInv`: the sources finished so far are sound (they parse, have their profile, decode), `active` holds
   what those of them give that can match (`Finished`), and what is in hand are the first transactions of the next source. The
   properties speak of `active` beside `Expected`, at every stage, so `FinishedBegins` shows that what the first sources give
   is how all of them begin; `OneMorePicked` (`Foundations`) is the step of that induction. `StartIsExactHolds` follows from the invariant, and every
   cached template is one that was specialized from a well-formed TIR with a well-formed profile (`CachedIsCast`).
2. **The expressions.** A recursive function over a table equals its body at every place (`RecursionOverPlaces`, once, for any table
   and any step that looks at smaller places only), and what holds of a node if it holds of its parts holds of all (`InductionOverPlaces`).
   `ClassifiedByLeaves`: the fold of `combine`, node by node, is the worst of the leaves. `ConstIsLiteral`: what a const_
   accessor returns is a literal of the table, hence (`ConstsComeFrom`) one of the template or an argument, whose form tells which.
   `TemplatesSharpen`: if one table has a value wherever another has, then accessors, policies and input queries of
   the first stay what they were (`ConstsStay`, `PoliciesStay`, `QueriesStay`), so that each set of a fingerprint grows and each sum of least counts does too. A list of
   references that was not constant before has been given, and names one (`RefsAreNamed`).
   An input that becomes constant references after it was nothing raises the count; one that was a query stays a query.

Only model-checked:

- Liveness under fairness (`ShutdownStops`, `EventuallySynced`, `EventuallyOpen`), which is beyond this prover.

## 6. Where code and documentation part

- `from_tip` (`main.rs:62-81`): until the first transaction is stored, `intersect = "tip"` is resolved
  afresh by each session; an interruption in that time loses blocks without a trace.
- `undo_point` (`process.rs:119-122`): the rewound cursor pairs the parent's hash with `slot - 1`.
- `half_block` (`process.rs:77-80`): the cursor names a block whose other transactions are not stored yet.
  Harmless as long as the node sends the intersect block again, which `CursorBrackets` relies on.
- `half_undo` (`process.rs:106-129`): the first Undo of a block moves the cursor to the parent; an
  interruption before the others leaves their rows for good.
- `bare_undo` (`store.rs:165-167`): an Undo without native bytes deletes the cursor while rows of
  earlier blocks stay, though the documentation knows a table without cursor only as never run; the
  next session starts from the configured intersect.
- `necessary` (`fingerprint.rs:269-281`): the address of an optional output is required.

Seen while modelling, without a run: `process.rs:317-321` logs that the matcher "will skip address
checks" for an unresolved input, where it treats the address as different (`matching.rs:233`);
`config.rs:31` says "only the highest-ranked candidate", where ties are all kept; `README.md:27` says
that after specialization "the walker then sees concrete addresses and policies", which is so of policies
behind `0x` only: in plain hex, the form that makes an anchor, they stay strings (`PolicyEitherWay`).

## 7. Not modelled

- The decoding of CBOR, bech32, hex and TOML, and the layout of `Lifted`: what decodes and what does
  not is a choice of the instance.
- The contents of a row besides its key and its block. That a transaction always gives the same rows
  assumes that the node resolves its inputs the same way each time.
- `apply_args` of tx3_tir beyond its effect on parameters (`Startup!Apply`, external).
- What the node does with the predicate beyond one transaction, and the keep-alive: what passes the filter is
  `TxsOf` in `Tracker`.
- The errors of `connect` that are fatal (an endpoint or a key that is no valid URI or header) and a cursor hash that is
  not hex, which the store never writes: exits before a session, like `LoadFails`.
- Assets and datums of an annotation (`collect_assets` keeps only the coin, `datum.rs` converts Plutus
  data), the content hashes of a fingerprint, and `fingerprints_for_all`, a loop over `fingerprint_for`.
- The order of the slots of one part of a template: an assignment has them as a set, and `Lifting!Slots` visits them in some
  order. In the code constant references keep the template's order and all others the transaction's.
- A configuration that changes between two starts: rows that are there stay as they were lifted (`INSERT OR IGNORE`,
  `store.rs:114`), and the model has one configuration.
- Saturation of counts at 65535 and of scores at 2^32: a transaction has at most some hundreds of parts.
- A call that hangs for ever in connect or subscribe, and SQLite's own recovery.

## 8. What is left

1. Compose `Process` with `Tracker`: an unliftable transaction stops every restart in front of it, and
   `FailsOnlyOnUse` says for which transactions.
2. `Forking` without the final intersect: a node that takes back blocks below the configured one sends them again on
   their return, and `origin` would have to move with it.
