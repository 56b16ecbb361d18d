# Verification of GCNSim_AWB

GCNSim_AWB simulates, cycle by cycle, an accelerator for graph convolution
networks on top of the DRAM simulator DRAMsim3. This directory holds TLA+ models
of it, the TLC runs that check them on small instances, and proofs checked by
TLAPS. `PROJECT.json` maps every definition to the source lines it models.

## The system

Everything runs in one thread: `main()` in `RunSimulator.cpp` calls each
component once per cycle in a fixed order. What makes it hard is that the memory
answers late and in any order, and that the components keep counters of the same
thing (rows, passes, blocks, lines) without ever comparing them.

| Component | State | Operations | Talks to |
|---|---|---|---|
| `DataReader` | the matrix A in CSR form; per block of `max_v` rows, how many row pointers and edges it has | parse the file | fills the count queues all readers pop |
| `DRAMInterface` | request queue, completion queues for A and for features, count of unacknowledged writes | request, hand over, two callbacks, take a completion | memory below; everyone above |
| `DataController` | position in the current block of row pointers and of edges | turn a completed read into the next line of pointers or edges | main loop |
| `VertexReader` | queue and cache of row pointers, pass number, request counters | receive a line, request, hand a pointer over, request features | `DRAMInterface`; lowers `f_flag` |
| `EdgeReader` | queue and cache of edges, current row and its edges left, pass number, burst of writes | receive a pointer or a line, multiply one edge, write a line, request | `DRAMInterface` |
| main loop | `f_flag`, the order of turns | one cycle; the exit test | all |
| `GlobalBuffer`, `CacheReplacement` | set-associative cache of feature lines, waiting entries, request table, one policy's books | receive an entry, receive a line, release the oldest entry | memory, `XWReader`, `Accelerator` |
| `XWReader`, `Accelerator`, `BasisEdgeReader` | queues of entries | pass entries on; multiply; write a finished row | `GlobalBuffer` |
| `Distributer` | rows and edges of each accelerator | divide the matrix | after `DataReader`, before the loop |
| DRAMsim3: `JedecDRAMSystem`, `Controller`, `CommandQueue`, `ChannelState`, `BankState`, `Timing`, `Refresh` | per channel: transaction queues, pending addresses, command queues, banks and their delays, refreshes due, answers | add a transaction, call back, one clock tick | `DRAMInterface` |
| tiling tools (`CSR_converter`) | the new matrix | cut a matrix into tiles and stack them | files |

What correctness means, per component: the parser cuts each block exactly once;
`DataController` serves the line that was asked for although it ignores the
address; the two readers stay in the same row, pass and block; a row is handed
over only with its features present; each edge of a block is multiplied once per
pass; every result line is written and acknowledged once, and the loop ends; the
memory answers every transaction once, never gives up on a command, never lets a
write overtake an earlier read of its line, and keeps accepting; the
cache holds no line twice and releases an entry only when its line is there; each
policy's own list agrees with the cache; a tiling keeps every edge, in a row made
of one old row and one tile. The hazards behind these statements are listed, each
at its line, in `PROJECT.json`.

**What drives the cached path.** At this commit the classes `GlobalBuffer`,
`CacheReplacement`, `XWReader`, `Accelerator` and `BasisEdgeReader` are compiled
and constructed, but the part of the loop that calls them
(`RunSimulator.cpp:341-382`) is commented out. `FeaturePath` gives them that loop
back. Its results are about those classes under the loop they were written for,
not about what the shipped binary executes. The moving median cannot be
configured at all (`IniParser.cpp:149` is commented out, so its number of blocks
is 0); it is modelled for a positive number.

## Modules

| Module | Models | Notes |
|---|---|---|
| `DataReader` | the block partition, in closed form | constants and their assumptions |
| `RowParser` | `GetUint64Val`, token by token | compared with the closed form |
| `Distributer` | `Distribute`, one row pointer at a time | both division types |
| `InputPhase` | the start of `main()`: parse, then divide | composes the two above |
| `Memory` | what the memory promises `DRAMInterface` | abstract specification |
| `DRAMInterface` | `DRAMInterface.cpp`, on `Memory` | a request is its address region |
| `VertexReader`, `EdgeReader`, `DataController` | the classes of those names | each class's fields are one record |
| `RunSimulator` | the A*XW loop, composing the above | `pc` is the next turn of the cycle |
| `EdgeSchedule` | abstract specification of the loop | `RunSimulator` implements it |
| `CacheReplacement`, `GlobalBuffer`, `XWReader` | the classes of those names | policies map a record to a record |
| `FeaturePath` | the commented-out loop, `Accelerator`, the stream of `BasisEdgeReader` | composes the three above |
| `Timing` | the delays of `Config` and the tables of `timing.cc` | constants: one configuration |
| `BankState`, `ChannelState`, `Refresh`, `CommandQueue`, `Controller` | the classes of those names | a class is a record, a method maps a record to a record |
| `DRAMSystem` | `JedecDRAMSystem` and its caller | implements `Memory` |
| `TilingTools` | the nine tiling programs | one shared loop, one placement each |
| `MC*` | inputs for TLC | |
| `RunSimulatorProofs`, `RowParserProofs`, `FeaturePathProofs` | proofs about the loop, the parser and the cached path | |
| `QueueTables` | lemmas on tables of queues | used by the next four |
| `ChannelStateProofs`, `ControllerProofs`, `DRAMSystemProofs`, `OrderProofs` | proofs about the memory | one layer each |

Data is abstracted to what the properties distinguish. Addresses become regions
(`A_ROW`, `A_COL`, `XW`, `AXW`) or, in the cache, pairs of column and fold. Edges
in the main loop are counted, not named. Cycle counts and statistics are left
out. Undefined behaviour is a choice: `XRepeatGarbage` is what the
never-initialised `x_repeat` may hold, `StaleCounts` what `front()` of an empty
queue or an index past `v_cache` may return; the cache model chooses likewise for
an empty `wq`, an empty policy list and a missing median. After the last element
of an empty policy list is popped its size has wrapped; the model lets the list
hold nothing or any line of the set from then on, and the program may as well die
there. That happens only to BF and MOVING_MED (`feature_folds`); under FIFO and
LRU `ListMatchesCache` keeps it out. Unsigned counters are
integers whose negative values stand for the wrapped ones; `NoUnderflow` says
they do not occur.

**The memory, twice.** `Memory` lets the memory refuse a request for a while and
call back each accepted one once, in any order; the loop is checked on top of it.
Its write buffer is kept because the exit test asks for it. `DRAMSystem` models
what is below: DRAMsim3's controller, from `AddTransaction` to the callbacks, with
merging of reads and of writes, write draining, command queues per bank or per
rank, row-hit limits, refreshes and every delay between two commands. The run
`memory` shows that it implements `Memory`, fairness included.

In these modules time is relative: where the code stores the cycle at which
something may happen, the model stores the cycles left, capped at 0, so that the
clock needs no bound (`clk` keeps one bit of it). The field `bus` of a controller
is not in the code; it records which coming cycles have data on the bus.
`AbruptExit` and `exit(1)` set a flag, after which the model stops. The function
`IsQueueFill` (`memory_system.cc:53`) does not compile as written and is read as
forwarding the answer of `JedecDRAMSystem`.

## Runs

| Run | What it shows |
|---|---|
| `any_graph` | every 4-row matrix with rows of at most 2 edges, `x_repeat` starting at -1 or 0: feature handshake, row lines, counters, vertex cache |
| `lockstep` | well-formed 5-row matrices with a short last block and blocks of up to two lines of edges, 3 passes: readers in step, write budget, refinement of `EdgeSchedule`; all writes acknowledged; with a unified queue the loop ends |
| `never_exits` | violation: separate queues, the loop does not end |
| `row_parser` | token loop against closed form, 5 rows in blocks of 2; then the division among 1 to 3 units |
| `memory` | the simulator's traffic: the controller implements `Memory`; pending transactions are on their way, nothing aborts, refreshes keep up, a refused caller is accepted again |
| `controllers` | reads and writes of the same lines under a DDR4, an HBM and a GDDR5 configuration: as above, and drains are covered, bursts never collide, the right queues are held back, writes wait for earlier reads |
| `feature_path` | FIFO, LRU, RRIP, SHiP: one line per way, aligned queues, policies' books, every row written |
| `feature_folds` | all six policies, 2 sets, 2 folds: `LinesUnique` and `ShctSound` |
| `tilings` | `vtmake`, `vtmake_dynamic_vt_2` and the recursive tools |
| `released_loaded` | violation: an entry released before its line arrives |
| `upper_half` | violation: `vtmake_dynamic_vt_0`/`_1` merge pieces of two rows |
| `beyond_matrix` | violation: `vtmake_dynamic_vt_3`/`_0_3` index outside the matrix |

**Bounds.** The main loop needs at least two blocks, two passes, and lines
shorter than a block so that several reads of a block are in flight. `any_graph`
has 4 rows in blocks of 2 with lines of 2: the first block has two lines of row
pointers, and a block of 3 or 4 edges two lines of edges. `lockstep` has 5 rows in
blocks of 3 with lines of 3, which adds a short last block, and 3 passes, which
adds a middle one. Its matrices are those with fewer edges than rows, where rows
of two edges stand beside empty ones, and those of 5 edges where a block has 4 of
them, hence two lines of edges that are in flight together and that
`DataController` serves in turn. `MAX_QUEUE_SIZE = 4`, two lines (1000000 in the
code), lets both readers reach the queue limit in `any_graph`; the other runs
keep it out of reach. `NoUnderflow` says that `q_space` never understates what a
reader holds, not that it respects the limit, which it need not: the unused part
of a block's last line is never given back, and a block's first line is asked
for whatever the space, so after enough blocks the limit is passed. The cache
has 2 ways and 3 columns, so a set overflows and lines are evicted while waited
for; the queue of waiting entries holds 2 (32 in the code), so it fills.
`Signature` maps two columns to one value, so signatures collide. The tilings
use full matrices of up to 6 vertices (8 for `vt_2`), every matrix of 2
(recursive) and of 3 (`vtmake`) vertices, and sizes divisible by four where the
tool halves twice.

A memory is two banks with two rows of one line each, as two ranks, two
bankgroups or one of each. That gives row hits and misses, conflicts within a
bank, and commands that are ready out of order. Transaction queues hold 2 (32 as
shipped) and command queues 1 or 2 (8 or 16), so both fill; the drain threshold
is 0 or 1 (8); delays are a few cycles in the proportions of the real ones, and
`tREFI` is 4 to 12, so that refreshes fall due while transactions are at every
stage of their way. `MaxInFlight`, 2 or 3 transactions without their callback,
bounds the merged reads. The three configurations of `controllers` cover both
queue structures, both row policies, the three refresh policies, unified and split
queues, and HBM's second command per cycle. Four lines of GCNSim's traffic are
one per address region.

**Fairness.** The main loop is a `while (1)`, hence weak fairness of its steps.
The memory offers its steps at two points of a cycle only, so accepting and
completing need strong fairness: DRAMsim3 calls back every transaction after
finitely many cycles, which is what `memory` shows. There the only fairness is
the caller's: `WF_clk(Advance)`, the clock goes on once the callbacks that are due
are made, and weak fairness of the callbacks, which are a loop within one call of
`ClockTick`. In `FeaturePath` the same holds for a line's arrival, and
`ReadEntry` is fair because the edge reader keeps delivering while there are
edges. Fairness is never assumed of the write buffer: whether it drains is the
question of `never_exits`.

**Well-formed matrices.** `lockstep` and `never_exits` assume
`WellFormed`: every block ends with a row that has edges, not all edges of a block
belong to its first row, a pass lasts at least as long as a burst of writes, and
no line of the first block begins with a second 0. The code relies on this
without checking it. Otherwise: a block that ends with an empty row never ends
its pass; a block without edges requests lines of the blocks behind it, up to the
queue limit; a burst cut off by the
next pass is lost and the loop waits for its writes (a pass exactly as long as the
burst is the boundary, and is included); a leading 0 of a later line
is dropped and the readers part. The conditions are sufficient, not necessary. So
the results of these runs do not extend to arbitrary graphs, and `w_fold = 1`,
where no replay ever ends a block, is outside them too.

**Every property has a mutant**: a variant of one mapped definition (a missing
reset, a strict comparison, a guard left out) under which TLC finds the property
violated. They are the operators marked "Faulty variant".

## Findings

Four disagreements between the code and what it says of itself, each shown by a
run; the quoted lines are in `PROJECT.json`.

1. The loop never ends with separate read and write queues
   (`RunSimulator.cpp:393`).
2. `can_transfer` is raised for the newest entry but used for the oldest
   (`GlobalBuffer.cpp:226`). In the undriven path, see above.
3. `vtmake_dynamic_vt_0` and `_1` count row v/2 with the upper half.
4. `vtmake_dynamic_vt_3` and `_0_3` index outside the new matrix.

Observed while modelling, with no run of their own:

- BF and MOVING_MED keep the LRU list in fold 0 only; afterwards a victim may not
  be found, and the arrived line is not stored (`GlobalBuffer.cpp:314-327`).
  `ArrivalStored` and `AllWritten` fail for them, so `feature_path` leaves them
  out.
- The moving median has one entry per block but is indexed by row
  (`CacheReplacement.cpp:616`).
- `recursive_tiling_maker.cpp:198` cuts the sub-block numbered like its parent
  once per 1 on the config line, instead of the marked sub-blocks.
- `Distributer.cpp:129`: edges are divided by whole rows and rounded up, so they
  may be used up before the last unit begins, which then takes the front of an
  empty queue. `DIVISION_TYPE` 0 gives `x_h` for `row_end` where type 1 gives the
  last row's number (`Distributer.cpp:117`).
- `refresh.cc:33-38`: `RANK_LEVEL_SIMULTANEOUS` refreshes the first awake rank
  only.
- `timing.cc:225-230`: the delays after REFRESH_BANK for its own bank are filed
  under the other banks of the rank, so `tRFCb` does not hold the bank back.
- `timing.cc:232-242`: a bank's refresh keeps the other banks from refreshing for
  `tREFI`, while one is inserted every `tREFIb` cycles; where `tREFIb` is the
  shorter, the queue of refreshes grows without end.
- `controller.cc:115-126`: waking a rank from self-refresh asks its banks for a
  command that they answer with `AbruptExit` (`bankstate.cc:75-77`). No shipped
  configuration enables self-refresh.
- `controller.cc:216-217`: a read of line 0, then writes of lines 0 and 2, added in
  one cycle to a write buffer of 2, stop the memory: the buffer is full, so a drain
  starts; its first line waits for the read, so the drain ends; the read is not
  scheduled in that cycle, and the next one begins the same way. It cannot happen
  under GCNSim, which never reads the line it writes.
- `controller.cc:85-91`: HBM's second command has left its queue before it is known
  to be issued. With one rank the delays keep two data commands apart; with
  several it depends on the delays. In many shipped configurations
  `write_to_read_o` is 0 or negative.
- `hmc.cc` and the ideal memory do not define `IsQueueFill`, which
  `dram_system.h:36` declares pure.
- `x_repeat` above 0 at the start reads `v_cache` out of bounds:
  `VertexCacheInBounds` holds with 0 only.

## Proofs

For all values of the constants that satisfy the named assumptions, which are
positive sizes, row-pointer arrays that start at 0 and never decrease, garbage
sets of integers, and a Boolean `unified_queue`:

- `TypeCorrect`: `Spec => []TypeOK` of `RunSimulator`, on every graph.
- `Handshake`: `Spec => []FeatureHandshake`. While `f_flag` is down exactly one
  feature read is queued, in the memory or completed; while it is up, none.
- `Invariance`: both from `IInv == TypeOK /\ CompletionFlags /\ FeatureHandshake`.
  `FeatureHandshake` is not inductive alone: the DRAM turn looks at
  `w_read_complete`, so the proof needs that the flag says whether `w_address`
  holds an address. The proof takes one lemma per operation of `DRAMInterface` for
  the part about the memory, and one per operation of the readers for the types.
  The key step is that `RequestF` is reached only in a hand-over, hence with
  `f_flag` up and no feature read anywhere.
- `ParserCorrect`: `RowParser`'s `Spec => []QueuesAsStated`. The inductive invariant
  adds where the last cut was made (`Position`) and that the counts queued so far
  are those of the closed form (`Queued`); the arithmetic of quotients is in
  `ProductMonotone` and `QuotientBetween`.

- `LinesStayUnique` and `QueuesStayAligned`: `FeaturePath`'s `Spec => []LinesUnique`
  and `Spec => []QueuesAligned`, for every geometry, queue size, replacement policy
  and stream of edges. The inductive invariant adds that a line that is held is not
  requested (`Fetched`) and that `can_transfer`, which an arrival may raise with no
  entry waiting, stands for an entry once `CanTransfer` has run (`ReleaseOK`). A
  policy decides which way is overwritten and nothing else that matters here
  (`CacheChange`), so one lemma, `OneFill`, serves all six.

For the memory, for every number of channels, ranks, banks and rows, every delay,
queue size, page and refresh policy, and every traffic:

- `QueuesHoldWhatPends`: an address with reads pending has exactly one read in the
  transaction or command queues, and so for writes (`PendingOnItsWay`).
- `ControllerNeverAborts`: no command reaches a bank that does not allow it, no
  lookup of `IssueCommand` or `EraseRWCommand` fails (`NeverAborts`).
- `DrainsHaveLines`: a drain never outlasts the write buffer (`DrainCovered`).
- `ReadsGoFirst`: with split queues, a write is performed only when no read of its
  address is pending (`ReadsBeforeWrites`).

They assume `~enable_hbm_dual_cmd` and `~enable_self_refresh`, for the reasons
given above, and of the configuration that its names are known, that sizes are
positive and that the address mapping names a bank and a queue that exist
(`MappingAssumption`). Nothing is assumed of the delays.

The argument goes up by layers. `ChannelStateProofs` has the banks: a command that
`GetReadyCommand` offers is one the bank's state allows, and applying it, refreshing
or letting time pass keeps the banks well-formed. `ControllerProofs` has the
invariant of a controller, `ControllerOK`, whose centre is `AllTravel`: a transaction
is pending if and only if it is in a transaction queue or a command queue, never
in both and never twice. The three properties hold only together: the lookup
succeeds because a command is pending, which needs that a merged transaction is
never queued twice, which needs that a pending one is in some queue. There is one
lemma per method. `DRAMSystemProofs` lifts it to all channels, `IInv`. `OrderProofs`
adds `Ordered`: a write in the command queues has no read of its address pending.

Only model-checked: all other properties. Liveness and fairness, and with them
`ImplementsMemory` and `Termination`, are out of the prover's reach;
`OneBurstAtATime` depends on the delays of a configuration; the row-line and
lockstep invariants need strengthenings that have not been worked out, the
books of the replacement policies too, and `RowsWrittenOnce` counts entries with a
recursive operator; the tilings and `Distributer` have no proofs.

## Not modelled

- `IniParser`, file reading and printing: pure I/O. Its values are the constants.
- The XW phase of `main()`, with `FillWeight` and the XW transfers of
  `GlobalBuffer`: commented out.
- `csr_translator`, `xwgen` and the Python scripts: batch conversions of files.
- Of `BasisEdgeReader`, everything but the stream of entries it produces.
- DRAMsim3's HMC and ideal memories: abstract classes in this repository (above),
  so nothing can run them. Its statistics, power and temperature: floating-point
  reports that nothing reads. Its trace players and unit tests.
- The libraries DRAMsim3 carries with it (`json.hpp`, `catch.hpp`, `fmt`,
  `args.hxx`, `INIReader.h`). They are four fifths of all lines under `src/`,
  general-purpose and unrelated to what is simulated, which is why the map covers a
  small share of the whole although it covers most of the simulator and of the
  controller.

## Plan

Next, most important first:

1. Strengthen and prove `RowLinesAccounted` and `VertexCacheInBounds`; prove that
   the loop implements `EdgeSchedule` on well-formed matrices.
2. Prove `ListMatchesCache` and `ShctSound` of the cached path; prove that `vtmake`
   stays inside the matrix and keeps rows apart.
3. Prove `ReadsBeforeWrites` for a unified queue, from `HasRWDependency`, and
   `HeldBackForRefresh`.
4. The requests of `BasisEdgeReader`; `csr_translator`.
