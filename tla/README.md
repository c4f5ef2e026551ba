# A verification development for bootcamp2018

The repository is the material of a five-day course: a small block chain
(day1, extended in day3 and day4), exercises with threads, a kernel module that
supervises threads, LLVM passes (day2) and cache experiments (bday5).  This
directory holds TLA+ modules of the parts with behaviour of their own, TLC
configurations that check them on small instances, and TLAPS proofs.

Run everything from this directory: `tlc -config X.cfg M.tla` for the run of
`X.cfg`, and `tlapm M.tla` for each of `BlockHashProofs`,
`ThreadManagerProofs`, `OsProofs`, `ProgramProofs`, `ReadIndexedProofs`,
`LedgerProofs`, `ValidateBlockProofs` and `ChainProgramsProofs`.

## Inventory

Paths are relative to `src/`; `cp4` stands for `day4/challenge-problems/src`.

| component | state | operations | modelled in |
|---|---|---|---|
| block hash, `day3/practice-exercises/block_hash.c` | cursors `dataptr`, `optr`, a mutex, the table `hashes` | `hashit`, `calculate_and_store_hash`, `main` | HashedFile, BlockHashing, BlockHash |
| transactions and blocks, `cp4/transaction.cpp`, `cp4/blockchain.cpp` (day3 alike, an earlier one in day1) | per block: balances, length, `prev_block`; its bytes in a file | `validate`, `balance_available`, `update_balances`, `size`, `write`, both `read`, `recompute_length` | Ledger, ChainFormat, ValidateBlock, BlockTree |
| `readchain` (day1, day3, day4) | block map, tip | `main` | BlockTree, ReadChain, ChainTools |
| `rewritechain` (day1, day4) | block map, tip, chunk ends, header | `rewrite_chain`, `main` | IndexedFile, RewriteChain, ChainTools, ChainFormat |
| `readindexed`, `cp4/readindexed.cpp` | per thread a block map and a tip; shared `heads`, `tails`, a mutex | `readChunk`, `main` | ChainReading, ReadIndexed |
| `readindexed` of day1 and day3 | the same | `readChunk`, `main` | OldReaders |
| thread manager `thmgr_t`, `cp4/os.cpp`, `cp4/os.h` | a table of slots | `create`, `launch`, `wait(tid)`, `wait()`, destructor | ThreadManager |
| `genchain`, `cp4/genchain.cpp` | `utxos`, the block under construction | `create_chain_and_write` | GenChain |
| `osinstream_t`, `cp4/os.cpp` | mapping, position, usage count, a mutex | `read`, `seek`, copy, destructor | OsInStream |
| the kernel module, `cp4/module/sthreads.c`, with `chdev_t`; the basic device it grew from and `todo.c` | `device_opened`, `pinfo`, the probe | loading, open, release, write, read, fork callback | Sthreads |
| `find_max_parallel.c` of day3 | shares of an array | `find_max`, `main` | FindMax |
| `lock-example.c`, `thread_example.c`, `thread_example_2.c` of day3; `prog9.c`, `prog10.c`, `prog11.c` of day2 | an account, counters, a lock | thread functions, `main` | Programs |
| the instrumenting LLVM passes, `day2/functionpass` | the code they are run on | run on a function or module | Passes |
| `bday5/challenge-problems` | arrays, matrices | `sort2D`, `mat_multiply`, `mat_multiply_opt`, the tests | Tiles |
| `crypto.cpp` | keys | digests, signatures | ChainFormat, as terms |
| counting passes, scripts, measurements | - | - | not modelled |

How they interact.  `genchain` writes a chain of blocks, `rewritechain` reads
it and writes an indexed file, `readindexed` reads that in parallel and
`readchain` reads the original; all of them use the same `block_t`.
`readindexed` maps its input with an `osinstream_t`, starts its threads with a
`thmgr_t`, and the threads share two containers under a mutex.  With
`--secure` the manager registers a key per thread with the kernel module, whose
callback looks for it on the stack of every new thread.  The passes of day2
insert calls into programs, which these have to execute.

What is hard here: threads that share cursors, containers or an account; a
merge that depends on every thread having finished, and on the order of
containers ordered by address or hash; block objects that are refused but stay
reachable; balances kept twice by different rules; offsets that are computed
beside what is written; a device that is opened, released and probed from
several processes; slots, stacks and mappings with a lifetime; divisions that
leave remainders.  `PROJECT.json` lists each such place with its line under
"hazards".

## Modules

**HashedFile, BlockHashing, BlockHash.**  `BlockHashing` says what hashing a
file in blocks promises: entries of the table appear in any order, each the
hash of its block, and the table is printed when it is complete.  `BlockHash`
is the program: `LockMutex`, `Leave`, `ClaimBlock`, `ClaimEntry`, `StoreHash`
are the statements of `hashit`, and `CreateThread`, `JoinThread`,
`PrintHashes` those of `main`.  Pointers are offsets.  The hash of a block is
the set of offsets of the words that `calculate_and_store_hash` reads: the loop
takes `BLOCK_SIZE / sizeof(long)` steps of `sizeof(unsigned)` bytes, which is
half of the block, and it stops less than a `long` before the end of the file;
that this keeps it inside the file needs `WordSize <= LongSize`, which C
guarantees.

**Ledger.**  Operators for the money: `TxnValidate`, `BalanceAvailable`,
`UpdateBalances`, `Validate` follow day4; `ValidateDay1` is the two-pass
version of day1, which does not look at the amount; `BalanceMapsEqual` is the
comparison of `readindexed`.  `Put` is an assignment to an entry of an
`unordered_map`.  Hashes and signatures are the Booleans `hashed`
and `signed`; amounts wrap at `Wrap`.  A transaction that pays its own source
destroys that money, since the entry of the source is erased last.

**ChainFormat.**  What is in a file.  A file is a sequence of cells, each a
number of some width or a digest; keys and signatures are variable parts with
a size before them, and an offset counts cells.  `TxnWrite`, `BlockWrite`,
`write_balance_map`, `rewrite_chain` write; `TxnReadStream` and
`TxnReadBuffer` are the two ways of reading, which differ in what they make of
sizes that are not sane; `TxnSize`, `BlockSize`, `balance_map_size` are
computed beside the writing, and the header is made from them.  Digests and
signatures are terms, so that different texts have different digests; a cell
that is read as a number but holds a digest is the constant `Misread`.

**ValidateBlock.**  One block from its writer to its validation: `WriteFile`,
perhaps `DamageFile`, `ReadFile` by both readers, `ValidateStep` (as often as
one likes, since `validate` starts by resetting the balances) and
`RewriteFile`.  `LedgerBlock` is what validation sees of the cells, and
`WrittenIsRead` says that the Booleans of `Ledger` are what the digests and
signatures of `ChainFormat` amount to.  `BlockAssumption` says what the
constants stand for: amounts and balances are unsigned numbers and addresses are
those of keys; a block that the program builds has at most `MAX_TRANSACTIONS`
payments (asserted by `write`); a key fits into
`MaxSize`; nobody owns the key of a forged signature; every cell can be read as
a number, whatever damage left in it; and the money of a chain stays below 2^64,
which at 100 a block would take more blocks than anybody can write.

**BlockTree, ChainFile, ReadChain.**  `BlockTree` is the heap of `block_t` objects with
their predecessors, lengths and balances, and `ReadBlock`, one turn of the loop
of `readchain`.  A block whose predecessor is not in the map is read as the
start of a chain, with no balances and length 1; it is accepted if it has no
payments.  `ChainFile` is the file that the two programs over whole chains are
given, any sequence of blocks of a pool, and what is assumed of it:
`FileAssumption` gives the blocks their types and says with `HashAssumption`
what SHA-256 is trusted for, that blocks with the same correct hash are the same
but for the signatures, and that hashes which depend on each other were
computed one after another.  `ReadChain` reads every such file twice, side by
side: `Read` is the loop of day4, whose tip is the last block accepted, and
`ReadDay1` that of day1, with objects and a map of its own (`heap1`, `bmap1`),
the validation of day1 and a tip that only a longer chain replaces (`longest`).
The two differ on amounts of zero, which only day1 accepts, so that its chain
may be longer than day4's even without forks; the comparison in `TipRules` is
therefore of files without such amounts, and the pool has a block with one.

**IndexedFile, RewriteChain.**  `ChunkEnds` is the arithmetic of
`rewrite_chain`, with the wrap of `unsigned`; `Rewritten` is the file it
writes.  `RewriteChain` adds `main`, which enters refused blocks into the map
as well, and `Verdict`, the asserts in their order.  It is the program of day4;
that of day1 differs in the validation only, hence in the maps it writes behind a
payment of nothing.  `RewriteAssumption` says
that an `unsigned` can count the blocks of the file.

**ChainTools.**  `readchain` and `rewritechain` composed, each with the actions
of its own module: they are given the same file, block by block, so that the maps of the indexed file can be compared
with the balances `readchain` has, and the order in which forks come tried on
both.  `RewriteFile` is the end of `rewritechain`, where the number of chunks
is looked at.

**ThreadManager.**  One action per member function, with a failing assert as
`Abort`; `wait()` is a loop of its own steps (`WaitAllStart`, `WaitAllSkip`,
`WaitAllJoin`, `WaitAllEnd`), between which threads exit.  `pthread_exit` is
external.

**ChainReading, ReadIndexed.**  `ChainReading` is the promise of the parallel
reader: one report.  For a well-formed file it is the report of the sequential
reader; for another file a report that names a block is one that the
sequential reader accepts, provided that the chunks follow each other or the
maps are right.  The provision is needed because a chunk starts from the map
stored before it and is linked by hash, to a block that need not be the one the
map belongs to.  `ReadIndexed` is the program: `ReadChunk(c)` is a thread, in
steps split at the mutex, `Main` creates, launches and joins the threads with
an instance of `ThreadManager`, links the heads and looks for the longest
chain.  `<<c, 0>>` is the block that stands for the predecessor of chunk `c`.
`SampleFiles` are the files that both this and the next module are given.

**OldReaders.**  The readers of day1 and day3, told apart by `reader`.  What a
thread does with its chunk before it locks is private to it, so `ReadChunk` is
an operator (`ReadBlocks`, of the reader, the map before it and the blocks of
the chunk, which `FilesAssumption` says are a sequence), and the steps of a
thread are `Read` and the insertions under the mutex.  day1 runs its threads in an OpenMP loop (`ParallelFor`, `Barrier`) and
validates by `ValidateDay1`; day3 launches and joins them one by one and gives
up a chunk at its first bad block.  They are compared with the same
`ChainReading!Sequential` and `Accepted`.

**GenChain.**  `create_chain_and_write`.  `utxos` are the amounts the program
keeps for the addresses it has keys for, `bal` the balances of the block it
builds.  A fresh key is the smallest name that nothing mentions any more, which
keeps the state finite and loses no behaviour, since names are only compared.
`Arguments` are the two arguments of the program, and `MAX_TRANSACTIONS` is what
`block_t::write` asserts of a block, which nothing in the generator looks at
(`WriteBlockAborts`).  `GenAssumption` says that the rewards of `num_blocks` blocks, an `unsigned`, add
up to less than 2^64.

**OsInStream.**  Streams over one mapping: `read` is `BeginRead`,
`LockStream`, then `Refuse` or `TakePos` and `Advance` under the mutex, and
`Copy` after it; `seek` is `BeginSeek`, `LockStream`, `Seek`; `CopyStream` is
the copy constructor, `Decrement` and `TestCount` are the two halves of the
destructor.  A stream is destroyed when no other thread uses it.  `given` is
history: the bytes a stream has given since it was last moved.

**Sthreads.**  A process is a sequence of steps it has still to do, `code[p]`;
a system call contributes one step for each shared variable it reads or
writes, so that `open` of the final module is `Test`, `Allocate`, `Fill`,
`Enable`, `Count`, `Ref` and `release` is `Uncount`, `Unref`, `Disable`,
`FreePinfo`.
`ClientSteps` are the calls of `readindexed --secure` with two chunks, its
`vfork` and its thread past the manager (lines 219-233), or those of `todo`.
`Fork` hits the probe if it is on, and `Callback` runs afterwards, when it may
have been turned off and `pinfo` freed.  Loading is a list of steps too,
because the device can be opened before the last of them, and so is unloading.
`refs` are the references to the module.  The file operations have no owner, so
that a call takes none; only `try_module_get` at the end of an open
(sthreads.c:81) keeps `Rmmod` away, until `module_put` in the release (:90).
`rmmod` can therefore begin in an open or in a release, whose process then goes on in
code that is gone (`Stray`).  `kmalloc` gives any free object or none.  `overlapped`
is history: an open began before another open, a release, the loading or the
unloading had ended, or the unloading began inside an open or a release.  Two
calls that overlap are outside
what the module is for ("one process at a time" is its test of
`device_opened`), and nothing in it prevents them; what goes wrong then is
listed under "Observed".

**Passes, Programs.**  `Passes` holds the two instrumenting passes as
operators on a sequence of instructions.  `Programs` is a machine that executes
one instruction of one thread at a time, where `x += n` is a load and a store;
`prog` is the program it runs: the three account programs with all their
arguments up to the bounds, `prog11` with and without `InstrumentLocks`, and
`prog9`, `prog10` and a program whose last call ends `main`, all with
`InstrumentFunctions`.

**FindMax, Tiles, DividedArrays.**  `FindMax` is `find_max_parallel.c`: shares,
threads that scan them, a merge while joining (`PrintParallel` prints what it
gives), and then `find_max_serial` by `main`, round by round (`ScanSerial`,
`PrintSerial`); behind the array a thread finds any value.  `Tiles` are the algorithms of bday5 as operators.  A sum of
doubles is the sequence of its terms, since the test compares with `!=` and the
result depends on the order.  `DividedArrays` gives both the same arrays and
compares the tiled algorithms with their references.

A definition commented "Slip" is what a plausible programming error would make
of the definition after it.  No specification uses it; `PROJECT.json` lists
them as mutants, and every property of a passing run fails for at least one.

## Runs

| run | instance | what it shows |
|---|---|---|
| `block_hash` | 81 bytes, blocks of 24, 3 threads | every schedule prints the serial table; no hash reads behind the file; the program ends; it implements `BlockHashing` |
| `validate_block` | 2 payments among 3 addresses, several starting balances; files cut at any cell or with any cell changed | only the reward is created; only sources pay, and a refused block leaves what the place of the refusal says, the reward only if its hash alone was wrong; day1 and day4 agree; what is written is read back, also through the offsets of an indexed file; in a damaged file only blocks that were written are accepted |
| `chain_tools` | files of up to 5 blocks from a pool of 13, 1 to 4 chunks | what is accepted is valid all the way down; day1 reports a longest of the chains it accepts, and without forks and amounts of zero day4 agrees; the indexed file holds the whole chain of its tip, each map is what `readchain` has there, and only a chain with fewer blocks than chunks fails the assert on the maps |
| `thread_manager` | 3 slots, secure | no thread is lost, joined twice or robbed of its slot or stack; `wait()` returns |
| `read_indexed` | 3 chunks and threads, some 70 files | every schedule and order of containers reports what `ChainReading` allows, and ends; main merges alone, nothing inserted is lost, and what it links a head to is a tip whose map was right (`MergeIsSound`); no reported chain holds a stand-in |
| `old_readers` | the same files, both readers | a well-formed file is reported as the sequential reader does, and a tip that is named is one it accepts if the maps are right; a chunk of day3 counts whole or not at all |
| `gen_chain` | 3 blocks with at most 0 to 3 payments in each, 2 blocks with 4; `MAX_TRANSACTIONS` = 3 | the generator's amounts are covered by the ledger, and its asserts hold except with two addresses, or for a block with more payments than it may have |
| `os_in_stream` | 2 threads, a stream and its copy, a file of 2 bytes | reads through one stream never overlap and stay inside the file; the mapping outlives its users and is given back; every call returns |
| `os_in_stream_close` | 2 streams | violated: overlapping destructors unmap and close twice (os.cpp:108) |
| `sthreads` | 2 clients, a stranger, 2 keys, 2 objects, both drivers | unless calls overlap: a session has `pinfo`, the count and the probe to itself, and its reference keeps the module; no code of an unloaded module is run, and `pinfo` is used while it is good, but by the callback of a stranger; secure threads run and all else of the client is diverted |
| `programs` | up to 3 threads, up to 6 transactions | with the lock the sums are exact; without it updates are lost but the balance stays between the extremes; the lines of inserted calls pair and nest |
| `divided_arrays` | up to 5 elements, up to 3 threads, tiles of 1 to 6, matrices of up to 5 rows | the parallel maximum is the serial one; tiled sorting sorts; the tiled product is the plain one exactly if the tile divides the size |

Bounds.  Two threads suffice for a race on a cursor, a container or an account;
three let one run between two others, and a third chunk is a chunk whose
predecessor is itself linked.  Five blocks give a chain with a payment of
received money, a fork at each depth and a repetition.  Four payments in a
block of which three fit show the bound of 64 from both sides.  Three addresses are
source, receiver and change.  The reward is 3, so that amounts of 1, 2 and all
of a balance differ; `Wrap` is far above every supply, as 2^64 is above what
rewards can add up to.  Keys and signatures have one cell of at most three, so
that a damaged size can be too small, right, too large and not sane.  The last
block of the hashed file holds nine bytes, a word and less than a `long` behind
it.  Two bytes and reads of one or two are enough for a read of a stream to
fail, with or without another one in between.  Two clients can overlap in every
way a third could add to; two objects let a freed one be given out again while
it is still pointed to.  Six transactions give each of two threads up to three rounds,
each of three up to two, and main any residue.  Five elements leave
a remainder for two and three threads and for tiles of two, three and four.

Fairness.  `block_hash`: each thread and `main` run whenever they can, and a
thread that can take the mutex again and again takes it; the kernel schedules
them all, and the number of acquisitions is bounded by the blocks.
`thread_manager`: threads end, and the loop of `wait()` goes on; nobody has to
call the manager.  `read_indexed`: only that something runs while something
can (weak fairness of the whole next-state relation), since every step brings
the program nearer to its end.  `os_in_stream`: a call that has begun goes on,
and a thread that finds the mutex free again and again takes it; nobody has to
call anything.  The other specifications state no fairness and only safety is
checked of them.

## Proofs

Every theorem holds for all values of the constants that satisfy the named
assumptions of the modules.  Each proof of an invariant has the same shape: an
inductive invariant (`IInv`, `StreamInv`, `ReaderInv`, `Day1Inv`, `WriterInv`,
`ToolsInv`, `GenInv`, `ChainInv`, `FileRight`, `OldInv`, `AccountInv`), one lemma or step per
action, and the property from it.  TLC checked them on the instance of the run first, where it can enumerate them.

**BlockHashProofs** (`TypeCorrect`, `MutualExclusion`, `ClaimsAreMatched`,
`SerialResult`, `Implementation`, `ReadsStayInside`).  Mutual exclusion makes
the two cursors move together: `dataptr = BlockSize * optr` except between the
two statements of the critical section, where `dataptr` is one block ahead;
hence the claims of different threads differ and each thread's block and entry
belong together.  Every entry below `optr` is done or is the entry of one
thread that is still storing, and a thread leaves only when `dataptr` has
passed the end of the file, where `BlockCount` says that all entries have been
claimed; so after the joins the table is complete.  `ReadsStayInside` is the
arithmetic of the end of the file.

**ThreadManagerProofs**, the manager (`TypeCorrect` and five safety properties).
`RunningMeansUnjoined` is inductive together with the types.  The others need
to know that a function is set only in a used slot and, in a secure manager,
only together with a stack (`SlotsSane`), and that the loop of `wait()` leaves
nothing running behind its counter, because nothing is launched while it runs
(`Joining`).

The reader of day3 (`ChunksAreWhole`), for all files and numbers of chunks.  Each
thread fills both containers before it unlocks.  One that gets to the mutex has
refused no block of its chunk and kept some (`OldThreadsInStep`), and what the
containers hold of a chunk is whole while they are being filled too
(`EnteredWhole`).  What a thread has read is the result of a fold over the blocks
of its chunk (`ReadsEquation`), and all that is needed of that result is that the
last block it keeps is one of the chunk (`TipIsOwn`), so that an object in
`tails` tells which thread has put it there.

**ReadIndexedProofs** (`MergeSound`, `UsesManager`, `MutexExcludes`,
`MainIsGranted`, `OnlyCoinbaseAborts`, `ReportIsReal`, `ChainsAreReported`), for
all files and numbers of chunks.
`UsesManager` shows that each step of the reader is an operation of
`ThreadManager` or none, so that the theorems about `thmgr_t` hold of its
client.  The manager and `main` are in step: the slot of a chunk is free,
created, running or joined according to how far `main` has come
(`SlotsInStep`); from this its asserts on the manager hold (`MainIsGranted`),
and no thread is left when it begins to link.  What a thread points to it has
built itself (`ObjectsOwned`); a thread that is through has entered its first
and its last block if it should (`HeadsEntered`, `TailsEntered`), and what is
in `tails` is the last block of such a thread, with the balances of its map
(`TailsAreTips`).  The last part was added because the attempt to prove
`NoInsertionLost` failed: as it stood it spoke of the map while `main` was
already changing the objects it links; it now speaks of the moment when
linking begins.  `Validate` is not expanded anywhere so far, so none of this
depends on what a valid block is.

`ReportIsReal` is about the chains that linking makes (`ChainInv`).  Only the
first block of a chunk follows a dummy, and such a block is among the heads or
on its way there (`Settled`, `PrevsFollowed`); when `main` leaves the loop with
its flag set, it has linked every head (`LinkedToTails`), to an object of
`tails` whose hash is the one the head names.  So what can be followed from a
tail is closed under predecessors and holds no dummy.  That following ends is
not in the code: `recompute_length` itself would not return from a cycle.  The
theorem has the hypothesis `HashesAreNew`, that the hashes of a file can be
ordered such that each block comes after its predecessor.  The hash of a block
covers the hash it names as its predecessor, so a file without this order holds
a cycle of SHA-256; every file of the run has the order.  From it the objects
have a rank (`HeapIsRanked`), the recursive function `Path` has its equation
because following ends (`PathUnfolds`), and what holds of an object whenever
it holds of its predecessor holds of all (`RankInduction`).

`ChainsAreReported` is the refinement of `ChainReading` for the files that the
chain programs write: if a file is well-indexed, a chain of valid blocks cut into
chunks with the right maps, then the threads and the merge report what the
sequential reader reports.  Three hypotheses: `HashesAreNew`; `FilesAreParsed`,
that a file holds what a parser makes (as many chunks as the header says, blocks
with whole amounts, maps, and no hash of zeroes, which the code takes for "no
predecessor"); and a number of chunks that the manager accepts, without which
`main` fails an assert.  All 72 files of the run satisfy them, three of them are
well-indexed.  The argument has four parts.

1. The sequential reader (`RowIsRead`).  `ReadAll` is a fold, turned into the
   states of the loop of `main` (`ReadAllSteps`): on a chain whose blocks are all
   accepted, the block at place i becomes object i, with length i and the
   balances that validation makes of those of object i - 1.
2. The file (`WellIndexedIsChain`).  The places in the row of all blocks are
   pairs of a chunk and a place in it (`FlattenCut`, `PlaceIsOne`): there are
   numbers `off` and balances `bal` such that the chunks follow each other as
   `IsChain` says, and the sequential report is the last hash and `off` of the
   last chunk.
3. A thread starts from the map in the file, not from the balances the sequential
   reader has.  The two may differ in entries of nothing, so they are equal by
   `operator==` only, and it has to be shown that validation cannot tell such
   maps apart (`SameMoney`, `ValidateSame` in `LedgerProofs`).  Then every thread
   accepts each block of its chunk with the money of the chain (`ThreadRight`),
   its last block matches the map, and when `main` begins to link there is a tail
   for each chunk and a head for each but the first (`MergeComplete`).
4. Linked, the path from block k of chunk c has `off[c - 1] + k` objects
   (`PathIsChain`, by `RankInduction`), so the longest of the tails is that of the
   last chunk, whichever order they are looked at (`BestRight`, `BestIsLast`).

Parts 3 and 4 are the invariant `Right`; TLC checked it on the sample files with
`off` and `bal` computed from them.  For a file that is not well-indexed,
`ImplementsChainReading` remains TLC's.

**OsProofs**, the stream (`MappingLives`, `MutexExcludes`, `ReadsAreDisjoint`), for
any number of threads, streams and copies.  The usage count is the number of
streams that nobody has begun to destroy (`CountOK`), which is inductive only
because a destructor is alone with its stream (`Sole`).  What a stream has given
since it was moved lies below its position, or below the one that the holder of
its mutex is about to store (`GivenBelow`).

**ProgramProofs**, the maximum (`ParallelEqualsSerial`, `ScansInsideArray`), for
every array and number of threads.  The shares follow each other (`SharesOK`), a thread
knows the first maximum of what it has seen, and `main` that of the shares it
has merged; a thread without a share may only ever contribute the place behind
the array.

The programs of `Programs` (`NoUpdateIsLost`), for any number of threads and
transactions and any amounts.  `Linked` says which instruction may follow which
in the code of a thread: an access to what the mutex guards comes after `lock`
or after another such access, and a store right after the load of its variable.
Every thread function of `lock-example.c` and of `prog11.c` is of that form
(`SoundAccount`, `SoundProg11`), also after the pass (`SoundInstrumented`: what
is inserted before a `lock` or `unlock` may stand there); it is kept when a call
is replaced by the body of `__lock_acq` or `__lock_rel`.  Hence who is inside
holds the mutex, what a thread is about to store it loaded from what is still
there (`MutexInv`), and a store adds to the variable what it adds to the sum of
the amounts.

Without the lock (`NothingIsMadeUp`) the code a thread has left is still the end
of the code the program gave it (`RestOK`), so the stores that have been
executed are a set of places in it (`DoneStores`), and `StoresTotal` counts all
of them: half of the threads times the transactions of each, and the residue.
A value is `Possible` if it is at most the largest deposit times the deposits
done and at least minus the largest withdrawal times the withdrawals done.  What
was possible stays so as more is done, so a stale register holds nothing that
storing it would make impossible, which is the invariant (`AccountInv`).  The
code of `main` creates and joins every thread before it prints (`MainCode`).

What the passes insert (`CallsAreNested`, `LocksAreReported`) is followed along
the code.  `Walk(e, x, c, y)` says that the instructions of `c` lead from mark
`x` to mark `y` by the triples of `e`; it splits at the first instruction
(`WalkOn`) and joins when a call is replaced by a body (`WalkConcat`), and code
that a pass has made walks if every piece does (`WalkFlatten`).  For prog9 and
prog10 a mark is the stack of open functions, which is what `Open` makes of the
lines so far (`OpenOneMore`, `AfterNesting`); a stack of its own for a program
that has not entered `main` gives that it ends with a line.  For prog11 it is
how far a thread is with its lock (`Phases`): the phase says which lines it has
printed, whether it holds the mutex, and whether it has counted itself.  The
counter is at most the number of those who have, and what a thread has loaded
of it at most what the other one has counted (`NumberAt`), so that the last of
them stores at least one and at most two.

**OsProofs**, the kernel module (`SessionsAreWhole`, `PinfoAlwaysGood`,
`ClientAlwaysServed`), for any number of clients, keys and objects and both
drivers.  What follows what in the code of a client (`CodeOK`) gives each step
a place in a session; `Good` says what the device looks like at that place, as
long as nothing has overlapped: from `Ref` to `Unref` there is one reference
(`Referenced`), and where there is none no `rmmod` runs beside the call.  The
callback of a process that is not supervised is the exception that
`PinfoIsGood` names.

**LedgerProofs** (`BlockCreatesReward`, `OnlyPayersLose`, `Day1Agrees`), for any
number of transactions and any finite balances.  `FoldLeft` and `SumFunction`
are recursive functions chosen by `CHOOSE`, so that such a function exists has
to be proved before anything can be said about it.  The induction rules of the
library take an operator as a parameter, which the provers cannot instantiate;
`NumberInduction`, `PrefixInduction` and `SubsetInduction` are the same rules
for a set instead, from the least element of a well-founded order.  From them
come the existence of folds (`FoldExists`, `IndexFoldExists`), sums of balances
entry by entry (`SumsRemove`), and the loop of `validate` as a sequence of
states (`FoldApplyTxn`).  `UpdateMovesMoney` is the heart: an update moves
money, and loses what a transaction pays to its own source.  `OnlyPayersLose`
compares a block with the one that differs from it in having a right hash: what
that one is refused for creates nothing, and if it is accepted, the block has
its balances, the reward included, whether its own hash is right or not.

**ValidateBlockProofs.**  `WrittenBlocksAreRead` and `IndexedChunksAreRead` are
about the format alone: any blocks, and any chunks of blocks with any finite
balance maps, are read back as they were written.  The argument is one of
layout: where each piece of a text lies (`HoldsAt`, `IsLayout`), that the
offsets are the sums of the sizes (`LayoutSums`), and that a reader which
stands at the beginning of a piece reads it and stops at its end.  That the
count and the sizes pass the tests of the readers follows from the bounds a
block is built with.  `ValidateInvariant` adds the states: the text of the file
follows from the block until it is damaged (`InFile`), a block that was read
has numbers for amounts even from a damaged file (`Found`, which needs that
reading damaged cells gives only what can be read from them), the balances
are those of `validate` (`Validated`), and an indexed file was made of the
chunks (`Indexed`).  With it `MoneyIsConserved`, `SourcesPay`, `DaysAgree` and
`FilesAreRead` state the four properties of the run for all blocks, files,
damages and starting balances.

**ChainProgramsProofs**, the reader (`NoChainOnInvalid`,
`TipsFollowTheirRules`), for every file over any pool of blocks.  The objects
form a forest: every object points to an earlier one, which is a valid one
(`IsTree`, `OnValid`), from which `TreeInduction` and `WalkExists` give the recursive
functions `Path` and `Chain` their values, and `PathSteps` and `ChainSteps`
their equations.  What the map reaches was valid when it was entered, and an
object never changes.  A later copy of a block replaces an earlier one in the
map, though, perhaps as the start of a chain of its own, since its predecessor
may come later; `TipRules` needs that no copy is longer than the one on the path
of the tip (`SameHashNoLonger`), and `HashAssumption` gives the hash at which
every such path begins.  The objects of day1 have an invariant of their own
(`Day1Inv`).  `SameReading` compares the two: as long as no amount is zero
they have the same map, lengths, and balances of what is valid, since each block
is validated from the same balances, to which `Day1Agrees` applies
(`ReadingStaysTheSame`).

The rewriter (`ChainIsWritten`, for `WriterSpec` alone).  The chain of the tip
has as many blocks as the length that was counted says (`ChainLength`); the
ends of the chunks are distinct as long as there are as many blocks as chunks
(`ChunksAreFilled`); the chunks between consecutive ends, put together, are the
blocks of the chain (`CutsAre`, `ChunksAre`, `AllBlocksWritten`).

Both together (`ToolsAreBoth`, `MapsFollowBlocks`).  `ToolsAreBoth` says that
each step of `ToolsSpec` is a step of the one and of the other or leaves it
alone, which carries the theorems above over to the composition.  If every
block is accepted, the two programs have the same objects and the same map, with
one start of a chain only (`SameObjects`), and valid blocks with the same hash
have the same balances (`SameHashSameBalances`).

The generator (`AmountsAreCovered`, `RevalidationIsTheSame`,
`AssertsAlwaysHold`), for any number of blocks, payments and addresses.  `GenInv`
says that `utxos` is covered by `bal`, that `bal` is what the fold of
`block_t::validate` makes of the transactions so far, and that all the money is
at most the rewards so far, so that nothing wraps; `PaymentMade` is the step
that a payment takes through all three.  With it `assert(block->validate())`
never fails.  That of `block_t::write` fails only for a block with more payments
than `MAX_TRANSACTIONS`, of which there are at most as many as were asked for.
The other asserts need a supply of names: `AssertsAlwaysHold` has
the hypothesis `EndlessNames`, that `Addrs` is an infinite set of numbers,
which stands for fresh keys never having the address of an old one
(`FreshNames`); `GenNames` counts the addresses, of which there are as many as
transactions in a block and never fewer, the reward's always among them.

Only model-checked.  Liveness (`Terminates`, `CallsReturn`, `WaitReturns`),
since the provers have no rules for fairness or ENABLED.  `DamageIsContained`:
with a cell that may become anything it is false, as damage could put a
signature right that was not, so it depends on which cells damage leaves.
`ImplementsChainReading` for files that are not well-indexed: there the blocks
that the threads accept are compared with those that the sequential reader
accepts, which need not be a chain.  `ReportIsRight` of the older readers, the
same comparison for the code of day1 and of day3.  `TilesAreWhole`, as the merge sort is
a RECURSIVE operator.

## Findings

- The destructor of `osinstream_t` decrements the usage count and reads it
  again: two destructors may both find zero (run `os_in_stream_close`).

Observed, as exceptions that the properties of the passing runs name:

- `rewritechain` fails an assert if the chain has fewer blocks than chunks
  (line 66; `NothingLost`).
- `genchain` fails `assert(change)` when its second argument is 2 (line 124),
  and the assert of `block_t::write` when it is above 64 and a block has been
  given more than 64 payments (blockchain.cpp:138); `AssertsHold`.
- A block that is refused only because its hash is wrong keeps the reward in its
  balances (blockchain.cpp:79-92; `OnlySourcesPay`).  No reader builds upon it
  (`ChainsAreValid`), but `rewritechain`, which looks at no verdict, does.
- `find_max_parallel` with more threads than elements reads behind its array
  (line 55) and may print what it found there (`ParallelIsSerial`).
- `mat_multiply_opt` leaves the rows and columns behind the last whole tile as
  they were, and its other sums incomplete (`TilesAreWhole`); the program that
  calls it has 1024 rows and tiles of 16.
- The exit of the function that `main` calls last is reported after the exit
  of `main` (InstrumentFunctions.cpp:121-148; `CallsNested`).
- `__lock_acq` is called before the lock is taken, so "Lock acquired" may be
  printed by several threads at a time, and `numLockAcqs` is updated without
  the lock and may fall behind (`LogsPaired`).  `main` of `prog11` sleeps and
  joins nobody.
- day1 accepts amounts of zero, which day4 refuses (`VersionsAgree`), so that its
  `readchain` may report a longer chain (`TipRules`).
- `readindexed` of day3 looks for the balances of its tip in the map but not
  the other way round, so that a map with more entries passes, and takes the
  balances of a null tip if a chunk holds no block (`ReportIsRight`,
  `Crashes`).
- The kernel module (`SessionIsWhole`, `PinfoIsGood`): a callback that has hit
  the probe before a release turns it off, or between registering and disabling
  it while loading, reads `pinfo` when it is freed or null, if it belongs to a
  process that is not supervised.  The basic device stays busy after an open
  that found no memory.

Observed, outside of what the properties say:

- `wait(tid)` joins a thread but leaves its slot used: a manager that is used
  again says "All threads busy" (os.cpp:216) although nothing runs.
- Two opens of the kernel module that overlap both pass the test of
  `device_opened` (sthreads.c:68), share `pinfo` and may free it twice; an open
  that overlaps a release may find its probe disabled or its `pinfo` freed.
  `rmmod` inside an open before `try_module_get` (:81), or inside a release behind
  `module_put` (:90), frees the code that the call is in.
- `readindexed` aborts on a file of more than 32 chunks (`MAX_THREADS`,
  os.cpp:168), which `rewritechain` writes; its calls of `create`, `launch` and
  `register_key` stand inside `assert`, so that a build with `NDEBUG` would not
  make them; a block whose `prev_hash` is zero aborts the program at the start
  of any chunk but the first (`is_coinbase`).
- `rewritechain` prints the length of the last block's chain as that of the
  "longest chain" (line 162).
- `osinstream_t::seek` ends without the return value its comment promises
  (os.h:51-60).
- A signature of exactly 1024 bytes is accepted by `txn_t::read` and refused by
  the assert of `txn_t::write`; the count of transactions is bounded when a
  block is read from a stream and not when it is read from a buffer; the count
  of a balance map is not bounded at all.
- The account programs compute their residue from the number per thread
  instead of the number asked for, so that not all transactions are made; all
  day1 threads add to one `total_len` without a lock, and nobody reads it.

## Not modelled

Printing, argument parsing, opening and slurping files, failing system calls
other than those whose result an assert or an early return looks at.  The
arithmetic of digests and signatures, and key files: OpenSSL is trusted to be
what `ChainFormat` says.  The width of fields in bytes: a cell is a field.  The
osinstream without a mapping, which is a `std::ifstream`.  The counting passes
of day2, which keep no state, and the functions that are only their input; the
fork-hook exercise, a probe that prints; the measuring programs of bday5;
scripts.

## Plan

1. Proofs: that what is reported of any other file is a chain the sequential
   reader accepts (the rest of `ImplementsChainReading`), and the same of the
   older readers (`ReportIsRight`); the tiles, with a sort that can be proved
   about.
2. `ReadIndexed` with `--secure`: the reader as a client of `Sthreads`.
3. The pipeline genchain, rewritechain, readindexed as one specification.
