# A verification model of tile-smush

`tile-smush` merges several `.mbtiles` files (SQLite databases of gzipped
vector tiles) into one, `merged.mbtiles`.  `tile-smush-parallel` starts one
process per processor on the same inputs; each process takes a share (a
"shard") of the tiles, and all of them write the same database at once, with an
advisory lock and SQLite's own locks between them.

This directory holds TLA+ modules translated from that code, TLC configurations
that check them on small instances, and proofs that TLAPS checks for every value
of the constants.  `PROJECT.json` says for every definition which lines it
models, for every run what it shows, for every checked property which plausible
bug (a definition marked `Mutant:` in the modules) breaks it, and lists the
hazards of the code with the properties that cover them.

Paths below are relative to the repository: its sources are in `src/`, its
headers in `include/`, the script is `tile-smush-parallel`.  (In `PROJECT.json`
they have the prefix `src/`.)

## 1. Inventory

About 1000 lines are the program's own.  The rest is vendored: protozero and
vtzero, header-only libraries for the protobuf wire format and for vector tiles,
of which the program itself calls a part; sqlite_modern_cpp; libdeflate;
minunit.

| part | state | operations | where |
|---|---|---|---|
| parallel merge | the two queues of rows, the position of the loops, the flock, SQLite's locks and transactions, the committed rows | `openForWriting`, `readMetadata`, `writeMetadata`, `saveTile`, `flushPendingStatements`, `closeForWriting`, `~MBTiles`, `Flock` | `mbtiles.cpp`, `tile-smush.cpp` |
| tile index and main loop | a bit set and an extent per input and zoom, the loop variables | `populateTiles`, `PreciseTileCoordinatesSet::set/test`, the loops, copy or merge of a cell | `tile-smush.cpp:98-117, 241-306`, `mbtiles.cpp:146-162`, `tile_coordinates_set.cpp` |
| tile merge | the buffer that grows, the deque of decompressed tiles, the builder's views | `readTile`, `decompress_string`, `next_layer`, `add_existing_layer`, `serialize`, `compress_string` | `tile-smush.cpp:276-304`, `helpers.cpp:76-150` |
| metadata merge | the gathered entries, zooms, layers and bounds; the table written | the two loops of shard 0, `readBoundingBox` | `tile-smush.cpp:130-239` |
| `vector_layers` scanner | a position, a count of braces, the start of a layer | the scan of a `json` text, the printing of the merged one | `tile-smush.cpp:163-199, 227-238` |
| prepared statements | the statement a `database_binder` owns, `execution_started` | construct, move, execute, extract, reset, destroy | `sqlite_modern_cpp.h`, `mbtiles.cpp:85-86, 109-118, 167-168` |
| `tile-smush-parallel` | the pids, the loops, `set -e`, the SIGINT trap | rm, launch, wait, kill | `tile-smush-parallel` |
| `getNewlineChunks` | the chunk, the file position | stat, seek, read | `helpers.cpp:183-226` |
| protozero | a buffer with open submessages and their reserved bytes; a reader's position and end, and those of the messages around it | varints, zigzag, fields, packed fields, commit, rollback, destructors; next, skip, get, iterate | `protozero/*.hpp` |
| vtzero: geometries | the decoder's position, cursor, count and what the handler was told | commands, coordinates, `decode_geometry` | `vtzero/geometry.hpp` |
| vtzero: builders | layers with their tables and indexes; the feature under construction | `add_layer`, `add_feature`, `set_point`, `add_property`, `commit`, `rollback`, `serialize` | `vtzero/builder*.hpp`, `index.hpp`, `property_mapper.hpp` |
| vtzero: readers | positions in a tile, a layer and a feature; tables filled on demand | `next_layer`, `next_feature`, `next_property`, `get_layer`, `key_table`, ... | `vtzero/vector_tile.hpp`, `layer.hpp`, `feature.hpp`, `property*.hpp` |
| projection math, other helpers, command line | none worth a model | | `coordinates.cpp`, `helpers.cpp`, `tile-smush.cpp:50-96` |

How they interact:

* The **script** removes `merged.mbtiles*`, starts `tile-smush` once per
  processor with `SHARDS` and `SHARD` in the environment, waits for each in
  turn, and kills the children on SIGINT.
* **Every process** opens and indexes all inputs (`populateTiles`), opens
  `merged.mbtiles`, and runs the loops over all cells, of which it handles
  those with `(x * (1 << zoom) + y) % shards == shard`.  **Shard 0** also
  merges the metadata.
* A **cell** with one matching input is copied; one with several is
  decompressed, split into layers, concatenated and compressed again.
* `saveTile` puts the row into a queue; a queue longer than 10000 is
  **flushed** in one transaction under the flock.
* A tile that is merged is **read** by vtzero's `vector_tile`, whose layers are
  views, and **built** by its `tile_builder`, which copies their bytes when it
  serializes.  Both stand on protozero's reader and writer.
* Between processes there are three shared things: `./lockfile`, on which each
  `MBTiles` object has a descriptor of its own; the database with its write
  lock, for which no connection has a busy handler; and the short exclusive
  lock that SQLite takes while the last connection to close cleans up the WAL.

What is hard here, and what each part must therefore guarantee:

| part | what is hard | what makes it correct |
|---|---|---|
| parallel merge | interleavings of processes at every lock; nested `Flock`s on one descriptor; kills in the middle of a batch written last row first; exceptions that leave locks to the kernel; the closing of the last connection outside of the flock | one process at a time in the database; no row lost, written twice or out of order; one process's end never blocks another; SQLITE_BUSY only where it cannot be avoided |
| tile index and loop | bits of rows outside of their zoom's grid alias other tiles; zooms without tiles have the extent `{SIZE_MAX, 0}`; four independent comparisons | every tile of the shard exactly once, with all inputs that have it; the loops end |
| tile merge | views into strings must outlive many further decompressions; growth by guess; failures in the middle | the concatenation, all or nothing; bounded buffer; termination |
| metadata | one transaction per entry, the inputs' values first; exceptions half-way; numeric start values; bounds that are printed with six decimals | the table describes all inputs; nothing is written by a process that throws |
| scanner | braces counted without a parser | exactly the layers, also of a text the program itself has printed |
| prepared statements | destructors execute statements, unless someone has, or an exception flies; some exceptions are caught, after which all goes on | every call executes its statement once or throws; no stray row |
| protozero | the length of a submessage is known last: reserved bytes, remembered positions and erasures in enclosing messages, also when the buffer is full in the middle of a field; any text as input | one buffer is as good as a string per message; a field is a field however it is read; nothing is refused without cause |
| vtzero | features made point by point in a shared buffer and lost or committed at any time; indexes that switch from a flat table to a map; counts in foreign data; tables filled lazily | what was committed is read as it was asked for; the decoder takes the grammar and nothing else; lookups agree with the walk |
| script | failing children end it; SIGINT between any two commands; a second run among the orphans of the first | exit status 0 means complete; the handler leaves at most one child alive, whose pid is not recorded yet |

## 2. Modules

| module | models | checked by | proved in |
|---|---|---|---|
| `Sharding` | the division of the cells, shared by the next two | | |
| `SharedTable` | **abstract**: what the processes promise about the table `tiles` | as a PROPERTY | |
| `ShardedMerge` | the processes of one parallel merge | `MCShardedMerge` | `ShardedMergeProofs` |
| `TileLoop` | `populateTiles` and the loops of one process | `MCTileLoop` | `TileLoopProofs` |
| `TileMerge` | one cell with several inputs | `MCTileMerge` | `TileMergeProofs` |
| `VectorLayers` | the scanner and the printer of `json` | through `Metadata` | `MetadataProofs` |
| `Metadata` | the metadata of shard 0, and another merge of the result | `MCMetadata` | `MetadataProofs` |
| `Binder` | the life of the prepared statements | itself | `HelperProofs` |
| `ParallelScript` | the script, its children, a second run | itself | `HelperProofs` |
| `NewlineChunks` | `getNewlineChunks` | itself | `HelperProofs` |
| `Zigzag`, `Varint`, `WireFormat` | signed integers, varints, keys and wire types | through `Wire` | `WireProofs` |
| `MessageTree` | **abstract**: messages under construction, each in a string of its own | as a PROPERTY | `WireProofs` |
| `PbfWriter`, `PbfReader` | `basic_pbf_writer` on a buffer of fixed size; `pbf_reader` on any text | through `Wire` | `WireProofs` |
| `Wire` | a writer and a reader composed | `MCWire` | `WireProofs`, `WireCopyProofs` |
| `Geometry`, `GeometryDecoder` | commands and coordinates; `decode_geometry` | through `VectorTile` | `VectorTileProofs` |
| `TileFormat` | what a tile, layer, feature and value are taken for; lookups | through `VectorTile` | `VectorTileProofs` |
| `TileBuilder`, `TileReader` | vtzero's builders; its readers | through `VectorTile` | `VectorTileProofs` |
| `VectorTile` | a program that builds a tile and one that reads it, composed | `MCVectorTile` | `VectorTileProofs` |

They are layers over one program, each hiding what the next one shows:
`ParallelScript` sees a child as a sequence of batches, which is what
`ShardedMerge` shows of it; `ShardedMerge` sees a cell only as a position that
has a tile or not, which is what `TileLoop` shows of the cells; `TileLoop`
takes the merge of a cell as one step that succeeds or throws, which is what
`TileMerge` takes apart; `Metadata` sees a `json` as a set of layers, which is
what `VectorLayers` computes, an iteration per step.  `TileMerge` takes a tile
for a sequence of fields, which is what `TileFormat` and the reader make of it;
`TileFormat` takes a message for a sequence of fields, which is what `Wire` shows
of bytes.  Each lower module justifies the abstraction of the upper one by a
property or a theorem: `CommittedInOrder` and `UniqueRows` for batches,
`SavedExact` and `WrittenOnce` for cells, `AllOrNothing` and `ConcatExact` for
merges, `ScanExact` for `json`, `ReadsWhatWasWritten` and `ConsumesAField` for
messages.

### ShardedMerge

State per process: `pc`, the position `cursor` of its loops, the two queues
`pending1` and `pending2`, the iteration `round` of the flush.  Shared: `holder`
of the flock (a process and one of its descriptors), and of SQLite `conn`,
`tx`, `writer`, `cleaner`, `rows`.  A step is a stretch of code between two
points at which another process can interfere: the code between `Flock` and
`~Flock` is several steps when it has queries in it.

Decisions that matter:

* `Flock(p, fd)` is granted when nobody else has the lock *or this descriptor
  already has it*; `Unflock(p, fd)` drops it however many `Flock` objects were
  built on the descriptor.  So `closeForWriting`, which locks and then calls the
  flush, loses its lock when the flush's `Flock` is destroyed
  (`mbtiles.cpp:121, 136, 164-169`).
* `~MBTiles` moves `db` away inside of the flock, but each prepared statement
  holds a `shared_ptr` to the connection: it is closed by the destructor of the
  members, *after* the flock is gone (`MoveDatabase`, `CloseConnection`).
* An exception that `main()` does not catch, and a signal, end the process where
  it is (`Die`); the kernel drops its locks, SQLite its transaction.
* The flush writes `pendingStatements2` from its back, swaps, and does so twice.

`SharedTable` states the promise: the table only grows; the rows of a shard are
at every instant those before some position of its loops; a process that
succeeds has all of its rows there.  `ImplementsTable` is this specification
with `table <- rows` and `outcome` read off `pc`.

### TileLoop

The inputs' tables are chosen freely at the start.  `ReadRow` is an iteration of
`populateTiles` (bit and extent), `JoinExtent` and `StartCells` the head of the
loops, `PassCell`, `CopyTile`, `MergeTiles` and `TileThrows` the outcomes of a
cell.  `Bit` and `InSet` are `PreciseTileCoordinatesSet`: a row with a column
outside of its zoom's grid can set the bit of another tile.  `x` and `y` are
`int`s that are compared with `size_t`s, and are given as those: the `SIZE_MAX` of
an empty zoom becomes -1 and is compared as `SIZE_MAX` again, columns and rows are
far below 2^31.  A tile written is its name and the set of inputs whose layers it has.

### TileMerge

A decompressed tile is the sequence of the kinds of its fields.  Strings of the
deque have addresses, views refer to an address and a field, and `Serialize`
copies what is at the address *then*.  So that the views stay valid is a
consequence of `Store` (a deque's `push_back` moves no element), not an
assumption; with a vector (`StoreVector`) it fails.  `GrowBuffer` is the retry
of `decompress_string`; libdeflate may ask for more space also for a tile it
will reject.

### Metadata, VectorLayers

`Metadata` has an action per entry read, per bounding box, and per transaction
written.  `Tiny` is `numeric_limits<double>::min()`, the smallest *positive*
double, which is what `maxLon` and `maxLat` start with and what `to_string`
prints as 0.  `to_string` prints six decimals: degrees are integers finer than
that, `Unit` of them are one in the sixth decimal, and `Nearest` is the rounding,
to the even one of two that are equally near.  So a side of the merged bounds may
lie up to half a unit *inside* of an input's: what `TableIsMerge` says is that the
bounds enclose every input up to half a unit, and that each side is the printed
one of some input (or the 0 of `maxLon` and `maxLat`, see finding 2).  A printed
number is its own rounding, so that it does not move when the result is merged
again.

`VectorLayers` works on texts of the tokens `{ } ] ,` and letters; `Scan` is one
iteration of the while loop.  After a merge the printed text is
scanned again: `MergeAgain` takes the file that was written as the first input of
another merge.

### Binder

The handles are the temporary of an expression and the places in the vector of
prepared statements, whose growth moves them.  `Destroyed` runs what the
destructors run.  The kinds are the nine statements of `openForWriting` that are
not kept, the INSERT that is executed again and again, the REPLACE that never is,
other statements without result, and SELECTs with `>>`.  Preparing a statement,
binding its values and executing it may each throw.  Three of the PRAGMAs stand in
a `try` whose `catch` prints a message (`mbtiles.cpp:65-79`): after their
exceptions the next statement is executed (`Tolerated`), all others unwind.
`failed` counts the calls that threw before their statement was executed.

### ParallelScript

`set -e`, the loops, and a trap that may interrupt them between two commands.
Starting a child and recording its pid are two of them (`Launch`, `Record`; lines
26 and 27 of the script): a handler that runs between the two does not know the
last child and leaves it alive, and the loop goes on.  A `kill` of a pid that the shell has reaped fails and ends the script in the
handler.  The user may run the script again while children of the first run are
alive: `rm` takes the name away, those that have opened the old file write to
that, those that have not open the new one.

### PbfWriter, PbfReader, Wire

`PbfWriter` has the stack of open writers, each with the positions `pos` and
`rollbackPos` that the code keeps, and one buffer.  A submessage reserves bytes
for its length, and its destructor writes the length and erases what it did not
need, or everything if nothing was added.  The capacity of the buffer is that of
`fixed_size_buffer_adaptor`; an append that does not fit throws in the middle of
a field, and the destructors of the open writers run while it unwinds.
`MessageTree` is the same interface on strings that know nothing of each other;
the mapping cuts the buffer at the boundaries of the open submessages.

`PbfReader` has a stack of readers over views of one text (`readers`), what each
has read so far (`got`) and a packed field that is being iterated.  The ways to
take a field, `get_*`, `skip`, a submessage, a packed range with its iterator and
`size()`, are actions of their own.  The text is what the writer made or any of
the foreign ones.  `pbf_builder` and `pbf_message` are the same classes with tags
of an enum type and are mapped to the same actions.

A byte has 5 payload bits instead of 7 (`Group` 32), a varint 11 bits in at most 3
bytes instead of 64 in 10 (`Word`), lengths and keys 7 instead of 32
(`ShortWord`), fixed fields 2 and 3 bytes instead of 4 and 8.  What matters is
kept: the last byte of the longest varint carries fewer bits than the others, a
varint may be longer than necessary, and a varint may hold more than a length.

### Geometry, GeometryDecoder

`GeometryDecoder` is `decode_geometry` as a loop of steps, one per command or
point: the limit by the bytes of the data, the look-ahead at the next command,
the count, the cursor with wrapped 32-bit coordinates (`HalfRange`), what the
handler is told beforehand (`announced`) and what it gets.  The sum of twice the
area is an `int64_t`; `Int64` wraps it at the width that has the code's relation
to the coordinates: 2^63 is twice the square of 2^31, hence `2 * HalfRange^2`.
Rings over the whole range of coordinates do overflow it, which the standard
leaves undefined and what the compilers build wraps; the type that is reported
for such a ring may be wrong.  `DecodesExactly` claims the type of a ring
where twice its area fits, and everything else of all rings.

### TileFormat, TileBuilder, TileReader, VectorTile

A tile, a layer, a feature and a value are sequences of fields.  `TileBuilder`
has a layer's tables and indexes, the feature under construction with its items,
count and tags, and, apart from them, what the program has asked for (`built`).
A `set_point` that throws may have changed the items before; the program then
goes on or unwinds.  `flat` tables are searched up to `MaxEntriesFlat` (2 instead
of 20), maps are filled when that is passed.  `TileReader` walks over any tile;
every function that throws ends the walk.  The limit of the decoder is
the number of bytes of the data: an integer has one byte and one more for each
member of `Longer` that it reaches.  In `VectorTile` a program follows a
*job*, which is what a program would do with the library: the kinds of features,
their points, the ways to add properties.  Jobs and foreign tiles are listed in
`MCVectorTile`.

### NewlineChunks

Called by the test only; modelled because what it does at the borders of
buffers and for files that grow is easily wrong.

## 3. Runs

Twelve runs, nine that pass and three that find a violation.  `vector_tile`
takes a minute or two, the others less.

| run | instance | what it shows |
|---|---|---|
| `merge` | 3 shards, 7 cells with 6 tiles (three, two and one per shard), flush limit 1, 2 inputs, 2 metadata rows; a corrupt tile, metadata that may throw, two processes may be killed | `OneInDatabase`, `NothingLost`, `BusyOnlyAtOpening`; refinement of `SharedTable` (`ImplementsTable`), of which `CommittedInOrder` and the rows of `DoneIsComplete` are consequences; `EveryoneEnds`, `HealthyFinish` under fairness |
| `close_in_flock` | 2 shards | **violation**: the connection is not closed inside of the flock |
| `loop` | 2 inputs, each with any subset of six rows (valid, aliased, beyond the bit set), 3 zooms, one blank and one corrupt tile | `SavedExact` (what is written is the merge, and exists), `ThrowsForCause`, `Terminates` |
| `tile_merge` | 3 inputs, every sequence of up to two fields, buffers that fit at once, after one growth, after several | `ConcatExact`, `ViewsAlive`, `AllOrNothing`, `Terminates` |
| `metadata_merge` | 3 inputs out of 6 kinds of tables with 3 layer objects and 2 tails, sides of bounds that are rounded up, down and from the middle, entries in any order, the result merged again | `TableIsMerge`, `ThrowsBeforeWriting`, `EntriesWhole`, `ScanExact` |
| `metadata_bounds` | the same | **violation**: the merged bounds are not tight |
| `binder_life` | up to 3 calls of each kind, exceptions when preparing, binding and executing, caught or not | `RunsAsAsked` (each call executes its statement once or throws) |
| `binder_query` | the same | **violation**: a SELECT with `>>` is executed twice |
| `script_runs` | 2 shards of 2 batches, 2 runs, a SIGINT per run between any two commands, failures at any time | `ExitZeroComplete`, `NoBatchTwice`, `LeftBehindByFailure`, `HandlerMissesOne`, `ScriptExits` |
| `chunks` | files of up to 7 bytes that may grow, buffer of 2, 2 chunks | `Partition`, `EndsAtFirstNewline`, `Returns` |
| `wire` | a buffer of 7 bytes with 2 reserved per length, 8 kinds of fields; every text of up to 4 of 8 bytes, and fields of 9 more tags | `ImplementsTree`, `ReadsWhatWasWritten`, `ConsumesAField`, `ThrowsForCause`, `PackedSizeExact` |
| `vector_tile` | 8 jobs with points, lines, rings, tables beyond the flat size, copies with mappers; foreign tiles: variants of four geometries, rings whose area does not fit, layers of up to 4 of 8 fields, features of up to 3 of 9, odd values and tiles | `ReadsWhatWasBuilt`, `TagsMean`, `NoDuplicateTexts`, `GrowsByWholeFeatures`, `DecodesExactly`, `AnnouncesWhatFits`, `TablesFilledOnce`, `LookupsAgree` |

Why the bounds are enough:

* *Merge.*  The processes interact in pairs (lock, write lock, cleanup) and a
  third can only take the place of one of them; three are there for the
  liveness, where one must wait for two.  With flush limit 1, shard 0 has a full
  batch and a rest for `closeForWriting`, the others less; the second iteration
  of the flush works on a non-empty queue.  The safety properties of this run are
  also proved for all constants.
* *Loop.*  Two inputs are enough for "none, one, several match"; the six rows
  have two that share a bit and one whose bit does not exist; zoom 2 is empty,
  so that the loops meet the extent `{SIZE_MAX, 0}`.  `SizeMax` is 9, larger
  than any column; only its being the largest value matters.
* *Tile merge.*  A view has to survive two further `push_back`s, hence three
  inputs.
* *Script.*  Two runs: an orphan of the first and the children of the second;
  two batches, so that one can be between them.  With two shards a SIGINT can
  come between the launch of either and the recording of its pid.
* *Metadata.*  Three inputs, so that one is neither the first nor the last to
  have an entry; the layers are nested, empty and repeated.  With `Unit` 4 a degree
  can be below, above and at the middle between two printed ones, and a middle is
  rounded to an even number from either side.
* *Wire.*  Seven bytes hold a submessage in a submessage with a field, and are
  full at every byte of each; two reserved bytes are the longest length, so that
  one byte is erased for short ones.  In four foreign bytes a key, a length that
  is right, short, too long or longer than necessary, and the payload fit.
* *Vector tile.*  Two parts for what one leaves behind for the next; three texts
  where the flat table ends at two; coordinates at both ends of the range, whose
  difference wraps, and rings that go around all of it, whose area wraps; every item of a geometry replaced by one of 15.
* *Chunks.*  Two buffers and a part, chunks of one, two and three bytes.

No symmetry is used: shard 0 is special, cells and zooms are ordered.

**Fairness.**  `ShardedMerge!FairSpec`: weak fairness of each process's steps
- the operating system runs every process, and `flock` is a step that is enabled
only while the lock is free, so that weak fairness does not promise the lock to
a process that others overtake again and again.  It is enough since every
process takes the lock only finitely often.  Kills are not fair.
`TileLoop`, `TileMerge`, `NewlineChunks`: weak fairness of the only process.
`ParallelScript`: weak fairness of the shell and of each child; failures,
SIGINTs and reruns are not fair.

**Deadlock** is checked in every run.  States in which everyone has ended have an
explicit stuttering disjunct (`AllEnded`, `Ended`), so that a process waiting for
ever would be reported.

## 4. Findings

1. `close_in_flock` - `mbtiles.cpp:47-48` says that `db` is reset "so that the
   sqlite3_close_v2() command is called inside of the flock".  It is not: the
   prepared statements keep the connection alive until the members are
   destroyed.  The counterexample has a process cleaning up the WAL without the
   flock; in `merge` another process that opens the database just then,
   with the flock, ends with SQLITE_BUSY (this is the only way to meet it:
   `BusyOnlyAtOpening`).  It takes a process that has finished before another
   one has opened the file.
2. `metadata_bounds` - `maxLon` and `maxLat` start with
   `numeric_limits<double>::min()`, which is positive (`tile-smush.cpp:135-137`).
   If all inputs lie west of Greenwich or south of the equator, the merged
   `bounds` end at 0 instead of at the inputs' own border.
3. `binder_query` - the comment in `sqlite_modern_cpp.h:260-261` says that the
   destructor executes a statement only if no `>>` was found; `_extract` resets
   the flag, so that every SELECT is executed a second time: `populateTiles`
   starts its scan again, and every `readTile` queries twice.

## 5. Proofs

Eight modules of theorems.  Each has an inductive invariant (`IInv`, if nothing
else is said), a lemma for the initial states, a lemma per action, and the
theorems that follow.  None of them bounds a constant.  The properties that the
runs check are stated with their own names; some facts have only a theorem, as they
are parts of an `IInv` (`UniqueRows`, `WrittenOnce`, `BufferStaysBounded`, the shape
of `IInv` itself).

**ShardedMergeProofs.**  `IInv` is type correctness; `LockInv`: whoever runs a
locked stretch has the flock, on the right descriptor (`"used"`, the rest of
`closeForWriting` after its flush, is *not* such a stretch); `SqliteInv`:
transactions and SQLite's write lock exist only within a flush, the cleaner only
within the cleanup; and per process `ProcessInv`: the queues are increasing, lie
below the cursor and above all that is committed, `pendingStatements2` is in use
in the second iteration only, and committed rows, queues and transaction together
are exactly the work below the cursor.  None of the properties is inductive by
itself: that no row is lost needs that both queues are empty after two iterations,
that a batch is a prefix needs that the rows of a transaction are above those of
the table and below the rest of its queue, and that no process meets
another's write lock needs the flock.  From it: `MutualExclusion`, `UniqueRows`,
`PrefixCommitted`, `NoTileLost`, `Completeness`, `BusyIsRare`, and `Refinement`:
`Spec => ImplementsTable`, where `Commit` is `Publish`, with the cursor as the
witness, `Exit` is `Succeed`, `Die` is `Fail`, and all other steps stutter.
Assumptions: `ShardingAssumption`, `MergeAssumption` (the constants have their
types; a cell has one owner because `%` is a function).

**TileLoopProofs.**  `IInv` says what the delivered rows have done to bits and
extents, that the loops' bounds contain every tile of the joined inputs, and that
what is written is the merge of the cells passed.  From it: `SavedIsTheMerge`,
`WrittenOnce`, `WrittenExists`, `WrittenExactly` (the run's `SavedExact`),
`ThrowsOnlyForCause`.  The step that needs care is
`Bit`: on valid files it is injective on a zoom, which is division with
remainder.  Assumption: `TileLoopAssumption`; columns and rows below
`SIZE_MAX`, and products that do not wrap.

**TileMergeProofs.**  `IInv` says that the deque has one string per decompressed
tile at its address, that the views are exactly the layers of the fields passed,
in order, and that everything passed was sound.  From it: `ViewsStayAlive`,
`SavedIsConcatenation`, `SavedAllOrNothing`, `BufferStaysBounded`.

**MetadataProofs.**  `IInv` says that each gathered entry is that of the last
input in which it has been met so far, that everything met was sound, and that
nothing is written before all was met.  `EntriesWhole` is not inductive without
it: the dump writes what was gathered, so one has to know that it is the last
input's.  From it: `NothingHalfWritten`, `NoMixture`, for any inputs, also one
that an earlier merge has written.

`ScanFindsTheLayers` (`ScanExact`) and `MergedTable` (`TableIsMerge`) need to know
what the scan does with a text of any length.  `ScanStep` is about the texts
alone: an iteration goes from a place among the objects of a list to the next
one, and behind the brace of an object with its text.  `MInv` says at which place
the scan is, that the layers gathered are those of the inputs read and of the
objects passed, and what `minzoom`, `maxzoom` and the bounds have taken over from
the inputs that were met.  For the printed bounds, `NearestIs` says that a rounded
number is at most half a `Unit` away, `NearestBelow` that rounding does not pass a
printed number, from which `PrintedSides` has both what the bounds enclose and
what they touch.  Assumptions: `VectorLayersAssumption`, on which texts the scan works, and `MetadataAssumption`,
of which the rounding needs that `Tiny` is less than half a `Unit` and that the
largest degree is a multiple of it, so that rounding does not leave the range.

The prover cannot use the library's theorems of induction, whose property is an
operator, but it can use induction for a *set* of numbers (`NatSetInduction`):
what holds for all lengths is stated as the set of the lengths for which it holds.
With it, recursive functions on `0 .. n` are shown to have the values that their
definition gives (`Recursion`), here and in `VectorTileProofs`.

**HelperProofs.**  Of the three small machines.  For the statements, `BinderInv`
says in every phase which handle owns which statement and that statements executed
or failed are those asked for, but for one that is due at the end of its expression.  A move
that left its statement behind, or a closing that forgot one of the two, would
break it.  From it: `NoStrayRow`.  For the chunks, `IInv` says
that the chunk in progress starts where the last one ended, and that there is no
newline between the least end of the chunk and the file position.  From it:
`ChunksPartition`, `ChunksEndAtNewlines`, for every file, also one that grows.  For
the script, `ScriptInv` relates its loops to its children
(`LaunchOrder`, `WaitInv`, `TrapInv`), a child's state to its batches
(`ChildInv`), and a file to the one that has written it (`OneAuthor`): of all
children of a shard that have opened a file, the one with batches has all that are
there.  That is why an orphan and its successor cannot both succeed: the loser
finds rows that are not its own.  From it: `ZeroMeansComplete`,
`BatchesWrittenOnce`, `OnlyFailureLeavesBehind`, `HandlerLeavesTheLast`, for any
number of processors, batches, runs and interrupts.

**VectorTileProofs.**  `VectorTileInv` is the conjunction of three invariants, one
for each of the components, for any jobs and any tiles of other programs whose
fields have the types that the readers get them with (`IsTile`).

* `DecoderInv`: type correctness, so that no item behind the last one is read; the
  relation of the count to the place in the loop, which is what the assertions of
  the code say; and that points delivered and outstanding add up to those
  announced.  The last is needed since the limit is looked at only when a command
  is read, while points are delivered later.  From it: `DecoderInvariant`,
  `AnnouncementsFit`.
* `ReaderInv`: the present layer and the present feature are those that the walk
  has delivered last, and the tables of a layer are either both counted and empty
  or both filled (`TablesInv`).  From it: `TablesAreFilledOnce` and
  `LookupsFindWhatTheWalkFinds`, for which the first hit of a lookup has to be
  related to a walk that may have passed any number of layers.
* `BuildInv`: the map of a table has indexes of its texts, all of them if no text
  was added unchecked, and then texts are distinct (`TableOK`); indexes that a
  `key_index`, a `value_index` or a `property_mapper` remembers are those of its
  texts (`CacheOK`); the builder's tags name what was asked for (`TagsOK`), and what
  it has written is a feature.  `NoDuplicateTexts` and `TagsMean` are not inductive:
  below the limit of the flat table nothing tells that a map made later will be
  right, and a tag written long ago stays right only since tables grow at their end.
  From it: `TextsStayDistinct`, `TagsMeanWhatWasAsked`, `LayersGrow`.

What is serialized is a tile again (`SerializeKeeps`), which is why the reader may
assume of its text what it assumes of those of other programs.  Assumptions:
`GeometryAssumption`, `TileBuilderAssumption`, `TileReaderAssumption`,
`VectorTileAssumption`; all are about the types of constants.

**WireProofs.**  `WireInv` has a part for each of the two sides.

* `WriterInv`: of every open writer, the remembered positions are those of a key
  that stands in the buffer and of the bytes reserved for its length (`Marked`), or
  the writer is the innermost one and that of a packed field whose length was
  announced (`IsSized`).  None of the positions would be right without those of the
  writers around it, as each of them erases and moves what is behind.
* `ReaderInv`: each reader stands between two fields of its view, or in front of a
  field whose key it has read; an iterator stands between two elements, and the
  number of elements in front of it and of those behind it is that of the whole
  field (`Fits`); after an exception, the place at which it was thrown really has no
  field that could be read (`HasCause`).

From it: `WireInvariant`, `SizeIsExact` (`PackedSizeExact`), `FieldIsConsumed`
(`ConsumesAField`), `CauseIsThere` (`ThrowsForCause`), for texts of any length and
messages of any depth.  `ThrowsForCause` was too weak before it was proved: of a
packed field with fixed elements it asked for a remainder with respect to a place
that could be chosen; it now asks for the length that the field itself announces.

`WritersImplementTree` is `Spec => ImplementsTree`.  `FramesOf` cuts a buffer at
the boundaries of the open submessages.  The argument: a step that leaves the
buffer as it is up to the beginning of a message alters the bytes of that message
alone (`AltersAt`, from which `FramesAlter` and `FramesStay`), and bytes that move
because something in front of them is erased are still the same bytes.  With that,
every way to add a field is `Add`, or `Exhaust` if it throws; opening is `Open`; a
packed field of known size is an `Add` of its header and then of its elements, on
the message around it; a destructor, `commit()` or `rollback()` is `Commit` if the
message is not empty, and the varint written over the reserved bytes is the one the
tree writes at once, or `Rollback`; the readers and the catching of an exception
stutter.  The recursions about varints (`Power`, `Values`, `Sums`) are dealt with
as described for `MetadataProofs`.  Assumptions: `VarintAssumption`,
`WireFormatAssumption`, `WriterAssumption`, `WireAssumption`; they hold for the
code's 7 bits, 64 bits and 5 reserved bytes, and for buffers below 2^28 bytes: with
a longer message nothing would be left of the reserved bytes, which `erase_range`
asserts not to happen.

**WireCopyProofs.**  `ReadingGivesBack` is `Spec => []ReadsWhatWasWritten`: as long
as no exception was thrown and every packed field got the size it was opened with,
what is written is read without an exception, whichever functions the program uses
for it, and what it got, written again, are the bytes it read.  The invariant needed
on top of `WireInv` is about bytes that are not read yet, of which the state says
nothing.

* A text is *whole* if it can be made from nothing by adding elements, or fields
  whose payloads fit the schema, those of submessages and packed fields being whole
  themselves: `Whole(kind)` is the least such set, the intersection of all that are
  closed under these additions (`Closed`), so that what holds of it is shown without
  a recursion, by naming a closed set.  In that way: a text that is whole has an
  element or field at its *front* with a whole rest (`WholeHasHead`), although it was
  made by adding at the end.
* `WellWritten`: all open messages of the buffer (the frames of `MessageTree`) are
  whole, but for a packed field of known size, whose elements are a whole text behind
  a header that promises their number.  It is kept by every step that throws nothing
  (`WriterStepWell`); a packed field that breaks its promise is where it would fail.
* `CopyOn`: in front of every reader is a whole text, and what it got is, written
  again, what is behind it; the same for a packed iterator and its elements, back to
  the beginning of its payload.  For each of the reader's functions there is a lemma
  that it finds the one field that is there (`FieldDue`, `BodyUnique`): a key, a
  length or a varint is read with the value that was written (`EncodeValue`,
  `ZigzagBack`), the length of a packed field with fixed elements is a multiple of
  theirs (`FixedsFit`), and none of the exceptions is possible.

`CopyInv` says that the first holds until the buffer is handed over to a reader, and
the second from then on.  Assumptions: those of `WireProofs`; `WireAssumption` says in addition that the reader
has the schema of the writer.

**Only model-checked:**

* all liveness (`EveryoneEnds`, `HealthyFinish`, `Terminates`, `Returns`,
  `ScriptExits`), which is beyond the prover;
* `ReadsWhatWasBuilt` and `DecodesExactly`, which compare what is read with a
  reference encoding of all of it: they need the invariants above and an account of
  the text that is already behind the reader, as `WireCopyProofs` has it for fields.

## 6. Not modelled

* **Codec and encodings.**  What libdeflate and SQLite compute is data; the
  modules have the results that the code tells apart.  Floating-point values are
  fixed fields of a few bytes.
* **protozero and vtzero in part.**  Writers and builders that are moved or
  swapped; a builder used while another one is alive (an assertion forbids it);
  arguments that an assertion excludes, except for those of `set_point`; buffers
  other than `fixed_size_buffer_adaptor` and a string that does not grow beyond
  it; a table of more than 2^32 texts; a mapper given an index that its layer does
  not have; the debug names of enum values.
* **Behaviour of these libraries that no property claims.**  `rollback()` is
  documented to remove all traces, but keys and values it has added stay in the
  tables (`builder.hpp:546-556`); `set_point` counts a point before it refuses it
  (`:842-850`); `get_bool` looks at a byte before it knows that there is one
  (`pbf_reader.hpp:497`), and throws afterwards if there is none; the
  difference of two coordinates is computed in `int` (`builder.hpp:692`) and taken
  to wrap.  The modules follow the code in all of these.
* **`compress_string`**: the replacement of the thread-local compressor happens
  once, since only level 6 is ever asked for.
* **`coordinates.cpp`, `boost_validity_error`, `getFileSize`, `endian_swap`,
  `ends_with`**: not used by the program.
* **Command line**: `SHARDS`, `SHARD` and the names are constants.  Values that
  `atoi` takes for negative ones are excluded.
* **Undefined behaviour outside of the formats**: zooms of 15 and more, negative
  columns, bounds with fewer than four numbers, `json` without `]`, braces in
  strings.  The README of the program calls the scan "a total hack, but it works";
  `VectorLayersAssumption` says on which texts.
* **Layers that several inputs have**: README.md says the result is undefined;
  `ConcatExact` says what the code does (both are kept).
* **Descriptor 0** for `lockfd`, which the code takes for "none": the script's
  children have it open.
* **bash before 4.4**, for which `${pids[*]}` of an empty array is an error under
  `set -u`; **PID reuse** in the script, and **other inputs** in its second run.

## 7. Plan

Done, in this order, the most important behaviour first: `Sharding`,
`SharedTable`, `ShardedMerge` and its proofs; `TileLoop` and its proofs;
`NewlineChunks` and its proofs; `Metadata`, `VectorLayers`, `Binder`,
`ParallelScript`; `TileMerge` and its proofs; the wire format with the abstract
`MessageTree`; geometries, builders and readers of vector tiles; the proofs about
the decoder, the metadata, the statements and the script; those about the
scan and the merged metadata, about builders and readers, and about the wire
format, with the refinement of `MessageTree` and what readers give back.

Left:

1. A refinement between layers that is so far argued in prose: the merge of a
   cell in `TileMerge` as an implementation of the one step of `TileLoop`, the
   children of `ParallelScript` as an abstraction of `ShardedMerge`, and
   `TileFormat`'s fields as those of `Wire`.
2. `DecodesExactly` and `ReadsWhatWasBuilt` as theorems, with
   what has been read so far as the encoding of what was delivered so far.
3. Two writers of features of different layers alive at the same time.
4. The branch of `insertOrReplace` for merges (`isMerge`), which no caller
   reaches today, if it comes into use.

## 8. Running

    tlc -config merge.cfg MCShardedMerge
    tlc -config close_in_flock.cfg MCShardedMerge     (finds a violation)
    tlc -config loop.cfg MCTileLoop
    tlc -config tile_merge.cfg MCTileMerge
    tlc -config metadata_merge.cfg MCMetadata
    tlc -config metadata_bounds.cfg MCMetadata        (finds a violation)
    tlc -config binder_life.cfg Binder
    tlc -config binder_query.cfg Binder               (finds a violation)
    tlc -config script_runs.cfg ParallelScript
    tlc -config chunks.cfg NewlineChunks
    tlc -config wire.cfg MCWire
    tlc -config vector_tile.cfg MCVectorTile

    tlapm ShardedMergeProofs.tla
    tlapm TileLoopProofs.tla
    tlapm TileMergeProofs.tla
    tlapm MetadataProofs.tla
    tlapm HelperProofs.tla
    tlapm VectorTileProofs.tla            (takes ten minutes)
    tlapm WireProofs.tla                  (takes twelve minutes)
    tlapm WireCopyProofs.tla              (takes eight minutes)
