# Verification of the SUNRISE2022 data pipeline

This directory models the programs that moved data through the two ships of the SUNRISE 2022
cruise (R/V Pelican, R/V Point Sur) and the shore server: TLA+ modules, TLC configurations
and TLAPS proofs. Line numbers below refer to the repository's files.

## The system

Every ship runs the same set of small programs under systemd; they share one PostgreSQL
database and a file tree that syncthing copies between the ships and the shore.

| Part | State | Operations | Talks to |
|---|---|---|---|
| MET ingest (`MET/met2db.py`, `DB.py`, `FilePosition.py`, `Config.py`, `Monitor.py`) | tables `met`, `filePosition`; headers and positions in memory; one column map | monitor a directory; read what is new in a file; one transaction for rows and position | the acquisition system's CSV files; the other ship's CSV through the synchronised folder (`metsync.*`) |
| MET NetCDF export (`MET/db2nc.py`, timers, `rebuild.nc.sh`) | flag `qNetCDF` of each row; the NetCDF file; its copies | select fresh rows, append, flag, copy; rebuild from nothing | table `met`, the web server's share |
| MET CSV export (`MET/db2csv.py`, `rebuild.todos.sh`) | flag `qCSV`; a CSV file in `~/Sync` | flag fresh rows and append them | table `met`; the other ship's metsync |
| RHIB ingest (`RHIB/rhib2db.py`) | tables `rhibNav`, `rhibCTD`, `rhibADCP`, `rhibPos` | watch, read what is new, store, record the position | files of the autonomous boats in `~/Sync` |
| RHIB export (`RHIB/adcp2nc.py`, `ctd2nc.py`) | flags of joined rows; NetCDF files | join instrument and navigation rows, append | RHIB tables |
| AIS receiver (`AIS/aisChomp.py`) | partial messages; queues between threads; tables and CSV files | read serial or UDP, verify, reassemble, decode, store | serial port, UDP, SQLite, PostgreSQL |
| Status packets (`MonitorTemperature/`) | host table; connections | encode and send; receive, verify, store | UDP or TCP between ship and shore |
| Satellite data (`EOSDIS/`) | raw and pruned files | list, fetch, prune | NASA's servers |
| ADCP concatenation (`MISC/adcpJoin.py`) | one NetCDF file per instrument | extend by what the sources have more | UHDAS files |
| Folder synchronisation (`Sync/`), SSH tunnel (`SSHTunnel/`) | none | run rsync, run ssh | the other hosts |
| Plots (`public_html/plot`, `public_html/development`) | page state of a browser: requests, datasets, what Plotly shows, preferences in `localStorage` | load data, switch axes, apply settings, edit labels, save preferences | PHP scripts, PostgreSQL, other pages in other tabs |

### What makes it hard

* The processes die (a Python exception in any thread ends its process, systemd starts it
  again), the ship's network comes and goes, and operators run rebuild scripts by hand.
* Files are read while others append to them, so their last line may be torn.
* A program's statements interleave with the other programs' transactions; PostgreSQL runs
  them under READ COMMITTED, so two statements of one transaction see different tables.
* Writing a file cannot be rolled back with the transaction around it.
* State is kept twice: the position of a file in memory and in the database, a row's flag in
  the database and its copy in a file, a label in the page's datasets and in Plotly's layout.
* Answers to a page's requests come in any order, while the user goes on clicking.

`PROJECT.json` lists the hazards of the code line by line, those not yet covered included.

### What makes each part correct

* MET ingest: a row of a file is stored once and only once; the recorded position never
  passes a row that is not stored; a row is read with its own file's columns; every row is
  stored in the end.
* NetCDF export: a flagged row is in the file; a row is in the file once; a published copy is
  complete; every row is exported in the end.
* CSV export: the same, and the other ship's position in the file stays meaningful.
* RHIB export: a joined row has every navigation row near it; a flagged row is in the file.
* RHIB ingest: as MET ingest, with rows identified by ship and time.
* AIS: what is decoded was sent, as one message; a repeated fragment spoils nothing else.
* Status packets: what is decoded is what was encoded.
* Satellite data, ADCP concatenation: a file taken for complete is complete.
* Plots: labels, colours and data belong to one request, the one answered last; no more is
  loaded than was allowed; the page can be loaded again with whatever was saved.

## Modules

`IncrementalIngest` is the abstract specification of an ingest: files grow, and one
transaction consumes some more lines of one file and stores all their rows, but perhaps for those an
earlier attempt has dropped (`Drop`).

`MetIngest` is the thread `DB` of met2db. A pass over a file is three steps, between which
files grow and the process may die:

| Action | Code |
|---|---|
| `Notify` | `Monitor.send`; the monitor's scan has found size or mtime changed (`Monitor.py` 90-107) |
| `Open` | `DB.runIt` 103-116: take a name, look up its position, skip a file already processed, otherwise read what there is of its header once and map its columns, in place of those of the file before |
| `Read` | `DB.runIt` 116-120 and `__procLines` 55-79, `insertRow`: seek, skip to a newline, insert every complete line that has as many fields as the header |
| `Finish` | `__procLines` 79-90, `runIt` 121: record the position, COMMIT or ROLLBACK, keep the end in memory |
| `Crash`, `Gone`, `Restart` | death of the process (spontaneous, or by an exception in `Open` or `Read`), and systemd |
| `AppendLine`, `AppendPart` | the acquisition system, or syncthing; external |

A line is one of four kinds that the code treats differently (`row`, `short`, `sqlbad`,
`raise`), and positions count lines; the comment at the head of the module says why that loses
nothing. What becomes of a line depends on what its pass compares it with (`Fates`): the number of fields
of its own file's header, as first seen (`header`: whole or torn within its last field, torn in its first,
or between), and the columns of the one map of the process (`colmap`: all of them, some with the date and
the time, or too few to give a time). A torn header is `HeaderSeen`, and its columns replace the map of
all files. It is assumed that the date and the time are the first two columns, as in
`Faux/sample.csv.bz2`, and that the layouts differ in the order of columns that are plain numbers.

A file of `Whole` appears with its whole header line, as it does when syncthing renames it into place or
its writer flushes by lines; a file of `Trusted` moreover holds nothing PostgreSQL refuses. The other files
do whatever files can do. The history variable `timeless` holds the lines of the passes that were refused
because the map had no time, the one thing by which another file can make a trusted file's row be
skipped; the properties of trusted files name it.

`NcExport` is db2nc with its surroundings: `Insert` is met2db's commit, `Start` the timer,
`Dates`, `Select`, `WriteChunk`, `Mark` and `MarkFails` the statements of a run, `CopyFile` and
`Publish` the copy, `Die` a death at any point, and `RebuildStop` to `RebuildStart` the lines of
`rebuild.nc.sh`. Each statement sees the table as it is at that moment.

`RhibIngest` is rhib2db with its inotify monitor. Here a file may also be truncated, one line
that raises rolls a reading back without ending the process, and nothing is kept in memory
between readings:

| Action | Code |
|---|---|
| `AppendLine`, `AppendPart`, `Truncate` | the boat, through the synchronised folder; each is an inotify event once the watch is set |
| `Pend` | `MonitorINotify.runIt` 55-60: an event makes a file pending, and never moves the time of one that is |
| `Flush` | the same, 54-73: `queue.Empty` and the file's time is over; `dt` is any time |
| `Open` | `RHIB.runIt` 45-54, `parseFile` 241-256: take a name, position and size; equal means skip, longer means start at 0 |
| `Store` | `parseFile` 256-269, `__parseLines`, COMMIT or ROLLBACK (54-58): what is in the file now is read |
| `Watch`, `Scan` | main 288-311: the watch is set, then every file of the directory is sent |
| `Crash`, `Restart` | death at any point; `rhib2db.service` 25-26 |

`queue.Queue` is a sequence, inotify's queue a
set: a second event of the same file is taken and changes nothing. Lines are all of a length; a
truncated file that grows back to a place within a line loses that line besides.

The AIS receiver is three modules, as it is threads and what they listen to:

| Module | Action or operator | Code (`AIS/aisChomp.py`) |
|---|---|---|
| `AisSerial` | `ReadSerial`, `SplitLines`, `Ended`, `Kept` | `ReadSerial.runIt` 146-178: read what is there, split at newlines, put lines that end in a carriage return, keep the rest |
| `AisDecrypt` | `Decrypt` | `Decrypt.runIt` 327-373, `__chkSum`: ignore (`Garbled`), decode at once (`Simple`) or join (`Multipart`) |
| | `Joined`, `Complete`, `FillBits`, `KeptIdents` | 354-373: file the fragment under its sequence number, count, decode with the fill bits of the fragment that came last, age out |
| | `DecryptSpec` | what the thread does under any reader: `Arrive`, `Elapse`, `Anew` |
| `AisReceiver` | `Transmit`, `Miss`, `Lose` | the AIS device and the network; external |
| | `Receive`, `Read`, `TakeSentence` | `ReadUDP.runIt` 100-110 and the two threads above |
| | `Die`, `Restart` | an exception in a thread, for one a checksum field that is no number (306); `AIS.*.service` |

`AisSerial` extends `AisDecrypt` and puts on its queue; `AisReceiver` extends both, and is checked and proved to
implement `DecryptSpec`. A payload is the map of its fragments; the text of a
sentence is one token of the serial line, followed by its two end characters.

`CsvExport` is db2csv with `rebuild.todos.sh`, and `CsvSync`, which extends it, the way of the file
to the other ship:

| Module | Action | Code |
|---|---|---|
| `CsvExport` | `Insert`, `Reload` | met2db commits a row; after the script's DELETE it reads the instruments' files again |
| | `Start`, `StartBreaks` | `db2csv.py` 26-44: the service starts, a missing file is begun with its header |
| | `Update`, `Write`, `Commit` | 46-74: `UPDATE ... RETURNING`, the lines, COMMIT |
| | `Break` | a death or an exception at any of them, within a line too |
| | `StopUnits`, `DeleteRows`, `RemoveFile`, `StartUnits` | `rebuild.todos.sh` 25-36 |
| `CsvSync` | `Sync` | syncthing copies the file or its removal; external |
| | `Notify`, `Ingest` | the monitor and the thread `DB` of metsync, a pass as one action (`MetIngest` has it step by step) |
| | `Crash`, `Gone`, `Boot` | the metsync units name no `Restart` |

What a line becomes that is appended behind part of another is one of three marks: a line with
too many fields, a row with a time made of two, or one whose time does not convert.

`RhibJoin` is adcp2nc, and ctd2nc, which differs in its columns alone. A row is its time, and an
average is the set of navigation rows it was taken of:

| Action | Code |
|---|---|
| `InsertNav`, `InsertRow` | rhib2db commits a navigation row or an instrument's |
| `StartRun` | `adcp2nc.py` 126-131; `mkNetCDF` (85-105) raises, so a run needs a file that somebody has made (constant `FileMade`) |
| `Join`, `JoinFails` | 46-83, 133-142: rows behind the last joined one are joined again as far as a margin; the flag stays as it is |
| `Select`, `Write`, `WriteRaises` | 144-165; a row of more bins than the file has raises (`TooWide`) |
| `Flag`, `Close` | 167-174: COMMIT, then the file is closed, and with it saved |
| `Raise`, `Kill` | an exception, which closes the file, and a death, which may leave the first of the lines |

The plot pages are modelled task by task, since JavaScript runs one at a time. `DataRequest` has
what both decide before a request is sent.

| Module | Action | Code (`public_html/`) |
|---|---|---|
| `HovmollerPage` | `loadData` | `plot/js/hovmoller_load_data.js` 6-36, 75-109: read the controls, count, send |
| | `Answer`, `Fail` | 25-68: data, or an error object, or a request that fails; `updateDatasets` and the redraw that is then asked for |
| | `Continue` | 25-36, `hovmoller.js` 335-374: the redraw has ended; labels, colour properties and colour bars |
| | `applyChanges` | `plot/js/hovmoller.js` 200-255, 304-331, 418-422: limits, settings and colours at any moment |
| `TimeseriesPage` | `loadData`, `Answer`, `Fail` | `development/js/timeseries_load_data.js`: the same for up to four datasets of either ship |
| | `switchAxes`, `applyChanges`, `Edit` | `development/js/timeseries.js` 241-400, 453-469, and Plotly's `editable` |
| | `Reload` | the page is loaded again, with the stored preferences |
| `PagePreferences` | `savePreferences`, `clearPreferences`, `OtherPageSaves` | the resolution buttons, stored one by one under keys all pages share |
| `Figure` | | what the timeseries plot promises, whichever axis is the independent one: the abstract specification |

That Plotly has redrawn such a plot when it returns, and that it ends redraws in the order they were
asked for, was read in the Plotly 2.2.0 the pages bring along; `HovmollerPage` relies on the
order alone.

The modules named `MC...` give the constants values for TLC; a run whose cfg needs no definitions
names its module directly.


## Runs

| Run | Expected | What it shows |
|---|---|---|
| `MetIngest` | pass | One trusted file and one unrestricted file share the process and its column map, with one spontaneous death. Rows and positions of the trusted file stay in step, nothing is stored twice, and the ingest implements `IncrementalIngest`; no row is skipped but those of a pass that the other file's torn header had left without a time, and every other row is stored in the end unless a file kills the process each time it is read |
| `MetIngest_sqlbad` | violation of `NoSkippedRow` | One value PostgreSQL refuses rolls its batch back while the position in memory moves on (`DB.py` 121); the next COMMIT records a position past the lost rows |
| `MetIngest_layouts` | violation of `RowsUnderOwnHeader` | Two files with different columns that grow in turns are read with one column map (`DB.py` 115) |
| `NcExport` | pass | With rows arriving in time order no row is lost, no copy published short, everything is exported and copied in the end, whatever dies or fails and whenever the script runs, unless the script overlaps a run |
| `NcExport_race` | violation of `NoDuplicate` | A row committed between the two SELECTs is written, not flagged, and written again |
| `CsvSync` | pass | Flagged rows are missing from the CSV file for torn lines alone and repeated by broken runs alone; nothing behind the position recorded on the other ship is missing there; metsync ends for known reasons alone; every row arrives |
| `RhibIngest` | pass | The recorded position passes no record that is not stored, unless a truncated file grew back unseen; while the process watches, a file that is not at its position is announced, being read, or was rolled back; every record of a file that does not raise is stored in the end |
| `RhibJoin` | pass | While the rows of each table come in order, a row behind the margin is joined with all the navigation rows it will ever be near; a flagged row has its line, unless a run was killed between COMMIT and close; a row near a navigation row reaches the file |
| `AisReceiver` | pass | However reads cut the serial line every line is put on the queue, in order, twice at most; over both readers a message whose sequence number is its own is decoded whole, over the serial line with its own fill bits, and in the end; `Decrypt` is what `AisDecrypt` says |
| `AisReceiver_again` | violation of `DecodedWhole` | Two messages with the same sequence number: a line doubled by the reader (`aisChomp.py` 172) leaves a fragment behind that completes the next message |
| `HovmollerPage` | pass | Two loads that overlap, answered in any order, with data or with an error, while limits and settings are applied: a plot at rest shows data, names, labels and colour bars of one answer, with colours that fit, and no request is for more than one row beyond the maximum; the last answer is shown in the end |
| `TimeseriesPage` | pass | Answers in any order, switched axes, settings, edits, and preferences of two pages: labels fit their data, what is shown was counted, one resolution is chosen, and the page implements `Figure` |

### What the code does otherwise than it seems to

The four runs that expect a violation each show one such place. Others became
conditions of the properties, and are named there:

* `DB.py` 112-115: the first line of a file is taken for its header even if its end has not arrived, for the life
  of the process, and `mapColumns` makes its columns those of every file. Rows are then stored without the
  columns that were missing (of trusted files too: they count as stored, `RowsUnderOwnHeader` is about their
  columns), or refused if the time was missing, and the position in memory moves past them (121), so that a
  later COMMIT records a position beyond rows that are in no table (`timeless`). Lines of the file itself are
  skipped, unless the header was torn within its last field; if it was torn within its first, the empty string
  `split` leaves behind the last newline has as many fields as the header, and its INSERT is refused, or
  the missing columns raise.
* `db2nc.py` 168: `os.utime` is called on the target of a copy before the rename that would make
  it, so a copy that was not there beforehand is never made (constant `CopyPresent`).
* `rhib2db.py` 252: a file cut and grown past its position within the two minutes of the monitor is
  not recognised as truncated, and its first lines are skipped.
* `db2csv.py` 60: a line torn by a broken run is glued to the first row of the next run; that row
  is flagged and lost. Glued within its first field it gives a forged time, or one that does not
  convert, and then the other ship's metsync dies, for good.
* `rebuild.todos.sh` 25: a run under way as the rows are deleted may flag rows that it writes to the removed
  file, or leave a file without header; the rebuilt file is shorter than the position the other ship
  recorded, which `DB.py` 117 does not notice: rows are skipped there if the earlier file was not in
  order. An empty or absent file ends metsync.
* `adcp2nc.py` 86: `mkNetCDF` raises whenever it is called (`os.path.basename` of a file is no
  directory, `exists_ok` no keyword of `makedirs`), so that there is an export only once somebody has
  made the file. 67: a row joined anew keeps its flag, and its line the older average. 163: a row of more
  bins than the file has raises in every run, and the lines before it are written again each time.
  174: flags are committed before the lines are saved.
* `hovmoller_load_data.js` 28: an error answered by the server passes through the chain of promises, so
  that names and labels are the new request's and the data the old ones (`Sound`); 92: the count
  starts at the cruise, the request at what was typed; BETWEEN takes one row more than was counted.
* `timeseries.js`: a dataset that becomes empty keeps its label, since an undefined text is
  skipped; texts written over the legend's entries are gone after the next switch. Its `requestData`
  returns generated data; the model's `Answer` is whatever columns come.

### Bounds

`MetIngest`: two files, since every interaction between files goes through what the process
shares (queue, column map, its life); the trusted file has a header and two rows, so a pass can
begin before, between and after them; the other file one line after its header, of any kind, with both
lines torn anywhere; one spontaneous death, on top of the deaths the code causes itself.
The violations need a third and a fourth line. `NcExport`: three rows, so one can come before,
one during and one after a run, chunks of two so that a run writes one or two chunks, one fault.
`CsvSync`: two rows, so that one can be torn and another glued to it, one broken run, one death, one
rebuild. `RhibIngest`: a file of two lines, so that a position can be before,
between and after them, beside one of one line; one truncation, one death, and a queue of one
name, at which the senders wait. `RhibJoin`: times 1 to 4 with a reach of 1 and a margin of 2, so
that there are rows within, at and behind the margin, and every row between has two neighbours; the row
of time 4 is too wide; one failure. `AisReceiver`: two messages of two fragments, so that fragments of two
messages meet, and one of one; two lines on the serial line, so that a read may span both; one
sentence waiting when another is read; time passes once, which is as good as a minute (`MaxAge` is
0); and one fault of any kind. `HovmollerPage` and `TimeseriesPage`: two loads, whose answers may cross;
selections with one ship or two, the same variable or others, refused, allowed, and at the
maximum; two datasets of the four, which are treated alike.
The constants `MaxLines`, `MaxWire`, `MaxNow`, `MaxCrashes`, `MaxTime`, `LastTime`, `MaxFaults`, `MaxFailures`,
`MaxQueue`, `MaxLoads` and `MaxTruncations` are the bounds; the proofs hold for all their values.

### Fairness

Only what the code's scheduling gives: the monitor and the threads of a live process run, and
systemd restarts a dead one (`Restart=always`, met.*.service 24; the metsync units lack that line,
constant `AutoRestart`, and `Boot` of `CsvSync` need never come); the timer of an export starts it
again and again (`met2nc.*.timer` 9-14, `met2csv.*.timer`, `rhib*2nc.*.timer`), a run that is not
killed ends, and a script that was started ends; met2db reads what it has read before, and syncthing
copies what changed. `Flush` of the inotify monitor needs a moment without events; that it comes is an
assumption on the folder, which the bounded files fulfil: under events without end the code does starve
its files. Plotly ends its redraws (`Continue`); that a request is answered is not assumed, nor
anything of the instruments, of faults, of users, or of the operator starting a script.

## Proofs

For all values of the constants TLAPS checks:

| Module | Theorem | |
|---|---|---|
| `IncrementalIngestProofs` | `TableIsConsumedPrefix` | the table holds the rows of the consumed lines, those of failed attempts perhaps excepted, and nothing else |
| `MetIngestProofs` | `TypeCorrect`, `NoTrustedRowSkipped`, `StoredOnce`, `NeverBack` | type invariant, safety invariants and action property of the run `MetIngest` |
| `MetIngestProofs` | `WholeHeadersSkipNothing` | if every file appears with its whole header, no pass is refused for want of a time, so that the exception of `NoTrustedRowSkipped` and of the refinement is empty |
| `MetIngestProofs` | `ImplementsIngest` | `MetIngest` refines `IncrementalIngest` for the trusted files |
| `NcExportProofs` | `ExportTypeCorrect`, `NoRowLost`, `CopyHoldsFlagged` | type invariant, and, for rows in time order, safety of flags and of copies |
| `CsvSyncProofs` | `CsvTypeCorrect`, `LosesToTearsOnly`, `RepeatsByBreaksOnly`, `SkipsNothing`, `EndsForReasons` | type invariant and all safety invariants of the run `CsvSync` |
| `RhibProofs` | `RhibTypeCorrect`, `RhibNoneSkipped`, `RhibNoneForgotten` | type invariant and both safety invariants of the run `RhibIngest` |
| `RhibProofs` | `JoinTypeCorrect`, `MarginSuffices`, `FileFollowsFlags` | the same of the run `RhibJoin`, for any reach and a margin of at least twice the reach |
| `AisProofs` | `DecodesWhole` | in `AisDecrypt`, so under any reader, a message whose sequence number is its own is decoded whole or not at all |
| `AisProofs` | `ReceiverRefinesDecrypt`, `ReceiverDecodesWhole` | the receiver, with its two readers and the life of its process, implements `DecryptSpec`, and so inherits this |
| `AisProofs` | `ReceiverTyped`, `ReadsKeepLines` | type invariant of the receiver, and what the serial reader does to the lines, however reads cut them |
| `HovmollerPageProofs` | `PageTypeCorrect`, `ShowsOneAnswer`, `ColoursFit`, `LoadsWithinMaximum` | type invariant, what a plot at rest shows, its colours, and the size of what is requested |
| `TimeseriesPageProofs` | `TimeseriesTypeCorrect`, `OneIsChecked`, `LabelsFit`, `ShownWasCounted`, `ImplementsFigure` | type invariant, safety of preferences, labels and counts, and the refinement of `Figure` |

These are every invariant, action property and refinement that the passing runs check.

The inductive invariant of `MetIngest`, `IInv`, adds to the properties what a pass relies on:
a pass has a header and a column map (`Mapped`); the position in memory is at or after the
recorded one, which is within the file (`Positions`); a file of `Whole` is met with its header
(`WholeInv`); of a trusted file the header is known whole, and the lines by which memory is ahead of the
database are those of passes that could give no time (`TrustedInv`); and the rows a reading found, if none
was refused, are exactly those between its start and its end (`PassInv`). Without `TrustedInv` the step
`Finish` can record a position after any gap, which is what happens to a file that is not trusted. The
refinement follows from `IInv`: a `Finish` that commits is `Ingest`, one that rolls back for want of a time
is `Drop`, an `AppendLine` is `Grow`, all else a stutter.

The invariant of `NcExport`, `ExportInv`, says why a row inserted during a run is never flagged
by it: the range of times was fixed by rows already there (`RangeOld`), and rows come in order;
so what `Mark` may flag was selected, and is written by then (`Pending`). `ScriptAlone` says why
the script is harmless when it finds no run. `NoRowLost` and `CopyHoldsFlagged` assume `InOrder`.

The invariant of `CsvSync` has two halves. On the exporting ship, `Balanced` counts: the rows no line will
show, those of the open transaction included, and the torn part that waits for its victim are no more
than the lines broken off. On the other ship, `Reader`: the copy is the beginning of the file, and what
is behind the position is stored; or it is of the file the script removed, whose lines were the rows in
their order (`Earlier`), so that every row before the position is stored, and a shorter file has
nothing there that is not (`CaughtUp`, `InSequence`). That rows are repeated by broken runs alone
(`RepeatsByBreaksOnly`) needs a second count on top of it, `Repeats`: a row is settled when it is flagged, or
written by the open transaction, and a row that is not settled has one line less than the bound allows. So
the line it gets when it settles fits, and what unsettles it, a break or the script's DELETE under a run, adds to the
bound. Between a DELETE without a run and the removal of the file nothing is settled and the lines are still
there; then no run can write (`Scripted`).

The invariant of `RhibIngest`, `IngestInv`, says that the place a reading started from is the
recorded position or 0 (`StartKnown`), and is the place it would start from now unless the file
is announced again (`StartFresh`): so a reading that ends unannounced has seen the file as it is.
`Quiet` says that a process that does not watch has nothing announced, which the scan makes good.

The invariant of `RhibJoin`, `JoinInv`, says that while rows come in order an average is the beginning of
the navigation rows near its row (`AveragesBegin`, `LinesBegin`), so that what it lacks came later, and
that the last joined row is the greatest (`LastIsLatest`). The margin is enough since the last joined row
has a navigation row within reach: one that comes after it is later still, and so, of a
row two reaches before the last, more than a reach away. `RunWrites` and `FlaggedSaved` follow a row from
its selection through the run's lines to the file.

The invariant of `AisDecrypt`, `DecryptInv`, says that a fragment is filed under its own number and
its message's sequence number (`Filed`); then as many fragments as a message has, all of this
message, are all its fragments. It needs that no other message has the sequence number, and the run
`AisReceiver_again` shows why.

`ReceiverInv` adds what the two readers leave in between. Splitting a read at its newlines is not written as a
recursion but by the places of the newlines: `Nth(P, k)` is the `k`-th number of a set, which the proofs can reason
about (a recursive operator they cannot). The argument is about `c`, the number of lines of which the
newline has been read: what is in the buffer and on the wire are the lines after the first `c`, perhaps begun
(`Pending`), and what has been put is the first `c` lines in order, some of them doubled, or one more when the
buffer ends in a carriage return (`LinesInv`, `PutUpTo`), for then the reader has put the rest and keeps it,
and puts it again with the next read. That read has at least the newline, so no line is put a third
time. That fill bits are the last fragment's (`FillInv`) follows from the order in which
the lines were sent (`OrderInv`): the fragment that completes a message under its own number is the one behind
all the others. `LifeInv` says that a death leaves nothing behind, neither in the buffer nor among the partial messages.

The invariant of `HovmollerPage` follows an answer: the datasets are those of the answer that came last
(`LastAnswer`), the plot's columns theirs (`Plotted`), and when the redraws that were asked for have ended the
last one's labels and colour bars are shown too (`Finished`). `LoadsWithinMaximum` rests on `Allowed`, every
request sent has passed the check of its own count, and on a lemma about numbers: among the times from `S` to `E`
there are at most `(E - S) \div r + 1` multiples of `r` (`FewMultiples`), the one row that BETWEEN has more than
was counted. The invariant of `TimeseriesPage` says that the traces of
the plot are the datasets', along the axes now in use (`PlotFits`), and that what is stored under the shared
keys was saved from one checked button or is not there (`Saved`). `OfOneLoad`, that all datasets come of
the same load, makes the columns shown as many as that load has variables: the two maps from datasets and
from ships to columns are injective. For this the model assumes that the mark of an empty column is not a
column (`MarksAssumption`).

Only model-checked: the liveness properties (`RowsEventuallyStored`, `EventuallyExported`,
`EventuallyCopied`, `EventuallyAtOther`, `EventuallyInFile`, `RecordsEventuallyStored`,
`MessagesEventuallyDecoded`, `AnswerShownWhole`), whose proofs need ENABLED and fairness, which the
installed provers do not handle; and the four violations, each of which is a behaviour of a small
instance.

## Not modelled

* Status packets (`MonitorTemperature/`): encoding and decoding are a few lines without state, and the units
  exchange single datagrams that a checksum accepts or drops one by one. What is wrong there is found by looking:
  the clamp of `Hosts.py` 31 lets 65536 pass, which does not fit two bytes and ends the sender.
* `EOSDIS/`, `MISC/adcpJoin.py` (a oneshot service that a timer starts every five minutes),
  `GoogleDriveFileCounter/`, `Sync/`, `SSHTunnel/`: one sequential pass each, whose only state is which files exist; what they trust of those files is noted under the hazards of `PROJECT.json`.
* In the Hovmoller page, titles typed into the plot through Plotly's `editable`, and the check for a variable
  "None".
* The writers of the AIS receiver, the conversion of units and dates, colour maps, label texts and the place of
  the legend: formatting, or one statement for each item of a queue.
* The polling monitor beyond what it announces, and the inotify form of the MET monitor, which no unit uses.
* `public_html/development/js/hovmoller.js` is a copy of the page of `plot/`, for which `HovmollerPage` stands; so are the four
  units and two programs of the RHIB export for `RhibJoin`.
* Stateless PHP pages, installation scripts, the simulators and the unfinished `DB/monitor.py`.
* Vendored libraries (Plotly, d3, jQuery). `public_html/js/leaflet-src.js` and its module form, most of the repository's
  JavaScript by far, belong to Leaflet and no page of the repository loads them.
