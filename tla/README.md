# docsfinder in TLA+

docsfinder is a terminal program to browse random crates.  One thread draws a
table and reads keys; a tokio runtime beside it asks docs.rs for random crate
names and crates.io for the data of each crate.  This directory models the
program's control: the loop and the keys of the interface, the client's tasks,
their connection pools, the two channels between them, the filters with their
menu and their file, the notifications, the abbreviation of numbers and the
stream adapter.  TLC checks the modules on small instances.  TLAPS proves that
every safety property which holds in those instances holds in all: for tables
of up to the 20 rows that the standard library sorts by insertion, texts of any
length, any number of tasks and connections; and that the interface and the
client together behave as the interface does with an abstract client.  Liveness
stays with TLC.

Paths below are relative to the repository; line numbers in modules and
in this file refer to `src/tui.rs` and its siblings (in PROJECT.json with the
prefix `src/`).

## 1. The system

| part | state | operations | connected to |
|---|---|---|---|
| start-up (`main.rs`) | none | reads the user agent, creates runtime, client and interface; `max_recv` is 10 | creates the two channels |
| interface loop (`App`, `SendRecvState`, `UpdateIter` in `tui.rs`) | number of rows, entries, overflow, selection, counts of received and in-flight requests, notifications, menu, filters | draw, send requests, drain messages, poll, one handler per key | sends `()` over an unbounded tokio channel, takes `Result<Info, CrateError>` from a `std::sync::mpsc` channel |
| table (`Entries`) | a `Vec` of rows: an entry, a struck entry, a blank | insert, next and previous entry, mark for replacement, clear, resize | owned by `App` |
| filters (`Filters`, `CurrentMenu`, `SelectedFilter`) | a maximum age, a set of keywords, a text for each, a file | match an `Info`, edit, commit, load, save | read while messages are drained |
| notifications (`Notifications`) | a bounded list with ages | append, expire, resize | written by the loop, drawn |
| client (`Client`, `client.rs`) | `seen_crates`, two pools | `spin`, one discovery task per request, one fetch task per crate | takes requests, sends infos and errors |
| pool (`ConnPool`, `Connection`, `conn_pool.rs`) | lock-free queue of idle connections | get, create with timeout, invalidate, drop | shared by the tasks of one kind |
| HTTP connections (`connection.rs`, `discovery.rs`, `crates_api.rs`) | request sender, oneshot that reports the end of the connection | ask for a name, ask for a crate | leased from a pool |
| stream adapter (`hyper_tls.rs`) | none of its own | forwards reads and writes | under every connection |
| rendering and formatting (`tui.rs`) | none | rows, menus, footer, numbers, durations | |

What is hard here:

* **Stale counts.**  The loop remembers how many entries it has and how many
  requests are open, instead of computing both; `n`, `m`, `d` and `r` change
  the table behind these counts, and the drain computes the number in flight
  from a number of entries that is already out of date.
* **Blocking.**  `event::read` has no timeout.  Reached at the wrong moment
  it leaves rows empty until somebody presses a key.
* **The cursor.**  It is a number, kept across deletes, clears and shrinking;
  the functions that use it slice without checking.
* **Many tasks, shared pools.**  A connection may be dead when it is leased,
  its oneshot must not be polled twice, a request passes through two tasks,
  and the check of `seen_crates` is separate from the insertion.
* **Text and value.**  Each filter exists as a value and as the text it was
  typed in; only the values are saved, and the texts are made anew from them.
* **Crashes.**  The filters are saved when the program ends with `q`, into the
  file that held the old ones.
* **Hand-made accounting.**  The abbreviation of numbers rounds by hand, the
  stream adapter tells two kinds of buffer in unsafe code what is initialized.
* **Retries without end.**  Errors lead to a reconnect or to the same request
  again; both must keep the request and must not keep the connection.

What makes each part correct:

* table: entries are never lost while there is room, the cursor visits all
  entries and no others;
* loop: counts equal the table; it blocks only with a full table; a burst of
  requests never exceeds the vacant rows; overflow is used up before entries
  vanish; the table fills up if the client answers;
* pool: one owner per connection, no use after the end was reported, no more
  connections than tasks;
* client: every request is answered once or, without a panic, never dropped;
  errors arrive only while something is open; idle clients hold nothing; a
  crate whose race is over is not fetched again;
* filters: what is skipped does not depend on case or on how a text came
  about; what the menu shows is what filters; a restart gives what was saved;
* notifications: the newest survive, and all of them go in time;
* formatting: off by one digit at most, and never falling; adapter: the
  stream arrives, and nothing is claimed that was not written;
* program: a row is filled through all of it, and a crate that was struck
  out does not come back.

## 2. The modules

```
Entries --+-- EntriesCheck --+             CrateSource
          |                  |                |      \
          |   FiltersCheck --+                |       \  implemented by
          |   Formats -------+-- Units        |        \
          |   IoAdapter -----+      |      ConnPool     \
          |   Notifications -+   MCUnits      |          \
          |                                Exchange --> Client --> MCClient
          +--> Browser (INSTANCE CrateSource)              |
                  |     \                                  |
               MCBrowser  +--(INSTANCE)--> Docsfinder -----+ (EXTENDS)
                                               |
Filters --+-- FiltersCheck               MCDocsfinder
          +-- Session --> MCSession

EntriesProofs --+--> BrowserProofs     ConnPoolProofs (twice) --> ClientProofs
                |          |                                           |
                |          +---------> DocsfinderProofs <--------------+
                +--> UnitsProofs
FiltersProofs --+--> SessionProofs
```

`Entries` holds the table's operations as operators on a sequence of rows.
Row `r` is index `r - 1` of the `Vec`, and `NoRow = 0` is `None`.  `Ok(info)`
is the info, `Err(Some(_))` is `Struck` and `Err(None)` is `Blank`: which
deleted crate a struck row still displays changes nothing but the display.
`insert_info`, `next_entry_idx`, `prev_entry_idx`, `mark_for_replacement`,
`clear_all` and `resize` are `InsertInfo`, `NextEntryIdx`, `PrevEntryIdx`,
`MarkRow` with `MarkOverflow`, `ClearRows` with `ClearOverflow`, and `Resize`;
the ways in which they panic are `NextPanics` and `SlicePanics`.

The sort inside `resize` deserves a word.  Its comparator says `Less` for
(struck, blank) and also for (blank, struck), so it is not an order, and the
result is whatever the algorithm makes of it.  For up to 20 rows the standard
library uses an insertion sort; `SortRows` is the closed form of its result.
`EntriesCheck` states that it is (`SortIsInsertionSort`), which TLC checks on
all tables of up to five rows and `SortRowsSorts` proves for every table.
Larger tables are sorted by another algorithm, which may order them differently
or panic; they are not modelled.  `SmallSort` is that limit, and the assumptions
of the modules keep within it (`MaxRows` of `Browser` in `BrowserAssumption`,
`MaxTable` of `EntriesCheck` in `EntriesCheckAssumption`).  `main.rs` starts
with 10 rows, and `n` can be pressed until there are more than 20.

`CrateSource` is the abstract specification of the client, as the interface
sees it: `Ask`, `Take`, `Deliver` (one info answers one request), `Complain`
(an error answers none) and `Lose` (a task panicked).

`Browser` is the interface.  `pc` is the place of its thread in the loop
(`update_loop`, 747-932): `draw`, `send` (`update_iter`), `drain` (the loop
over `upd_iter`), `event` (the two polls and `event::read`).  Every message
that is drained is a step, so the client runs in between; `has_update` is kept
because the drain ends without counting when it saw no message.  The two polls
are one action, `PollTimesOut`: unless `Blocked` holds, no event may be there
and the loop goes on.  Each key is one action with everything its handler does,
the call to `set_received_count` included; the underflow of `m` and the
two panics of the cursor are states in which the interface has ended.  Keys
that change no modelled state are `OtherEvent`.

`ConnPool` has one action per step of `get_connection`, plus a failed use and
`Drop`.  Creating a connection takes time (`creating`), and other holders
return theirs meanwhile.  `valid` is the flag cleared by `invalidate`; `spent`
collects connections whose oneshot has completed.  `Exchange` adds what the
two kinds of task do with a pool: connect until it works, ask until it is
answered.  `Client` has two of them, `D` for discovery and `F` for fetching,
and the steps in between: `Names`, `Check` and `Insert` (`contains` and
`insert` are separate, as in client.rs 103-109), the hand-over to the fetch
task, and the panics.

`Filters` is `Filters::filter` and the conversions between keywords and text.
A text is a sequence of characters; `Words` is `split` with the empty parts
left out.  Which word is the reason of a rejection is only shown, so the words
of a crate are a set, `Candidates`.  `FiltersCheck` grows a typed text and a
text of a crate, in any of four places, one character at a time.  A typed
keyword is split at blanks and commas only, so it may hold a separator of names
and keywords (`-`, `_`, `:`).  `Found` says where such a keyword can stand: in a
description, between blanks, or as a whole keyword or category of the crate,
which are compared whole; never in a name.

`Session` is about the filters over the life of several processes.  `app` is
where the process is; `Launch` and `Start` are `main` and `App::new` with
`load_or_default`; `OpenMenu`, `SwitchField`, `ChangeMode`, `Type`, `Backspace`
and `Commit` are the keys of the filter menu; `Quit`, `CreateFile` and
`WriteFile` are `q` and `save_file`, which truncates the file before it writes
it.  `Crash` is possible everywhere.  The variables `kept` and `interrupted`
only record history.

`Notifications` has the queue with an age for each notification, and the
places of the loop that decide when they go: `Draw` removes stale ones, and
`PollTimesOut` decides whether there is a drawing.  A tick is the 100 ms of the
second poll (780): that poll does not time out before a tick has ended, and
nothing else in a pass takes as long.  Of the rest of the loop it keeps whether
the table is full.  `Formats` is the number that an abbreviated number stands
for, `Shown`.  `IoAdapter` nests both directions of `Io`, reads into one buffer
several times, and keeps what is in the memory beside what the two kinds of
buffer believe of it; the program itself only uses the first direction, over
TLS.  These three and the two `...Check` modules have nothing in common but
that each can be checked without the rest: `Units` runs one at a time.

`Docsfinder` is the program: the interface is `Browser` with `Info <- Crate`
and `asked <- Outstanding`, over the very channels of `Client`, which it
extends.  `SendRequests` puts the requests of a pass into the channel, `Receive`
is a message taken by the interface, `Serve` and `ServePanics` are steps of the
tasks, and all else is the interface alone.

### Abstractions

* In `Browser` and `Docsfinder` a filter is the set of infos it rejects.  The
  text fields of the filter menu only decide what Enter commits, so committing
  picks any member of `Rejections`, or keeps the present filters.  What lies
  behind this is in `Filters` and `Session`.
* In `Browser` notifications are counted; how long they have been shown is left
  to `Draw`, which removes any number of them.  `Notifications` has the ages,
  and there whether the table is full changes as it likes.
* humantime is external: in `Session` a duration text means what the constant
  `Meaning` says, and `Written` is a text with that meaning.  It is assumed
  that what humantime writes it reads back (`SessionAssumption`).
* `char::to_lowercase` is the constant `Lowercase`; that it maps letters to
  letters and is idempotent is assumed (`FiltersAssumption`).  `Lower` applies it
  letter by letter.  `str::to_lowercase` does otherwise for the capital sigma,
  which depends on its place in the word, and for the dotted capital I, which
  becomes two characters; texts with these two letters are left out.
* `Formats` computes on the numbers, not on strings: "1.2K" is 1,200.
* `Draw` moves a selection that lies beyond the table to its last row.  That is
  what ratatui's table widget does, the library being external; the source
  relies on it in `j`, `k` and `d`.
* An `Info` is identified with its crate.  Errors are told apart by whether
  `io_source` accepts them and whether the oneshot was read.
* A peer closes connections when it likes: every use may fail with `http`.
* The `Weak` reference in a `Connection` can always be upgraded, since every
  task holds the pool until after its connection is gone.
* A discovery answer without a location header makes the task ask again,
  which changes no state and is a stutter.
* The `unreachable!()` for a disconnected message channel (client.rs) is not
  modelled: `spin` keeps a sender for as long as the interface keeps the
  request channel, which is for the life of the program.

## 3. The runs

| run | instance | states | shows |
|---|---|---|---|
| `units` | all tables of up to 5 rows; all texts of up to 3 characters; 2,000 numbers around each change of unit; 4 notifications in 3 rows; a buffer of 4 and a stream of 6 bytes | 313,199 | `SortIsInsertionSort`, `ShrinkKeepsEntries`, `DownVisitsEveryEntry`; `TextsMeanKeywords`, `CaseDoesNotMatter`, `KeywordsAreWords`; `OffByOneDigit`, `Monotone`; `NewestFirst`, `NeverLingers`, `EveryNoteFades`; `DeliversStream`, `ClaimsAreTrue`, `NeverPanics` |
| `browser_keys` | 0 to 2 rows, 2 infos, 2 open requests, 2 overflow | 715,717 | `TypeOK`, `CountsExact`, `NoIndexPanic`, `BlocksOnlyWhenFull`, `BurstFitsVacancies`, `DeleteDrawsOnOverflow`, `OverflowLeavesToRows`, `SelectionStaysLive`, `RejectedNeverEnters` for any keys in any order |
| `browser_load` | 2 rows, 4 open requests | 210,395 | `FillsUp`: the table fills while the user looks around |
| `browser_grow` | 1 row, then 2 with `n`; filters that skip | | violates `FooterCountsEntries` (finding 1) |
| `browser_fewer` | 1 row | | violates `NoUnderflowPanic` (finding 2) |
| `browser_offers` | 2 rows, then 3 with `n`; filters that skip | | violates `DeleteOfferedOnEntry` (finding 3) |
| `pool` | 3 holders, 4 connections | 40,048 | `ExclusiveUse`, `SpentNeverReused`, `PoolBounded` |
| `client_tasks` | 2 tasks, 2 crates, 2 + 2 connections | 89,397 | `TypeOK`, `AsksOverGoodConnections`, `ReturnsConnections`, `SettledIsNotFetchedAgain`, and that `Client` implements `CrateSource` |
| `client_answers` | the same, no panics | 78,997 | `RequestsEndInInfo`, `AllAnswered` |
| `session` | 2 + 2 characters typed, 3 files to start from | 166,128 | `RestartKeepsPromise`, `ShownKeywordsApply`, `ShownDurationFilters` |
| `docsfinder` | 1 row, 2 tasks, 1 crate, 2 + 1 connections | 808,797 | that the program implements `Browser`, and `GoneStaysAway` |
| `docsfinder_load` | 1 row, 1 task, 2 crates, 1 + 1 connections | 48,607 | `TableFills`, through both channels, the tasks and the pools |

`TypeOK` of `ConnPool` is part of what `ClientTypeCorrect` proves and
`client_tasks` checks, for both pools.  A mutant of the code for each property
of a passing run (the operators called "a mutant of" in the modules) shows that
the property can fail in that instance.

### Bounds

* `MaxRows`: `n` is not pressed beyond it.  Two rows give a first, a last and a
  wrapping cursor, a struck row beside a blank one, a table that shrinks under
  the selection, and the empty table.  In `EntriesCheck`, five rows
  (`MaxTable`) make both kinds of vacant row occur several times on both sides
  of entries.  Both are at most `SmallSort`.
* `MaxAsked`: requests open at a time.  The loop repeats its requests on every
  pass without an answer, so the real number has no bound, and no property gives
  it one: `BurstFitsVacancies` bounds what one pass sends.  `browser_keys` has
  room for one full burst, or for a burst of one row repeated; `browser_load`
  for two full bursts, so that more answers come than there are rows and the
  overflow is used.  A loop at the bound waits before it sends, until
  an answer arrives; the runs with fairness provide one.
* `MaxWaiting`: a failure is reported only while fewer messages wait.  Infos
  have no such bound.
* `MaxOverflow`: items kept in the overflow.  `browser_load` sets it to
  `MaxAsked`, with which it never stops a message.
* `Task`, `Crate`, `DConn`, `FConn`: two of each.  Two tasks suffice for a race
  on a crate, for a queue that fills up while another connects, and for a
  connection that passes from one task to another.  In `pool`, four
  connections for three holders leave one to be created in every state.

`Client.cfg` uses the symmetry of tasks, crates and connections; it checks no
liveness.  `ClientAnswers.cfg` has the temporal property and no symmetry.

* `Key`, `Sign`, `MaxText`: both cases of a letter and every separator that
  the code knows; three characters give words between two separators, a
  separator between two words, doubled separators at either end, and keywords
  that hold a separator.
* `Starts`, `Window`: numbers from 1,000 before to 1,000 after every change of
  unit and some places where the decimal is rounded up to the next one.  TLC's
  integers end at 2^31; the theorems go on to 100 billion.
* `Note`, `Show`, `MaxRows` of `Notifications`: one notification more than
  there are rows, so that truncation takes effect; ages that cannot be told
  apart, two ticks beyond `Show`, are not counted further.
* `Capacity`, `MaxBytes`: a buffer that takes several reads, and a stream that
  fills it one and a half times.
* `KeywordKey`, `DurationKey`, `MaxKeywords`, `MaxDuration`: a typed keyword
  that is not lowercase and the comma; two durations and texts that are none.
  The text of a file may be longer than `MaxKeywords`; then it can only be
  shortened.  `EarlierFilters` holds filters with both fields and with one.
* `docsfinder` has one row and one crate for two tasks, so that the race for a
  crate and its return after `d` take place under the eyes of the interface;
  two crates would not fit.  `docsfinder_load` has a second crate, to answer a
  second request.
* `Room`, in `docsfinder_load`: since the loop asks again on every pass that
  hears nothing, and a slot or the channel of requests may be full at their
  bounds, a pass begins only while the requests of two passes fit, or when a
  message waits.  Without it a behaviour could stop at `MaxAsked` for a reason
  the program does not have.

Deadlock is checked in `pool`, `client_tasks` and `session`.  It is not in
the browser's runs and `docsfinder`, where `q` and a panic end the interface,
nor in `client_answers` and `docsfinder_load`, where everything stops when all
requests are answered, nor in `units`, whose inputs are bounded.

### Fairness

`LoadFairness` says that the thread of the interface goes on (`WF` of its loop
steps: none of them waits for anything but `event::read`, and that is not
one of them while `Blocked`) and that the client keeps answering (`WF` of
`ClientAnswers`), with crates that pass the filters.  The second is what
`AllAnswered` establishes for `Client`, and filters that reject everything
cannot fill a table.

`Fairness` of the client has weak fairness for what a task does by itself
(the runtime polls every task, and an attempt to connect has a timeout),
weak fairness for the interface taking messages, and strong fairness for the
luck that a retry loop needs: if some task can, again and again, be
connected, be named an unseen crate or be answered, then some task is.  It is
stated for some task, not for each, which is weaker.

`Units` has the fairness of `Notifications`, which says that the loop goes on
(`WF`) and that events do not come so fast that no time passes (`SF` of
`Wait`: a tick ends again and again if it can again and again).  A key
pressed every few milliseconds would draw each time, so nothing hangs on it
but that time passes at all.

`LoadFairness` of `Docsfinder` is the loop's weak fairness together with
`Fairness` of the client, without its assumption that the interface takes
messages: here the loop does.

### Findings

1. `browser_grow`.  After a drain, `inflight_count` is set to the number
   of rows minus the *old* `received_count` (766-770), so it counts requests
   just answered as still in flight.  It is reset on a pass with a full table
   (100-103), or computed anew when more messages arrive.  If `n` is handled
   before that pass, the new row is taken for one that is in flight: nothing is
   sent for it, the loop polls for ever, and the row stays blank although the
   footer counts it (1119).  A crate that the filters skip does the same
   without any key: it answers the request and fills no row, but its request is
   still counted (TLC finds this trace with `MaxRows = 1`).
2. `browser_fewer`.  `m` subtracts one from `max_screen_entries` without a
   check (854); at zero rows the program panics.
3. `browser_offers`.  `m` sorts and cuts the rows and leaves the selection where
   it was (853-859).  With a vacant row above it the selected entry moves up, and
   the selected row is blank or struck: the footer offers "d: delete entry"
   (1073-1080) although `d` does nothing there (262), and `v` opens an empty
   window.  Drawing only clamps a selection beyond the table; `TypeOK` and
   `NoIndexPanic` hold all the same, and `SelectionStaysLive` is about `d`, `r`
   and drains, not about `m`.

Two faults have no run of their own.  Enter on a text that is no duration does
nothing (426), and the empty text is none: once a maximum age is set it cannot
be removed in the program, only replaced, and the next start finds it in
`filter_data.bin`; the field shows nothing while crates are skipped for it.
`ShownDurationFilters` is what remains true.  And in `main` the argument of
`unwrap_or` (15) is evaluated in any case, so the program asks for a user agent
and waits for a line also when `CRATES_USER_AGENT` is set, which line 24 offers
as the way to avoid that.  `Launch` in `Session` therefore always prompts.

`format_downloads` ends in a `todo!()` from 100 billion downloads on
(`Unfinished`), and its decimal is rounded up from 50 thousandths on, not from
half of the digit: 1,150 and 1,100 are both "1.2K".  `OffByOneDigit` is what
remains true.

## 4. The proofs

`EntriesProofs` has the lemmas about the table's operators: what each returns
is a table (of the right length), cursor movements end on an entry or nowhere,
inserting never lowers the number of entries.  `Min` and `Max` of the community
modules are `CHOOSE` expressions; that their choice exists comes from the
well-foundedness of the naturals.  That the sort picks existing rows (`KthType`)
is a counting argument: the rank of a row among a finite set of rows is
injective, hence onto `1 .. Cardinality`.  `MovesUndoEachOther` says that
`NextEntryIdx` and `PrevEntryIdx` are inverse on the entries of every table.

`BrowserProofs` proves, for up to `SmallSort` rows and any infos, filters, open
requests and messages, from `RowAssumption` and `BrowserAssumption` alone:

| theorem | statement |
|---|---|
| `Invariance` | `Spec => []IInv` |
| `TypeCorrect` | `Spec => []TypeOK` |
| `CountsAreExact` | `Spec => []CountsExact` |
| `NeverIndexPanics` | `Spec => []NoIndexPanic` |
| `NeverBlocksOnVacantRows` | `Spec => []BlocksOnlyWhenFull` |
| `BurstsFit` | `Spec => BurstFitsVacancies` |
| `OverflowIsNotDropped` | `Spec => OverflowLeavesToRows` |
| `DeletesDrawOnOverflow` | `Spec => DeleteDrawsOnOverflow` |
| `CursorStaysOnEntry` | `Spec => SelectionStaysLive` |
| `RejectedStayOut` | `Spec => RejectedNeverEnters` |

The invariant is `IInv == TypeOK /\ Counted /\ SelectionDrawn /\ NoIndexPanic`.
`CountsExact` is not inductive: during a drain it allows the count to lag, but
a drain that received nothing ends *without* counting, so `Counted` says that
the count can lag only once `has_update` is set.  `NoIndexPanic` needs
`SelectionDrawn`: `m` leaves the selection beyond the table, but only until the
drawing that precedes the next read of an event, so the selection lies within
the table in the three other places of the loop.  `BlocksOnlyWhenFull`
follows from `Counted`, by counting: as many entries as rows leave no vacant
row.  `BurstsFit` needs `Counted` at `send`: received rows are not asked for
again, so a burst is at most the number of vacant rows, whatever
`inflight_count` is.

The proof that a step keeps `IInv` has one lemma per action, and `StepIInv`
puts them together.  TLC checks `IInv` as well, in the instance of
`browser_keys`, before anything is proved about it.  The four action
properties at the end of the table rest on `TableActions` and `TableStep`: a
step leaves the table alone (`Keeps`), fills a row (`Adds`), strikes one
(`Deletes`), clears it (`Clears`) or resizes it (`Shrinks` and growing),
and the properties are argued for each of these.  `RejectedStayOut` counts the
places that hold an `Info`: only receiving it adds one (`CopiesStep`).  Popping
an overflow item takes away the place it was in (`MarkCopies`, `ClearCopies`),
and the sort sends different ranks to different rows (`KthIsInjective`), so
that the rows it keeps hold no entry twice that the table held once
(`CutCopies`).

`ConnPoolProofs` proves, for any number of holders and connections, from
`PoolAssumption`:

| theorem | statement |
|---|---|
| `PoolInvariance` | `Spec => []PInv` |
| `OneOwner` | `Spec => []ExclusiveUse` |
| `NoReuseOfSpent` | `Spec => []SpentNeverReused` |
| `BoundedByTasks` | `Spec => []PoolBounded` |
| `PoolTypeCorrect` | `Spec => []TypeOK` |

`PInv` adds one fact to the type invariant and the three properties: a holder
that is creating a connection uses none (`CreatorsUseNone`).  Without it,
starting to create one when the queue is empty could exceed the bound.  That a
spent connection is not reused needs `ExclusiveUse`: an end that one holder
reads must not concern a connection that another uses or the queue keeps.

`ClientProofs` proves, from `ClientAssumption` (any finite set of tasks, any
crates and connections):

| theorem | statement |
|---|---|
| `PoolsAreConnPools` | `Spec => DP!Spec /\ FP!Spec`, each pool of the client is a `ConnPool` |
| `ClientTypeCorrect` | `Spec => []TypeOK` |
| `AsksWell` | `Spec => []AsksOverGoodConnections` |
| `ReturnsAll` | `Spec => []ReturnsConnections` |
| `ClientIsCrateSource` | `Spec => ImplementsSource` |
| `NoRequestDropped` | `AnswerSpec => RequestsEndInInfo` |
| `RaceEnds` | `Spec => SettledIsNotFetchedAgain` |

The first one makes the theorems of `ConnPoolProofs` available for both pools
(the module is instantiated once for each).  The rest follows from `CInv`:
the types, what each task owns at each place (`DiscoveryOwns`, `FetchOwns`), and
that a slot serves one request at a time, for a crate once one was named
(`OneRequest`).  For the refinement, `asked` is mapped to `Outstanding`, the
requests in the channel plus the tasks that look for a crate or fetch one.
Spinning and inserting move a request from one to the next and leave the sum as
it is (this is where `OneRequest` is needed: a slot that did both would be
counted twice); only delivering and panicking lower it.

`DocsfinderProofs` proves `ProgramIsBrowser`, `System => ImplementsBrowser`,
from the assumptions of both sides, and `GoneForGood`, `System =>
GoneStaysAway`; and, from these, that what is proved of the two sides holds of
the program.  With the first, `BrowserProofs` holds for the program, for any
number of tasks, crates and connections: the module is instantiated once more
(`BP`), and `SameInit` and `SameStep` say that its copy of `Browser` is the
interface of `Docsfinder`, so that `BrowserInvariance` follows.

The argument: `CInv` and the pools' invariants also hold in `System`
(`SystemInvariance`), where the only new step is `SendRequests`, several
requests at once, which no step of `Client` is; it raises `Outstanding` by as
many as `Browser` adds to `asked` (`RequestsOpen`).  A task's step is a stutter
of the interface or its `ClientStep` (`ServeIsClientStep`), by the lemmas that
already made `Client` a `CrateSource`.

What `BrowserProofs` proves of the interface with an abstract client, and
`ClientProofs` of the client with an abstract interface, is thereby proved of
the two together:

| theorem | statement |
|---|---|
| `ProgramLoopIsRight` | `System => [](UI!CountsExact /\ UI!NoIndexPanic /\ UI!BlocksOnlyWhenFull)` |
| `ProgramTableIsRight` | `System =>` `BurstFitsVacancies`, `OverflowLeavesToRows`, `DeleteDrawsOnOverflow`, `SelectionStaysLive` and `RejectedNeverEnters` of `UI` |
| `ProgramTasksAreRight` | `System => [](AsksOverGoodConnections /\ ReturnsConnections)` and `SettledIsNotFetchedAgain` |

`GoneForGood` joins both sides: a gone crate stays gone (`GoneStep`), because
the race for it is over (`StepRaces`), a task keeps the name it fetches
(`FetchersKeepNames`) and only such a task sends it (`Arrivals`); so the
interface never receives it, and without that no copy is added (`CopiesStep`).

`SessionProofs`, for any keys, texts and durations:

| theorem | statement |
|---|---|
| `RestartsRight` | `Spec => []RestartKeepsPromise` |
| `DurationsShownRight` | `Spec => []ShownDurationFilters` |
| `KeywordsShownRight` | `Spec => []ShownKeywordsApply` |

The first is inductive with `FileAtPlace`: while the file is being written it
is torn and the promise is suspended.  The second needs `Durations`, that every
maximum can be written, since `Start` shows what the file holds.  The third
needs `KeywordsInv`: keywords in force or in the file are finitely many,
lowercase, not empty and without a separator, because only then does the text
that `Start` makes of them mean them again (`TextsOfMean`, below).  Everything
that `Commit` takes from a text is like that (`KeywordsArePlain`).

`FiltersProofs` has what is true of texts of any length.  Induction comes
first, as a statement about sets, since the provers cannot instantiate one about
an operator: `LeastNumber` and `EveryNumber` follow from the
well-foundedness of the naturals.  From them, `Recursion` says that a function
defined by recursion over the numbers exists, and `SiftedIsThere` and
`SiftedMembers` say the same of a walk over a sequence that keeps some of its
members, and what it keeps.  (`SelectSeq` hides its recursion from the
provers, which is why such walks are written as recursive functions here.)
The rest is about `Words`: lowering the case of a text lowers that of its
words (`LowerWords`), splitting at some separators and then at the others is
splitting at all (`SplitTwice`), and the words of words joined by a separator
are those words (`JoinedWords`).  `TextsOfMean` is the last with keywords: every
text that may be written for a set of keywords means that set.

`UnitsProofs` proves what `units` checks, for each part of `Units`:

| theorem | statement | by |
|---|---|---|
| `SortRowsSorts` | `Spec => []SortIsInsertionSort` | `SortOneMore`, induction |
| `DownReachesEveryEntry` | `Spec => []DownVisitsEveryEntry` | ranks of rows |
| `ShrinkingKeepsEntries` | `Spec => ShrinkKeepsEntries` | `TopmostByRank`, `CutKeepsEntries` |
| `TextsKeepKeywords` | `Spec => []TextsMeanKeywords` | `TextsOfMean` |
| `CaseNeverMatters` | `Spec => []CaseDoesNotMatter` | `CandidatesInLowerCase` |
| `KeywordsRejectWords` | `Spec => []KeywordsAreWords` | `FoundInPlace` |
| `NotesAreYoungestFirst` | `Spec => []NewestFirst` | `NotesInv` |
| `NotesDoNotLinger` | `Spec => []NeverLingers` | `NotesInv` |
| `OffByAtMostOneDigit` | `Spec => []OffByOneDigit` | `ShownOff` |
| `NeverFalls` | `Spec => Monotone` | `ShownRises` |
| `StreamIsDelivered` | `Spec => []DeliversStream` | `IoInv` |
| `UnsafeClaimsHold` | `Spec => []ClaimsAreTrue` | `IoInv` |
| `SetFilledIsSafe` | `Spec => []NeverPanics` | `IoInv` |

* The sort.  `SortOneMore` compares the closed form of a table with that of the
  table one row longer, case by case of what the row is: this is the step of
  the insertion sort, which holds although its comparator is no order.
  `EveryNumber` does the rest.
* The cursor.  After `k` moves it is on the entry whose rank is that of the
  first one plus `k`, wrapped (`NextByRank`), and every entry has a rank.
* Shrinking.  `Topmost` lists the entries of a table in their order, that is
  by rank; `CutKeepsEntries`, in `EntriesProofs`, says which rank is where
  after the sort and the cut.
* Notifications.  That none outlives `Show` by more than a tick is not
  inductive: `Wait` would age one that is a tick over already.  `NotesInv` adds
  that none is stale while messages are drained or an event is waited for in a
  pass in which no tick has ended.  It also needs that ages do not decrease
  along the queue, or truncating would not take the oldest.  TLC checked
  `NotesInv` before it was proved.
* The adapter.  `IoInv`: both claims, that what is filled is initialized, and
  that bytes used and bytes in the buffer make up what was sent.

The constants of the unit modules are assumed to be what they stand for:
`MaxTable` is at most `SmallSort` (`EntriesCheckAssumption`),
`Upper` gives a letter with the same lower case (`FiltersCheckAssumption`), the
keys are characters and a keyword in an earlier file is one that the program
could have written (`SessionAssumption`).

`EntriesProofs` has the lemmas about ranks that these proofs share: which row
has rank `k` (`KthOfRank`, `KthIsMonotone`), how that changes with one row
more or less (`KthOfOneMore`), and what the sorted table holds at each row
(`SortRowsValues`).

Only model-checked is liveness: `FillsUp`, `AllAnswered`, `EveryNoteFades` and
`TableFills`, whose proofs would need the fairness of actions and with it
`ENABLED`.  So are the three properties that do not hold (findings 1 to 3).
Everything else that a run checks is stated by a theorem.

## 5. What is not modelled, and what is planned

Not modelled:

* layout: `update_constraints` and all `render_*` functions.  They decide how
  rows look and nothing else; the one state change of drawing, the clamped
  selection and the stale notifications, is in `Draw`.  (The widths of columns
  are recomputed only by `insert_info`, so an entry from the overflow may be
  wider than its column, and a terminal narrower than eight columns makes
  1139 underflow; neither is stated as a property.)
* `format_time_duration`, which puts an age into words.
* opening a browser with `g` or `o`: a process is started, no state changes.
* the terminal, its set-up and its I/O errors, but for the `Crash` of `Session`.
* TLS, DNS and the HTTP library; their failures are in `ConnPool` and `Exchange`.
* the conversion of crates.io's data field by field (`crates_api.rs`): one
  `Info` is one crate.
* writes, flushes and shutdown through `Io`, which are handed on unchanged.
* sorting of tables of more than 20 rows (`SmallSort`), where the standard
  library uses another algorithm on a comparator that is no order.
* `format_downloads` from 100 billion on (`todo!()`), the repeated bursts of
  requests to a client that does not answer (107), and a crate that crates.io
  never has (client.rs 132), which is asked for without end: the modules show
  where these happen, and no document says what should.

Planned: `docsfinder` with a second crate and filters, which exceeds what can
be explored in minutes (that its properties hold there is proved; that its
liveness does is not checked).
