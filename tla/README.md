# A verification development for rtt-visualizer

rtt-visualizer is a Spring web application that decodes real-time traffic
payloads (TPEG and RTIC), matches their location references to a road map, and
shows the result in a browser; it can also build TPEG files from roads picked on
the map. The repository has no tests. This directory holds TLA+ specifications
of its core, TLC configurations that check them on small instances, and proofs
checked by TLAPS. Java paths below are relative to
`src/src/main/java/cn/com/cennavi/`.

## Inventory

| component | state | operations | interacts with | what makes it correct |
|---|---|---|---|---|
| parse services: `visualizer/service/parsedata/` | none that outlives a request; per request a message list, a latch, futures, a result | `execute` of `ParseTPEGNoTMCService`, `ParseRTICService`; `Command.call` on pool threads; `ParseTPEG2FileService` writes bytes to a file | the codec, the matchers, a thread pool of the flweb framework | each located message is matched once; the answer keeps the request's order; the request ends |
| location tables: `tpeg/map/dao/LPInfoContainer` | a static map from version to container; a container has the rows by table and location, the list of all rows, an R-tree over the list | `getInstance`, `loadData`, `readPosLPsInGrids`, rectangle queries | filled by `LPTableParser` on the scheduled thread, read by request threads | one container per version; index and table agree; readers see rows of their version |
| road cache: `tpeg/map/dao/NRoadLoader` | a static instance; its `citys`, by version and table | `instance`, `execute` (look up, or read, sort, put), clone on return | reads the containers; called by TMC matchers and by road queries | one cache; a city comes from its version's rows; a road's points are in driving order |
| loader task: `visualizer/common/dataloader/` | the static `parserList`; in the framework, the time stamps of files and the published tables | `MapLoaderTask.load` every ten seconds: chooses a parser for each key once, then lets each read its file; parsers of LP, MT, CT, R and N files, the one of R files for `admin.` keys too | publishes to `CommonFileMapContainer`, from which requests take tables and cast them | a consumer finds the table type it expects, whole; false of `admin.all` |
| TMC matchers: `tpeg/decoder/match/impl/Tmc*` | locals | `match`, `run`, `splitShape`, `doLengthSpatialResolution` | road cache, live table, MT and R tables | the walk stays on the road; each section gets the shape of its links |
| OpenLR matchers: `.../Olr*`, `IOLRDecoder`, `visualizer/common/olr/` | locals | `match`; an HTTP call per message | external OLR server | sections cover the decoded links in order |
| RTIC matchers and translators | locals | one lookup per item | CT and R tables | |
| road queries: `visualizer/service/createfile/query/` | the static `cacheRoad` of `RoadByCircleQuery`, by message id | circle, id and route queries | index and road cache, MT and R tables, a routing engine | an answer marks its circle and nothing else; the cache holds whole roads of the version asked for |
| file creation: `visualizer/service/createfile/` | files on disk, named by the clock | `CreateFileByJson`, `GetRoadServiceImpl` (`createTfpMsg`, `createTecMsg`), `CreateFileUtil.saveTpegFile` | codec, disk | every accepted message is in the file; a URL serves the file of its own request |
| simulated requests: `visualizer/service/simulaterequest/` | none | proxies to four remote services | HTTP | a failure is not taken for a session |
| data quality: `quality/service/` | none | rectangle queries, comparison of two payloads | tables, parse services | |
| tools and utilities: `tool/file/`, `visualizer/util/` | none | MID/MIF files, line thinning, lengths | | |
| authoring page: `createfile_step1_page.js` | items by location, rows, overlays | rows of a location, submit, create | road queries, `GetRoadServiceImpl` | the message decodes to what was entered |
| JSON files page: `createfile_usefile_step1_page.js` | files read so far, by name | choose, `onload`, `validate_msg`, create, download | `CreateFileByJson` | what is checked, posted and saved is what was chosen |
| result page: `parser_rttdata.js`, `decode_tomap.js`, with the vendored bootstrap-table | checked rows, page number, search text, overlays, Output button, bytes of the payload | check, page, sort, search, select tree nodes, Output | parse services, `ParseTPEG2FileService` | rows checked, drawn and written are the same rows |
| simulate pages: `simulate_request_page.js`, `parser_rttdata.js`, `jquery_mask.js`, `html/simulateRequest/` | pieces of html in one document, masks, fields found by id | `next_click`, `last_click`, INIT SESSION, GET MESSAGE | simulated requests, parse services | sessions, protocols and versions of two services never mix; something can always be clicked |
| data quality page: `dataquality/dataanalysis_page.js` | checked links | searches, drawings | `quality/service/` | |

JavaScript paths are relative to `src/src/main/webapp/WEB-INF/view/js/project/`.

The hard behaviours are where threads meet: the pool of one request (latch,
futures and result have different owners), and the static maps that every
request and the loader share without a lock. In the browser it is answers that
arrive late: no page ties an answer to the request, the file or the piece of
html it belongs to. On the way of a message from author to map it is long chains
of conversions, each written on its own. `PROJECT.json` lists each hazard at
its line.

## Plan

1. `DecodeJob` over `DecodeService` - one request and its pool (done, proved).
2. `RoadCache` - tables, loader and cache under concurrency (done, proved).
3. `RoadOrder` - the ordering of a road's points, against a reference (done,
   proved).
4. `TfpMessage` - a traffic message from the page through encoder and matcher
   back to the map (done and proved for TMC messages with whole-location and relative
   sections; absolute sections, the debug variant and OpenLR sections are next).
5. `RoadQuery` - `RoadByCircleQuery.cacheRoad` under concurrent queries of two
   versions, with the tables as `MapLoaderTask` publishes them (done, proved).
6. `FileTemplate` and `CreateFromFiles` - JSON files: the page's check against
   what the service reads; asynchronous reads; names from the clock, delete,
   create, write, answer (done; the second proved).
7. `ResultTable` - the table of decoded messages, its map and its output, with
   overlapping requests (done, proved).
8. `SimulateSession` - the simulate pages: navigation, sessions, late answers
   (done, proved).
9. Left: a match that reads city and table of different revisions; OpenLR
   sections in messages; the TEC form; the data quality page.

Abstract specifications: `DecodeService`, which `DecodeJob` implements (checked
and proved); `Legal` in `FileTemplate`, the meaning the page's templates suggest,
against which the page's check and the service's reading are compared; the road
of the file itself, of which `RoadOrder` returns a stretch; the author's message,
which `TfpMessage` returns or distorts. A cache that is a function of its key is
what `RoadCache` and `RoadQuery` fail to be; their properties name what is left
of it. Every property
of a passing run that is not a liveness property is now a theorem, and for
`DecodeJob` the safety half of its liveness too. Left to prove is the like for
`RoadCache` and `RoadOrder`: that a thread that has not ended always has a step to
take, and a bound on the steps.

## Modules

### DecodeService and DecodeJob

`DecodeService` is what a client may rely on: a request is answered at most
once, or fails; each located message is matched once (`Give`); the answer has all
of them in the order of the request, with a message or null, and leaves out only
those whose matching was lost to a Java `Error`. `given` says what matching gave,
so that `Deliver` determines the answer.

`DecodeJob` is `ParseTPEGNoTMCService.execute` with its inner class `Command`
(`ParseRTICService` has the same structure). A message is abstracted to whether
`todo` is called for it. `pc` is the request thread's place:

| in the code | in the model |
|---|---|
| decoding, choice of the pool, the latch (44-84) | `Receive`, or `Reject` |
| the loops over tfps and tecs (86-108), `todo` | `Skip`, `Submit`, `MatchInline`, `EndDispatch` |
| the polling loop (109-117) | `LatchOpens`; looking at a positive count changes nothing |
| `Future.get` for each future (118-128) | `Gather`, guarded by the future being set |
| a pool thread (external) | `Take` |
| `Command.call`: match, catch, finally, return (161-171) | `Match`, `CountDown`, `SetFuture` |

What `match` does is the outcome it gives: a message, an exception (inline it
leaves `execute`; in the pool `call` makes it null), or an `Error` (kept by the
future, dropped by `Gather`). A null payload field or a missing table shows as
such an exception. An inline `Error` leaves `execute` just as an exception does.

### RoadCache

Two kinds of threads run in it. Readers are request threads inside
`NRoadLoader.instance().execute(...)`; the `Task` is the scheduled thread that
loads changed location files. Each read and write of a shared static is a step
of its own: the test of `instance` and its assignment, the test of `citys` and
its replacement, the lookup of a container and its registration, each row that
is inserted, each row that an iterator passes. A row is named by its location
and the revision of the file it came from, which is what the properties tell
apart. `AbortLoad` is a malformed row: `LPTableParser.putData2Container` logs it
and the framework goes on. `Publish` is the operator, external.

Left out: what two simultaneous `put`s can do inside a `HashMap`; a second
location table number in one file; a second file in one version's directory.

### RoadOrder

`getSortedLPMap` for one group, called once per direction: `Group` keeps the
point without a next one, `PosDirFirst` is `getPosDirFirstLP`, `Walk` one turn of
the loop along `prevPt`, `PutRoad` its end, `CleanRoads` the pass over the roads
in `execute`. The road of the file is a variable of its own, against which the
properties compare; the table holds any non-empty part of it, in any order, as
the iteration order of a `HashMap` is not the driving order. Links of the file
are those of a road or a ring: a faulty file whose links close a ring that does
not contain the head would keep the walk from ending, and is not an input here.

### TfpMessage

One message from the author to the map and back:

| in the code | in the model |
|---|---|
| `do_submit_formdata_tfp_tmc`, `do_pop_submit` in `createfile_step1_page.js` | `Submit`, with `Cut` for the rows' shapes; `SubmitThrows` when cutting fails half-way |
| `function_to_step3_createfile`: goes over an object keyed by location | `Create`: the items ascend by location number |
| `createTfpMsg`, `structSection`, `sortList` | `structSection`, once for each item, with `sortList`; `LocID`, `Extent` |
| saving, and opening with a version | `Save`; `known` may be a shorter road |
| `match`, `getIndex` | `NotLocated`, or the walk |
| `run`: the stretch (139-171) | `WalkThrows` or `Walk` |
| `run`: the sections (173-203), `splitShape` | `SectionTMC`, `SectionRelative` |
| `run`: results and catch (205-227) | `ShowResults`; `outcome` "error" |

An open road's first entry has no links (`Unlinked`): its shape is empty, and a
relative section for it, which only items out of order or a shorter road can
bring about, makes a part with a null for a point. `ShowResults` may then fail, as
`cutPointByAngle` is a library's and what it does with a null is not known.

Geometry is one-dimensional: a location's links are a straight line and a
vertex is its distance from the beginning, so the share `t` of a segment is exact.
The loops of the code that accumulate are written as recursive functions
(`ToEnd`, `Cut`) or as what they stop at: `Until` and `Beyond` are the number of
vertices a cut passes, from the beginning in the page and from the end in
`splitShape`; `Changes` are the rows that `sortList` keeps; `Ascending` is the
order in which a JavaScript object lists numeric keys.
Rows need not use up a location's length: a popup that is opened again
(`load_infowindow_event`) sets every row to the whole length and the rest to 0.
Left out: speeds, links missing from the tables, locations outside table 32,
the number `createLRC` writes whatever the area of the road, and a failure while
the file is saved, after which there is nothing to open (`CreateFromFiles` has the
steps of saving). The start of an open road cannot be submitted.

### RoadQuery

`RoadByCircleQuery.query` of several clients, with the task that publishes the
tables. A road is an object in a heap, because what matters is who shares it; it
is named by the client that made it, what for (the cache or an answer) and the
message id.

| in the code | in the model |
|---|---|
| `MapLoaderTask.load` 40-58, 59-61 | `ChooseParsers` with `ParserOf`, `Read` |
| `query` 57-82: tables, city, index | `Query` |
| the loop over the points of the circle, 84-92 | `NextPoint`; the second direction follows in `MarkItem` |
| `newRoad`: the answer's map, the cache (102-103) | `InResult`, `InCache`, `NoCityRoad` |
| a new road, a point's item, `put` (108-139) | `Build`, `PutItem`, `PutRoad`; `NoTable` throws |
| `clone`, marks (140-151) | `CloneRoad`, `MarkItem` |
| return, and the framework's writing (external) | `Finish`, `Answer` |

`Points` and `City` are constants: what an index and a cached city hold while
tables change is the subject of `RoadCache`, which shows that they may differ,
and so they may here. Every point has links, so that a missing table throws at
the first one. `HashMap` operations are atomic, as in `RoadCache`. A key is the
sequence of its parts between dots; `ParserOf` is the loader's choice by prefix,
`CastOf` the class that the services cast the table to, wherever one is looked up.
`RoadByIDQuery` and `RouteQuery` keep nothing between calls and are left out.

### FileTemplate and CreateFromFiles

`FileTemplate` has three readings of one JSON message: the page's
`validate_auto` with its templates, the service's `createMMC`, `createLRC`,
`createTFPData`, `createTECData`, and `Legal`, which is the reference. JSON
values are records with a type; what a conversion accepts (`getInt` of a
missing key, `null` as an object) is modelled, a numeral in a string is not an
input.

`CreateFromFiles` has the page and the service around them. What the check makes
of a message, whether the service can make it and whether it is complete are its
constants, `Checked`, `CanCreate` and `IsComplete`; `MCCreateFromFiles` computes
them with `FileTemplate` (`validate_message`, `Creatable`, `Complete`).

| in the code | in the model |
|---|---|
| choosing files, `FileReader` | `do_jsonfiles_init`, `onload`, `onerror` in any order; `Stored` keeps one text for a name |
| `validate_msg`, the posting timer | `do_create_tpegfile`, `Post` |
| `CreateFileByJson.query`: messages, name | `Saved`, the messages before the first faulty one; `Name` |
| `saveTpegFile`: delete, create, open, write | `Delete`, `CreateNewFile`, `Open`, `Write`, `Fail`; a deleted file that is open goes on to exist |
| download, a second after the answer | `Download` |

### ResultTable

The page of decoded messages, a parse page or a simulate page. The widget has
the rows (`all`), the rows of a search (`view`), the page number and the checked
rows; the map has overlays (`drawn`); the payload is a hidden field (`value`);
`posts` are the requests in flight. `CheckAll`, `GotoPage`, `onSearch` and
`onSort` follow bootstrap-table, from the lines that `map` names: `resetRows` in
`updatePagination` takes checked states away and no handler hears of it.
`SelectInTree` is the handler of a row's tree; its loop counter is declared
twice, so that behind a section it goes on from the section's number
(`treeNext`). `do_ouput` and `Written` are Output and
`ParseTPEG2FileService.execute`. A payload is a short list of messages with id,
type and number of overlays. Rows that are equal in the column sorted by may
come in any order: `initSort` is the set of possible tables. `Visited` is the
least set of places that the tree's loop can reach, `Written` says how often each
message is written.
Left out: a change of the page size (10 to all rows), which resets the checked rows
as going to another page does, and the switches of the widget that change only
its looks. `fileSelect` is the moment at which the asynchronous `FileReader` has read
the file; what the page shows between the choice and that moment, and the type of
the file, which is set with the choice, are not modelled.

### SimulateSession

Four services, a first and a second page for each, in one document (`dom`).

| in the code | in the model |
|---|---|
| `next_click`: mask, load, callback | `OpenService`, `NextStep`; `Loaded`, `LoadFails` |
| `last_click`: fade out, remove, unmask | `last_click`, `Removed`, `Unmask` |
| `$("#id")`, `val`, `attr` | `Fields`, `Val`, `Write`: the first element with the id, or none |
| `initSession*` and its answers | `initSession`, `SessionOpened`; `SessionFails` when the service failed, `PostFails` when the POST did and no callback runs |
| `getMessage*`, `decodeTpeg` | `getMessage`, `MessageReceived`, `MessageFails`, `Decoded` |

A session stands for its id and its url. The mouse is the only input, and nobody
clicks on a page during the 400 ms it fades: the code does not prevent it, and
NEXT STEP on a page that is fading would leave a second page above the menu.

## Runs

| run | question | bounds |
|---|---|---|
| `decode_job` | Is the latch exact, are only finished commands collected, does the answer implement `DecodeService`, and which requests end? | requests of 0 to 4 messages, threshold 2, two pool threads: both modes occur, commands queue behind busy threads, overtake each other, and every position can be the one that strands the request |
| `road_cache` | What never changes again once the races of creation are over? | two readers and the loader on one version, two revisions of which the second drops a row: any two of the three threads race at each shared variable |
| `road_cache_versions` | Do cities keep to their version, does the index cover the table, does every request end? | one reader and the loader, two versions that share a location |
| `road_single` | Is `NRoadLoader` a singleton, as its comment says? | two readers; TLC finds two objects |
| `road_order` | Is the sorted road a longest stretch of the real one without a gap, does the other direction mirror it, does the walk end? | open roads and rings of one to five points, every part of each in the table, every order: both ends missing, a gap, a ring with one point missing and the whole ring all occur |
| `single_point_road` | Are roads with one point deleted, as the comment in `execute` says? | up to three points; TLC finds one that stays |
| `tfp_message` | Which messages come back as they were entered? | three locations numbered in every order, on a road and a loop, submitted in any order and number; one to three rows of two los, equal neighbours included; a version without the road's first point; a row that makes the page throw, rows longer than the location |
| `page_rows` | Does the page draw a row over the length entered for it? | one location; TLC finds 150 metres drawn as 100 |
| `road_query` | Can every service cast the table it finds, are an answer's marks its own, is the shared cache whole at every moment, does it ever change? | two clients, two versions that share a road but not its points, a point whose group the city does not have, a circle inside and one around the road, the keys of both versions, a `map.n.` key, which is a `map.` key too, and `admin.all`, published in any order (a `ct.` key would double the states; `TypeCorrect` is proved for any keys); the clients are symmetric: clients miss the cache together, meet half-built roads, missing tables and roads of the other version |
| `create_from_files` | Is a complete message accepted and saved, does a click post what was chosen, does a URL serve its own file? | 393 messages, each one edit away from a complete one (field removed, null, unknown, at a bound or above, array emptied, faulty element alone or first), one to a file; two files with two choices and two clicks, two milliseconds: reads overlap choices, and requests overlap in every step of saving |
| `result_table` | Do the checked, the drawn and the written rows agree, and does the tree's loop end? | two payloads, of three messages on two pages and of two that share an id; two requests; a search; selections of up to three nodes |
| `simulate_session` | Whose session does a page show, what does a request carry, and can the user always go on? | four services, two visits, two INIT SESSION, two GET MESSAGE, two location tables: answers overtake each other, fail, and arrive in the next visit |

`CHECK_DEADLOCK FALSE` is set in `decode_job`, where a request that has ended
takes no further step and one that polls for ever only sleeps; in the runs of
`RoadOrder` and `TfpMessage`, which end with the road or the message; in
`create_from_files`, which ends when all clicks are done; in `result_table`,
where the tree's loop may hang the page; and in `simulate_session`, where the
user may stop and a page that failed to load leaves nothing to click.

What the runs show of the code:

- A request large enough for the pool that has one message without a TMC or
  OpenLR reference is never answered. Its thread polls for ever, its pool idles
  (`StrandedNeverEnds`, `StrandedPollsForever`). Every other request ends.
- `instance()` does not guarantee a singleton (`road_single`). The damage is
  bounded: after the first callers, the object never changes
  (`LoaderSettles`).
- A container lost to a race stays lost, and a city built from part of a table
  stays cached whatever is loaded later: `ContainerSettles` and `CityFreezes`
  hold, and they are what makes the stale data permanent.
- Roads with one point stay in the city (`single_point_road`): `remove` gets the
  road where the map wants its key.
- A message of locations in driving order comes back with the los that was
  entered exactly if no location returns to the los it begins with and no
  location of several rows begins like the one before it (`ShownAsAuthored`, an
  equivalence). In the other cases `structSection` passes over a section, and the
  matcher gives the next one to another location.
- Items are posted by ascending location number. Where that is not the driving
  order, the message names the wrong location, and the walk may leave the road:
  `tmcs.get` throws outside the try block, and out of `match`.
- Opened with a version whose road is shorter, a message with one row for each
  location shows the right los on what is left of the road
  (`ShorterRoadShowsSuffix`), or is refused.
- Cuts inside a segment are made at the wrong share of it, in the page
  (`page_rows`) and in the matcher, which also drops a vertex. What remains true
  is that parts never overlap (`PartsInOrder`); a gap can open between them.
- An answer of the circle query never shows another request's marks, and the
  cache never holds a road that is not whole (`AnswerMarksCircle`,
  `CachedRoadIsWhole`): roads are cloned before they are marked, and put when
  they are complete. But the key has no version, so that the first version asked
  for answers for all, for ever (`RoadFreezes`); points of the circle that
  version lacks are not marked.
- The casts of published tables succeed, `map.n.` keys included (`TypeOK`), but
  for `admin.all`: the loader gives it the parser of a map, `AdminTableParser` is
  used nowhere, and the two services that look it up fail once it is published.
  No configuration in the repository has the key; without it
  they find null.
- The first road of a circle answer is passed over by the page
  (`createfile_step1_page.js:322`), which expects the dummy road that
  `RouteQuery` puts first.
- Of 393 messages one edit from complete, the page accepts 233 and the service
  makes 270; 79 are accepted and then dropped without a word, together with all
  that come after them in the request. What is complete is never lost
  (`CompleteIsSaved`); 90 are complete.
- Two requests saved in the same millisecond share a name, and one user gets the
  other's file, or a mixture. In different milliseconds each gets its own
  (`ServesOwn`). A click before the reads have ended posts a part of the choice,
  silently; after they have, exactly the choice (`PostedFromSelection`).
- Output writes the checked rows exactly if no other message has one of their
  ids (`OutputIsSelection`): a TEC message with the id of a checked TFP message is
  written too. Its bytes are those of the table unless requests overlapped or
  another file was chosen (`OutputFromShownData`).
- The tree's loop hangs the page on some selections: a node that is no section
  followed by section 0 after others sends it back. `TreeLoopEnds` gives a class
  of selections for which it ends, the ordinary ones among them.
- A page shows only its own service's session, and requests mix nothing, as long
  as no answer of an earlier visit comes late. The properties except visits in
  which one did: without the exception TLC violates both `SessionIsOwn` and
  `RequestsMatchSession`, as an answer writes to whatever page is there.
- A failed INIT SESSION of MIB2 or Renault is answered with an empty object, and
  NEXT STEP is enabled with empty fields. Daimler's gets an empty string, whose
  evaluation throws, and NEXT STEP stays disabled.
- Masks always leave the last page usable (`NeverLockedOut`), unless its load
  failed: then everything is masked and no button is there to go back.
- The bmw and Renault pages share the map of the Daimler page.

Fairness: in `decode_job` the request thread and each pool thread that holds a
command keep running, which is what Java threads do when matching terminates
(that it does is assumed: the HTTP call of the OpenLR matcher has no time-out of
its own). In `road_cache_versions` request threads and the loader keep running;
nothing forces a request to arrive or a file to be published. In `road_order`
the one thread that sorts runs on. The other modules state no fairness and no
liveness: users need not click, and nothing bounds the time of an answer.

## Proofs

`DecodeJobProofs` proves, for every set of message lists, every threshold and
every number of pool threads, that `TypeOK`, `LatchCountsOpenWork`,
`CollectsOnlyFinishedWork` and `StrandedNeverEnds` are invariants of `Spec`.
The assumptions are those the module declares of its constants. None of the
four but the first is inductive. The invariant that is, `IInv`, adds: a queued
command is in the queue once and has not run (`QueueIsFresh`); messages the
dispatch loop has not reached, and messages it passed over, are untouched
(`AheadIsNew`, `UnlocatedIsNew`); a command past matching has an outcome
(`MatchedHasOutcome`); and, phase by phase, what the request thread has done so
far (`PhaseInv`). The latch argument is on the cardinality of the set of
uncounted positions: a `CountDown` takes exactly one position out of it.
`StrandedForever` follows: a latch at zero means an empty set of uncounted
positions, and an unlocated message is always in it. `AlwaysWaitsForWork` is the
safety half of `EndsUnlessStranded`: a request that is not stranded and sleeps on
the latch, or in `Future.get`, has a command in the queue or in a thread's hands
(`WaitsForWork`). Its invariant, `WorkInv`, says that no queued command drops out of
the queue and that what the dispatch loop has passed was submitted. It is
stated beside its proof; the run checks the liveness property that rests on it.

It also proves that `DecodeJob` implements `DecodeService`
(`RequestImplementsService`), for all sizes. The substance is the delivered
answer. That it is in the request's order needs `OrderInv`: the futures are those
of located messages with ascending positions, all below the cursor of the
dispatch loop; the result's entries ascend; and while the loops run, the next
entry is behind all of them. The order in which commands end plays no part,
because the result follows the futures. That it is complete and true needs
`KeptInv` (`NothingIsDropped`): a message is matched once; a located message that
the dispatch loop has passed is among the futures, or inline in the result; a
future that has been got is in the result unless it was lost; and entries agree
with outcomes, which do not change once the command is done.

`RoadCacheProofs` proves, for every set of readers, versions, locations and
revisions, the invariants `TypeOK`, `CityFromItsFile` and `IndexCoversTable`
(`TypeCorrect`, `CitiesAreGenuine`, `IndexIsComplete`) and the action properties
`LoaderSettles`, `ContainerSettles` and `CityFreezes` (`LoaderIsSettled`,
`ContainerIsSettled`, `CityIsFrozen`). The inductive invariant has one part for
each place where a row can be: the rows the loader holds come from the file of
its version (`LoadsFromFile`), hence those in the containers (`TablesGenuine`),
those a reader has collected (`ReadersGenuine`), and those in the cached cities
(`CachesGenuine`). `Control` ties each thread's place in the code to what it
holds, `LoadsFromFile` bounds revisions by what is on disk. `TablesListed`
says that the list of a container has every row of its table, which is what the
index is built from, and `EntersFresh` that a container enters the map once and
without an index, so that no stale index is met. `CityFromItsFile` is not inductive
alone: a city is made of what a reader collected from a container the loader
filled, so each link of that chain has to be carried.

`RoadQueryProofs` proves, for any clients, versions, maps, circles and points,
`TypeOK`, `CachedRoadIsWhole` and `AnswerMarksCircle` (`TypeCorrect`,
`CacheIsWhole`, `AnswersMarkTheirCircle`) and the action property `RoadFreezes`
(`RoadIsFrozen`). The argument is ownership: a client writes to roads under its
own name only, of which the result is its own copy and the one for the cache is
not in the cache before it is whole (`OwnRoads`, `Places`, `Unfinished`). `MarksSoFar`
says what a client has marked when it is half-way round its circle: in each copy
exactly the points it has passed; at the end that is the property. `TablesParsed`
says that a published table was made by the parser of its key, and
`ParserMakesCast` compares parser and cast for every form of key; `admin.all` is
the one where they differ.

`TfpMessageProofs` proves, for roads and loops of any length in any numbering, any
rows an author may enter and any shape of a location, all that `tfp_message`
checks: `TypeOK`, `EncodedIsDecodable`, `ShownAsAuthored`, `ShorterRoadShowsSuffix` and
`PartsInOrder` (`TypeCorrect` and the theorems `Always...`). `ShownAsAuthored` is
an equivalence between the two ends of the way, so the invariant has to say at
each place between them what is still to come:

- `RoadInv`: a road has each location once, a loop its first one twice.
  `PageInv`, `ItemsInv`: rows are never empty; items ascend; `lastLos` is the los
  with which the item before begins, whether or not a section was written for it.
- `EncodeInv`: sections come in blocks, a whole-location section and relative
  ones, in the order of the items (`Listed`). The los with which an item begins
  is that of the last block at or before it (`Decides`): this is why passing over
  a section like `lastLos` is harmless to items of one row. For an item of
  several rows it is not, and `Expressible` is exactly what keeps its block
  complete.
- `DecodeInv`: each location either shows its los already, and no section to come
  reaches it, or a section to come decides it (`Decoded`). For the parts:
  `Splits` says without any premise what the parts of a location look like, so
  that a message which is not `Expressible` is shown otherwise than entered;
  `Completes` says, for one that is, that parts shown and relative sections to
  come add up to the rows.

The encoder's step is `BlockIsWritten`, the decoder's `WholeIsTaken` and
`RelativeIsTaken`, the end `DecodingEnds`. The walk (`WalkFindsItems`) rests on
`ItemsStandInLine`: items that are `InOrder` are a stretch of the road that ends
at `LocID`, across the seam of a loop if need be; on an open road it never
reaches an index below zero, which gives `EncodedIsDecodable`; nor does it reach
the entry without links, as that is no item (`LinkedAreItems`). `PartsInOrder` is
inductive: `LineIsSplit` is the lemma about `splitShape`, for any ascending line
and any distance, and of a location with links a part without vertices is never
split again, as only the last one is and that one reaches the end; for one without
links `NothingIsSplit` says that its parts stay empty. That rows, vertices and sections are
any number is dealt with by least counterexamples (`LeastNumber`, `AllNumbers`).

`SimulateSessionProofs` proves, for any number of visits and requests and any set
of services and location tables, `NeverLockedOut`, `SessionIsOwn` and
`RequestsMatchSession` (`UserIsNeverLockedOut`, `PagesShowTheirSession`,
`RequestsCarryTheirSession`). `Shape` lists the five stages of a visit (at the
menu, towards or at the first page, towards or at the second), with what is in
the document, what is masked and what moves in each; `NeverLockedOut` follows
from it alone. `OfThisVisit` says that requests of this visit are of the service
that is open, and that there are none when a first page is loaded;
`VersionsTell`, what the select of a page tells: before INIT SESSION no session
of this visit exists, and as long as the select is left alone all of them are of
the location table it shows. The two properties are not inductive without these:
an answer is harmless only because its request was sent from the page it meets.

`RoadOrderProofs` proves, for roads and rings of any length with any part of
their points in the table, `TypeOK`, `ForwardIsStretch` and `BackwardMirrors`
(`TypeCorrect`, `ForwardRoadIsStretch`, `BackwardRoadMirrors`). The invariant is
that the list is at each moment the stretch from the head of the walk to the
first point (`Walking`), which one step makes longer by one (`StretchGrows`);
this bounds the list by the length of the road. At the end both directions have
the same first point (`OneFirst`) and the same last one (`OneStop`), whatever the
map's order. That the test of `getPosDirFirstLP` finds exactly the complete loops
(`LoopIsWholeRing`) is the pigeonhole principle: if every point's next one is in
the table, next points are all points, so every previous one is there too and
the walk ends where it began.

`ResultTableProofs` proves, for any payloads, selections and texts searched for,
all that the run checks: `TypeOK`, `SelectedCanBeOutput`, `OutputIsSelection`,
`OutputFromShownData`, `DrawnBelongsToTable` and `TreeLoopEnds`. `TableInv` ties the
rows shown to the file of the table and the page number to the number of pages;
that sorting and searching lose and double no row (`SortKeepsRows`,
`SearchKeepsRows`) is proved of the operators, by the least rank that lacks its row
(`Ranked`). `OutputFromShownData` is about an event that is over; it needs
`FreshInv`, which says how, as long as no request overtook another, the value,
the request under way and the table hang together, and `OutputInv`, which carries
what Output saw. `TreeLoopEnds` is a fact of `treeNext` (`LoopLeaves`): for the
selections it names, each turn goes on to a later place.

`CreateFromFilesProofs` proves, for any libraries of files, number of clicks and
clock, `TypeOK`, `PostedFromSelection`, `ServesOwn` and, for a page whose check
accepts every complete message and a service that can make it, `CompleteIsSaved`.
That premise is about the templates and is checked by TLC, for the messages of the run
(`create_from_files` computes the constants): both readings go down a message by
recursion. `PageInv` says which files are read or being read;
`PostedFromSelection` is not inductive without it. For `ServesOwn`, `DiskInv` says
that whatever is on the disk, open or written was made under the name it has, so
that a job alone with its name meets nobody's file (`OwnInv`): from its creation
on, its file is there, and in the end holds its bytes alone.

The proofs assume of the constants what the modules declare (`BoundsAssumption`,
`NoneAssumption`, `KeysAssumption` and the like): bounds are numbers, `None` is
none of the values it stands beside.

`CompleteIsSaved` is the one property that is proved under a premise about
constants, the one named above.

Only model-checked: the liveness properties (they rest on fairness), and
`FileTemplate`, which goes down JSON values by recursion; what such a definition
yields for every input is out of the provers' reach. The three runs that end in a
violation are counterexamples of TLC.

## Not modelled

- Vendored JavaScript and code outside `src/`. Most of the repository's lines are
  other projects' libraries (charts, trees, selects, maps); only the parts of
  bootstrap-table that the pages depend on are modelled. The thread pool and
  file loader of the framework, the TPEG codec and the R-tree appear as what the
  code assumes of them.
- The OpenLR matchers: the decoding is an external server's; what remains
  formats a request and groups links, message by message. The OLR and TEC
  messages of `GetRoadServiceImpl` and the TEC form of the map page.
- In the TMC matcher: absolute sections, the debug variant, links missing from
  the tables, and the TEC matcher.
- RTIC matchers and translators and the data quality services: lookups and
  rectangle queries that keep no state. The data quality page.
- Columns of MT, CT, R, N and admin files, which are read into a table nobody sees
  before it is complete.
- Geometry and text formats: floating point thinning and cutting of lines
  (outside `TfpMessage`'s one dimension), the MID/MIF tool, numerals in strings.
- Integer width: message ids are a group id times 1000 plus a small part, and
  overflow an int only for group ids beyond any location table.

`PROJECT.json` says of each component how far its model goes.
