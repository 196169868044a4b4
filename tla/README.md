# A verification of OSMScout

OSMScout is an offline map application for Ubuntu Touch on top of a copy of
libosmscout: an importer turns OpenStreetMap data into a database of binary
files and indexes; the library reads, draws, searches and routes on it; the
application shows the map, follows the position, guides along routes and
downloads maps. This directory holds TLA+ models of the parts in which control
is hard to get right, the TLC configurations that check them on small
instances, and theorems proved with TLAPS for every instance. The models were
translated from the code, line by line; `PROJECT.json` (`map`) names the lines
of every definition.

    tlc -workers 2 -config route_search.cfg MCRouteSearch.tla   # a run
    tlapm MapRenderingProofs.tla                                # proofs

Paths below leave out `src/OSMScout/`; `app` is `OSMScout/src`, `qml` is
`OSMScout/qml`, `lib` is `libosmscout`, `map` is `libosmscout-map`, `import` is
`libosmscout-import`; the directories `src/osmscout`, `include/osmscout`,
`src/osmscout/import` and `include/osmscout/import` inside them are left out too.

Contents: 1 the system; 2 the modules; 3 the runs; 4 fairness; 5 the proofs;
6 where code and text disagree; 7 what else was learnt; 8 what is not modelled;
9 the plan.

## 1 The system

| Component | State it keeps | Operations | Talks to |
|---|---|---|---|
| map widget (`app/MapWidget.cpp`) | the view, gestures, whether an update is due | paint, zoom/move/rotate, position update, route changes, reopenMap | calls DBThread directly and by queued signals |
| database thread (`app/DBThread.cpp`) | database, style, router; the render request, the breaker, two images | Initialize, TriggerMapRendering, UpdateRenderRequest, RenderMap, AddRoute, ClearRoute, Finalize, CalculateRoute | MapService, MapPainter, Database; results as queued signals |
| map download (`qml/DownloadMapDialog.qml`, `app/downloadmanager*.cpp`) | files and `.part` files on disk, the file asked for, the requests on their way | download, pause, resume, select, close; answers of the server | a map server, the file system |
| guidance (`qml/main.qml`, `app/RoutingModel.cpp`) | the route, its instructions and its line on the map, how often the user was off it, a message, a timer, dialogs | position updates, recalculation, choosing a route, a vehicle, a map | map widget, DBThread |
| routing (`lib/RoutingService.cpp`) | open list, open map, close map of a search | CalculateRoute and the list of steps made from it | data files, profiles |
| route description (`lib/RoutePostprocessor.cpp`, `app/RoutingModel.cpp`) | a list of nodes with descriptions | one postprocessor after the other, the steps and the line on the map | data files |
| map data (`map/MapService.cpp`, `map/StyleConfig.cpp`) | tables of styles; the objects of the rendering before | Load, Postprocess, GetObjects, GetGroundTiles | all indexes of the map |
| cell indexes (`AreaNodeIndex`, `AreaWayIndex`, `AreaAreaIndex`, `Optimize*LowZoom`, `WaterIndex` and their generators) | cells with lists of offsets; a tree of cells, with a cache; optimized objects; tiles of land and water | GetOffsets, GetRegions; the generators | FileScanner |
| locations (`LocationIndex`, `LocationService`, `GenLocationIndex`) | a tree of regions with streets, addresses, points of interest, in a file | the generator, the visitors, search and reverse lookup | FileScanner |
| record files with an index (`NumericIndex.h`, `DataFile.h`, `GenNumericIndex.h`) | pages of delta-encoded ids in levels; caches of pages and records | Open, Get, Close; the generator | FileScanner, Cache |
| cache (`util/Cache.h`) | a list by age, an index of its cells, a size | GetEntry, SetEntry, SetMaxSize, Flush | everything that reads |
| files (`FileWriter`, `FileScanner`, `TypeConfig`, `Node`, `Way`, `Area`, ...) | bytes, an error flag, a position | writing and reading numbers, texts, type definitions, objects; from a stream or mapped memory | every file |
| importer (`import/*`) | files, one step after the other | preprocess, areas of relations, ways, nodes, the sort, the routing data | raw OSM data |

`PROJECT.json` (`components`) lists all of them, with those that are not modelled.

**What is hard.** Two threads share the images, the database, the style and
the projection, and only part of that under the mutex. A download is continued
across failures, pauses, closed dialogs and versions of the map. Guidance is a
handful of flags that position updates, a timer, dialogs and renderings change
between them. The importer reads and writes everything in blocks and passes,
renumbers ids twice and patches offsets in files afterwards; a step that fails
or is killed can be run again from the middle. The file formats are full of
boundaries: a zero that ends a page, an entry whose width depends on the
largest value, a list that starts at 0, a flag byte that has no bit left. The
search keeps one node in three containers and alters it in place. Almost
nothing of this has a test: the programs in `Tests/src` measure how fast
caches, sets of numbers and reading are.

**What makes each correct.** Rendering: the newest view asked for is rendered
and told, and when everything is quiet the screen shows it. Download: what is
reported as installed is a whole, single version. Guidance: one route is told,
checked and drawn, and who left it gets a new one. Routing: a route is legal,
connects its ends and is not needlessly long; what is told is what has to be
done. Map: what the style sheet makes visible is loaded and gets its style,
land is land. Locations: what is on the map is found by its names, and what is
found is right. Index: a lookup finds exactly what the importer wrote. Cache: it
answers with the last value stored. Files: what is written is read back. Import:
nothing is lost, doubled or bent.

## 2 The modules

| Modules | Model | Checked by | Proved in |
|---|---|---|---|
| `RenderService` | what the database thread promises: only the newest view is completed | refinement | |
| `MapRendering` | MapWidget and DBThread, two threads | `rendering_requests`, `rendering_liveness` | `MapRenderingProofs` |
| `MapDownload` | the dialog and DownloadManagerHTTP | `download` | `MapDownloadProofs` |
| `Guidance` | main.qml, RoutingModel, the router of DBThread | `guidance` (with `MCGuidance`) | `GuidanceProofs` |
| `BoundedMap` | what a cache promises: a map of bounded size | refinement | |
| `Cache`, `CacheCalls` | operators of the cache on list and index; its calls | `cache_calls` | `CacheProofs` |
| `Numbers`, `Bytes`, `TypeConfig`, `Records`, `WrittenFiles` | encoded numbers; all other reads and writes; types, features and access; objects; a file that is written, cut and read | `written_files` (with `MCWrittenFiles`) | `DataFileProofs` (the encodings of numbers) |
| `NumericIndex`, `IndexedFile` | the pages and their generator; Open, Get and Close of an indexed file, on `Cache` | `indexed_file` | `DataFileProofs`, on `Induction` |
| `CellIndex`, `LowZoom`, `StyleSheet`, `WaterIndex`, `MapObjects` | the indexes of cells and the tree of areas, the optimized files, the style sheet, land and water, and MapService, which asks them all | `map_objects`, `low_zoom_objects` (with `MCMapObjects`) | |
| `Geometry`, `RegionTree`, `LocationSearch` | points in areas; the import of locations and how their file is written; how it is read, and the search | `locations` (with `MCLocations`) | |
| `RouteGraph`, `RouteSearch`, `RouteDescription` | the graph of one vehicle; the search and its steps; what is told and drawn of them | `route_search` (with `MCRouteSearch`) | `RouteSearchProofs`, on `Induction` |
| `RawData`, `RelationAreas`, `ImportObjects`, `SortData`, `RouteData`, `Import`, `ImportedData` | the steps of the import from raw data to the graphs, the driver that runs them, and the whole of it | `import` (with `MCImport`) | `ImportProofs` (the driver, for any steps) |

**MapRendering.** Each variable is a member of MapWidget or DBThread, or the
place where a thread stands (`guiPc`, `dbPc`), or a queue of signals
(`guiEvents`, `triggers`). A stretch of code under the mutex is one step;
TriggerMapRendering, which gives the mutex up to load and to draw, is five:
`Start` (copy the request, reset the breaker), `SetUp`, `Load`, `Draw`,
`Publish` (swap the images unless cancelled). The widget's asynchronous request
is two: `UpdateRenderRequest` with `Break`, then the queued trigger
(`EmitTrigger`). `ReopenMap` runs Finalize and Initialize in the GUI thread,
step by step, while the other thread may be anywhere. Where a thread may use
what the other one just freed or replaced, the outcomes are those a build may
have: it goes on, or the run ends (`MayCrashIf`, `running`). An image is the
view, the map and the route it shows.

**MapDownload.** `disk` and `part` are the files as sequences of blocks, each
with the version of the map and the index it comes from; the first file,
`md5sums`, lists the others. A HEAD, the GETs on their way and those nobody
listens to any more are kept apart (`head`, `gets`, `orphans`); abort() delivers
finished() at once, as pause() expects. `Killed`, `CloseDialog`, `NewVersion`
and `SelectMap` are what users, server and system do.

**Guidance.** All runs in the GUI thread, so a position update with everything
it calls is one step: `GetNext` (is the user on the route?), `Recalculate`,
`Calculated` (setStartAndTarget with the line on the map), `Due` (the timer). A
route is the record of what it was calculated from; `Path` and `OnRoad` say
where it leads. Renderings only matter in that a gesture begins one and it ends;
MapRendering has them in full.

**Cache.** The list is a sequence of cells, the most recently used first; the
index is the set of its keys. The iterators in it are not modelled: a lookup
finds the youngest cell with the key, so that an iterator to the wrong cell, of a
key that is there, could not be told from the right one. `BoundedMap` knows
neither list nor index.

**Files.** `Numbers` has bytes and bits: `Width` bits, seven to a byte, the sign
in the first. `Bytes` has what a FileWriter writes besides, `Records` one
operator to write and one to read for every stored object, `TypeConfig` how an
object gets its type, features and access from tags and how types.dat is
written. `WrittenFiles` writes any of them one after the other, lets the disk
refuse some, cuts the end, and reads it back as stream or mapped memory, with a
jump back. A shift by more than the width of an `int` is a choice of the
outcomes a processor has (`Numbers`).

**NumericIndex** writes pages as GenNumericIndex does: the first entry of a
page in full, then differences, pages filled up with zero bytes, levels until
one page is left (`Levels`; a level knows its pages and all blocks up to them).
A number takes as many bytes as it needs, `MaxBytes` at most; an entry fits on a
page (`NumericIndexAssumption`; 20 bytes of 1024 in the code). `MaxLevels` bounds
the recursion only: `IndexedFileAssumption`, which TLC evaluates for every file
of the run, says that no index has as many. The binary search is as many
rounds of `Narrow` as the page has entries. **IndexedFile** puts the levels'
caches, the failing record and repeated opening on top. The index of a file
without records has no page, and the code takes its header for one, so that the
id that equals the page size is found at offset 0; `GetsWhatIsThere` names that
call (`HeaderIsFound`) and says nothing of it.

**MapObjects** is the map as it is drawn. `Import` writes all files of a map,
`LoadStyle` the tables of a style sheet; `Call` is GetObjects and GetGroundTiles
for one box at one magnification, with a read that may fail and the objects of
the call before to fill again; `Abort` is the breaker, `Reopen` another
opening. `CellIndex` has the bitmaps with the width of their entries and the
lists, and the quad tree of areas with its descent, level by level; `LowZoom` the
joining of ways and dropping of rings; `StyleSheet` the selectors that
StyleConfig makes of rules; `WaterIndex` the coastlines: joined, cut at cells,
traced around the land in each, then the floods over the cells between.

**Locations.** `RegionTree` sorts boundaries, places, streets, addresses and
points of interest into regions and writes them, with the two passes that fill in
offsets; `LocationSearch` reads them with a visitor, and is LocationService's search with its three lists of tokens, the rows of the dialog
and the reverse lookup. A name is a sequence of words.

**Routing.** `RouteGraph` is a function from ways and restrictions to route
nodes with paths and excluded turns. `RouteSearch` is CalculateRoute: `Start`
(GetTargetNodes, GetStartNodes), `TakeCheapest`, one step for each path of the
node (`SkipPath`, `FollowPath`, or `CannotLoad`), `CloseNode`, `Resolve`.
`RouteDescription` then runs the postprocessors in the application's order and
the loop of RoutingModel that makes the steps; the last postprocessor, which
keeps state from node to node, goes one node a step.

**Import.** `RawData` (Preprocess), `RelationAreas` (rings, nesting, clipping),
`ImportObjects` (areas and ways of ways, joined in blocks of types), `SortData`
(the sort by cells, with reduction and id maps) and `RouteData` (restrictions,
junctions and the blockwise graph with its pending offsets) are functions from
files to files; each reads what the step in the code reads. `Import` is the
driver over any steps: `Call`, `Success`, `Failure`. `ImportedData` puts the two
together and states what must be true of the files.

Operators whose comment starts with "Mutant" are plausible mistakes. They are
used by no specification; each has been put in the place of the definition it
follows, and the property named in `PROJECT.json` (`mutants`) then fails.

## 3 The runs

| Run | Question | Bounds |
|---|---|---|
| `rendering_requests` | Is a view asked for ever lost, a rendering unreported or of an older view? Is the quiet screen up to date, with routes and reopened maps? Is `RenderService` implemented? | 2 views, 2 maps, 1 gesture, turn or position update that may return to the view being rendered, 1 route change, 1 reopening, the style loads or not: 6.6 million states |
| `rendering_liveness` | Do the threads come to rest, with exactly the view they should have? | 2 gestures, turns or position updates, 1 route change, no reopening, fairness: 2.0 million |
| `download` | Is a file the dialog is through with whole and of one version? Is a file that is resumed without gap and repetition? Does a user who tries again get the map? | 2 files of 2 blocks, 2 pauses, 1 each of failure, new version, selection and interruption, with and without byte ranges, fairness: 1.2 million |
| `cache_calls` | Do list and index agree? Does the assertion of StripCache hold? Which entries survive? Is `BoundedMap` implemented? | 4 keys, 2 values, sizes 0 to 3, any number of calls: 3,012 |
| `written_files` | Is everything read back as it was written? Does access follow the tags? | the boundaries of every length of all number types, texts, type definitions, objects of all kinds made of combinations of their tags; 2 things in a file, up to 3 bytes lost, 1 jump: 0.34 million |
| `indexed_file` | Does Get return the records whose ids are there, and those only, whatever is cached? | pages of 8 bytes, 5 files of up to 7 ids and up to 3 levels, caches from none to 3 pages, 2 calls of 2 ids, 2 openings, 1 failing record: 0.24 million |
| `map_objects` | Is everything loaded that the sheet makes visible? What is dropped at a limit and at low zoom? Is the style that of the rules? Are land and water right? | maps of 8 x 8 points, 5 magnifications, limits 2 and 50; families of nodes, ways, areas, 1,728 style sheets, up to 3 calls, with limits that change or a failing read, islands and coasts cut in any pieces: 0.24 million |
| `low_zoom_objects` | see section 6 | the ways of `map_objects` |
| `locations` | Is everything found by the names of every region around it? Does all that is found fit? | 3 maps, several hundred patterns, limits 0, 2 and 50: 3,334 |
| `route_search` | Is a route legal, connected, cheap, and only denied when there is none? Is what has to be done told, and nothing else? Does the search end? | 7 points; ladders, roundabouts, crossroads, dead ends, a street that ends in itself, motorways with links; two streets that are one way, closed, private, slow or of other names, or one of them and a turn restriction; every start and target: 1.19 million |
| `guidance` | Are instructions, checked and drawn route one? Does the router fit the map? Can a recalculation lose the route? Does who left it get a new one? | 4 places, 2 maps of which one lacks a road and one a graph, 2 vehicles, 2 moves, 3 clicks, 1 gesture, 1 update off the route before it counts, fairness: 0.69 million |
| `import` | Do the files fit together after failures and kills? Is every object there once? Do ways keep their form, graphs and restrictions follow the map, areas cover what they should? | 1,387 inputs: roads with restrictions, one-way in or against their direction, closed or private; relations of nested squares and of bow ties, with and without strict areas; composed boundaries; objects in four cells; blocks of 2 and 3 and large ones; up to 3 calls: 29,865 |

**Why the bounds are enough.** Rendering: every race needs at most one rendering
under way and one newer request; a third view or map plays no other role than
the second. Download: a file follows the list, so that a mixed version shows; two
pauses, because the second is the one that needs the count to be right. Cache:
four keys are one more than fits. Files: the numbers are those where an encoding
takes another byte or bit; two things, because what is read first must leave the
reader where the second begins. Index: eight bytes hold two to seven entries, so
that pages that are just full, pages of one entry and three levels occur. Map:
four values to a byte, so that entries of one and more bytes occur; cells of
three levels; as many objects as fill a cell (the generators look for a level
where cells hold few) and one more. Sea: eight units to a point, so that two
lines cross a cell's border beside each other; 20 rounds of flooding cover every
cell there is. Locations: three levels of regions, so that there is something
above and below. Routing: six points are the least on which a detour, a
roundabout with a step over its end and a node reached in two ways exist at once,
and a seventh gives a motorway both of its ends. Guidance: three clicks are a
route, another and a change of the map or vehicle. Import: blocks hold fewer
than there are, so that two or three passes happen.

**The properties.** They are stated, with the code they are about, above their
definitions. The ones a reviewer should read first: `RequestNeverLost`,
`MapUpToDate` and `EventuallyUpToDate` (MapRendering), `VerifiedIntact` and
`NoGapNoOverlap` (MapDownload), `GuidesWhatIsDrawn` and `EventuallyGuided`
(Guidance), `ReadBack` (WrittenFiles), `FindsAllObjects`,
`ShowsWhatTheSheetSays` and `LandAndWaterAreRight` (MapObjects),
`FindsEveryPlace` (LocationSearch), `RouteIsLegal` and `FindsCheapest`
(RouteSearch), `ManoeuvresAreTold` (RouteDescription), `GraphFollowsMap` and
`RestrictionsFollowWays` (ImportedData). Types are proved rather than checked
where there is a proof module.

**What properties except.** Each exception is something the code does, met by
TLC and named in the definition:

- Rendering: a view that setRotation() alone has turned (`turned`: a position
  update that returns early or does not follow the position, and the button that
  puts north up) is not asked for; until it is painted or asked for again, the
  screen keeps the picture from before. `ScreenUpToDate` also excepts a turn or
  position that leads back to exactly the view being rendered (`ExactReturn`).
- `NoGapNoOverlap` takes a server with ranges, no failed request and no pause
  before the first block: a failed one leaves its page in the `.part` file, and
  the checksum finds it.
- `EventuallyGuided`: the download dialog closes without a signal and leaves
  position updates off (`Deaf`); `getNext` compares with the end of an empty
  list, so that an update may take any place for near (`masked`).
- `ReadBack`: signed 64-bit numbers are up to 34 bits; a signed number in mapped
  memory is read behind the end of the file; a text that is written takes the
  writer's error back.
- `FindsAllObjects`: while no cell of the area index whose read has failed is
  in its cache, with what was read of it or was in the memory (`hollow`); objects of an optimized type in its first cell
  (section 6). Objects of another file with an offset that is the same are kept
  apart by the numbers the model gives them (section 7).
- `ShowsWhatTheSheetSays`: ways of a type that the last magnification named by
  the rules hides are not loaded beyond it (`EndsHidden`).
- `LandAndWaterAreRight`: cells in which a coastline begins or ends loose;
  islands in one cell that are smaller than a pixel; unknown cells at the edge.
- `ManoeuvresAreTold`: roundabouts lead around (`RoundaboutsGoAround`).
- `TurnsAreTold`: ways of one roundabout are all links or none is (section 7);
  the last junction before the target has no direction; one at
  which a closed way begins has that of a point to itself; a turn from a street
  on to a link that leads to another street is not told.
- `FindsCheapest` allows twice what it costs to reach the first node: start nodes
  get the estimate of the start, which may be too high for the one the route needs
  and too low for the one it is compared with. A first statement allowed it once;
  the attempt to prove it failed, and a map with a detour (`Detour` of
  `MCRouteSearch`) shows why. Between two route nodes the route is the cheapest.
- `RouteIsLegal`: no route takes a path against its way's direction, but the
  entries made of a path around a loop - a closed way, or one that comes to a point
  twice - may lead the other way around (`WrongWay`): back by one entry, or ahead on
  a way that may be used backward only (section 6).
- `AroundClosedWays` and `DescriptionFitsRoute`: over its end leads also a one-way
  street that comes to a route node twice (`TouchesItself`), which makes a gap in
  what is drawn (section 6).
- `RouteIsLegal` is proved for maps whose forbidden turns can be excluded
  (`TurnsCanBeExcluded`): a way that must not be turned into goes on in one
  direction only, as OpenStreetMap demands of restrictions. `MCRouteSearch` assumes
  it of its maps, so that TLC tests it.

Deadlock is not checked where the system may stop: the bounds on inputs end a
run of the view, an import or a route is calculated once, a file is asked a few
times.

## 4 Fairness

`MapRendering!FairSpec`: both event loops go on (weak fairness of the GUI's
events and of the database thread), because Qt's event loops run as long as
the application does and every slot returns; no gesture has to happen.
`MapDownload!FairSpec`: answers arrive or fail (`Network`), and a user who wants
the map resumes a paused download and tries a failed or closed one again. The
buttons stay enabled; nothing is assumed of the troubles, which are bounded in
number. A request that stalls for ever is not fair to anyone: DownloadManagerHTTP's
timeout() does nothing (section 7). `Guidance!FairSpec`: positions keep coming,
the timer that runs expires, renderings end, dialogs are closed; no click or
move has to happen. `RouteDescription!DescribeSpec`: the loops of one call run
on. All other runs are about safety only.

## 5 The proofs

For every value of the constants, by TLAPS (SMT, Zenon and PTL):

| Theorem | Says | Rests on |
|---|---|---|
| `MapRenderingProofs!TypeCorrect` | types | `InitializeInv`: Initialize runs in one thread at a time and leaves a map open, without which ReopenFinished would announce no map |
| `RequestsNeverLost`, `RenderingsReported`, `NewestOrCancelled` | the three request properties | their conjunction `RequestInv` is inductive, given the types; none of them is on its own: `Publish` clears doRender, which is right only because what is not cancelled is the newest |
| `SettledMapIsUpToDate` | `MapUpToDate`, for any number of gestures, turns, position updates, routes and reopenings | `ScreenInv`: what is loaded and drawn for a request nobody cancelled is of the open map and the current route (`DrawnFromMap`), and the screen shows the finished image unless something is about to be painted, asked for or rendered (`Shown`); both except the time between Initialize and initialisationFinished, which ends in a request |
| `SettledScreenIsUpToDate` | `ScreenUpToDate`: the picture really is of the widget's view, or of that from before a turn, if nobody comes back to exactly the view being rendered (`ExactReturn`) | `PictureInv`: the picture being made is of its request unless the widget is at another view already or about to ask for one; the finished one is the answer to the last request (`FinishedIsNewest`), so that no turn comes back to it either |
| `MapRenderingProofs!Implementation` | `Spec => Service!Spec` | a step is an `Ask`, a `Complete` or a stutter; `Publish` is a `Complete` because of `NewestOrCancelled` |
| `MapDownloadProofs!DownloadTypes`, `FilesVerified` | types; files are intact, for any number of files, blocks, pauses, failures, versions, interruptions | `RequestInv`: requests are only on their way while downloading, and which of them may overtake which |
| `ResumedFilesFit` | `NoGapNoOverlap`, for any numbers | `FitsInv`: there is one request, and where it is, what `_nDownloadSizeAtPause` says and the length of the `.part` file agree; also of the files that no one is at, which a later attempt continues |
| `GuidanceProofs!TypeCorrect`, `RouterNeverStale`, `OneRouteGuides` | types; `RouterFitsMap`; `GuidesWhatIsDrawn` | together inductive with `FollowsCalculated`: the route kept was calculated on a map, so that it can be calculated again |
| `RecalculationKeepsRoute` | `RouteSurvives`, an action property: a recalculation leaves a route to the target | the same invariant |
| `CacheProofs!ListAndIndexAgree`, `Implementation` | list, index and count agree, and StripCache's assertion holds; `BoundedMap` is implemented | the cells listed have different keys, which are those in the index; the count is their number |
| `ForgetsLeastRecent` | `KeepsMostRecent`: what the cache has forgotten was not used after anything it still holds, for any keys, calls, resizes and flushes | `RecentInv`: the order of the list is that of the last uses, and no key that is gone was used after one that is there |
| `DataFileProofs!UnsignedRoundTrip`, `UnsignedIsDelimited` | an unsigned number of up to 70 bits is read back; only its last byte ends it | lemmas on the bytes and on shifting a group of seven bits |
| `DataFileProofs!SignedRoundTrip`, `SignedIsDelimited`, `SignedLosesBits` | a signed number whose magnitude has up to 34 bits is read back, of any width and whatever too large a shift gives; only its last byte ends it; a number of 35 bits is not read back | a byte holds the bits of the magnitude from one place to the next, every bit is in one byte, and no byte but the last is shifted beyond bit 30 |
| `DataFileProofs!RecordsAreFound` | `GetsWhatIsThere` for files, pages, caches and requests of any size and any number of openings and failures: a call returns the records asked for that are in the file, in the order asked, except those that could not be read before | see below |
| `ImportProofs!TypeCorrect`, `ImportFits` | types; `FilesFitTogether` for any list of steps in which each file has one writer before its readers (`StepsAssumption`), any results and any calls | `Fits`: each step reached has, of the files that are there, the result that is there; what a step does not write it does not change, and what it writes no earlier step reads |
| `RouteSearchProofs!RoutesAreLegal` | `RouteIsLegal` for every map whose forbidden turns can be excluded, with closed, one-way and private ways and restrictions: path and entries keep to the directions of the ways, the entries but for `WrongWay` | see below |
| `RouteSearchProofs!RoutesGoAroundClosedWays` | `AroundClosedWays` for the same maps: what `RoutingService.cpp:375` asks to be proved, and the one case where it is not so | see below |
| `RouteSearchProofs!DescriptionsFit` | `DescriptionFitsRoute` on these maps: the way on the map, the list of steps and the instructions are those of the route, for any names, bearings, links and roundabouts | see below |
| `RouteSearchProofs!TurnsAreAllTold` | `TurnsAreTold` on the maps of `RoutesAreLegal`, if ways of a roundabout that meet are all links or none is: something is told at every junction where the route turns off, a turn only where there is one | see below |
| `RouteSearchProofs!ManoeuvresAreAllTold` | `ManoeuvresAreTold` on the maps of `RoutesAreLegal`, if roundabouts lead around: they are told where they are entered and left, with the right exit, and motorways where they are entered, left and changed | see below |
| `RouteSearchProofs!RoutesAreCheapest` | `FindsCheapest` for every map, start and target: it costs at most twice the start more than the cheapest, and "No route found!" is true | see below |

**The indexed file.** `DataFileProofs` first follows the generator entry by entry:
the pages it has written are a cut of the entries so far, none is empty, the last
one's bytes are those counted, and each has room in its block (`PagesAreCut`).
Level by level, the entries above name the first ids and the blocks of the pages
below, and the blocks once written stay where they are (`LevelsAreLevels`,
`GeneratedIndexIsRight`: `IsIndexOf`). A round of the binary search leaves the
last entry that is not above the id among those in question and leaves out one
entry at least (`NarrowStep`), so the search ends at it, or behind the page if
all are above (`SearchFinds`, `SearchMisses`). A cache, with or without size,
holds only cells it was given (`GetEntryKeeps`, `SetEntryKeeps`). The property
itself is not inductive: it says nothing of a call under way. `IInv` adds
that the caches of each level, those of earlier openings included, hold pages of
that level under their own first ids and the cache of records what is at an
offset or a failed record (`CachesAreRight`); that the root is the top level and
every level has a cache while the file is open (`IsReady`); that the descent is,
on every level, at the last entry not above the id (`SearchIsRight`, which is why
the key it looks up next is the first id of a page); and that the offsets and
records found so far are those of the ids that are there among the ids done
(`CallIsRight`). Each action has a lemma of its own. TLC checked `IInv` on the run
of section 3 before it was proved.

**The search.** `RouteSearchProofs` first says what the graph is: every path
along a way, around a closed one and around an area leads to another route node
of that way, is at least as long as the crow flies, and has the access of the
way (`PathsAreOfGraph`). For that it needs induction along integers, which the
library's theorems offer for an operator only. It is proved here for sets
instead, from the well-foundedness of inclusion of finite sets (`LeastNat`,
`IntervalInduction`, `Recursion`: a function defined by recursion along an
interval exists and stays in its sets; all of module `Induction`, on which the
indexed file rests as well). The search then has three inductive invariants.
`SearchInv`: the sorted set and the maps of nodes agree, no node is both open
and closed, the places and the graph are those of the map. `RouteInv`: every
open node comes by a legal move from a closed one or the one being looked at,
every closed node from a closed one - which is why replacing the predecessor of
an open node is safe - and the chain of predecessors of each closed node ends at
a start node (a definition by recursion over the closed nodes, which exists
because each node is closed after its predecessor). What AddNodes makes of each
move of that chain leads from its one end to the other (`MoveLeads`), so the
whole list does (`EntriesLead`). In which direction depends on indices: a path leads
from one index of a way to another in a direction that may be used (`PathsFrom`,
`Passable`), but AddNodes goes from the first index of the one point to the first of
the other. These are no greater, so either they are in the same order, or one of
the points comes again behind both (`EarlierIndices`), so that there is a loop with
both of them (`LoopHolds`); whatever AddNodes then does keeps to the direction or is
`WrongWay` (`AddNodesLeads`, `Beside`). `CostInv`: a label is a node with the cost of
some way there; the labels are the least set that has the start and is closed
under paths. Each label is covered at every stage: its node is closed at that
cost or an open node lies on its way that is cheaper (`AllAreCovered`, by
induction over the labels). With the triangle inequality, which holds of the
estimate if no way is cheaper than the profile expects, the cheapest open node
costs at most the widest start more than any label, and the first target that is
closed at most twice that. That the reference `Lowest`, made in as many rounds
as there are points, has labels only is the last lemma; that it has all of the
cheapest is not needed.

**The description.** That AddNodes goes over the end of a way only where the way is
closed or comes to a route node twice is one more thing that follows from the
order of the indices (`LoopHolds`, `Beside`): back on a one-way street it only goes
where the point it goes to comes again behind. The description is then a
refinement of the search: describing leaves it alone (`SearchIsLeftAlone`).
`DescribedInv`: a description is only made when the search is done; its nodes have
the places and distances of the entries (`Describes`, by recursion along them,
`DistancesOfRoute`) and at most one instruction each, whatever the last
postprocessor tells and however far it runs ahead over links (`ToldMore`); what is
drawn has the points of the route (`WayOfRoute`). That the list of steps has every
node once, in order, with its place, is by induction along the nodes
(`StepsGoOn`, `StepsOfNodes`). `DescriptionFitsRoute` is not inductive by itself: it
says nothing before the steps are shown.

**The turns.** `TurnsAreTold` speaks of the end, the loop of the last postprocessor
goes forward only: `TurnsInv` says that before its node every turn that must be
told is, or lies on links that were told as one (`PassedOver`), that a turn is told
only where there is one, and that the nodes still have the ways, objects and
directions of the route's entries (`Follows`). Small angles may be replaced by that
of a bend (`CurveEnd`), large ones are those of the entries (`DirectionFits`). While
the loop takes itself to be in a roundabout it tells no turns, so that the
invariant also says that the entry before the node then is one (`AroundOnly`). This
is inductive only if no link of a motorway is met inside a roundabout
(`NoLinkAround`): where one is, the loop runs over the links and past the exit
(section 7). Each way of going on - telling one thing, nothing, or what the links
lead to - has a lemma (`TellsOne`, `TellsNone`, `TellsLinks`), all three of
`ToldUpTo`.

**The manoeuvres.** `ManoeuvresInv` says of every node before the loop's that what
is told there of roundabouts and motorways is what is due (`RoundaboutTold`,
`MotorwayTold`), which depends on what is told up to there only
(`ManoeuvreStill`), and of every node behind that nothing is told. `Counted`: in a
roundabout that was not reached by links told as one, `inRoundabout` is set and the
counter is the number of ways out since it was entered, or since the route began in
it. The sums are any that add up (`AddsUp`), so that the steps need no recursion; that
the property's own, `WaysOutUpTo`, do is shown at the end (`SumsAddUp`). A crossing's
exits are the ways out and one more, that around (`ExitsAround`), and in a roundabout
the type of road does not change (`SameTypeAround`): both need that roundabouts are
one way, of one type, and that from every point exactly one of their ways leads on
(`RoundaboutsGoAround`), which HandleRoundaboutNode takes for granted when it
subtracts one. The end of the links that the program looks for is where the stretch
between streets or motorways ends (`StretchOverLinks`), so what it tells there is
what is due (`LinksFit`), and what lies between is passed over (`LinksCount`).
TLC checked `TurnsInv` and `ManoeuvresInv` on the run of section 3 before they were
proved.

The assumptions are those on the constants (`MapRenderingAssumption`,
`StepsAssumption`, ...), which TLC evaluates in every run. Nothing is proved by
reference to a run.

Only model-checked: everything temporal under fairness (`EventuallyUpToDate`,
`EventuallyInstalled`, `EventuallyGuided`, `Ends`), which is out of TLAPS's
reach; and what is made of data outside of the search: the other encodings, the
indexes of areas, the style sheet, coastlines, locations, and the steps of the
import. Most of these use RECURSIVE operators, about which nothing can be proved here.

## 6 Where code and text disagree

`low_zoom_objects` ends in a counterexample, on purpose (`findings`).
GenOptimizeWaysLowZoom and GenOptimizeAreasLowZoom write, as their comment says,
0 for "no data for this cell", but the first list of a section starts at 0: the
first cell's objects are not found, whereas `map_objects` shows that the node and
way indexes, which add 1, find them.

Disagreements met in passing, without a run of their own:

- `app/MapWidget.cpp:299` says "do not trigger map rendering, as setting rotation
  always comes with a position update, which will do the trigger". The position
  update turns the map first (`qml/main.qml:288`) and may then return (298, 304,
  306, 336) or not follow the position (349; for 30 seconds after a gesture), and
  showCoordinates() does not trigger while a rendering is pending; the button that
  puts north up (852) comes with no position update at all. Without `turned`, TLC
  finds the map that stays as it was, at once.
- `lib/RoutingService.cpp:373` says of a one-way street that a route takes against
  its points "we assume that the way is either an area or is a roundabound" and
  "TODO: proof this". One that comes back to its second point (1, 2, 5, 4, 2, as
  MergeWays may join of two) is neither: a route from its fourth point to the second
  leads from the last point straight to the first. `MCRouteSearch` has such a street
  (`Loop`); without `TouchesItself` TLC finds this route.
- `lib/RoutingService.cpp:347` makes one entry "From one node to the neighbour node
  (+1 or -1)" before it looks at `oneway`, with the first index of each point
  (672-694). So on a one-way roundabout 3, 6, 5, 3 the path from 6 over 5 to 3
  becomes one entry from 6 back to 3, in the middle of a route, and 5 is not drawn;
  on a closed way that may be used backward only a path back over its end becomes
  entries ahead. Without `WrongWay` TLC finds both.
- `lib/util/Projection.cpp:226` asserts `valid`, but the widget's methods that
  convert coordinates are guarded by `IsOpened()` only (`app/MapWidget.cpp:402`)
  and the first rendering sets the projection after the map was opened.
- `lib/util/Reference.h:243` asserts a pointer, but TriggerMapRendering tests
  the style once and uses it later without the mutex, while reopenMap() may
  replace it by none (`app/DBThread.cpp:386,262`).
- `import/GenWayWayDat.cpp:353` says "If restrictions apply to the join point,
  we cannot merge because the restriction might be broken later". At every end
  after the first only the way to be joined is tested, not the way itself (381):
  a restriction to a third way, brought in by the way joined last, is not seen.
- `import/SortDat.h:294` says "Reduce cell interval, deleting all already stored
  nodes beyond the new cell range end."; if the first cell alone is above the
  limit (nine tenths of a block), everything stored is erased and the end of the
  range stays where it is, so that what was read before is never written.
- `import/GenRelAreaDat.cpp:293` says "everywhere else in the code we store areas
  without repeating the start, so we remove the final node again"; a closed way
  that is no area and becomes a ring by itself keeps it.
- `lib/DataFile.h:631` asserts that the file asked for a route node is open.
  AssureRouter answers TRUE with a router that failed to open, or that Finalize
  closed when the map was opened again (`app/DBThread.cpp:99`): the next route to a
  place near a road ends the program (`Aborts` of Guidance), unless the vehicle was
  changed. None of the repository's .pro files turns assertions off. Without them
  the file is opened again under its old name, and read with the index of the old
  map that is still in memory.
- `lib/RoutingService.cpp:1063` documents FALSE without a route; the answer is
  TRUE with an empty one (1385). `Route.h:517` says "from the start"; the last
  node keeps the distance of the one before.
- `import/Import.cpp:109`: "areaWayMinMag(11), // Should not be >= than
  optimizationMaxMag", which is 10.
- `lib/LocationService.h:56` promises a limit on the results; 0 still gives one,
  and regions are not limited.

## 7 What else was learnt

Oddities the models reproduce, or that were seen while reading. None of them has
a run of its own: no text of the repository promises otherwise.

**Rendering.** Going back to exactly the view of the rendering that is on its way
may show a half-drawn picture (`ExactReturn` of MapRendering names the case). DBThread ignores what GetObjects
and GetGroundTiles return (`app/DBThread.cpp:386`, 392), so that an unreadable
index shows as a map with things missing. MapService recognises the objects of
the rendering before by their offset alone, which optimized and normal objects,
or the objects of two maps, may share (`map/MapService.cpp:218`).

**Download.** A `.part` file continued across versions of a map mixes them; the
checksum notices. Pausing while the sizes are asked for removes the `.part` file
and sends a request nobody listens to. The timeout's slot is empty
(`app/downloadmanagerHTTP.cpp:176`), so that a stalled request stays. md5sum() of
an unreadable file is the empty text, which every line contains. A map may be
deleted while it is downloaded (`qml/DownloadMapDialog.qml:156`), and closing the
dialog never emits closed() (303).

**Guidance.** A recalculation without a starting point and
without a route sets the start to nothing. A route is calculated again even when
the user is back on it. After an error the old route stays drawn, and the model
is left between begin and end of a reset. Of the two steps made of a start only
the first has a coordinate. Several members are read before they are set
(`awayCounter`, the differences of time and distance). `RoutingModel.cpp:871`
takes the first element of a list that may be empty. After another map was
opened, the offsets of the old map's route are read in the new map's files.

**Cache and files.** A cache without size leaves in SetEntry a cell the index
does not know; SetMaxSize would then fail its assertion, but nobody calls it.
Signed numbers above 34 bits are not read back (`Number.h:172`, 188), and a
signed number cut in mapped memory is not noticed. The tests of width and height
(`w<0 && w>255.5`) can never be true. StringToNumber's overflow test rejects
valid numbers ("255" for 8 bits) and takes a leading 9 with all digits for a
negative one (`String.h:203`). Setting the position behind the end succeeds in a
stream and fails in mapped memory, without an error. Several Write and Read
methods clear the error flag. After a failed read, variables stay as they were,
which may be uninitialised. `access=no` on a roundabout opens it again.

**Indexes.** Every route opens the junction file again and adds caches that are
never removed (`NumericIndex.h:297`). A page that could not be read stays in the
cache, empty (335); one of `areaarea.idx` stays with the children and areas read
up to then, and for the other children what the memory held
(`AreaAreaIndex.cpp:54`; `IndexCell` has no constructor). An object in several cells counts several times against the
limit. A failed read disables a cell index until it is opened again
(`AreaWayIndex.cpp:158`). Type sets are clamped to one level less than the
selector tables have; way types behind the last with a priority are never loaded
(both StyleConfig). The test that ends GenAreaAreaIndex's levels also counts
unwanted types; in GenAreaNodeIndex, and for ways, it is never met when too many
objects are at one point. A map without any area has no root in `areaarea.idx`,
and its first rendering fails. MergeWays of the low zoom ways drops ways both of
whose end ids are 0 (`GenOptimizeWaysLowZoom.cpp:207`).

**Water.** WaterIndex::Close() has no return statement. LoadCoastlines' result is
ignored. A ring drawn clockwise that is completely inside one cell becomes land.
Where no coast is visible at a level, everything stays unknown.

**Locations.** The region of a street is chosen by the minimum corner of its
bounding box, and a street that crosses a border is added to one of the regions
only. Addresses on unknown streets are dropped, and those on ways never looked
at. The root's own streets and points of interest are never written. An exclave
makes a region the child of the region around it. Names of which two words are
repeated everywhere become words that are ignored, and can then not be found.
TokenizeString upper-cases every token, so that SimplifyTokenList, which looks
for lower case, never joins any. SearchForLocations' result is ignored.

**Routing.** A start's nodes get the estimate of the start. From one
point to another of the same way it goes over a junction and back where there is
none between them. Nodes rather than turns are searched, so that with
restrictions a legal route can be missed. A restriction excludes the first path
along the forbidden way only (`GenRouteDat.cpp:1500`), and none when both ways
became one. Around an area with two junctions only one direction is written
(1177, 1318). The route over several places drops the last entry of every part
(`RoutingService.cpp:1018`); the application does not use it.

**Description.** The last node keeps the place, distance and time of the node
before it, and a node's time is that of the way leaving it. The last junction
before the target gets no direction. A link that ends in a roundabout is not told
as entered, and the number of the exit is wrong; a route that begins on a link
enters its motorway untold. Where ways of a roundabout are links in part and lead
to a motorway, the exit is among the links told as one manoeuvre
(`RoutePostprocessor.cpp:914`) and `inRoundabout` is never reset: from there on no
turn is told (982). With such a map TLC finds the turn that is missing;
`MCRouteSearch` leaves them out (`RoundaboutsAssumption`). A bridge takes the name of the way before it if their
numbers are equal. InstructionPostprocessor reads the first element of an empty
list without a route (`RoutePostprocessor.cpp:819`). If one postprocessor fails
the steps are missing, without an error (`RoutingModel.cpp:576`).

**Import.** The number in the header of a sorted file includes objects that were
dropped; the index entry of an address is written before it is known whether the
object stays. A point at the latitude 90 is outside all cells. A way taken into
another gives it its restrictions, and the rule about oneways is not tested
again. Boundary relations that contain each other recurse forever; a child that
fails leaves its parent with parts missing, and TRUE as the answer. In the first
page of coordinates the empty slots get the id 0, and Cleanup does not store
page 0. The results of several writers are ignored (HandleLowMemoryFallback,
WriteWay, WriteArea, WriteRouteGraph, WriteTurnRestrictions). The step
GenMergeAreas returns at once. With `StrictAreas`, which is off by default, the
first way whose area is not simple ends the import: the message that it is left
out asks the area for the type of its first ring before it has one
(`GenWayAreaDat.cpp:247`); the model lets the step fail.

## 8 What is not modelled

| Left out | Why |
|---|---|
| text search (`TextSearchIndex`, `GenTextIndex`) | forwards to the library marisa, which the application's build leaves out |
| POI search (`POIService`) | a single pass of filters over results whose lookup is modelled |
| readers of OSM files (XML, PBF), the parsers of `.ost` and `.oss` | generated, or a hand-over to a library; what they give is an input of the models |
| painting, projections, distances, curves, colours | floating point and pixels; a picture is what it was drawn from, a distance is one along a grid |
| Qt's network, event loops and widgets, the map server | external: only what the code relies on (a request ends once; queued signals keep their order) |
| routing over areas, over several places, closest node | not used by the application, or geometry; the search itself, from and to ways, is modelled |
| which instruction is shown and spoken (`getNext`) | distances and times in floating point; that one is taken from the route in force is modelled, not which |
| texts of instructions | wording |
| address search, settings, favourites, the application shell | forms over one list or file, without interplay |
| front ends of the importer, style editor, tools, demos, tests, other platforms | not part of the application |
| reference counts, memory | below a statement |

Abstracted inside what is modelled: speeds and grades are small numbers;
simplification of lines and the rounding of coasts to 15 bits are left out, so are
letter case and parts of words in names. Failing reads are modelled for node, way
and area indexes and for the way files of low zoom levels, and files that are cut
short for everything that reads bytes; not for `location.idx`, the water index
and the pages of the numeric index. That an index cannot even be opened, which the
next call tries again, is modelled for the tree of areas, whose cache keeps what
came of it; for the others it is a failed read. What is read at an offset that
memory held by chance never makes a cell.

Inputs the models leave out, because the code is known to lose or mangle
something there (sections 6 and 7) and every property would only repeat it:
ids in the first page of coordinates; one cell above nine tenths of a sort
block; lines that overlap or occur twice; objects of which the reduction leaves
nothing; boundary relations that contain each other; maps without any area;
cells in which more objects are at one point than a cell may have; inner seas
within one cell; a way that one kind of vehicle may use in the one direction and
only another kind in the other. In the import's list the routing step stands after
the index steps, as the driver has it.

## 9 The plan

Done, in this order: the map view and its thread, downloads, the cache and record
files, the bytes and types, the cell indexes and map objects, the search; then
the graph, the description of routes, guidance, style sheets, the area index,
water and locations; the import from raw data to the sorted files; the proofs
about threads, requests, guidance, cache, numbers, the list of import steps, the
graph, the search and the description of routes, and the indexed file.

Next to model: routing between areas and over several places with the closest
node; optimized and normal objects with the same offsets in MapService; failing
pages of the numeric index; which instruction is shown and spoken; an address
chosen before and used after a map was opened again.
