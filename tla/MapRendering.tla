---------------------------- MODULE MapRendering -----------------------------
(***************************************************************************)
(* The map view of the application: MapWidget, which lives in the GUI      *)
(* thread, and DBThread, whose slots run in the database thread but whose  *)
(* other methods the GUI thread calls directly.                            *)
(*                                                                         *)
(* The widget posts the view it needs (UpdateRenderRequest), cancels the   *)
(* rendering under way (Break) and queues a TriggerMapRendering signal.    *)
(* The database thread renders into currentImage without holding the       *)
(* mutex and swaps it with finishedImage if it was not cancelled.  Routes  *)
(* (ClearRoute, AddRoute) and reopenMap free both images from the GUI      *)
(* thread.                                                                 *)
(*                                                                         *)
(* A view is centre, angle and magnification together; the image size does *)
(* not change.  A stretch of code under the mutex is one step.             *)
(***************************************************************************)
EXTENDS Naturals, Sequences

CONSTANTS Views,        (* the views the widget can be moved to            *)
          Maps,         (* the installed maps                              *)
          HomeView,     (* the view initialisationFinished computes        *)
          NoView, NoMap,
          NoImage,      (* the NULL pointer                                *)
          ExactReturn,  (* may a turn or a position update return to       *)
                        (* exactly the view being rendered after having    *)
                        (* left it?                                        *)
          StyleLoads,   (* the outcomes of StyleConfig::Load               *)
          MaxInputs,    (* bound: gestures, turns and position updates     *)
          MaxRoutes,    (* bound: calls of ClearRoute and AddRoute         *)
          MaxReopens    (* bound: calls of reopenMap                       *)

AnyView == Views \union {NoView}
AnyMap  == Maps \union {NoMap}

\* A value of HomeView for model checking: all maps open at the same view, so that only
\* the picture tells them apart.
SameView == [m \in Maps |-> CHOOSE v \in Views : TRUE]

ASSUME MapRenderingAssumption ==
  /\ NoView \notin Views
  /\ NoMap \notin Maps
  /\ HomeView \in [Maps -> Views]
  /\ ExactReturn \in BOOLEAN
  /\ StyleLoads \in SUBSET BOOLEAN
  /\ NoImage \notin [view : AnyView, map : AnyMap, route : Nat]
  /\ MaxInputs \in Nat /\ MaxRoutes \in Nat /\ MaxReopens \in Nat

VARIABLES
  view,                 (* MapWidget: center, angle, magnification         *)
  turned,               (* history: setRotation() alone has changed the    *)
                        (* view since it was last painted or asked for     *)
  quickZooming,         (* MapWidget: a gesture scales the finished image  *)
  guiPc,                (* where the GUI thread is inside a handler        *)
  guiEvents,            (* signals queued for the GUI thread               *)
  paintPending,         (* update() was called, paint() not yet            *)
  screen,               (* what the widget shows                           *)
  inputs, reopens,      (* counters behind the bounds                      *)
  db,                   (* the open database                               *)
  style,                (* styleConfig is set                              *)
  projection,           (* the projection both threads use; NoView: !valid *)
  route,                (* how often data.poiWays was changed              *)
  currentRenderRequest, doRender, aborted,
  currentImage, currentView, finishedImage, finishedView,
  dbPc,                 (* where the database thread is                    *)
  triggers,             (* TriggerMapRendering signals queued for it       *)
  request,              (* TriggerMapRendering's copy of the request       *)
  loaded,               (* what its GetObjects loaded                      *)
  running               (* FALSE once undefined behaviour ended the run    *)

widgetVars  == <<view, turned, quickZooming, screen>>
guiVars     == <<guiEvents, paintPending>>
counters    == <<inputs, reopens>>
databaseVars == <<db, style>>
requestVars == <<currentRenderRequest, doRender, aborted>>
imageVars   == <<currentImage, currentView, finishedImage, finishedView>>
renderVars  == <<dbPc, triggers, request, loaded>>

vars == <<widgetVars, guiPc, guiVars, counters, databaseVars, projection,
          route, requestVars, imageVars, renderVars, running>>

\* What an image shows.  Blank is a fresh image or one with only a text on it.
Picture == [view : AnyView, map : AnyMap, route : 0..MaxRoutes]
Blank   == [view |-> NoView, map |-> NoMap, route |-> 0]
Nothing == [view |-> NoView, map |-> NoMap]
Image   == Picture \union {NoImage}

\* TriggerMapRendering holds no lock in these phases.
Rendering == {"setup", "load", "draw", "publish"}

Event == [type : {"opened"}, map : Maps] \union [type : {"result"}]

FlagTypeOK ==
  /\ quickZooming \in BOOLEAN /\ paintPending \in BOOLEAN /\ turned \in BOOLEAN
  /\ style \in BOOLEAN
  /\ doRender \in BOOLEAN /\ aborted \in BOOLEAN
  /\ running \in BOOLEAN

ControlTypeOK ==
  /\ guiPc \in {"idle", "request", "emit", "close", "open", "style", "opened"}
  /\ dbPc \in {"boot", "style", "idle", "setup", "load", "draw", "publish"}
  /\ db \in AnyMap
  /\ inputs \in 0..MaxInputs /\ reopens \in 0..MaxReopens /\ route \in 0..MaxRoutes

QueueTypeOK == guiEvents \in Seq(Event) /\ triggers \in Nat

ViewTypeOK ==
  /\ view \in Views
  /\ projection \in AnyView
  /\ currentRenderRequest \in AnyView /\ request \in AnyView
  /\ currentView \in AnyView /\ finishedView \in AnyView

ImageTypeOK ==
  /\ screen \in Picture
  /\ currentImage \in Image /\ finishedImage \in Image
  /\ loaded \in [view : AnyView, map : AnyMap]

TypeOK == FlagTypeOK /\ ControlTypeOK /\ QueueTypeOK /\ ViewTypeOK /\ ImageTypeOK

Init ==
  /\ view \in Views
  /\ turned = FALSE
  /\ quickZooming = FALSE
  /\ guiPc = "idle"
  /\ guiEvents = <<>>
  /\ paintPending = TRUE
  /\ screen = Blank
  /\ inputs = 0 /\ reopens = 0
  /\ db = NoMap
  /\ style = FALSE
  /\ projection = NoView
  /\ route = 0
  /\ currentRenderRequest = NoView
  /\ doRender = FALSE /\ aborted = FALSE
  /\ currentImage = NoImage /\ finishedImage = NoImage
  /\ currentView = NoView /\ finishedView = NoView
  /\ dbPc = "boot"
  /\ triggers = 0
  /\ request = NoView
  /\ loaded = Nothing
  /\ running = TRUE

------------------------------------------------------------------------------

\* Racing with the painter: the process may die or happen to survive.
MayCrashIf(race) == running' \in IF race THEN BOOLEAN ELSE {TRUE}

\* The caller may be inside or outside the mutex: the renderer holds none.
FreeMaps ==
  /\ currentImage' = NoImage
  /\ finishedImage' = NoImage
  /\ UNCHANGED <<currentView, finishedView>>

\* Mutant: the rendering under way is not cancelled.
PostWithoutBreak(v) ==
  /\ currentRenderRequest' = v
  /\ doRender' = TRUE
  /\ UNCHANGED aborted

UpdateRenderRequest(v) ==
  /\ currentRenderRequest' = v
  /\ doRender' = TRUE
  /\ aborted' = TRUE

\* MapWidget::TriggerMapRendering up to the emit; MapWidget::EmitTrigger
\* queues the signal.
TriggerFromWidget(v) ==
  \/ /\ db = NoMap
     /\ guiPc' = "idle"
     /\ UNCHANGED requestVars
  \/ /\ db # NoMap
     /\ UpdateRenderRequest(v)
     /\ guiPc' = "emit"

\* Mutant: no signal while the database thread is busy.
EmitOnlyWhenIdle ==
  /\ guiPc = "emit"
  /\ guiPc' = "idle"
  /\ triggers' = IF dbPc \in Rendering THEN triggers ELSE triggers + 1
  /\ UNCHANGED <<widgetVars, guiVars, counters, databaseVars, projection, route,
                 requestVars, imageVars, dbPc, request, loaded, running>>

EmitTrigger ==
  /\ guiPc = "emit"
  /\ guiPc' = "idle"
  /\ triggers' = triggers + 1
  /\ UNCHANGED <<widgetVars, guiVars, counters, databaseVars, projection, route,
                 requestVars, imageVars, dbPc, request, loaded, running>>

------------------------------------------------------------------------------
(* The GUI thread: gestures, position updates, routes, paint               *)

Input ==
  /\ guiPc = "idle"
  /\ inputs < MaxInputs
  /\ inputs' = inputs + 1
  /\ UNCHANGED <<reopens, databaseVars, route, imageVars, renderVars,
                 running, guiEvents, projection, screen>>

\* zoom() and move(), which end a gesture, and left(), right(), up() and down(),
\* which move the view even when no map is open.
ZoomOrMove(v) ==
  /\ Input
  /\ quickZooming' = FALSE
  /\ view' \in IF db = NoMap THEN {view, v} ELSE {v}
  /\ turned' = FALSE
  /\ TriggerFromWidget(v)
  /\ UNCHANGED paintPending

\* rotateLeft(), rotateRight() and showLocation() leave quickZooming alone.
RotateOrShowLocation(v) ==
  /\ Input
  /\ view' = v
  /\ turned' = FALSE
  /\ TriggerFromWidget(v)
  /\ UNCHANGED <<quickZooming, paintPending>>

\* The positions and directions a receiver reports are all different: without
\* ExactReturn none leads back to the view that is being rendered.
MayTurnTo(v) == ExactReturn \/ v = view \/ v # currentRenderRequest

\* setRotation() alone: by a position update of main.qml that returns early or
\* while the map does not follow the position, and by the button that puts north
\* up again.  Nobody is asked for the new view.  A route such an update
\* calculates again before it returns is a ChangeRoute.
Turn(v) ==
  /\ Input
  /\ MayTurnTo(v)
  /\ view' = v
  /\ turned' = (turned \/ v # view)
  /\ UNCHANGED <<quickZooming, guiPc, requestVars, paintPending>>

\* A position update that gets to its end and follows the position: setRotation(),
\* then showCoordinates(), which leaves a rendering under way alone.
PositionUpdate(v) ==
  /\ Input
  /\ MayTurnTo(v)
  /\ view' = v
  /\ turned' = FALSE
  /\ IF doRender THEN UNCHANGED <<guiPc, requestVars>> ELSE TriggerFromWidget(v)
  /\ UNCHANGED <<quickZooming, paintPending>>

\* zoomQuick() and moveQuick(), while the gesture lasts.
QuickGesture ==
  /\ guiPc = "idle"
  /\ quickZooming' = TRUE
  /\ paintPending' = TRUE
  /\ UNCHANGED <<view, turned, screen, guiPc, guiEvents, counters, databaseVars,
                 projection, route, requestVars, imageVars, renderVars, running>>

\* ClearRoute() and AddRoute(): DBThread emits Redraw in the GUI thread, so
\* redraw() is called at once.
ChangeRoute ==
  /\ guiPc = "idle"
  /\ route < MaxRoutes
  /\ route' = route + 1
  /\ FreeMaps
  /\ MayCrashIf(dbPc = "draw")
  /\ paintPending' = TRUE
  /\ UNCHANGED <<widgetVars, guiPc, guiEvents, counters, databaseVars, projection,
                 requestVars, renderVars>>

\* paint() during a gesture: RenderMapQuick scales whatever is finished.
PaintQuick ==
  /\ guiPc = "idle" /\ paintPending /\ quickZooming
  /\ paintPending' = FALSE
  /\ screen' = Blank
  /\ UNCHANGED <<view, turned, quickZooming, guiPc, guiEvents, counters,
                 databaseVars, projection, route, requestVars, imageVars, renderVars, running>>

\* RenderMap puts the finished image on the screen, shifted or scaled if it is
\* of another view, and tells whether it is of this one.
RenderMap ==
  IF finishedImage = NoImage \/ ~style
  THEN screen' = Blank /\ UNCHANGED projection
  ELSE /\ projection' = finishedView
       /\ screen' = IF finishedView = view THEN finishedImage ELSE Blank

\* Mutant: any finished image will do.
AnyMapMatches == finishedImage # NoImage /\ style

RenderMapMatches ==
  finishedImage # NoImage /\ style /\ finishedView = view

\* paint() otherwise; requestNewMap is TRUE whenever it is read.
Paint ==
  /\ guiPc = "idle" /\ paintPending /\ ~quickZooming
  /\ paintPending' = FALSE
  /\ turned' = FALSE
  /\ RenderMap
  /\ guiPc' = IF RenderMapMatches THEN "idle" ELSE "request"
  /\ UNCHANGED <<view, quickZooming, guiEvents, counters, databaseVars, route,
                 requestVars, imageVars, renderVars, running>>

\* The second half of paint(): the mutex was released in between.
RequestNewMap ==
  /\ guiPc = "request"
  /\ TriggerFromWidget(view)
  /\ UNCHANGED <<widgetVars, guiVars, counters, databaseVars, projection, route,
                 imageVars, renderVars, running>>

\* HandleMapRenderingResult arrives: redraw().
HandleMapRenderingResult ==
  /\ guiPc = "idle"
  /\ guiEvents # <<>> /\ Head(guiEvents).type = "result"
  /\ guiEvents' = Tail(guiEvents)
  /\ paintPending' = TRUE
  /\ UNCHANGED <<widgetVars, guiPc, counters, databaseVars, projection, route,
                 requestVars, imageVars, renderVars, running>>

\* Mutant: the new view is left to the next paint().
ShowOpenedMapUntriggered(m) ==
  /\ quickZooming' = FALSE
  /\ view' = HomeView[m]
  /\ turned' = FALSE
  /\ guiPc' = "idle"
  /\ UNCHANGED <<screen, requestVars>>

\* initialisationFinished() for map m.
ShowOpenedMap(m) ==
  /\ quickZooming' = FALSE
  /\ view' = HomeView[m]
  /\ turned' = FALSE
  /\ TriggerFromWidget(HomeView[m])
  /\ UNCHANGED screen

\* InitialisationFinished of the database thread arrives.
HandleInitialisationFinished ==
  /\ guiPc = "idle"
  /\ guiEvents # <<>> /\ Head(guiEvents).type = "opened"
  /\ guiEvents' = Tail(guiEvents)
  /\ ShowOpenedMap(Head(guiEvents).map)
  /\ UNCHANGED <<paintPending, counters, databaseVars, projection, route,
                 imageVars, renderVars, running>>

------------------------------------------------------------------------------
(* reopenMap(), in the GUI thread: Finalize(), then Initialize()           *)

\* quickZooming=true and the FreeMaps() of Finalize().  The dialog that calls
\* it cannot be left before the database thread has initialised.
ReopenMap ==
  /\ guiPc = "idle"
  /\ dbPc \notin {"boot", "style"}
  /\ reopens < MaxReopens
  /\ reopens' = reopens + 1
  /\ quickZooming' = TRUE
  /\ FreeMaps
  /\ MayCrashIf(dbPc = "draw")
  /\ guiPc' = "close"
  /\ UNCHANGED <<view, turned, screen, guiVars, inputs, databaseVars, projection, route,
                 requestVars, renderVars>>

ReopenClose ==
  /\ guiPc = "close"
  /\ db' = NoMap
  /\ MayCrashIf(dbPc \in {"load", "draw"})
  /\ guiPc' = "open"
  /\ UNCHANGED <<widgetVars, guiVars, counters, style, projection, route,
                 requestVars, imageVars, renderVars>>

\* Without a usable map directory Initialize() returns silently.
ReopenOpen ==
  /\ guiPc = "open"
  /\ \/ \E m \in Maps : db' = m /\ guiPc' = "style"
     \/ db' = NoMap /\ guiPc' = "idle"
  /\ UNCHANGED <<widgetVars, guiVars, counters, style, projection, route,
                 requestVars, imageVars, renderVars, running>>

\* styleConfig and painter are replaced.
ReopenStyle ==
  /\ guiPc = "style"
  /\ style' \in StyleLoads
  /\ MayCrashIf(dbPc \in {"load", "draw"})
  /\ guiPc' = "opened"
  /\ UNCHANGED <<widgetVars, guiVars, counters, db, projection, route,
                 requestVars, imageVars, renderVars>>

\* InitialisationFinished is emitted in the receiver's own thread.
ReopenFinished ==
  /\ guiPc = "opened"
  /\ ShowOpenedMap(db)
  /\ UNCHANGED <<guiVars, counters, databaseVars, projection, route,
                 imageVars, renderVars, running>>

------------------------------------------------------------------------------
(* The database thread                                                     *)

unchangedByDB == <<widgetVars, guiPc, paintPending, counters, route>>

\* Initialize(), run when the thread starts.
BootOpen ==
  /\ dbPc = "boot"
  /\ \/ \E m \in Maps : db' = m /\ dbPc' = "style"
     \/ db' = NoMap /\ dbPc' = "idle"
  /\ UNCHANGED <<unchangedByDB, running, guiEvents, style, projection, requestVars,
                 imageVars, triggers, request, loaded>>

BootStyle ==
  /\ dbPc = "style"
  /\ style' \in StyleLoads
  /\ guiEvents' = Append(guiEvents, [type |-> "opened", map |-> db])
  /\ dbPc' = "idle"
  /\ UNCHANGED <<unchangedByDB, running, db, projection, requestVars, imageVars,
                 triggers, request, loaded>>

\* Mutant: doRender is taken back when the rendering starts.
StartTakingRequest ==
  /\ dbPc = "idle"
  /\ triggers > 0
  /\ triggers' = triggers - 1
  /\ IF doRender
     THEN /\ request' = currentRenderRequest
          /\ aborted' = FALSE
          /\ doRender' = FALSE
          /\ dbPc' = "setup"
     ELSE UNCHANGED <<request, aborted, doRender, dbPc>>
  /\ UNCHANGED <<unchangedByDB, running, guiEvents, databaseVars, projection,
                 currentRenderRequest, imageVars, loaded>>

\* The first locked section of TriggerMapRendering.
Start ==
  /\ dbPc = "idle"
  /\ triggers > 0
  /\ triggers' = triggers - 1
  /\ IF doRender
     THEN /\ request' = currentRenderRequest
          /\ aborted' = FALSE
          /\ dbPc' = "setup"
     ELSE UNCHANGED <<request, aborted, dbPc>>
  /\ UNCHANGED <<unchangedByDB, running, guiEvents, databaseVars, projection,
                 currentRenderRequest, doRender, imageVars, loaded>>

\* currentImage and the view it is of; without a map only a text is drawn.
SetUp ==
  /\ dbPc = "setup"
  /\ currentView' = request
  /\ IF db # NoMap /\ style
     THEN /\ currentImage' = IF currentImage = NoImage THEN Blank ELSE currentImage
          /\ projection' = request
          /\ dbPc' = "load"
     ELSE /\ currentImage' = Blank
          /\ dbPc' = "publish"
          /\ UNCHANGED projection
  /\ UNCHANGED <<unchangedByDB, running, guiEvents, databaseVars, requestVars,
                 finishedImage, finishedView, triggers, request, loaded>>

\* GetObjects for whatever the shared projection, database and style are by now.
Load ==
  /\ dbPc = "load"
  /\ MayCrashIf(~style)
  /\ loaded' = [view |-> projection, map |-> db]
  /\ dbPc' = "draw"
  /\ UNCHANGED <<unchangedByDB, guiEvents, databaseVars, projection, requestVars,
                 imageVars, triggers, request>>

\* DrawMap, with a painter object only if the style could be loaded.  A
\* projection that changed since the data was loaded gives a picture of no view.
Draw ==
  /\ dbPc = "draw"
  /\ MayCrashIf(~style \/ currentImage = NoImage)
  /\ currentImage' =
       IF currentImage = NoImage THEN NoImage
       ELSE [view  |-> IF projection = loaded.view THEN loaded.view ELSE NoView,
             map   |-> loaded.map,
             route |-> route]
  /\ dbPc' = "publish"
  /\ UNCHANGED <<unchangedByDB, guiEvents, databaseVars, projection, requestVars,
                 currentView, finishedImage, finishedView, triggers, request, loaded>>

Swap ==
  /\ currentImage' = finishedImage /\ finishedImage' = currentImage
  /\ currentView' = finishedView /\ finishedView' = currentView

\* Mutant: a cancelled rendering is published all the same.
PublishCancelled ==
  /\ dbPc = "publish"
  /\ dbPc' = "idle"
  /\ Swap
  /\ doRender' = FALSE
  /\ guiEvents' = Append(guiEvents, [type |-> "result"])
  /\ request' = NoView /\ loaded' = Nothing
  /\ UNCHANGED <<unchangedByDB, running, databaseVars, projection, currentRenderRequest,
                 aborted, triggers>>

\* Mutant: the widget is not told.
PublishSilently ==
  /\ dbPc = "publish"
  /\ dbPc' = "idle"
  /\ IF aborted
     THEN UNCHANGED <<imageVars, doRender>>
     ELSE Swap /\ doRender' = FALSE
  /\ request' = NoView /\ loaded' = Nothing
  /\ UNCHANGED <<unchangedByDB, running, guiEvents, databaseVars, projection,
                 currentRenderRequest, aborted, triggers>>

\* The last locked section: a cancelled rendering is not published and leaves
\* doRender set.
Publish ==
  /\ dbPc = "publish"
  /\ dbPc' = "idle"
  /\ IF aborted
     THEN UNCHANGED <<imageVars, doRender, guiEvents>>
     ELSE /\ Swap
          /\ doRender' = FALSE
          /\ guiEvents' = Append(guiEvents, [type |-> "result"])
  /\ request' = NoView /\ loaded' = Nothing
  /\ UNCHANGED <<unchangedByDB, running, databaseVars, projection, currentRenderRequest,
                 aborted, triggers>>

------------------------------------------------------------------------------
GuiEvent == \/ EmitTrigger \/ RequestNewMap
            \/ HandleMapRenderingResult \/ HandleInitialisationFinished
            \/ PaintQuick \/ Paint
            \/ ReopenClose \/ ReopenOpen \/ ReopenStyle \/ ReopenFinished

User == \/ \E v \in Views : ZoomOrMove(v)
        \/ \E v \in Views : RotateOrShowLocation(v)
        \/ \E v \in Views : Turn(v)
        \/ \E v \in Views : PositionUpdate(v)
        \/ QuickGesture
        \/ ChangeRoute
        \/ ReopenMap

DatabaseThread == BootOpen \/ BootStyle \/ Start \/ SetUp \/ Load \/ Draw \/ Publish

Next == running /\ (GuiEvent \/ User \/ DatabaseThread)

Spec == Init /\ [][Next]_vars

\* Both event loops keep running; nobody has to touch the screen.
FairSpec == /\ Spec
            /\ WF_vars(running /\ GuiEvent)
            /\ WF_vars(running /\ DatabaseThread)

------------------------------------------------------------------------------
(* Properties                                                              *)

\* A view that was asked for is never forgotten: a trigger is queued or about
\* to be, or the database thread is rendering exactly this view, uncancelled.
\* Between UpdateRenderRequest, Break, Reset and the trigger this is what keeps
\* the map from freezing.
RequestNeverLost ==
  doRender => \/ triggers > 0
              \/ guiPc = "emit"
              \/ /\ dbPc \in Rendering
                 /\ ~aborted
                 /\ request = currentRenderRequest

\* doRender, which isRendering() reports, covers every rendering under way,
\* cancelled ones included.
RenderingIsReported == dbPc \in Rendering => doRender

\* The reset of the breaker and the copy of the request belong together: as
\* long as the rendering under way is not cancelled it is of the newest view.
RendersNewestOrCancelled ==
  dbPc \in Rendering /\ ~aborted => request = currentRenderRequest

\* The map on the screen when both threads have nothing left to do.
Quiescent ==
  /\ guiPc = "idle" /\ guiEvents = <<>> /\ ~paintPending
  /\ dbPc = "idle" /\ triggers = 0

Settled == running /\ Quiescent /\ db # NoMap /\ style /\ ~quickZooming

\* Once everything has been processed the screen shows a picture of the open
\* map with the current route that is taken for the widget's view, whatever
\* freed images and skipped or cancelled requests came before.  The exception is
\* a view that setRotation() alone has turned, which nobody asks for.
MapUpToDate ==
  Settled => /\ turned \/ finishedView = view
             /\ screen.map = db /\ screen.route = route

\* After such a turn the screen keeps the picture from before it.
UpToDate ==
  screen = [view |-> IF turned THEN finishedView ELSE view, map |-> db, route |-> route]

\* Unless ExactReturn, it really is a picture of that view: a projection that
\* paint() changes under the renderer's feet is always repaired.
ScreenUpToDate == Settled => UpToDate

\* The threads reach that state: no endless chase of paint and rendering.
EventuallyUpToDate ==
  <>[](running /\ db # NoMap /\ style /\ ~quickZooming) => <>[]UpToDate

\* Seen through the requests only, this is RenderService.
Service == INSTANCE RenderService
             WITH latest <- currentRenderRequest, pending <- doRender,
                  shown <- finishedView

ImplementsService == Service!Spec

==============================================================================
