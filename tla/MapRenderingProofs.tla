-------------------------- MODULE MapRenderingProofs --------------------------
(***************************************************************************)
(* For any number of views, maps, routes and reopened maps: the types,     *)
(* that no requested view is lost, that MapRendering implements            *)
(* RenderService, and that the screen is up to date once both threads have *)
(* nothing left to do.                                                     *)
(***************************************************************************)
EXTENDS MapRendering, TLAPS

ReopenSteps == {"close", "open", "style", "opened"}

\* Initialize() runs in one thread at a time and leaves a database open.
InitializeInv ==
  /\ guiPc \in ReopenSteps => dbPc \notin {"boot", "style"}
  /\ guiPc \in {"style", "opened"} => db # NoMap
  /\ dbPc = "style" => db # NoMap

TypeInv == TypeOK /\ InitializeInv

\* The pictures and events the steps make are what they should be.
LEMMA Values ==
  /\ Blank \in Picture
  /\ Nothing \in [view : AnyView, map : AnyMap]
  /\ [type |-> "result"] \in Event
  /\ \A m \in Maps : [type |-> "opened", map |-> m] \in Event
  /\ \A v \in AnyView, m \in AnyMap : [view |-> v, map |-> m] \in [view : AnyView, map : AnyMap]
  /\ \A v \in AnyView, m \in AnyMap, r \in 0..MaxRoutes :
       [view |-> v, map |-> m, route |-> r] \in Picture
  BY MapRenderingAssumption DEF Blank, Picture, Nothing, Event, AnyView, AnyMap

LEMMA EventHead ==
  ASSUME NEW s \in Seq(Event), s # <<>>
  PROVE  /\ Tail(s) \in Seq(Event)
         /\ Head(s).type = "opened" => Head(s).map \in Maps
<1>1. Head(s) \in Event /\ Tail(s) \in Seq(Event)
  OBVIOUS
<1>2. QED
  BY <1>1 DEF Event

LEMMA TypeInit == Init => TypeInv
<1> SUFFICES ASSUME Init PROVE TypeInv
  OBVIOUS
<1>1. FlagTypeOK
  BY DEF Init, FlagTypeOK
<1>2. ControlTypeOK
  BY MapRenderingAssumption DEF Init, ControlTypeOK, AnyMap
<1>3. QueueTypeOK
  BY DEF Init, QueueTypeOK
<1>4. ViewTypeOK
  BY DEF Init, ViewTypeOK, AnyView
<1>5. ImageTypeOK
  BY Values DEF Init, ImageTypeOK, Image
<1>6. InitializeInv
  BY DEF Init, InitializeInv, ReopenSteps
<1>7. QED
  BY <1>1, <1>2, <1>3, <1>4, <1>5, <1>6 DEF TypeInv, TypeOK

LEMMA FlagStep == TypeInv /\ [Next]_vars => FlagTypeOK'
<1> SUFFICES ASSUME TypeInv, [Next]_vars PROVE FlagTypeOK'
  OBVIOUS
<1> USE MapRenderingAssumption DEF TypeInv, TypeOK, FlagTypeOK, vars, widgetVars,
    guiVars, counters, databaseVars, requestVars, imageVars, renderVars, unchangedByDB
<1>1. ASSUME EmitTrigger PROVE FlagTypeOK'
  BY <1>1 DEF EmitTrigger
<1>2. ASSUME RequestNewMap PROVE FlagTypeOK'
  BY <1>2 DEF RequestNewMap, TriggerFromWidget, UpdateRenderRequest
<1>3. ASSUME HandleMapRenderingResult PROVE FlagTypeOK'
  BY <1>3 DEF HandleMapRenderingResult
<1>4. ASSUME HandleInitialisationFinished PROVE FlagTypeOK'
  BY <1>4 DEF HandleInitialisationFinished, ShowOpenedMap, TriggerFromWidget,
    UpdateRenderRequest
<1>5. ASSUME PaintQuick PROVE FlagTypeOK'
  BY <1>5 DEF PaintQuick
<1>6. ASSUME Paint PROVE FlagTypeOK'
  BY <1>6 DEF Paint, RenderMap, RenderMapMatches
<1>7. ASSUME ReopenClose PROVE FlagTypeOK'
  BY <1>7 DEF ReopenClose, MayCrashIf
<1>8. ASSUME ReopenOpen PROVE FlagTypeOK'
  BY <1>8 DEF ReopenOpen
<1>9. ASSUME ReopenStyle PROVE FlagTypeOK'
  BY <1>9 DEF ReopenStyle, MayCrashIf
<1>10. ASSUME ReopenFinished PROVE FlagTypeOK'
  BY <1>10 DEF ReopenFinished, ShowOpenedMap, TriggerFromWidget, UpdateRenderRequest
<1>11. ASSUME NEW v \in Views, ZoomOrMove(v) PROVE FlagTypeOK'
  BY <1>11 DEF ZoomOrMove, Input, TriggerFromWidget, UpdateRenderRequest
<1>12. ASSUME NEW v \in Views, RotateOrShowLocation(v) PROVE FlagTypeOK'
  BY <1>12 DEF RotateOrShowLocation, Input, TriggerFromWidget, UpdateRenderRequest
<1>13. ASSUME NEW v \in Views, Turn(v) PROVE FlagTypeOK'
  BY <1>13 DEF Turn, Input
<1>14. ASSUME NEW v \in Views, PositionUpdate(v) PROVE FlagTypeOK'
  BY <1>14 DEF PositionUpdate, Input, TriggerFromWidget, UpdateRenderRequest
<1>15. ASSUME QuickGesture PROVE FlagTypeOK'
  BY <1>15 DEF QuickGesture
<1>16. ASSUME ChangeRoute PROVE FlagTypeOK'
  BY <1>16 DEF ChangeRoute, FreeMaps, MayCrashIf
<1>17. ASSUME ReopenMap PROVE FlagTypeOK'
  BY <1>17 DEF ReopenMap, FreeMaps, MayCrashIf
<1>18. ASSUME BootOpen PROVE FlagTypeOK'
  BY <1>18 DEF BootOpen
<1>19. ASSUME BootStyle PROVE FlagTypeOK'
  BY <1>19 DEF BootStyle
<1>20. ASSUME Start PROVE FlagTypeOK'
  BY <1>20 DEF Start
<1>21. ASSUME SetUp PROVE FlagTypeOK'
  BY <1>21 DEF SetUp
<1>22. ASSUME Load PROVE FlagTypeOK'
  BY <1>22 DEF Load, MayCrashIf
<1>23. ASSUME Draw PROVE FlagTypeOK'
  BY <1>23 DEF Draw, MayCrashIf
<1>24. ASSUME Publish PROVE FlagTypeOK'
  BY <1>24 DEF Publish, Swap
<1>25. ASSUME UNCHANGED vars PROVE FlagTypeOK'
  BY <1>25
<1>26. QED
  BY <1>1, <1>2, <1>3, <1>4, <1>5, <1>6, <1>7, <1>8, <1>9, <1>10, <1>11, <1>12, <1>13,
    <1>14, <1>15, <1>16, <1>17, <1>18, <1>19, <1>20, <1>21, <1>22, <1>23, <1>24, <1>25 DEF
    Next, GuiEvent, User, DatabaseThread

LEMMA ControlStep == TypeInv /\ [Next]_vars => ControlTypeOK'
<1> SUFFICES ASSUME TypeInv, [Next]_vars PROVE ControlTypeOK'
  OBVIOUS
<1> USE MapRenderingAssumption DEF TypeInv, TypeOK, ControlTypeOK, AnyMap, vars,
    widgetVars, guiVars, counters, databaseVars, requestVars, imageVars, renderVars,
    unchangedByDB
<1>1. ASSUME EmitTrigger PROVE ControlTypeOK'
  BY <1>1 DEF EmitTrigger
<1>2. ASSUME RequestNewMap PROVE ControlTypeOK'
  BY <1>2 DEF RequestNewMap, TriggerFromWidget, UpdateRenderRequest
<1>3. ASSUME HandleMapRenderingResult PROVE ControlTypeOK'
  BY <1>3 DEF HandleMapRenderingResult
<1>4. ASSUME HandleInitialisationFinished PROVE ControlTypeOK'
  BY <1>4 DEF HandleInitialisationFinished, ShowOpenedMap, TriggerFromWidget,
    UpdateRenderRequest
<1>5. ASSUME PaintQuick PROVE ControlTypeOK'
  BY <1>5 DEF PaintQuick
<1>6. ASSUME Paint PROVE ControlTypeOK'
  BY <1>6 DEF Paint, RenderMap, RenderMapMatches
<1>7. ASSUME ReopenClose PROVE ControlTypeOK'
  BY <1>7 DEF ReopenClose, MayCrashIf
<1>8. ASSUME ReopenOpen PROVE ControlTypeOK'
  BY <1>8 DEF ReopenOpen
<1>9. ASSUME ReopenStyle PROVE ControlTypeOK'
  BY <1>9 DEF ReopenStyle, MayCrashIf
<1>10. ASSUME ReopenFinished PROVE ControlTypeOK'
  BY <1>10 DEF ReopenFinished, ShowOpenedMap, TriggerFromWidget, UpdateRenderRequest
<1>11. ASSUME NEW v \in Views, ZoomOrMove(v) PROVE ControlTypeOK'
  BY <1>11 DEF ZoomOrMove, Input, TriggerFromWidget, UpdateRenderRequest
<1>12. ASSUME NEW v \in Views, RotateOrShowLocation(v) PROVE ControlTypeOK'
  BY <1>12 DEF RotateOrShowLocation, Input, TriggerFromWidget, UpdateRenderRequest
<1>13. ASSUME NEW v \in Views, Turn(v) PROVE ControlTypeOK'
  BY <1>13 DEF Turn, Input
<1>14. ASSUME NEW v \in Views, PositionUpdate(v) PROVE ControlTypeOK'
  BY <1>14 DEF PositionUpdate, Input, TriggerFromWidget, UpdateRenderRequest
<1>15. ASSUME QuickGesture PROVE ControlTypeOK'
  BY <1>15 DEF QuickGesture
<1>16. ASSUME ChangeRoute PROVE ControlTypeOK'
  BY <1>16 DEF ChangeRoute, FreeMaps, MayCrashIf
<1>17. ASSUME ReopenMap PROVE ControlTypeOK'
  BY <1>17 DEF ReopenMap, FreeMaps, MayCrashIf
<1>18. ASSUME BootOpen PROVE ControlTypeOK'
  BY <1>18 DEF BootOpen
<1>19. ASSUME BootStyle PROVE ControlTypeOK'
  BY <1>19 DEF BootStyle
<1>20. ASSUME Start PROVE ControlTypeOK'
  BY <1>20 DEF Start
<1>21. ASSUME SetUp PROVE ControlTypeOK'
  BY <1>21 DEF SetUp
<1>22. ASSUME Load PROVE ControlTypeOK'
  BY <1>22 DEF Load, MayCrashIf
<1>23. ASSUME Draw PROVE ControlTypeOK'
  BY <1>23 DEF Draw, MayCrashIf
<1>24. ASSUME Publish PROVE ControlTypeOK'
  BY <1>24 DEF Publish, Swap
<1>25. ASSUME UNCHANGED vars PROVE ControlTypeOK'
  BY <1>25
<1>26. QED
  BY <1>1, <1>2, <1>3, <1>4, <1>5, <1>6, <1>7, <1>8, <1>9, <1>10, <1>11, <1>12, <1>13,
    <1>14, <1>15, <1>16, <1>17, <1>18, <1>19, <1>20, <1>21, <1>22, <1>23, <1>24, <1>25 DEF
    Next, GuiEvent, User, DatabaseThread

LEMMA QueueStep == TypeInv /\ [Next]_vars => QueueTypeOK'
<1> SUFFICES ASSUME TypeInv, [Next]_vars PROVE QueueTypeOK'
  OBVIOUS
<1> USE DEF TypeInv, TypeOK, QueueTypeOK, vars, widgetVars, guiVars, counters,
    databaseVars, requestVars, imageVars, renderVars, unchangedByDB
<1>1. ASSUME EmitTrigger PROVE QueueTypeOK'
  BY <1>1 DEF EmitTrigger
<1>2. ASSUME RequestNewMap PROVE QueueTypeOK'
  BY <1>2 DEF RequestNewMap, TriggerFromWidget, UpdateRenderRequest
<1>3. ASSUME HandleMapRenderingResult PROVE QueueTypeOK'
  BY <1>3, EventHead DEF HandleMapRenderingResult
<1>4. ASSUME HandleInitialisationFinished PROVE QueueTypeOK'
  BY <1>4, EventHead DEF HandleInitialisationFinished, ShowOpenedMap, TriggerFromWidget,
    UpdateRenderRequest
<1>5. ASSUME PaintQuick PROVE QueueTypeOK'
  BY <1>5 DEF PaintQuick
<1>6. ASSUME Paint PROVE QueueTypeOK'
  BY <1>6 DEF Paint, RenderMap, RenderMapMatches
<1>7. ASSUME ReopenClose PROVE QueueTypeOK'
  BY <1>7 DEF ReopenClose, MayCrashIf
<1>8. ASSUME ReopenOpen PROVE QueueTypeOK'
  BY <1>8 DEF ReopenOpen
<1>9. ASSUME ReopenStyle PROVE QueueTypeOK'
  BY <1>9 DEF ReopenStyle, MayCrashIf
<1>10. ASSUME ReopenFinished PROVE QueueTypeOK'
  BY <1>10 DEF ReopenFinished, ShowOpenedMap, TriggerFromWidget, UpdateRenderRequest
<1>11. ASSUME NEW v \in Views, ZoomOrMove(v) PROVE QueueTypeOK'
  BY <1>11 DEF ZoomOrMove, Input, TriggerFromWidget, UpdateRenderRequest
<1>12. ASSUME NEW v \in Views, RotateOrShowLocation(v) PROVE QueueTypeOK'
  BY <1>12 DEF RotateOrShowLocation, Input, TriggerFromWidget, UpdateRenderRequest
<1>13. ASSUME NEW v \in Views, Turn(v) PROVE QueueTypeOK'
  BY <1>13 DEF Turn, Input
<1>14. ASSUME NEW v \in Views, PositionUpdate(v) PROVE QueueTypeOK'
  BY <1>14 DEF PositionUpdate, Input, TriggerFromWidget, UpdateRenderRequest
<1>15. ASSUME QuickGesture PROVE QueueTypeOK'
  BY <1>15 DEF QuickGesture
<1>16. ASSUME ChangeRoute PROVE QueueTypeOK'
  BY <1>16 DEF ChangeRoute, FreeMaps, MayCrashIf
<1>17. ASSUME ReopenMap PROVE QueueTypeOK'
  BY <1>17 DEF ReopenMap, FreeMaps, MayCrashIf
<1>18. ASSUME BootOpen PROVE QueueTypeOK'
  BY <1>18 DEF BootOpen
<1>19. ASSUME BootStyle PROVE QueueTypeOK'
  <2>1. db \in Maps
    BY <1>19 DEF BootStyle, InitializeInv, ControlTypeOK, AnyMap
  <2>2. [type |-> "opened", map |-> db] \in Event
    BY <2>1, Values
  <2>3. QED
    BY <1>19, <2>2 DEF BootStyle
<1>20. ASSUME Start PROVE QueueTypeOK'
  BY <1>20 DEF Start
<1>21. ASSUME SetUp PROVE QueueTypeOK'
  BY <1>21 DEF SetUp
<1>22. ASSUME Load PROVE QueueTypeOK'
  BY <1>22 DEF Load, MayCrashIf
<1>23. ASSUME Draw PROVE QueueTypeOK'
  BY <1>23 DEF Draw, MayCrashIf
<1>24. ASSUME Publish PROVE QueueTypeOK'
  BY <1>24, Values DEF Publish, Swap
<1>25. ASSUME UNCHANGED vars PROVE QueueTypeOK'
  BY <1>25
<1>26. QED
  BY <1>1, <1>2, <1>3, <1>4, <1>5, <1>6, <1>7, <1>8, <1>9, <1>10, <1>11, <1>12, <1>13,
    <1>14, <1>15, <1>16, <1>17, <1>18, <1>19, <1>20, <1>21, <1>22, <1>23, <1>24, <1>25 DEF
    Next, GuiEvent, User, DatabaseThread

LEMMA ViewStep == TypeInv /\ [Next]_vars => ViewTypeOK'
<1> SUFFICES ASSUME TypeInv, [Next]_vars PROVE ViewTypeOK'
  OBVIOUS
<1> USE MapRenderingAssumption DEF TypeInv, TypeOK, ViewTypeOK, AnyView, vars,
    widgetVars, guiVars, counters, databaseVars, requestVars, imageVars, renderVars,
    unchangedByDB
<1>1. ASSUME EmitTrigger PROVE ViewTypeOK'
  BY <1>1 DEF EmitTrigger
<1>2. ASSUME RequestNewMap PROVE ViewTypeOK'
  BY <1>2 DEF RequestNewMap, TriggerFromWidget, UpdateRenderRequest
<1>3. ASSUME HandleMapRenderingResult PROVE ViewTypeOK'
  BY <1>3 DEF HandleMapRenderingResult
<1>4. ASSUME HandleInitialisationFinished PROVE ViewTypeOK'
  <2>1. Head(guiEvents).map \in Maps
    BY <1>4, EventHead DEF HandleInitialisationFinished, QueueTypeOK
  <2>2. HomeView[Head(guiEvents).map] \in Views
    BY <2>1
  <2>3. QED
    BY <1>4, <2>2 DEF HandleInitialisationFinished, ShowOpenedMap, TriggerFromWidget, UpdateRenderRequest
<1>5. ASSUME PaintQuick PROVE ViewTypeOK'
  BY <1>5 DEF PaintQuick
<1>6. ASSUME Paint PROVE ViewTypeOK'
  BY <1>6 DEF Paint, RenderMap, RenderMapMatches
<1>7. ASSUME ReopenClose PROVE ViewTypeOK'
  BY <1>7 DEF ReopenClose, MayCrashIf
<1>8. ASSUME ReopenOpen PROVE ViewTypeOK'
  BY <1>8 DEF ReopenOpen
<1>9. ASSUME ReopenStyle PROVE ViewTypeOK'
  BY <1>9 DEF ReopenStyle, MayCrashIf
<1>10. ASSUME ReopenFinished PROVE ViewTypeOK'
  <2>1. db \in Maps
    BY <1>10 DEF ReopenFinished, InitializeInv, ControlTypeOK, AnyMap
  <2>2. HomeView[db] \in Views
    BY <2>1
  <2>3. QED
    BY <1>10, <2>2 DEF ReopenFinished, ShowOpenedMap, TriggerFromWidget, UpdateRenderRequest
<1>11. ASSUME NEW v \in Views, ZoomOrMove(v) PROVE ViewTypeOK'
  BY <1>11 DEF ZoomOrMove, Input, TriggerFromWidget, UpdateRenderRequest
<1>12. ASSUME NEW v \in Views, RotateOrShowLocation(v) PROVE ViewTypeOK'
  BY <1>12 DEF RotateOrShowLocation, Input, TriggerFromWidget, UpdateRenderRequest
<1>13. ASSUME NEW v \in Views, Turn(v) PROVE ViewTypeOK'
  BY <1>13 DEF Turn, Input
<1>14. ASSUME NEW v \in Views, PositionUpdate(v) PROVE ViewTypeOK'
  BY <1>14 DEF PositionUpdate, Input, TriggerFromWidget, UpdateRenderRequest
<1>15. ASSUME QuickGesture PROVE ViewTypeOK'
  BY <1>15 DEF QuickGesture
<1>16. ASSUME ChangeRoute PROVE ViewTypeOK'
  BY <1>16 DEF ChangeRoute, FreeMaps, MayCrashIf
<1>17. ASSUME ReopenMap PROVE ViewTypeOK'
  BY <1>17 DEF ReopenMap, FreeMaps, MayCrashIf
<1>18. ASSUME BootOpen PROVE ViewTypeOK'
  BY <1>18 DEF BootOpen
<1>19. ASSUME BootStyle PROVE ViewTypeOK'
  BY <1>19 DEF BootStyle
<1>20. ASSUME Start PROVE ViewTypeOK'
  BY <1>20 DEF Start
<1>21. ASSUME SetUp PROVE ViewTypeOK'
  BY <1>21 DEF SetUp
<1>22. ASSUME Load PROVE ViewTypeOK'
  BY <1>22 DEF Load, MayCrashIf
<1>23. ASSUME Draw PROVE ViewTypeOK'
  BY <1>23 DEF Draw, MayCrashIf
<1>24. ASSUME Publish PROVE ViewTypeOK'
  BY <1>24 DEF Publish, Swap
<1>25. ASSUME UNCHANGED vars PROVE ViewTypeOK'
  BY <1>25
<1>26. QED
  BY <1>1, <1>2, <1>3, <1>4, <1>5, <1>6, <1>7, <1>8, <1>9, <1>10, <1>11, <1>12, <1>13,
    <1>14, <1>15, <1>16, <1>17, <1>18, <1>19, <1>20, <1>21, <1>22, <1>23, <1>24, <1>25 DEF
    Next, GuiEvent, User, DatabaseThread

LEMMA ImageStep == TypeInv /\ [Next]_vars => ImageTypeOK'
<1> SUFFICES ASSUME TypeInv, [Next]_vars PROVE ImageTypeOK'
  OBVIOUS
<1> USE DEF TypeInv, TypeOK, ImageTypeOK, Image, vars, widgetVars, guiVars, counters,
    databaseVars, requestVars, imageVars, renderVars, unchangedByDB
<1>1. ASSUME EmitTrigger PROVE ImageTypeOK'
  BY <1>1 DEF EmitTrigger
<1>2. ASSUME RequestNewMap PROVE ImageTypeOK'
  BY <1>2 DEF RequestNewMap, TriggerFromWidget, UpdateRenderRequest
<1>3. ASSUME HandleMapRenderingResult PROVE ImageTypeOK'
  BY <1>3 DEF HandleMapRenderingResult
<1>4. ASSUME HandleInitialisationFinished PROVE ImageTypeOK'
  BY <1>4 DEF HandleInitialisationFinished, ShowOpenedMap, TriggerFromWidget,
    UpdateRenderRequest
<1>5. ASSUME PaintQuick PROVE ImageTypeOK'
  BY <1>5, Values DEF PaintQuick
<1>6. ASSUME Paint PROVE ImageTypeOK'
  BY <1>6, Values DEF Paint, RenderMap, RenderMapMatches
<1>7. ASSUME ReopenClose PROVE ImageTypeOK'
  BY <1>7 DEF ReopenClose, MayCrashIf
<1>8. ASSUME ReopenOpen PROVE ImageTypeOK'
  BY <1>8 DEF ReopenOpen
<1>9. ASSUME ReopenStyle PROVE ImageTypeOK'
  BY <1>9 DEF ReopenStyle, MayCrashIf
<1>10. ASSUME ReopenFinished PROVE ImageTypeOK'
  BY <1>10 DEF ReopenFinished, ShowOpenedMap, TriggerFromWidget, UpdateRenderRequest
<1>11. ASSUME NEW v \in Views, ZoomOrMove(v) PROVE ImageTypeOK'
  BY <1>11 DEF ZoomOrMove, Input, TriggerFromWidget, UpdateRenderRequest
<1>12. ASSUME NEW v \in Views, RotateOrShowLocation(v) PROVE ImageTypeOK'
  BY <1>12 DEF RotateOrShowLocation, Input, TriggerFromWidget, UpdateRenderRequest
<1>13. ASSUME NEW v \in Views, Turn(v) PROVE ImageTypeOK'
  BY <1>13 DEF Turn, Input
<1>14. ASSUME NEW v \in Views, PositionUpdate(v) PROVE ImageTypeOK'
  BY <1>14 DEF PositionUpdate, Input, TriggerFromWidget, UpdateRenderRequest
<1>15. ASSUME QuickGesture PROVE ImageTypeOK'
  BY <1>15 DEF QuickGesture
<1>16. ASSUME ChangeRoute PROVE ImageTypeOK'
  BY <1>16 DEF ChangeRoute, FreeMaps, MayCrashIf
<1>17. ASSUME ReopenMap PROVE ImageTypeOK'
  BY <1>17 DEF ReopenMap, FreeMaps, MayCrashIf
<1>18. ASSUME BootOpen PROVE ImageTypeOK'
  BY <1>18 DEF BootOpen
<1>19. ASSUME BootStyle PROVE ImageTypeOK'
  BY <1>19 DEF BootStyle
<1>20. ASSUME Start PROVE ImageTypeOK'
  BY <1>20 DEF Start
<1>21. ASSUME SetUp PROVE ImageTypeOK'
  BY <1>21, Values DEF SetUp
<1>22. ASSUME Load PROVE ImageTypeOK'
  <2>1. [view |-> projection, map |-> db] \in [view : AnyView, map : AnyMap]
    BY Values DEF ViewTypeOK, ControlTypeOK
  <2>2. QED
    BY <1>22, <2>1 DEF Load, MayCrashIf
<1>23. ASSUME Draw PROVE ImageTypeOK'
  <2>1. /\ loaded.view \in AnyView /\ loaded.map \in AnyMap
        /\ NoView \in AnyView /\ route \in 0..MaxRoutes
    BY DEF ControlTypeOK, AnyView
  <2>2. [view  |-> IF projection = loaded.view THEN loaded.view ELSE NoView,
         map   |-> loaded.map,
         route |-> route] \in Picture
    BY <2>1, Values
  <2>3. QED
    BY <1>23, <2>2 DEF Draw, MayCrashIf
<1>24. ASSUME Publish PROVE ImageTypeOK'
  BY <1>24, Values DEF Publish, Swap
<1>25. ASSUME UNCHANGED vars PROVE ImageTypeOK'
  BY <1>25
<1>26. QED
  BY <1>1, <1>2, <1>3, <1>4, <1>5, <1>6, <1>7, <1>8, <1>9, <1>10, <1>11, <1>12, <1>13,
    <1>14, <1>15, <1>16, <1>17, <1>18, <1>19, <1>20, <1>21, <1>22, <1>23, <1>24, <1>25 DEF
    Next, GuiEvent, User, DatabaseThread

LEMMA InitializeStep == TypeInv /\ [Next]_vars => InitializeInv'
<1> SUFFICES ASSUME TypeInv, [Next]_vars PROVE InitializeInv'
  OBVIOUS
<1> USE MapRenderingAssumption DEF TypeInv, TypeOK, InitializeInv, ReopenSteps,
    ControlTypeOK, AnyMap, vars, widgetVars, guiVars, counters, databaseVars,
    requestVars, imageVars, renderVars, unchangedByDB
<1>1. ASSUME EmitTrigger PROVE InitializeInv'
  BY <1>1 DEF EmitTrigger
<1>2. ASSUME RequestNewMap PROVE InitializeInv'
  BY <1>2 DEF RequestNewMap, TriggerFromWidget, UpdateRenderRequest
<1>3. ASSUME HandleMapRenderingResult PROVE InitializeInv'
  BY <1>3 DEF HandleMapRenderingResult
<1>4. ASSUME HandleInitialisationFinished PROVE InitializeInv'
  BY <1>4 DEF HandleInitialisationFinished, ShowOpenedMap, TriggerFromWidget,
    UpdateRenderRequest
<1>5. ASSUME PaintQuick PROVE InitializeInv'
  BY <1>5 DEF PaintQuick
<1>6. ASSUME Paint PROVE InitializeInv'
  BY <1>6 DEF Paint, RenderMap, RenderMapMatches
<1>7. ASSUME ReopenClose PROVE InitializeInv'
  BY <1>7 DEF ReopenClose, MayCrashIf
<1>8. ASSUME ReopenOpen PROVE InitializeInv'
  BY <1>8 DEF ReopenOpen
<1>9. ASSUME ReopenStyle PROVE InitializeInv'
  BY <1>9 DEF ReopenStyle, MayCrashIf
<1>10. ASSUME ReopenFinished PROVE InitializeInv'
  BY <1>10 DEF ReopenFinished, ShowOpenedMap, TriggerFromWidget, UpdateRenderRequest
<1>11. ASSUME NEW v \in Views, ZoomOrMove(v) PROVE InitializeInv'
  BY <1>11 DEF ZoomOrMove, Input, TriggerFromWidget, UpdateRenderRequest
<1>12. ASSUME NEW v \in Views, RotateOrShowLocation(v) PROVE InitializeInv'
  BY <1>12 DEF RotateOrShowLocation, Input, TriggerFromWidget, UpdateRenderRequest
<1>13. ASSUME NEW v \in Views, Turn(v) PROVE InitializeInv'
  BY <1>13 DEF Turn, Input
<1>14. ASSUME NEW v \in Views, PositionUpdate(v) PROVE InitializeInv'
  BY <1>14 DEF PositionUpdate, Input, TriggerFromWidget, UpdateRenderRequest
<1>15. ASSUME QuickGesture PROVE InitializeInv'
  BY <1>15 DEF QuickGesture
<1>16. ASSUME ChangeRoute PROVE InitializeInv'
  BY <1>16 DEF ChangeRoute, FreeMaps, MayCrashIf
<1>17. ASSUME ReopenMap PROVE InitializeInv'
  BY <1>17 DEF ReopenMap, FreeMaps, MayCrashIf
<1>18. ASSUME BootOpen PROVE InitializeInv'
  BY <1>18 DEF BootOpen
<1>19. ASSUME BootStyle PROVE InitializeInv'
  BY <1>19 DEF BootStyle
<1>20. ASSUME Start PROVE InitializeInv'
  BY <1>20 DEF Start
<1>21. ASSUME SetUp PROVE InitializeInv'
  BY <1>21 DEF SetUp
<1>22. ASSUME Load PROVE InitializeInv'
  BY <1>22 DEF Load, MayCrashIf
<1>23. ASSUME Draw PROVE InitializeInv'
  BY <1>23 DEF Draw, MayCrashIf
<1>24. ASSUME Publish PROVE InitializeInv'
  BY <1>24 DEF Publish, Swap
<1>25. ASSUME UNCHANGED vars PROVE InitializeInv'
  BY <1>25
<1>26. QED
  BY <1>1, <1>2, <1>3, <1>4, <1>5, <1>6, <1>7, <1>8, <1>9, <1>10, <1>11, <1>12, <1>13,
    <1>14, <1>15, <1>16, <1>17, <1>18, <1>19, <1>20, <1>21, <1>22, <1>23, <1>24, <1>25 DEF
    Next, GuiEvent, User, DatabaseThread

LEMMA TypeStep == TypeInv /\ [Next]_vars => TypeInv'
  BY FlagStep, ControlStep, QueueStep, ViewStep, ImageStep, InitializeStep DEF TypeInv, TypeOK

\* In every reachable state Initialize() runs in one thread at most, and every
\* variable has its type.
LEMMA TypeInvariant == Spec => []TypeInv
  BY TypeInit, TypeStep, PTL DEF Spec

\* In every reachable state every variable has its type.
THEOREM TypeCorrect == Spec => []TypeOK
<1>1. TypeInv => TypeOK
  BY DEF TypeInv
<1>2. QED
  BY <1>1, TypeInvariant, PTL


------------------------------------------------------------------------------
(* Requests                                                                *)

\* The three properties of MapRendering about requests, which are inductive
\* only together: a cancelled rendering ends with its request still pending
\* because a trigger for it is queued, and one that is not cancelled may end the
\* request because it is the newest.
RequestInv ==
  /\ RequestNeverLost
  /\ RenderingIsReported
  /\ RendersNewestOrCancelled
  /\ dbPc \in {"load", "draw", "publish"} => currentView = request

LEMMA RequestInit == Init => RequestInv
  BY DEF Init, RequestInv, RequestNeverLost, RenderingIsReported, RendersNewestOrCancelled,
         Rendering

LEMMA RequestStep == TypeInv /\ RequestInv /\ [Next]_vars => RequestInv'
<1> SUFFICES ASSUME TypeInv, RequestInv, [Next]_vars PROVE RequestInv'
  OBVIOUS
<1> USE DEF RequestInv, RequestNeverLost, RenderingIsReported,
    RendersNewestOrCancelled, Rendering, TypeInv, TypeOK, QueueTypeOK, ControlTypeOK,
    FlagTypeOK, vars, widgetVars, guiVars, counters, databaseVars, requestVars,
    imageVars, renderVars, unchangedByDB
<1>1. ASSUME EmitTrigger PROVE RequestInv'
  BY <1>1 DEF EmitTrigger
<1>2. ASSUME RequestNewMap PROVE RequestInv'
  BY <1>2 DEF RequestNewMap, TriggerFromWidget, UpdateRenderRequest
<1>3. ASSUME HandleMapRenderingResult PROVE RequestInv'
  BY <1>3 DEF HandleMapRenderingResult
<1>4. ASSUME HandleInitialisationFinished PROVE RequestInv'
  BY <1>4 DEF HandleInitialisationFinished, ShowOpenedMap, TriggerFromWidget,
    UpdateRenderRequest
<1>5. ASSUME PaintQuick PROVE RequestInv'
  BY <1>5 DEF PaintQuick
<1>6. ASSUME Paint PROVE RequestInv'
  BY <1>6 DEF Paint, RenderMap, RenderMapMatches
<1>7. ASSUME ReopenClose PROVE RequestInv'
  BY <1>7 DEF ReopenClose, MayCrashIf
<1>8. ASSUME ReopenOpen PROVE RequestInv'
  BY <1>8 DEF ReopenOpen
<1>9. ASSUME ReopenStyle PROVE RequestInv'
  BY <1>9 DEF ReopenStyle, MayCrashIf
<1>10. ASSUME ReopenFinished PROVE RequestInv'
  BY <1>10 DEF ReopenFinished, ShowOpenedMap, TriggerFromWidget, UpdateRenderRequest
<1>11. ASSUME NEW v \in Views, ZoomOrMove(v) PROVE RequestInv'
  BY <1>11 DEF ZoomOrMove, Input, TriggerFromWidget, UpdateRenderRequest
<1>12. ASSUME NEW v \in Views, RotateOrShowLocation(v) PROVE RequestInv'
  BY <1>12 DEF RotateOrShowLocation, Input, TriggerFromWidget, UpdateRenderRequest
<1>13. ASSUME NEW v \in Views, Turn(v) PROVE RequestInv'
  BY <1>13 DEF Turn, Input
<1>14. ASSUME NEW v \in Views, PositionUpdate(v) PROVE RequestInv'
  BY <1>14 DEF PositionUpdate, Input, TriggerFromWidget, UpdateRenderRequest
<1>15. ASSUME QuickGesture PROVE RequestInv'
  BY <1>15 DEF QuickGesture
<1>16. ASSUME ChangeRoute PROVE RequestInv'
  BY <1>16 DEF ChangeRoute, FreeMaps, MayCrashIf
<1>17. ASSUME ReopenMap PROVE RequestInv'
  BY <1>17 DEF ReopenMap, FreeMaps, MayCrashIf
<1>18. ASSUME BootOpen PROVE RequestInv'
  BY <1>18 DEF BootOpen
<1>19. ASSUME BootStyle PROVE RequestInv'
  BY <1>19 DEF BootStyle
<1>20. ASSUME Start PROVE RequestInv'
  BY <1>20 DEF Start
<1>21. ASSUME SetUp PROVE RequestInv'
  BY <1>21 DEF SetUp
<1>22. ASSUME Load PROVE RequestInv'
  BY <1>22 DEF Load, MayCrashIf
<1>23. ASSUME Draw PROVE RequestInv'
  BY <1>23 DEF Draw, MayCrashIf
<1>24. ASSUME Publish PROVE RequestInv'
  BY <1>24 DEF Publish, Swap
<1>25. ASSUME UNCHANGED vars PROVE RequestInv'
  BY <1>25
<1>26. QED
  BY <1>1, <1>2, <1>3, <1>4, <1>5, <1>6, <1>7, <1>8, <1>9, <1>10, <1>11, <1>12, <1>13,
    <1>14, <1>15, <1>16, <1>17, <1>18, <1>19, <1>20, <1>21, <1>22, <1>23, <1>24, <1>25 DEF
    Next, GuiEvent, User, DatabaseThread


LEMMA RequestInvariant == Spec => []RequestInv
  BY TypeInvariant, RequestInit, RequestStep, PTL DEF Spec

\* A view the widget asked for is never forgotten.
THEOREM RequestsNeverLost == Spec => []RequestNeverLost
<1>1. RequestInv => RequestNeverLost
  BY DEF RequestInv
<1>2. QED
  BY <1>1, RequestInvariant, PTL

\* isRendering() covers every rendering under way.
THEOREM RenderingsReported == Spec => []RenderingIsReported
<1>1. RequestInv => RenderingIsReported
  BY DEF RequestInv
<1>2. QED
  BY <1>1, RequestInvariant, PTL

\* What is being rendered is the newest request, or is being cancelled.
THEOREM NewestOrCancelled == Spec => []RendersNewestOrCancelled
<1>1. RequestInv => RendersNewestOrCancelled
  BY DEF RequestInv
<1>2. QED
  BY <1>1, RequestInvariant, PTL

------------------------------------------------------------------------------
(* Refinement                                                              *)

LEMMA ServiceInit == Init => Service!Init
  BY DEF Init, Service!Init

LEMMA ServiceStep == TypeInv /\ RequestInv /\ [Next]_vars => [Service!Next]_(Service!vars)
<1> SUFFICES ASSUME TypeInv, RequestInv, [Next]_vars PROVE [Service!Next]_(Service!vars)
  OBVIOUS
<1> USE DEF Service!vars, TypeInv, TypeOK, vars, widgetVars, guiVars, counters,
    databaseVars, requestVars, imageVars, renderVars, unchangedByDB
<1>1. ASSUME EmitTrigger PROVE [Service!Next]_(Service!vars)
  BY <1>1 DEF EmitTrigger
<1>2. ASSUME RequestNewMap PROVE [Service!Next]_(Service!vars)
  <2>1. UNCHANGED <<currentRenderRequest, doRender, finishedView>> \/ Service!Ask(view)
    BY <1>2 DEF RequestNewMap, TriggerFromWidget, UpdateRenderRequest, Service!Ask
  <2>2. QED
    BY <2>1 DEF Service!Next, ViewTypeOK
<1>3. ASSUME HandleMapRenderingResult PROVE [Service!Next]_(Service!vars)
  BY <1>3 DEF HandleMapRenderingResult
<1>4. ASSUME HandleInitialisationFinished PROVE [Service!Next]_(Service!vars)
  <2>1. HomeView[Head(guiEvents).map] \in Views
    BY <1>4, EventHead, MapRenderingAssumption DEF HandleInitialisationFinished, QueueTypeOK
  <2>2. \/ UNCHANGED <<currentRenderRequest, doRender, finishedView>>
        \/ Service!Ask(HomeView[Head(guiEvents).map])
    BY <1>4 DEF HandleInitialisationFinished, ShowOpenedMap, TriggerFromWidget,
              UpdateRenderRequest, Service!Ask
  <2>3. QED
    BY <2>1, <2>2 DEF Service!Next
<1>5. ASSUME PaintQuick PROVE [Service!Next]_(Service!vars)
  BY <1>5 DEF PaintQuick
<1>6. ASSUME Paint PROVE [Service!Next]_(Service!vars)
  BY <1>6 DEF Paint, RenderMap, RenderMapMatches
<1>7. ASSUME ReopenClose PROVE [Service!Next]_(Service!vars)
  BY <1>7 DEF ReopenClose, MayCrashIf
<1>8. ASSUME ReopenOpen PROVE [Service!Next]_(Service!vars)
  BY <1>8 DEF ReopenOpen
<1>9. ASSUME ReopenStyle PROVE [Service!Next]_(Service!vars)
  BY <1>9 DEF ReopenStyle, MayCrashIf
<1>10. ASSUME ReopenFinished PROVE [Service!Next]_(Service!vars)
  <2>1. HomeView[db] \in Views
    BY <1>10, MapRenderingAssumption DEF ReopenFinished, InitializeInv, ControlTypeOK, AnyMap
  <2>2. \/ UNCHANGED <<currentRenderRequest, doRender, finishedView>>
        \/ Service!Ask(HomeView[db])
    BY <1>10 DEF ReopenFinished, ShowOpenedMap, TriggerFromWidget, UpdateRenderRequest,
              Service!Ask
  <2>3. QED
    BY <2>1, <2>2 DEF Service!Next
<1>11. ASSUME NEW v \in Views, ZoomOrMove(v) PROVE [Service!Next]_(Service!vars)
  <2>1. UNCHANGED <<currentRenderRequest, doRender, finishedView>> \/ Service!Ask(v)
    BY <1>11 DEF ZoomOrMove, Input, TriggerFromWidget, UpdateRenderRequest, Service!Ask
  <2>2. QED
    BY <2>1 DEF Service!Next, ViewTypeOK
<1>12. ASSUME NEW v \in Views, RotateOrShowLocation(v) PROVE [Service!Next]_(Service!vars)
  <2>1. UNCHANGED <<currentRenderRequest, doRender, finishedView>> \/ Service!Ask(v)
    BY <1>12 DEF RotateOrShowLocation, Input, TriggerFromWidget, UpdateRenderRequest, Service!Ask
  <2>2. QED
    BY <2>1 DEF Service!Next, ViewTypeOK
<1>13. ASSUME NEW v \in Views, Turn(v) PROVE [Service!Next]_(Service!vars)
  BY <1>13 DEF Turn, Input
<1>14. ASSUME NEW v \in Views, PositionUpdate(v) PROVE [Service!Next]_(Service!vars)
  <2>1. UNCHANGED <<currentRenderRequest, doRender, finishedView>> \/ Service!Ask(v)
    BY <1>14 DEF PositionUpdate, Input, TriggerFromWidget, UpdateRenderRequest, Service!Ask
  <2>2. QED
    BY <2>1 DEF Service!Next, ViewTypeOK
<1>15. ASSUME QuickGesture PROVE [Service!Next]_(Service!vars)
  BY <1>15 DEF QuickGesture
<1>16. ASSUME ChangeRoute PROVE [Service!Next]_(Service!vars)
  BY <1>16 DEF ChangeRoute, FreeMaps, MayCrashIf
<1>17. ASSUME ReopenMap PROVE [Service!Next]_(Service!vars)
  BY <1>17 DEF ReopenMap, FreeMaps, MayCrashIf
<1>18. ASSUME BootOpen PROVE [Service!Next]_(Service!vars)
  BY <1>18 DEF BootOpen
<1>19. ASSUME BootStyle PROVE [Service!Next]_(Service!vars)
  BY <1>19 DEF BootStyle
<1>20. ASSUME Start PROVE [Service!Next]_(Service!vars)
  BY <1>20 DEF Start
<1>21. ASSUME SetUp PROVE [Service!Next]_(Service!vars)
  BY <1>21 DEF SetUp
<1>22. ASSUME Load PROVE [Service!Next]_(Service!vars)
  BY <1>22 DEF Load, MayCrashIf
<1>23. ASSUME Draw PROVE [Service!Next]_(Service!vars)
  BY <1>23 DEF Draw, MayCrashIf
<1>24. ASSUME Publish PROVE [Service!Next]_(Service!vars)
  <2>1. CASE aborted
    BY <1>24, <2>1 DEF Publish
  <2>2. CASE ~aborted
    <3>1. doRender /\ currentView = currentRenderRequest
      BY <1>24, <2>2 DEF Publish, RequestInv, RenderingIsReported, RendersNewestOrCancelled,
                      Rendering
    <3>2. Service!Complete
      BY <1>24, <2>2, <3>1 DEF Publish, Swap, Service!Complete
    <3>3. QED
      BY <3>2 DEF Service!Next
  <2>3. QED
    BY <2>1, <2>2
<1>25. ASSUME UNCHANGED vars PROVE [Service!Next]_(Service!vars)
  BY <1>25
<1>26. QED
  BY <1>1, <1>2, <1>3, <1>4, <1>5, <1>6, <1>7, <1>8, <1>9, <1>10, <1>11, <1>12, <1>13,
    <1>14, <1>15, <1>16, <1>17, <1>18, <1>19, <1>20, <1>21, <1>22, <1>23, <1>24, <1>25 DEF
    Next, GuiEvent, User, DatabaseThread


\* Whatever happens between the threads, the finished map is of the view that
\* was the newest request when it was completed.
THEOREM Implementation == Spec => ImplementsService
  BY TypeInvariant, RequestInvariant, ServiceInit, ServiceStep, PTL
     DEF Spec, ImplementsService, Service!Spec

------------------------------------------------------------------------------
(* The map on the screen                                                   *)

\* Between the start of Initialize() and the call of initialisationFinished() the
\* open map, the style and the images need not belong together.
Opening ==
  \/ guiPc \in ReopenSteps
  \/ dbPc \in {"boot", "style"}
  \/ \E i \in DOMAIN guiEvents : guiEvents[i].type = "opened"

Usable == db # NoMap /\ style /\ ~Opening

OfToday(image) == image = NoImage \/ (image.map = db /\ image.route = route)

\* What is loaded and drawn for a request nobody cancelled is of the open map and the
\* current route, and so is the finished image once there is no request left.
DrawnFromMap ==
  Usable =>
    /\ dbPc = "draw" /\ ~aborted => currentImage = NoImage \/ loaded.map = db
    /\ dbPc = "publish" /\ ~aborted => OfToday(currentImage)
    /\ ~doRender => OfToday(finishedImage)

\* Nothing is about to be painted, asked for or rendered.
Quiet == /\ guiPc # "request" /\ guiEvents = <<>>
         /\ ~paintPending /\ ~quickZooming /\ ~doRender

\* Then the screen shows the finished image, and that is of the widget's view, unless
\* setRotation() alone has turned the view.
Shown ==
  Usable /\ Quiet
    => /\ turned \/ finishedView = view
       /\ finishedImage # NoImage /\ screen = finishedImage

ScreenInv == DrawnFromMap /\ Shown

LEMMA ScreenInit == Init => ScreenInv
  BY DEF Init, ScreenInv, DrawnFromMap, Shown, Quiet, Usable, Opening

\* What is queued is still there behind what is taken or appended.
LEMMA Queued ==
  ASSUME TypeInv
  PROVE  /\ \A e \in Event : /\ Append(guiEvents, e) # <<>>
                             /\ e.type = "opened" \/ (\E i \in DOMAIN guiEvents : guiEvents[i].type = "opened")
                                  <=> \E i \in DOMAIN Append(guiEvents, e) :
                                        Append(guiEvents, e)[i].type = "opened"
         /\ guiEvents # <<>> /\ Head(guiEvents).type # "opened"
              => ((\E i \in DOMAIN guiEvents : guiEvents[i].type = "opened")
                    => \E i \in DOMAIN Tail(guiEvents) : Tail(guiEvents)[i].type = "opened")
<1>1. guiEvents \in Seq(Event)
  BY DEF TypeInv, TypeOK, QueueTypeOK
<1>2. ASSUME NEW e \in Event
      PROVE  /\ Append(guiEvents, e) # <<>>
             /\ e.type = "opened" \/ (\E i \in DOMAIN guiEvents : guiEvents[i].type = "opened")
                  <=> \E i \in DOMAIN Append(guiEvents, e) : Append(guiEvents, e)[i].type = "opened"
  <2> DEFINE longer == Append(guiEvents, e)
  <2>1. /\ DOMAIN longer = 1..Len(guiEvents) + 1
        /\ \A i \in 1..Len(guiEvents) : longer[i] = guiEvents[i]
        /\ longer[Len(guiEvents) + 1] = e
        /\ DOMAIN guiEvents = 1..Len(guiEvents) /\ Len(guiEvents) \in Nat
    BY <1>1
  <2> HIDE DEF longer
  <2>2. longer # <<>>
    BY <2>1
  <2>3. e.type = "opened" => \E i \in DOMAIN longer : longer[i].type = "opened"
    BY <2>1
  <2>4. (\E i \in DOMAIN guiEvents : guiEvents[i].type = "opened")
          => \E i \in DOMAIN longer : longer[i].type = "opened"
    BY <2>1
  <2>5. (\E i \in DOMAIN longer : longer[i].type = "opened")
          => e.type = "opened" \/ \E i \in DOMAIN guiEvents : guiEvents[i].type = "opened"
    <3> SUFFICES ASSUME NEW i \in DOMAIN longer, longer[i].type = "opened"
                 PROVE  e.type = "opened" \/ \E j \in DOMAIN guiEvents : guiEvents[j].type = "opened"
      OBVIOUS
    <3>1. i = Len(guiEvents) + 1 \/ i \in 1..Len(guiEvents)
      BY <2>1
    <3>2. QED
      BY <2>1, <3>1
  <2>6. QED
    BY <2>2, <2>3, <2>4, <2>5 DEF longer
<1>3. ASSUME guiEvents # <<>>, Head(guiEvents).type # "opened",
             NEW i \in DOMAIN guiEvents, guiEvents[i].type = "opened"
      PROVE  \E j \in DOMAIN Tail(guiEvents) : Tail(guiEvents)[j].type = "opened"
  <2>1. i \in 2..Len(guiEvents)
    BY <1>1, <1>3
  <2>2. i - 1 \in DOMAIN Tail(guiEvents) /\ Tail(guiEvents)[i - 1] = guiEvents[i]
    BY <1>1, <1>3, <2>1
  <2>3. QED
    BY <1>3, <2>2
<1>4. QED
  BY <1>2, <1>3

\* The user does not change what is shown without a request or a paint to follow, except
\* by turning the view.
LEMMA ScreenStep ==
  ASSUME TypeInv, RequestInv, ScreenInv, [Next]_vars
  PROVE  ScreenInv'
<1> USE DEF ScreenInv, DrawnFromMap, Shown, Quiet, Usable, Opening, OfToday, ReopenSteps, vars,
    widgetVars, guiVars, counters, databaseVars, requestVars, imageVars, renderVars, unchangedByDB
<1>1. ASSUME EmitTrigger PROVE ScreenInv'
  BY <1>1 DEF EmitTrigger
<1>2. ASSUME RequestNewMap PROVE ScreenInv'
  BY <1>2 DEF RequestNewMap, TriggerFromWidget, UpdateRenderRequest
<1>3. ASSUME HandleMapRenderingResult PROVE ScreenInv'
  BY <1>3, Queued DEF HandleMapRenderingResult
<1>4. ASSUME HandleInitialisationFinished PROVE ScreenInv'
  BY <1>4 DEF HandleInitialisationFinished, ShowOpenedMap, TriggerFromWidget,
    UpdateRenderRequest
<1>5. ASSUME PaintQuick PROVE ScreenInv'
  BY <1>5 DEF PaintQuick
<1>6. ASSUME Paint PROVE ScreenInv'
  BY <1>6 DEF Paint, RenderMap, RenderMapMatches
<1>7. ASSUME ReopenClose PROVE ScreenInv'
  BY <1>7 DEF ReopenClose
<1>8. ASSUME ReopenOpen PROVE ScreenInv'
  BY <1>8 DEF ReopenOpen
<1>9. ASSUME ReopenStyle PROVE ScreenInv'
  BY <1>9 DEF ReopenStyle
<1>10. ASSUME ReopenFinished PROVE ScreenInv'
  BY <1>10 DEF ReopenFinished, ShowOpenedMap, TriggerFromWidget, UpdateRenderRequest
<1>11. ASSUME NEW v \in Views, ZoomOrMove(v) PROVE ScreenInv'
  BY <1>11 DEF ZoomOrMove, Input, TriggerFromWidget, UpdateRenderRequest
<1>12. ASSUME NEW v \in Views, RotateOrShowLocation(v) PROVE ScreenInv'
  BY <1>12 DEF RotateOrShowLocation, Input, TriggerFromWidget, UpdateRenderRequest
<1>13. ASSUME NEW v \in Views, Turn(v) PROVE ScreenInv'
  BY <1>13 DEF Turn, Input
<1>14. ASSUME NEW v \in Views, PositionUpdate(v) PROVE ScreenInv'
  BY <1>14 DEF PositionUpdate, Input, TriggerFromWidget, UpdateRenderRequest
<1>15. ASSUME QuickGesture PROVE ScreenInv'
  BY <1>15 DEF QuickGesture
<1>16. ASSUME ChangeRoute PROVE ScreenInv'
  BY <1>16 DEF ChangeRoute, FreeMaps
<1>17. ASSUME ReopenMap PROVE ScreenInv'
  BY <1>17 DEF ReopenMap, FreeMaps
<1>18. ASSUME BootOpen PROVE ScreenInv'
  BY <1>18 DEF BootOpen
<1>19. ASSUME BootStyle PROVE ScreenInv'
  <2>1. db \in Maps
    BY <1>19 DEF BootStyle, TypeInv, InitializeInv, TypeOK, ControlTypeOK, AnyMap
  <2>2. [type |-> "opened", map |-> db] \in Event
    BY <2>1, Values
  <2>3. Opening'
    BY <1>19, <2>2, Queued DEF BootStyle
  <2>4. QED
    BY <2>3
<1>20. ASSUME Start PROVE ScreenInv'
  BY <1>20 DEF Start
<1>21. ASSUME SetUp PROVE ScreenInv'
  BY <1>21 DEF SetUp
<1>22. ASSUME Load PROVE ScreenInv'
  BY <1>22 DEF Load
<1>23. ASSUME Draw PROVE ScreenInv'
  BY <1>23 DEF Draw
<1>24. ASSUME Publish PROVE ScreenInv'
  BY <1>24, Queued, Values DEF Publish, Swap, RequestInv, RenderingIsReported, Rendering
<1>25. ASSUME UNCHANGED vars PROVE ScreenInv'
  BY <1>25
<1>26. QED
  BY <1>1, <1>2, <1>3, <1>4, <1>5, <1>6, <1>7, <1>8, <1>9, <1>10, <1>11, <1>12, <1>13,
    <1>14, <1>15, <1>16, <1>17, <1>18, <1>19, <1>20, <1>21, <1>22, <1>23, <1>24, <1>25 DEF
    Next, GuiEvent, User, DatabaseThread

\* When both threads have nothing left to do, the screen shows a picture of the open
\* map with the current route, whatever images were freed and whatever requests were
\* skipped or cancelled before.  It is taken for the widget's view, unless setRotation()
\* alone has turned that view since it was last painted or asked for.
THEOREM SettledMapIsUpToDate == Spec => []MapUpToDate
<1>1. Init => TypeInv /\ RequestInv /\ ScreenInv
  BY TypeInit, RequestInit, ScreenInit
<1>2. TypeInv /\ RequestInv /\ ScreenInv /\ [Next]_vars => (TypeInv /\ RequestInv /\ ScreenInv)'
  BY TypeStep, RequestStep, ScreenStep
<1>3. RequestInv /\ ScreenInv => MapUpToDate
  <2> SUFFICES ASSUME RequestInv, ScreenInv, Settled
               PROVE  (turned \/ finishedView = view) /\ screen.map = db /\ screen.route = route
    BY DEF MapUpToDate
  <2>1. ~doRender
    BY DEF RequestInv, RequestNeverLost, Settled, Quiescent, Rendering
  <2>2. Usable
    BY DEF Settled, Quiescent, Usable, Opening, ReopenSteps
  <2>3. (turned \/ finishedView = view) /\ finishedImage # NoImage /\ screen = finishedImage
    BY <2>1, <2>2 DEF ScreenInv, Shown, Quiet, Settled, Quiescent
  <2>4. OfToday(finishedImage)
    BY <2>1, <2>2 DEF ScreenInv, DrawnFromMap
  <2>5. QED
    BY <2>3, <2>4 DEF OfToday
<1>4. QED
  BY <1>1, <1>2, <1>3, PTL DEF Spec

\* The picture itself: one that is being made is of the view it was asked for, unless
\* paint() has meanwhile put another view into the projection.  Then the widget is at
\* that other view, or is about to ask for its own.
OfItsView ==
  Usable /\ ~aborted /\ guiPc # "request" /\ view = currentRenderRequest =>
    /\ dbPc = "load" => projection = request
    /\ dbPc = "draw" => projection = request /\ loaded.view = request
    /\ dbPc = "publish" => currentImage = NoImage \/ currentImage.view = request

\* The finished image is of its view when that is the widget's, and stays so when the view
\* is turned away from it.
FinishedOfItsView ==
  Usable /\ ~doRender /\ guiPc # "request" /\ (finishedView = view \/ (turned /\ Quiet)) =>
    finishedImage = NoImage \/ finishedImage.view = finishedView

\* Without a request that waits, the finished image was the answer to the last one.
FinishedIsNewest == ~doRender => finishedView = currentRenderRequest

PictureInv == OfItsView /\ FinishedOfItsView /\ FinishedIsNewest

\* Neither a gesture that does not ask for its view nor a paint() in the middle of a
\* rendering leaves a wrong picture behind, as long as a position update does not lead
\* back to exactly the view that is being rendered.
LEMMA PictureStep ==
  ASSUME ExactReturn = FALSE, TypeInv, RequestInv, ScreenInv, PictureInv, [Next]_vars
  PROVE  PictureInv'
<1> USE DEF PictureInv, OfItsView, FinishedOfItsView, FinishedIsNewest, Quiet, Usable, Opening, ReopenSteps, vars,
    widgetVars, guiVars, counters, databaseVars, requestVars, imageVars, renderVars, unchangedByDB
<1>1. ASSUME EmitTrigger PROVE PictureInv'
  BY <1>1 DEF EmitTrigger
<1>2. ASSUME RequestNewMap PROVE PictureInv'
  BY <1>2 DEF RequestNewMap, TriggerFromWidget, UpdateRenderRequest
<1>3. ASSUME HandleMapRenderingResult PROVE PictureInv'
  BY <1>3, Queued DEF HandleMapRenderingResult
<1>4. ASSUME HandleInitialisationFinished PROVE PictureInv'
  BY <1>4 DEF HandleInitialisationFinished, ShowOpenedMap, TriggerFromWidget,
    UpdateRenderRequest
<1>5. ASSUME PaintQuick PROVE PictureInv'
  BY <1>5 DEF PaintQuick
<1>6. ASSUME Paint PROVE PictureInv'
  BY <1>6 DEF Paint, RenderMap, RenderMapMatches, RequestInv, RendersNewestOrCancelled,
    Rendering
<1>7. ASSUME ReopenClose PROVE PictureInv'
  BY <1>7 DEF ReopenClose
<1>8. ASSUME ReopenOpen PROVE PictureInv'
  BY <1>8 DEF ReopenOpen
<1>9. ASSUME ReopenStyle PROVE PictureInv'
  BY <1>9 DEF ReopenStyle
<1>10. ASSUME ReopenFinished PROVE PictureInv'
  BY <1>10 DEF ReopenFinished, ShowOpenedMap, TriggerFromWidget, UpdateRenderRequest
<1>11. ASSUME NEW v \in Views, ZoomOrMove(v) PROVE PictureInv'
  BY <1>11 DEF ZoomOrMove, Input, TriggerFromWidget, UpdateRenderRequest
<1>12. ASSUME NEW v \in Views, RotateOrShowLocation(v) PROVE PictureInv'
  BY <1>12 DEF RotateOrShowLocation, Input, TriggerFromWidget, UpdateRenderRequest
<1>13. ASSUME NEW v \in Views, Turn(v) PROVE PictureInv'
  <2>1. OfItsView'
    BY <1>13 DEF Turn, Input, MayTurnTo
  <2>2. turned \in BOOLEAN
    BY DEF TypeInv, TypeOK, FlagTypeOK
  <2>3. CASE v = view
    BY <1>13, <2>1, <2>2, <2>3 DEF Turn, Input
  <2>4. CASE v # view
    <3>1. view' = v /\ finishedView' = finishedView /\ (Quiet' => Quiet) /\ (Usable' => Usable)
      BY <1>13 DEF Turn, Input
    <3>2. Usable /\ Quiet => turned \/ finishedView = view
      BY DEF ScreenInv, Shown
    <3>3. v = finishedView => v = view \/ v # currentRenderRequest
      BY <1>13 DEF Turn, MayTurnTo
    <3>4. QED
      BY <1>13, <2>1, <2>2, <3>1, <3>2, <3>3 DEF Turn, Input
  <2>5. QED
    BY <2>3, <2>4
<1>14. ASSUME NEW v \in Views, PositionUpdate(v) PROVE PictureInv'
  BY <1>14 DEF PositionUpdate, Input, MayTurnTo, TriggerFromWidget, UpdateRenderRequest
<1>15. ASSUME QuickGesture PROVE PictureInv'
  BY <1>15 DEF QuickGesture
<1>16. ASSUME ChangeRoute PROVE PictureInv'
  BY <1>16 DEF ChangeRoute, FreeMaps
<1>17. ASSUME ReopenMap PROVE PictureInv'
  BY <1>17 DEF ReopenMap, FreeMaps
<1>18. ASSUME BootOpen PROVE PictureInv'
  BY <1>18 DEF BootOpen
<1>19. ASSUME BootStyle PROVE PictureInv'
  <2>1. db \in Maps
    BY <1>19 DEF BootStyle, TypeInv, InitializeInv, TypeOK, ControlTypeOK, AnyMap
  <2>2. [type |-> "opened", map |-> db] \in Event
    BY <2>1, Values
  <2>3. Opening'
    BY <1>19, <2>2, Queued DEF BootStyle
  <2>4. QED
    BY <1>19, <2>3 DEF BootStyle
<1>20. ASSUME Start PROVE PictureInv'
  BY <1>20 DEF Start
<1>21. ASSUME SetUp PROVE PictureInv'
  BY <1>21 DEF SetUp
<1>22. ASSUME Load PROVE PictureInv'
  BY <1>22 DEF Load
<1>23. ASSUME Draw PROVE PictureInv'
  BY <1>23 DEF Draw
<1>24. ASSUME Publish PROVE PictureInv'
  <2>1. ~aborted => doRender /\ currentView = currentRenderRequest
    BY <1>24 DEF Publish, RequestInv, RenderingIsReported, RendersNewestOrCancelled, Rendering
  <2>2. OfItsView'
    BY <1>24 DEF Publish, Swap
  <2>3. FinishedIsNewest'
    BY <1>24, <2>1 DEF Publish, Swap
  <2>4. guiEvents' # <<>> \/ aborted
    BY <1>24, Queued, Values DEF Publish
  <2>5. FinishedOfItsView'
    BY <1>24, <2>1, <2>4, Queued, Values DEF Publish, Swap, RequestInv, RenderingIsReported,
      RendersNewestOrCancelled, Rendering
  <2>6. QED
    BY <2>2, <2>3, <2>5
<1>25. ASSUME UNCHANGED vars PROVE PictureInv'
  BY <1>25
<1>26. QED
  BY <1>1, <1>2, <1>3, <1>4, <1>5, <1>6, <1>7, <1>8, <1>9, <1>10, <1>11, <1>12, <1>13,
    <1>14, <1>15, <1>16, <1>17, <1>18, <1>19, <1>20, <1>21, <1>22, <1>23, <1>24, <1>25 DEF
    Next, GuiEvent, User, DatabaseThread

\* When both threads have nothing left to do, the picture on the screen is of the
\* widget's view, or of the one before setRotation() alone turned it: a projection that
\* paint() changed under the renderer's feet has always been repaired by another
\* rendering.  It takes turns and positions that do not lead back to exactly the view
\* that is being rendered.
THEOREM SettledScreenIsUpToDate ==
  ASSUME ExactReturn = FALSE
  PROVE  Spec => []ScreenUpToDate
<1>1. Init => TypeInv /\ RequestInv /\ ScreenInv /\ PictureInv
  <2>1. Init => PictureInv
    BY DEF Init, PictureInv, OfItsView, FinishedOfItsView, FinishedIsNewest, Quiet, Usable, Opening
  <2>2. QED
    BY <2>1, TypeInit, RequestInit, ScreenInit
<1>2. TypeInv /\ RequestInv /\ ScreenInv /\ PictureInv /\ [Next]_vars
        => (TypeInv /\ RequestInv /\ ScreenInv /\ PictureInv)'
  BY TypeStep, RequestStep, ScreenStep, PictureStep
<1>3. TypeInv /\ RequestInv /\ ScreenInv /\ PictureInv => ScreenUpToDate
  <2> SUFFICES ASSUME TypeInv, RequestInv, ScreenInv, PictureInv, Settled
               PROVE  screen = [view |-> IF turned THEN finishedView ELSE view,
                                map |-> db, route |-> route]
    BY DEF ScreenUpToDate, UpToDate
  <2>1. ~doRender
    BY DEF RequestInv, RequestNeverLost, Settled, Quiescent, Rendering
  <2>2. Usable /\ Quiet
    BY <2>1 DEF Settled, Quiescent, Usable, Quiet, Opening, ReopenSteps
  <2>3. (turned \/ finishedView = view) /\ finishedImage # NoImage /\ screen = finishedImage
    BY <2>2 DEF ScreenInv, Shown
  <2>4. screen.map = db /\ screen.route = route
    BY <2>1, <2>2, <2>3 DEF ScreenInv, DrawnFromMap, OfToday
  <2>5. screen.view = IF turned THEN finishedView ELSE view
    BY <2>2, <2>3 DEF PictureInv, FinishedOfItsView, Quiet
  <2>6. screen \in Picture
    BY DEF TypeInv, TypeOK, ImageTypeOK
  <2>7. QED
    BY <2>4, <2>5, <2>6 DEF Picture
<1>4. QED
  BY <1>1, <1>2, <1>3, PTL DEF Spec

==============================================================================
