---------------------------- MODULE RenderService ----------------------------
(***************************************************************************)
(* What the database thread promises the map widget, whatever threads,     *)
(* queued signals and cancelled renderings stand between them: of all the  *)
(* views that were asked for, a finished map is always of the newest one.  *)
(* MapRendering implements this module.                                    *)
(***************************************************************************)

CONSTANTS Views,   (* the views a map can be rendered for                  *)
          NoView   (* no map has been rendered yet                         *)

VARIABLES latest,  (* the view asked for last                              *)
          pending, (* that view is not rendered yet                        *)
          shown    (* the view of the finished map                         *)

vars == <<latest, pending, shown>>

Init == /\ latest = NoView
        /\ pending = FALSE
        /\ shown = NoView

\* A new request replaces whatever was asked for before.
Ask(v) == /\ latest' = v
          /\ pending' = TRUE
          /\ UNCHANGED shown

\* Only the newest request is ever completed.
Complete == /\ pending
            /\ shown' = latest
            /\ pending' = FALSE
            /\ UNCHANGED latest

Next == (\E v \in Views : Ask(v)) \/ Complete

Spec == Init /\ [][Next]_vars

==============================================================================
