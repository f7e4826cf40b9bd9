--------------------------- MODULE DashboardLayout ---------------------------
(***************************************************************************)
(* The widgets a new dashboard starts with (_widget_type_for and           *)
(* _preconfigure_widgets of services/dashboard_service.py), as a function  *)
(* of the certified KPIs in order: each is a suggested line or bar chart,  *)
(* or none with or without three monthly snapshots.                        *)
(***************************************************************************)
EXTENDS Integers, Sequences, FiniteSets

CONSTANT KpiLists  \* the KPIs that a new dashboard may be made from

Kind == {"line", "bar", "series", "plain"}
ASSUME LayoutAssumption == KpiLists \subseteq Seq(Kind)

_TILE_QUOTA == 3
_GRID_COLS == 12
Size(type) == IF type = "kpi_tile" THEN [w |-> 3, h |-> 3] ELSE [w |-> 6, h |-> 5]

Blank == [placed |-> <<>>, x |-> 0, y |-> 0, row_h |-> 0, tiles |-> 0, promoted |-> 0]

_widget_type_for(kind, tiles, promoted) ==
    CASE kind = "line" -> "line_chart"
      [] kind = "bar" -> "bar_chart"
      [] kind = "series" /\ tiles >= _TILE_QUOTA ->
             IF promoted % 2 = 1 THEN "bar_chart" ELSE "line_chart"
      [] kind = "plain" \/ (kind = "series" /\ tiles < _TILE_QUOTA) -> "kpi_tile"

\* mutant: the height of a row is that of its last widget
Taller_last(row_h, h) == h
Taller(row_h, h) == IF row_h > h THEN row_h ELSE h

\* One turn of the loop: the next widget goes to the right, or below the row.
Place(layout, kind) ==
    LET type == _widget_type_for(kind, layout.tiles, layout.promoted)
        size == Size(type)
        full == layout.x + size.w > _GRID_COLS
        x == IF full THEN 0 ELSE layout.x
        y == IF full THEN layout.y + layout.row_h ELSE layout.y
    IN  [placed |-> Append(layout.placed, [type |-> type, kind |-> kind, x |-> x, y |-> y,
                                           w |-> size.w, h |-> size.h]),
         x |-> x + size.w, y |-> y,
         row_h |-> Taller(IF full THEN 0 ELSE layout.row_h, size.h),
         tiles |-> layout.tiles + (IF type = "kpi_tile" THEN 1 ELSE 0),
         promoted |-> layout.promoted
             + (IF type # "kpi_tile" /\ kind \notin {"line", "bar"} THEN 1 ELSE 0)]

\* The layout after each number of KPIs.
Layouts(kpis) ==
    LET layout[n \in 0 .. Len(kpis)] ==
            IF n = 0 THEN Blank ELSE Place(layout[n - 1], kpis[n])
    IN  layout
_preconfigure_widgets(kpis) == Layouts(kpis)[Len(kpis)].placed

-----------------------------------------------------------------------------
(* What a good layout is *)

Apart(a, b) ==
    a.x + a.w <= b.x \/ b.x + b.w <= a.x \/ a.y + a.h <= b.y \/ b.y + b.h <= a.y
Tiles(placed) == {i \in DOMAIN placed : placed[i].type = "kpi_tile"}
Promoted(placed) == {i \in DOMAIN placed : placed[i].kind = "series"} \ Tiles(placed)
Before(S, i) == Cardinality({j \in S : j < i})

LayoutIsClean(kpis) ==
    LET placed == _preconfigure_widgets(kpis)
    IN  /\ \A i, j \in DOMAIN placed :
               /\ placed[i].x + placed[i].w <= _GRID_COLS
               /\ i # j => Apart(placed[i], placed[j])
        /\ \A i \in Promoted(placed) :
               /\ placed[i].type =
                      IF Before(Promoted(placed), i) % 2 = 0 THEN "line_chart" ELSE "bar_chart"
               /\ Before(Tiles(placed), i) >= _TILE_QUOTA
=============================================================================
