--------------------------- MODULE MCScopedAsync ----------------------------
(* Model checking of ScopedAsync: a plain field and a row of an array.      *)
EXTENDS ScopedAsync

CONSTANTS field, row

Both == {field, row}
OneRow == {row}
=============================================================================
