----------------------------- MODULE MCSettings -----------------------------
(***************************************************************************)
(* Values for the instances of Settings: those of the runs, and those that *)
(* README.md names.                                                        *)
(***************************************************************************)
EXTENDS Settings, TLC

\* Settings that differ in one choice from the first.
All         == [mode |-> "all", extras |-> FALSE, paused |-> FALSE]
AllExtras   == [All EXCEPT !.extras = TRUE]
Selected    == [All EXCEPT !.mode = "selected"]
SelectedNew == [All EXCEPT !.mode = "selected_new"]
Paused      == [All EXCEPT !.paused = TRUE]

ExtrasOn == {AllExtras}
Extras   == {All, AllExtras}
Modes    == {All, Selected}
JustAll  == {All}
Several  == {All, AllExtras, Selected}
Pausing  == {All, AllExtras, Paused}

One  == {{1}}
OneOrBoth == {{1}, {1, 2}}
=============================================================================
