---------------------------- MODULE MCGamePlan ----------------------------
(* Instances of GamePlan for TLC. *)
EXTENDS GamePlan

Installer(p, os, l) == [kind |-> "installer", product |-> p, os |-> os, lang |-> l, by |-> Base]
Patch(p, os, l) == [kind |-> "patch", product |-> p, os |-> os, lang |-> l, by |-> Base]
SaveOf(c) == [kind |-> "save", product |-> Base, os |-> Base, lang |-> Base, by |-> c]
Extra(p) == [kind |-> "extra", product |-> p, os |-> Base, lang |-> Base, by |-> Base]

AllFiles == <<Installer(Base, "windows", "fr"), Installer(Base, "windows", "de"),
              Installer(Base, "linux", "en"), Patch(Base, "windows", "fr"),
              Patch(Base, "windows", "de"), SaveOf("c1"), SaveOf("c2"),
              Installer("dlc", "windows", "de"), Extra("dlc")>>

Galaxy == [os \in {"windows", "mac"} |-> IF os = "windows" THEN "c1" ELSE "c2"]
Begin == {1, 2, 3, 4, 8, 9}
Cloud == {6, 7}

\* Which of the two orders their platforms and languages are listed in, sets
\* apart settings that want the same.
Wish(platforms, languages, order, fallback, include) ==
    [platforms |-> platforms, languages |-> languages, order |-> order,
     fallback |-> fallback, include |-> include]
Wishes == {Wish({"windows", "linux"}, l, "first", TRUE, c) :
              l \in {{"de"}, {"de", "fr"}},
              c \in {{"installers", "saves"}, {"patches", "dlc"}}}
          \cup {Wish({"windows", "linux"}, {"de", "fr"}, "other", TRUE,
                     {"installers", "saves"}),
                Wish({"windows"}, {"en"}, "first", FALSE,
                     {"installers", "patches", "extras"})}
OptIns == {{}, {"dlc", "patches", "saves"}}
=============================================================================
