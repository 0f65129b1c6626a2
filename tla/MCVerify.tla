------------------------------ MODULE MCVerify ------------------------------
EXTENDS Verify, TLC

\* Two games planned side by side; the second has an extra beside its installer.
Owner == "base" :> "one" @@ "main" :> "two" @@ "extra" :> "two"
Two == {"base", "extra"}
GameOfTwo == [f \in Two |-> Owner[f]]
OsOfTwo == [f \in Two |-> IF f = "extra" THEN "none" ELSE "windows"]
\* Only the second one has Galaxy builds.
SecondOnly == {<<"two", "windows">>}
=============================================================================
