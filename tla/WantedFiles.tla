----------------------------- MODULE WantedFiles -----------------------------
(***************************************************************************)
(* What the sync and the download queue together promise for a file,       *)
(* without transfers, paths or partial files: which build is wanted, which *)
(* one is presented as downloaded, and which one was kept when the file    *)
(* was dropped.  Downloader is shown to implement it.                      *)
(***************************************************************************)
EXTENDS Naturals

CONSTANTS
    Files,
    Builds,   \* natural numbers, a newer build the greater one
    Nothing   \* none of them

VARIABLE file   \* of each file: the build wanted, shown and kept

State(w, s, k) == [want |-> w, shown |-> s, kept |-> k]

Init == file = [f \in Files |-> State(Nothing, Nothing, Nothing)]

Becomes(f, w, s, k) == file' = [file EXCEPT ![f] = State(w, s, k)]

Wanted(f) == file[f].want # Nothing

\* A file is wanted for the first time, again, or in a newer build; nothing is
\* presented for it yet.
Ask(f, b) == /\ Wanted(f) => b > file[f].want
             /\ Becomes(f, b, Nothing, Nothing)

\* What is presented is the build that is wanted then, whatever was being
\* transferred.
Deliver(f) == /\ Wanted(f) /\ file[f].shown = Nothing
              /\ Becomes(f, file[f].want, file[f].want, Nothing)

\* A copy that was downloaded is fetched again.
Requeue(f) == /\ file[f].shown # Nothing
              /\ Becomes(f, file[f].want, Nothing, Nothing)

\* The file is dropped, with its copy or without it.
Drop(f) == /\ Wanted(f)
           /\ \E k \in {file[f].shown, Nothing} : Becomes(f, Nothing, Nothing, k)

\* A kept copy is presented again, when it is of the build that is wanted.
Readopt(f) == /\ file[f].kept # Nothing
              /\ Becomes(f, file[f].kept, file[f].kept, Nothing)

\* A kept copy goes.
Lose(f) == /\ file[f].kept # Nothing
           /\ Becomes(f, Nothing, Nothing, Nothing)

Next == \E f \in Files : \/ Deliver(f) \/ Requeue(f) \/ Drop(f) \/ Readopt(f) \/ Lose(f)
                         \/ \E b \in Builds : Ask(f, b)

Spec == Init /\ [][Next]_file
=============================================================================
