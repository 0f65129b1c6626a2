---------------------------- MODULE MCDownloader ----------------------------
(***************************************************************************)
(* Instances of Downloader for TLC.                                        *)
(***************************************************************************)
EXTENDS Downloader, TLC

CONSTANTS a, b, a1, a2, b1, P, Q

\* File a gets two row ids, so that it can be dropped and planned again.
MCFileOf == [i \in Id |-> IF i = b1 THEN b ELSE a]

\* A new build of a keeps its name (InPlace), or gets another (Renamed); b is
\* stored where the first build of a was (Vacated), or where a is (Shared).
InPlace == [f \in File |-> [v \in Build |-> IF f = a THEN P ELSE Q]]
Renamed == [f \in File |-> [v \in Build |-> IF f = a /\ v = 1 THEN P ELSE Q]]
Vacated == [f \in File |-> [v \in Build |-> IF f = a /\ v # 1 THEN Q ELSE P]]
Shared  == [f \in File |-> [v \in Build |-> P]]
=============================================================================
