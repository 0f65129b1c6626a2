------------------------------- MODULE LogStore -------------------------------
(***************************************************************************)
(* The log store (internal/logstore): a handler that never blocks hands     *)
(* records to one writer through a bounded channel; the writer keeps the    *)
(* table small and, when it is closed, writes what it was given before.     *)
(***************************************************************************)
EXTENDS Naturals, Sequences, Functions

CONSTANTS
    Sources,     \* who logs
    MaxRecords,  \* bound: records of each source
    Capacity,    \* of the channel (1024)
    MaxRows,     \* of the table (20000)
    PruneEvery   \* inserts between two prunes (500)

ASSUME LogAssumption ==
    /\ MaxRecords \in Nat /\ Capacity \in Nat /\ MaxRows \in Nat \ {0}
    /\ PruneEvery \in Nat \ {0}

VARIABLES
    logged,    \* how many records each source made
    accepted,  \* those that got into the channel
    channel,   \* Store.ch
    table,     \* table logs, oldest first
    writer,    \* Store.loop: where it is, inserts since the last counted prune
    closing,   \* closeCh is closed
    written    \* for the properties: every record ever inserted, oldest first

logVars == <<logged, accepted, channel, table, writer, closing, written>>

Record == Sources \X (1..MaxRecords)

\* What the process before this one left in the table.
Earlier == [i \in 1..MaxRows |-> <<"earlier", i>>]
Row == Record \cup Range(Earlier)

LogTypeOK ==
    /\ logged \in [Sources -> 0..MaxRecords]
    /\ accepted \subseteq Record
    /\ channel \in Seq(Record) /\ Len(channel) <= Capacity
    /\ table \in Seq(Row)
    /\ writer \in [pc: {"loop", "prune", "drain", "done"}, n: 0..(PruneEvery - 1)]
    /\ closing \in BOOLEAN
    /\ written \in Seq(Row) /\ Range(written) \subseteq accepted \cup Range(Earlier)

\* The cast are the sources that have something to say.
LogInit(cast) ==
    /\ logged = [s \in Sources |-> IF s \in cast THEN 0 ELSE MaxRecords]
    /\ accepted = {}
    /\ channel = <<>> /\ table = Earlier
    /\ writer = [pc |-> "loop", n |-> 0]
    /\ closing = FALSE /\ written = Earlier

\* Handle: drop rather than block.
HasRoom(ch) == Len(ch) < Capacity
Log(s) ==
    /\ logged[s] < MaxRecords
    /\ LET r == <<s, logged[s] + 1>> IN
        /\ logged' = [logged EXCEPT ![s] = @ + 1]
        /\ IF HasRoom(channel)
           THEN channel' = Append(channel, r) /\ accepted' = accepted \cup {r}
           ELSE UNCHANGED <<channel, accepted>>
    /\ UNCHANGED <<table, writer, closing, written>>

\* insert; a database that is closed refuses it, and nobody hears of it.
Insert(open) ==
    /\ channel # <<>> /\ channel' = Tail(channel)
    /\ IF open THEN /\ table' = Append(table, Head(channel))
                    /\ written' = Append(written, Head(channel))
               ELSE UNCHANGED <<table, written>>

\* (mutant: one insert late)
PruneDue_off_by_one(n) == n > PruneEvery
\* Every so many inserts.
PruneDue(n) == n >= PruneEvery
WriteRecord(open) ==
    /\ writer.pc = "loop" /\ Insert(open)
    /\ writer' = IF PruneDue(writer.n + 1) THEN [pc |-> "prune", n |-> 0]
                                               ELSE [writer EXCEPT !.n = @ + 1]
    /\ UNCHANGED <<logged, accepted, closing>>

\* (mutant: the offset counts the row it stands on)
Newest_all_but_one(rows) == SubSeq(rows, Len(rows) - MaxRows + 2, Len(rows))
\* DELETE ... WHERE id <= the newest id that maxRows newer ones follow
Newest(rows) == SubSeq(rows, Len(rows) - MaxRows + 1, Len(rows))
Pruned(open) == IF open /\ Len(table) > MaxRows THEN Newest(table) ELSE table
PruneNow(open, from) ==
    /\ writer.pc = from /\ writer' = [writer EXCEPT !.pc = "loop"]
    /\ table' = Pruned(open)
    /\ UNCHANGED <<logged, accepted, channel, closing, written>>

\* closeCh: what is in the channel is written, then the table is pruned.
StartDrain ==
    /\ writer.pc = "loop" /\ closing
    /\ writer' = [writer EXCEPT !.pc = "drain"]
    /\ UNCHANGED <<logged, accepted, channel, table, closing, written>>
\* (mutant: what is in the channel is left there)
Drained_at_once == TRUE
Drained == channel = <<>>
DrainRecord(open) ==
    /\ writer.pc = "drain" /\ Insert(open)
    /\ UNCHANGED <<logged, accepted, writer, closing>>
EndDrain(open) ==
    /\ writer.pc = "drain" /\ Drained
    /\ table' = Pruned(open)
    /\ writer' = [writer EXCEPT !.pc = "done"]
    /\ UNCHANGED <<logged, accepted, channel, closing, written>>

CloseLogs ==
    /\ closing' = TRUE
    /\ UNCHANGED <<logged, accepted, channel, table, writer, written>>
LogsClosed == closing /\ writer.pc = "done"

WriterStep(open) ==
    \/ WriteRecord(open) \/ PruneNow(open, "prune")
    \/ StartDrain \/ DrainRecord(open) \/ EndDrain(open)
PruneTimer(open) == PruneNow(open, "loop")

------------------------------------------------------------------------------
\* Properties

\* "A bounded SQLite table": it holds no more than maxRows and the inserts
\* between two prunes, until the store is closed.  What the writer then finds in
\* the channel comes on top, and once it is done no more than maxRows are left.
TableIsBounded ==
    /\ writer.pc # "drain" => Len(table) <= MaxRows + PruneEvery
    /\ writer.pc = "done" => Len(table) <= MaxRows

\* Pruning removes old records only: the table is what was written last, and the
\* newest maxRows are always there, whenever the writer stops.
NewestAreKept ==
    /\ MaxRows <= Len(table) /\ Len(table) <= Len(written)
    /\ table = SubSeq(written, Len(written) - Len(table) + 1, Len(written))
==============================================================================
