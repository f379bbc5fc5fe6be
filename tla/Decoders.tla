------------------------------ MODULE Decoders ------------------------------
(***************************************************************************)
(* The decompressors of nav-core, each on the streams it is given, against *)
(* what those streams stand for.                                           *)
(***************************************************************************)
EXTENDS Inflate, Bzip2

CONSTANTS Jobs,      \* DEFLATE streams, with their text, budget and ceiling
          Streams,   \* bzip2 streams, with their text and budget
          NoJob, NoStream    \* streams that fail at their header

vars == <<job, dec, stream, bz>>

Init == \/ (\E j \in Jobs : StartDecode(j)) /\ StartBzip(NoStream)
        \/ StartDecode(NoJob) /\ \E s \in Streams : StartBzip(s)

Done == bz.phase = "stopped" /\ \A r \in Runs : dec[r].phase = "stopped"

Next == \/ DecodeStep /\ UNCHANGED bzip2Vars
        \/ BzipStep /\ UNCHANGED inflateVars
        \/ Done /\ UNCHANGED vars

Spec == Init /\ [][Next]_vars
-----------------------------------------------------------------------------
\* Each decoder is one BoundedDecode allows: the sink's bytes and the window
\* behind them are always a beginning of the text, whatever was flushed
\* when, never past the budget, and the whole text when the answer is "ok"
\* (inflate.rs:5-15, bzip2.rs:5-11).
Plain == INSTANCE BoundedDecode WITH
    text <- job.text, budget <- job.budget,
    out <- Output(dec["plain"]), result <- dec["plain"].result

Bzip == INSTANCE BoundedDecode WITH
    text <- stream.text, budget <- stream.budget, out <- bz.out, result <- bz.result
BoundedSpec == Plain!Spec /\ Bzip!Spec

\* A stream that is whole decodes to the whole of its text whenever the
\* budget holds it and the work allowance is not reached, through
\* the window and the runs of the checksums alike.
WholeIsRead ==
    /\ (job.valid /\ dec["plain"].phase = "stopped"
          /\ Len(job.text) <= job.budget /\ ~OverCap(dec["plain"])) =>
            dec["plain"].result \in IF job.trailed THEN {"ok"} ELSE {"checksum"}
    /\ (stream.valid /\ bz.phase = "stopped") =>
            bz.result = IF Len(stream.text) <= stream.budget THEN "ok" ELSE "budget"

\* The paid work never passes the metered run's ceiling, and the ceiling
\* changes nothing but where the stream stops: a run it did not stop ends as
\* the plain one does, and one it is blamed for would have gone on.  (A stop
\* exactly at the budget is blamed on the budget, inflate.rs:84-93.)
MeterOnlyStops ==
    LET m == dec["metered"]
        p == dec["plain"]
        same == Output(m) = Output(p) /\ m.result = p.result
    IN /\ Paid(m) <= Max({m.paidCap, 0})
       /\ (m.phase = "stopped" /\ p.phase = "stopped") =>
            /\ IsPrefix(Output(m), Output(p))
            /\ m.capped => m.result = "budget" /\ (~same \/ OverCap(p))
            /\ ~m.capped => same \/ Len(Output(m)) = job.budget

=============================================================================
