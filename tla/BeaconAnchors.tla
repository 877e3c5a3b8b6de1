---------------------------- MODULE BeaconAnchors ----------------------------
(***************************************************************************)
(* beacon_anchors._scan_beacon_anchors: what the progress beacons of a     *)
(* whole transcript come to.  A beacon has a kind, the time stamp of its   *)
(* line and perhaps an estimate.                                           *)
(***************************************************************************)
EXTENDS Integers, SequencesExt

None == 0     \* of time stamps and estimates, which are positive

\* A line of the transcript is a record: whether it is an assistant's, its time
\* stamp (None where there is none), and the beacons in its text, in order.
Beacon(Etas) == [kind : {"begin", "report", "end", "other"}, eta : Etas]

NoAnchors == [begin |-> None, report |-> None, eta |-> None]

\* Mutant of ApplyBeacon: a new begin keeps the report of the one before.
ApplyBeaconKeeping(anchors, ts, beacon) ==
    CASE beacon.kind = "begin" -> [anchors EXCEPT !.begin = ts, !.eta = IF beacon.eta > 0 THEN beacon.eta ELSE None]
      [] beacon.kind = "report" /\ anchors.begin # None -> [anchors EXCEPT !.report = ts]
      [] beacon.kind = "end" -> NoAnchors
      [] OTHER -> anchors

\* _apply_beacon.  An estimate that is no positive number is none.
ApplyBeacon(anchors, ts, beacon) ==
    CASE beacon.kind = "begin" -> [begin |-> ts, report |-> None,
                                   eta |-> IF beacon.eta > 0 THEN beacon.eta ELSE None]
      [] beacon.kind = "report" /\ anchors.begin # None -> [anchors EXCEPT !.report = ts]
      [] beacon.kind = "end" -> NoAnchors
      [] OTHER -> anchors

\* _iter_assistant_beacons: other lines, and those without a time, do not count.
ApplyLine(anchors, line) ==
    IF line.assistant /\ line.ts # None
    THEN FoldLeft(LAMBDA a, b : ApplyBeacon(a, line.ts, b), anchors, line.beacons)
    ELSE anchors

Scan(lines) == FoldLeft(ApplyLine, NoAnchors, lines)

-----------------------------------------------------------------------------

\* All the beacons that count, in the order of the file.
Stamped(lines) ==
    FlattenSeq([i \in DOMAIN lines |->
        IF lines[i].assistant /\ lines[i].ts # None
        THEN [j \in DOMAIN lines[i].beacons |->
                 [ts |-> lines[i].ts, kind |-> lines[i].beacons[j].kind,
                  eta |-> lines[i].beacons[j].eta]]
        ELSE <<>>])

\* The last begin that no end follows is the open one, the report shown is the
\* last one after it, and the estimate is that begin's and no other's.
MatchesLifecycle(lines) ==
    LET all == Stamped(lines)
        Of(kind) == {i \in DOMAIN all : all[i].kind = kind}
        open == {i \in Of("begin") : \A j \in Of("begin") \cup Of("end") : j <= i}
        reports == {j \in Of("report") : \E i \in open : i < j}
        got == Scan(lines)
    IN  /\ open = {} => got = NoAnchors
        /\ \A i \in open :
              /\ got.begin = all[i].ts
              /\ got.eta = IF all[i].eta > 0 THEN all[i].eta ELSE None
              /\ reports = {} => got.report = None
              /\ \A j \in reports : (\A k \in reports : k <= j) => got.report = all[j].ts
=============================================================================
