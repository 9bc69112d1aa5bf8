---------------------------- MODULE WriteBehind -----------------------------
(***************************************************************************)
(* What the hub's peer store promises, with nothing of how it is done: a   *)
(* live map that changes at will, and a disk that is only ever replaced by *)
(* the whole map as it stood at one earlier moment.  A restart finds       *)
(* exactly what is on disk.  There are no queues of deletions, no partial  *)
(* writes and no order between peers to get wrong.                         *)
(***************************************************************************)
EXTENDS PeerRecord, Sequences

CONSTANT Peers

VARIABLES
    live,   \* the map readers see
    cut,    \* <<m>>: the map m is on its way to disk; <<>>: nothing is
    done,   \* the last map sent on its way has arrived, and nobody was told yet
    disk    \* the map a restart would find

vars == <<live, cut, done, disk>>

Maps == [Peers -> MaybeRecord]

Init == live = [p \in Peers |-> NoPeer] /\ disk = live /\ cut = <<>> /\ done = FALSE

Change == live' \in Maps /\ UNCHANGED <<cut, done, disk>>

Capture == cut = <<>> /\ ~done /\ cut' = <<live>> /\ UNCHANGED <<live, done, disk>>

Publish == cut # <<>> /\ disk' = Head(cut) /\ cut' = <<>> /\ done' = TRUE /\ UNCHANGED live

Abandon == cut # <<>> /\ cut' = <<>> /\ UNCHANGED <<live, done, disk>>

(* Success is only ever reported of a map that is on disk. *)
Acknowledge == done /\ done' = FALSE /\ UNCHANGED <<live, cut, disk>>

Recover == live' = disk /\ cut' = <<>> /\ done' = FALSE /\ UNCHANGED disk

(* Right after a start, before anything else: take in a fetched map and    *)
(* write it through.                                                       *)
Catchup ==
    /\ live = disk /\ cut = <<>> /\ ~done
    /\ live' \in Maps /\ disk' \in {disk, live'} /\ UNCHANGED <<cut, done>>

Next == Change \/ Capture \/ Publish \/ Abandon \/ Acknowledge \/ Recover \/ Catchup

Spec == Init /\ [][Next]_vars
=============================================================================
