------------------------------- MODULE Timeline -------------------------------
(***************************************************************************)
(* What a ledger promises its player, with no word about frames, records,  *)
(* deltas or checkpoints: a line of moments, one per step.  A choice adds  *)
(* moments at the end, a rollback cuts some off, and nothing ever rewrites *)
(* a moment that stays.  `now` is the moment the ledger stands at.         *)
(***************************************************************************)
EXTENDS Naturals, Sequences

CONSTANT Start  \* the first moment

VARIABLES moments, now

Init == moments = <<Start>> /\ now = Start

Prefix(s, t) == Len(s) <= Len(t) /\ SubSeq(t, 1, Len(s)) = s

\* A choice settles: one moment per hop is added, and the ledger stands at
\* the last.  A rollback: the ledger stands at the last moment kept.
Extends(old, new) == Len(old) < Len(new) /\ Prefix(old, new)
CutsBack(old, new) == 0 < Len(new) /\ Len(new) < Len(old) /\ Prefix(new, old)

Next ==
    LET old == moments
        new == moments'
    IN  /\ Extends(old, new) \/ CutsBack(old, new)
        /\ now' = new[Len(new)]

Spec == Init /\ [][Next]_<<moments, now>>
=============================================================================
