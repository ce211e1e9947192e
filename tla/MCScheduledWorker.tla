-------------------------- MODULE MCScheduledWorker --------------------------
(***************************************************************************)
(* Instances of ScheduledWorker for TLC.  A unit of time is one renewal    *)
(* pause; a lease lasts two.                                               *)
(***************************************************************************)
EXTENDS ScheduledWorker, TLC

CONSTANTS w1, w2, often, rare, leap

\* often: every second instant; rare: every third; leap: once, and not again
\* within the horizon (29 February).
MCFires(c, t) == \/ c = often /\ t % 2 = 1
                 \/ c = rare /\ t % 3 = 2
                 \/ c = leap /\ t = 1

DistinctOwners == [w \in Workers |-> IF w = w1 THEN "owner-1" ELSE "owner-2"]
SharedOwner == [w \in Workers |-> "schedule-worker"]

Setting(active, cron, telegram) == [active |-> active, cron |-> cron, telegram |-> telegram]

\* A schedule with Telegram, a sparser one without, and one that is switched off.
ThreeSettings == {Setting(TRUE, often, TRUE), Setting(TRUE, rare, FALSE), Setting(FALSE, often, TRUE)}
\* A schedule with Telegram, and one without a next slot.
OftenOrLeap == {Setting(TRUE, often, TRUE), Setting(TRUE, leap, FALSE)}
LeapDay == {Setting(TRUE, leap, FALSE)}

EditorSymmetry == Permutations(Editors)
OwnerNames == {"owner-1", "owner-2", "schedule-worker"}

=============================================================================
