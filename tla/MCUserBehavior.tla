--------------------------- MODULE MCUserBehavior ---------------------------
(* UserBehavior on small instances: bans of a day, and thresholds that two  *)
(* appointments reach.                                                     *)
EXTENDS UserBehavior, TLC

OneDayEach == <<1, 1, 1>>
Recount123 == <<1, 2, 3>>
Listed == [strikes |-> 1, cancels |-> 2, noShows |-> 1]
Automatic == [weekCancels |-> 2, weekNoShows |-> 1, cancels |-> 2]
Mix(ops, atOnce, days) == [operations |-> ops, atOnce |-> atOnce, days |-> days]
Everything ==
  {Mix({"book", "ban", "unban", "ownerCancel"}, 2, 1),
   Mix({"book", "ban", "unban", "ownerCancel", "confirm", "approve"}, 1, 1),
   Mix({"book", "status"}, 1, 0),
   Mix({"book", "cancel", "noShow", "automatic", "reset"}, 1, 1),
   Mix({"strike", "removeStrike", "adminBan", "expire"}, 2, 1)}
Bans == {Mix({"book", "ban", "unban"}, 2, 1)}
Symmetry == Permutations(Bookings) \cup Permutations(Tasks)
=============================================================================
