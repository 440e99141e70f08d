-------------------------- MODULE MCNotifications --------------------------
(* Instances of Notifications for TLC. *)
EXTENDS Notifications, TLC

CONSTANTS r1, r2, p1, p2, u1, u2

\* One run on each replica.
OneRunEach == r1 :> p1 @@ r2 :> p2

\* The first intent is for u2, the others for u1, who may block the bot.
TwoUsers == <<u2, u1, u1>>
=============================================================================
