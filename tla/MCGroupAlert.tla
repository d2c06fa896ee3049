---------------------------- MODULE MCGroupAlert ----------------------------
(* GroupAlert on small instances: every NPC is a follower of some group, for *)
(* group_alert does not depend on roles.                                     *)
EXTENDS GroupAlert, TLC

Followers == [group : Groups, role : {"follower"}]
=============================================================================
