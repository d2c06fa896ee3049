---------------------------- MODULE SnapshotFeed ----------------------------
(***************************************************************************)
(* What the gateway promises a client about world snapshots.               *)
(*                                                                         *)
(* Snapshots are numbered in the order in which the Hub's broadcast queue  *)
(* accepts them.  From the moment it joins, a client is sent the snapshots *)
(* one by one: none is skipped, repeated or sent out of order, until its   *)
(* connection ends, and nothing is sent after that.                        *)
(***************************************************************************)
EXTENDS Naturals

CONSTANT Conns          \* the connections

VARIABLES published,    \* number of snapshots accepted so far
          status,       \* "out", "live" or "ended", for each connection
          seen          \* the last snapshot sent to each connection

feedVars == <<published, status, seen>>

FeedInit ==
  /\ published = 0
  /\ status = [c \in Conns |-> "out"]
  /\ seen = [c \in Conns |-> 0]

Publish ==
  /\ published' = published + 1
  /\ UNCHANGED <<status, seen>>

\* A feed starts at a point of the past or of the present, never of the future.
Join(c) ==
  /\ status[c] = "out"
  /\ status' = [status EXCEPT ![c] = "live"]
  /\ \E start \in 0 .. published : seen' = [seen EXCEPT ![c] = start]
  /\ UNCHANGED published

Deliver(c) ==
  /\ status[c] = "live"
  /\ seen[c] < published
  /\ seen' = [seen EXCEPT ![c] = @ + 1]
  /\ UNCHANGED <<published, status>>

End(c) ==
  /\ status[c] = "live"
  /\ status' = [status EXCEPT ![c] = "ended"]
  /\ UNCHANGED <<published, seen>>

FeedNext ==
  \/ Publish
  \/ \E c \in Conns : Join(c) \/ Deliver(c) \/ End(c)

FeedSpec == FeedInit /\ [][FeedNext]_feedVars
=============================================================================
