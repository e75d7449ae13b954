---------------------------- MODULE MCRoomActor ----------------------------
(* Three people, two stories that share their id, a story id nobody may     *)
(* vote on, and three cards: two numbers and the coffee card above them.    *)
EXTENDS RoomActor

CONSTANTS ann, bob, cas, c1, small, large

MCWinner == {ann, bob, cas}
MCSession == {c1}
MCStoryId == {1, 2}
MCTitle == {small, large}
MCStory == {[id |-> 1, title |-> small], [id |-> 1, title |-> large]}
MCPoints == {1, 8, 101}
=============================================================================
