----------------------------- MODULE MCCliClient -----------------------------
(* A vote with and without a ballot, a line with its newline and two        *)
(* without, a state that just fits a frame and one that does not.           *)
EXTENDS CliClient

CONSTANTS login, none, some

MCStory == {login}
MCBallots == {none, some}
MCLine == {"1", "4", "4\n"}
MCLength == {65535, 65536}
=============================================================================
