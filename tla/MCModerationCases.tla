---------------------------- MODULE MCModerationCases ----------------------------
(* One content, of a game; a moderator of that game and one of the platform.                      *)
EXTENDS ModerationCases, TLC

CONSTANTS case1, case2, rep1, rep2, post, admin, mod, plat, game, platform

GamePost == post :> game
OneRightEach == {<<mod, game>>, <<plat, platform>>}
Interchangeable == Permutations({rep1, rep2})
=============================================================================
