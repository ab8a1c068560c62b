--------------------------- MODULE MC_IrcClient ---------------------------
(* Model-checking instance of IrcClient: the constant values that are not *)
(* plain model values, and the liveness-free variant of the properties.   *)
EXTENDS IrcClient

\* expect("PRIVMSG"), and expect_any(["318", "401"]).
MCExpectSets == {{"PRIVMSG"}, {"318", "401"}}

=============================================================================
