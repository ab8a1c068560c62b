---------------------------- MODULE MC_SafeRunner ----------------------------
(* TLC instance of SafeRunner: fa and fb lie under IRCTEST_ROOT, fc exists *)
(* elsewhere (an as-is path), fd does not exist.                           *)
EXTENDS SafeRunner

CONSTANTS fa, fb, fc, fd

MCFiles == {fa, fb, fc, fd}
MCExisting == {fa, fb, fc}
MCInRoot == {fa, fb}
MCDiscoverList == <<fa, fb>>

\* Every list of at most two TEST_FILE arguments.
MCArgLists == UNION {[1..n -> MCFiles] : n \in 0..2}

====
