---------------------------- MODULE TestSequence ----------------------------
(***************************************************************************)
(* What a test runner promises about the order of its work, whatever the  *)
(* tests do: once it has its list of files it runs them one at a time, in  *)
(* the list's order, each exactly once.                                    *)
(*                                                                         *)
(* `cur` is the file being run, as a sequence of length 0 or 1; `ran` the  *)
(* files already finished; `todo` the files not yet started.               *)
(***************************************************************************)
EXTENDS Naturals, Sequences

CONSTANT Files

VARIABLES loaded, todo, cur, ran

vars == <<loaded, todo, cur, ran>>

\* Types.
TypeOK ==
    /\ loaded \in BOOLEAN
    /\ todo \in Seq(Files) /\ cur \in Seq(Files) /\ ran \in Seq(Files)
    /\ Len(cur) <= 1

Init ==
    /\ loaded = FALSE
    /\ todo = <<>> /\ cur = <<>> /\ ran = <<>>

\* The runner settles on a non-empty list of files.
Load ==
    /\ ~loaded
    /\ loaded' = TRUE
    /\ todo' \in Seq(Files) /\ todo' # <<>>
    /\ UNCHANGED <<cur, ran>>

\* It starts the next file only when none is running.
Take ==
    /\ loaded /\ cur = <<>> /\ todo # <<>>
    /\ cur' = <<Head(todo)>> /\ todo' = Tail(todo)
    /\ UNCHANGED <<loaded, ran>>

\* The running file finishes, whatever its outcome.
Finish ==
    /\ cur # <<>>
    /\ ran' = ran \o cur /\ cur' = <<>>
    /\ UNCHANGED <<loaded, todo>>

Next == Load \/ Take \/ Finish

Spec == Init /\ [][Next]_vars

====
