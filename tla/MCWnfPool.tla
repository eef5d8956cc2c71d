----------------------------- MODULE MCWnfPool -----------------------------
(* Small pools and terms for WnfPool. *)
EXTENDS WnfPool

Names == {"a", "b", "c", "d"}
\* A firing that makes two redexes, one of which makes a third; b is found
\* twice, as the result and in the cell it sits in.
TreeSucc == [r \in Names |->
               CASE r = "a" -> <<"b", "c", "b">> [] r = "c" -> <<"d">>
                 [] OTHER -> <<>>]
\* The same, where what is found twice goes on.
TwiceSucc == [TreeSucc EXCEPT !["b"] = <<"d">>]
\* A smaller tree, for three workers.
ForkSucc == [r \in Names |-> IF r = "a" THEN <<"b", "c">> ELSE <<>>]

\* What a session does not show: c makes d where nobody is told, or a makes d
\* so, and b, found later, makes it again.
HideSucc  == [TreeSucc EXCEPT !["c"] = <<>>]
HiddenOf(h) == [r \in Names |-> IF r = h THEN {"d"} ELSE {}]

Base == [n |-> 1, cap |-> 6, redex |-> Names, root |-> {"a"}, succ |-> TreeSucc,
         hidden |-> [r \in Names |-> {}], lazy |-> {}, claimed |-> {"b"}, session |-> TRUE, fireCap |-> 20,
         calls |-> 1]

\* One worker, and a cap on firings that bites; a REF the driver skips; two
\* workers with bags that fill up; three workers without a step session; one
\* whose bag does not hold the seeds, which it enumerates again; two stopped by
\* the cap, and what they leave in a bag for the next call.
Stops  == [Base EXCEPT !.succ = TwiceSucc, !.claimed = {"d"}, !.fireCap = 7, !.calls = 4]
Skips  == [Base EXCEPT !.lazy = {"d"}, !.session = FALSE]
Two    == [Base EXCEPT !.n = 2, !.cap = 2, !.calls = 2]
Three  == [Base EXCEPT !.n = 3, !.cap = 3, !.root = {"a", "b"}, !.succ = ForkSucc,
                       !.session = FALSE, !.fireCap = 1]
Seeds  == [Base EXCEPT !.cap = 2, !.root = {"a", "b", "c"}, !.session = FALSE]
Leaves == [Base EXCEPT !.n = 2, !.cap = 3, !.session = FALSE, !.fireCap = 1, !.calls = 2]

\* A session that leaves d; one that is shown it later; two workers without a
\* session, which find it in the round after.
Leftover == [Base EXCEPT !.succ = HideSucc, !.hidden = HiddenOf("c"), !.calls = 2]
Later    == [Leftover EXCEPT !.succ = [HideSucc EXCEPT !["b"] = <<"d">>],
                             !.hidden = HiddenOf("a"), !.claimed = {}]
Found    == [Leftover EXCEPT !.n = 2, !.cap = 4, !.session = FALSE, !.calls = 1]

PoolSetups == {Stops, Skips, Two, Three, Seeds, Leaves, Leftover, Later, Found}
=============================================================================
