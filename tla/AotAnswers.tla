----------------------------- MODULE AotAnswers -----------------------------
(***************************************************************************)
(* What a run of AotRun is to return: the value of the program, as a plain *)
(* recursive evaluation of its functions gives it.  A recursion over an    *)
(* arbitrary program is a table here: for each program, from the calls its *)
(* evaluation makes to their values.                                       *)
(***************************************************************************)
EXTENDS AotRun

CONSTANT Evaluation

Main == <<"main", <<None, None>>>>

\* E gives the call c the value that the body of its function gives it.  A
\* value is the history of the calls that computed it; a continuation is
\* called with the values of the calls it waits for.
Obeys(E, p, c) ==
  LET body    == p[c[1]]
      value   == <<c[1]>> \o c[2][1] \o c[2][2]
      of(f)   == E[<<f, c[2]>>]
      made(f) == <<f, c[2]>> \in DOMAIN E
      is(f, args) == <<f, args>> \in DOMAIN E /\ E[<<f, args>>] = E[c]
  IN \/ body.kind = "value" /\ E[c] = value
     \/ body.kind = "tail" /\ is(body.call, c[2])
     \/ /\ body.kind = "call" /\ made(body.call)
        /\ is(body.cont, <<of(body.call), None>>)
     \/ /\ body.kind = "split" /\ made(body.call[1]) /\ made(body.call[2])
        /\ is(body.cont, <<of(body.call[1]), of(body.call[2])>>)

\* The programs are those whose evaluation ends.
ASSUME EvaluationAssumption ==
  \A p \in Programs :
    /\ Main \in DOMAIN Evaluation[p]
    /\ \A c \in DOMAIN Evaluation[p] :
         c[1] \in DOMAIN p /\ Obeys(Evaluation[p], p, c)

\* The joined threads of aot_run_parallel, or the one of aot_run_serial,
\* return what the program evaluates to, whichever thread ran which task and
\* in whatever order the children of a cell reported.
Answered == AllQuit => done /\ result = Evaluation[program][Main]
=============================================================================
