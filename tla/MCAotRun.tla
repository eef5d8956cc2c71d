------------------------------ MODULE MCAotRun ------------------------------
(* Small programs for AotRun, and what they evaluate to. *)
EXTENDS AotAnswers, TLC

Value            == [kind |-> "value"]
Tail1(f)         == [kind |-> "tail", call |-> f]
Call(f, k)       == [kind |-> "call", call |-> f, cont |-> k]
Split(f, g, k)   == [kind |-> "split", call |-> <<f, g>>, cont |-> k]

\* Fork a tree of calls, then work on what it made: the continuation of the
\* call is a tail call of a function that forks again.
ThenProgram ==
  "main" :> Call("f", "then") @@ "f" :> Split("l", "r", "k") @@
  "l" :> Split("a", "b", "k") @@ "r" :> Split("c", "d", "k") @@
  "then" :> Tail1("g") @@ "g" :> Split("a", "b", "k") @@ "k" :> Value @@
  "a" :> Value @@ "b" :> Value @@ "c" :> Value @@ "d" :> Value

\* A continuation that splits again, and one side deeper than the other.
AgainProgram ==
  "main" :> Split("a", "f", "again") @@ "f" :> Call("b", "k") @@
  "again" :> Split("c", "d", "k") @@ "k" :> Value @@
  "a" :> Value @@ "b" :> Value @@ "c" :> Value @@ "d" :> Value

\* Calls only: the seed rounds run out.
ChainProgram ==
  "main" :> Tail1("f") @@ "f" :> Call("g", "k") @@ "g" :> Tail1("h") @@
  "h" :> Tail1("a") @@ "k" :> Value @@ "a" :> Value

\* Three queued tasks, one less than enough, that all split.
WideProgram ==
  "main" :> Split("l", "r", "k") @@ "l" :> Split("s", "s", "k") @@
  "r" :> Tail1("s") @@ "s" :> Split("a", "b", "k") @@
  "k" :> Value @@ "a" :> Value @@ "b" :> Value

MCPrograms == {ThenProgram, AgainProgram, ChainProgram, WideProgram}

-----------------------------------------------------------------------------
(* Their evaluation, by recursion *)

RECURSIVE Eval(_, _, _)
Eval(p, f, args) ==
  LET body == p[f]
  IN CASE body.kind = "value" -> <<f>> \o args[1] \o args[2]
       [] body.kind = "tail"  -> Eval(p, body.call, args)
       [] body.kind = "call"  ->
            Eval(p, body.cont, <<Eval(p, body.call, args), None>>)
       [] body.kind = "split" ->
            Eval(p, body.cont, <<Eval(p, body.call[1], args),
                                 Eval(p, body.call[2], args)>>)

\* The calls that the evaluation of a call makes, itself among them.
RECURSIVE Made(_, _, _)
Made(p, f, args) ==
  LET body  == p[f]
      of(g) == Eval(p, g, args)
  IN {<<f, args>>} \cup
     CASE body.kind = "value" -> {}
       [] body.kind = "tail"  -> Made(p, body.call, args)
       [] body.kind = "call"  ->
            Made(p, body.call, args) \cup
            Made(p, body.cont, <<of(body.call), None>>)
       [] body.kind = "split" ->
            Made(p, body.call[1], args) \cup Made(p, body.call[2], args) \cup
            Made(p, body.cont, <<of(body.call[1]), of(body.call[2])>>)

MCEvaluation ==
  [p \in MCPrograms |->
     [c \in Made(p, "main", <<None, None>>) |-> Eval(p, c[1], c[2])]]
=============================================================================
