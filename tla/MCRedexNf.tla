----------------------------- MODULE MCRedexNf -----------------------------
(* Small nets for RedexNf.  Cells are numbered from 1. *)
EXTENDS RedexNf

N(n)         == Num(n)
App(l)       == Term("APP", 0, l)
Lam(l)       == Term("LAM", 0, l)
Var(l)       == Term("VAR", 0, l)
Add(l)       == Term("OP2", 0, l)
Mat(m, l)    == Term("MAT", m, l)
Sup(lab, l)  == Term("SUP", lab, l)
Dp(i, l)     == Term(IF i = 0 THEN "DP0" ELSE "DP1", 1, l)
Ctr(c, l)    == Term("CTR", c, l)
Net(cells, root) == [cells |-> cells, root |-> root]

\* (1 + 2) + (3 + 4)
SumNet == Net(<<N(1), N(2), N(3), N(4), Add(1), Add(3)>>, Add(5))
\* ((\f. f) (\x. x)) (1 + 2), and the sum of it with 4
IdNet == Net(<<Var(1), Var(2), Lam(1), Lam(2), N(1), N(2), App(3), Add(5), App(7), N(4)>>,
             Add(9))
\* (\f. f 5) (\x. x) + 1
CallNet == Net(<<App(2), Var(1), N(5), Var(4), Lam(1), Lam(4), App(5), N(1)>>, Add(7))
\* (\x. (x + 1) + 3) 5
BetaNet == Net(<<Add(2), Add(4), N(3), Var(1), N(1), Lam(1), N(5)>>, App(6))
\* ! &1{a, b} = 5; (a + 1) + (b + 2)
DupNet == Net(<<N(5), Dp(0, 1), N(1), Dp(1, 1), N(2), Add(2), Add(4)>>, Add(6))
\* ! &1{a, b} = 1 + 2; a + b
DupSumNet == Net(<<Add(2), N(1), N(2), Dp(0, 1), Dp(1, 1)>>, Add(4))
\* ! &1{a, b} = &1{1, 2}; (\x. x) a + b
DupSupNet == Net(<<Sup(1, 2), N(1), N(2), Var(4), Lam(4), Dp(0, 1), App(5), Dp(1, 1)>>,
                 Add(7))
\* (match 0 -> 7, else \x. x) (1 + 2), plus 1
MatNet == Net(<<N(7), Lam(3), Var(3), N(1), N(2), Mat(0, 1), Add(4), App(6), N(1)>>,
              Add(8))
\* (match 0 -> 7, else (match 1 -> 8, else \x. x)) 0
HitNet == Net(<<N(7), Mat(1, 3), N(8), Lam(5), Var(5), Mat(0, 1), N(0)>>, App(6))
\* (match 0 -> 7, else a) (1 + 2), for ! &1{a, b} = &1{\x. x, 9}
MissNet == Net(<<N(7), Dp(0, 6), N(1), N(2), Var(5), Sup(1, 8), N(0), Lam(5), N(9),
                 Mat(0, 1), Add(3)>>, App(10))
\* (match #5 -> \a. \b. a + b) #5{10, 20}
CtrNet == Net(<<Lam(3), N(0), Lam(4), Add(5), Var(3), Var(4), N(2), N(10), N(20),
                Mat(5, 1), Ctr(5, 7)>>, App(10))

\* (match #5 -> \a. a) #5{10}, and (match #5 -> 7) #5{}
FieldNet == Net(<<Lam(3), N(0), Var(3), N(1), N(10), Mat(5, 1), Ctr(5, 4)>>, App(6))
EmptyNet == Net(<<N(7), N(9), N(0), Mat(5, 1), Ctr(5, 3)>>, App(4))
\* (\x. x) (1 + (\y. y) 2), plus 4
ArgNet == Net(<<Var(1), Lam(1), N(2), Var(4), N(1), App(2), Lam(4), Add(5), App(7), N(4)>>,
              Add(9))
\* (\x. x + 1) ((\y. y) 2)
NestNet == Net(<<Add(2), Var(1), N(1), Var(4), Lam(1), App(7), Lam(4), N(2)>>, App(5))
\* (match 0 -> 7, else v) (1 + 2), for a free v
FreeNet == Net(<<N(7), Term("FVR", 0, 1), N(1), N(2), Mat(0, 1), Add(3)>>, App(5))
\* ! &1{a, b} = &2{1, 2}; &3{a, b}
CommuteNet == Net(<<Sup(2, 2), N(1), N(2), Dp(0, 1), Dp(1, 1)>>, Sup(3, 4))
\* (1 + 2) + x + y, where x and y may be the sum 1 + 2 again
SharedNets == {Net(<<N(1), N(2), x, Add(1), y, Add(3)>>, Add(5)) :
                 x \in {N(3), Add(1)}, y \in {N(4), Add(1)}}

By(crew, nets) == {[cells |-> n.cells, root |-> n.root, crew |-> crew] : n \in nets}

\* One worker, under a step session.
SessionNets == By({1},
  {SumNet, IdNet, CallNet, BetaNet, DupNet, DupSumNet, DupSupNet, MatNet, HitNet,
   MissNet, CtrNet, FieldNet, EmptyNet, ArgNet, NestNet, CommuteNet} \cup SharedNets)
\* Each redex becomes one in a patched cell or as a result.
ShownNets == By({1},
  {SumNet, CallNet, DupSupNet, MatNet, HitNet, MissNet, FieldNet, EmptyNet, ArgNet,
   CommuteNet} \cup SharedNets)
\* Several workers, and no projection is moved or substituted before it fires.
RoundNets ==
  By({1, 2}, {SumNet, IdNet, CallNet, BetaNet, DupNet, MatNet, HitNet, CtrNet,
              FieldNet, EmptyNet, FreeNet, NestNet} \cup SharedNets)
  \cup By({1, 2, 3}, {SumNet, IdNet, DupNet, MatNet, FreeNet, NestNet})
\* Several workers, where a projection is substituted while another fires it
\* (DupSupNet), moved by a match (MissNet), or a substitution is enumerated as a
\* redex (ArgNet).
RacingNets == By({1, 2}, {DupSupNet, MissNet, ArgNet}) \cup By({1, 2, 3}, {ArgNet, DupSupNet})
AllNets == SessionNets \cup RoundNets \cup RacingNets
Settled == ShownNets \cup RoundNets \cup RacingNets

\* Its application is pushed twice: as a seed, and when 1 + 2 fires.
StaleNets == By({1}, {FreeNet})
=============================================================================
