----------------------------- MODULE MCSatSolver -----------------------------
(* A small instance of SatSolver. *)
EXTENDS SatSolver

\* A formula without models, of clauses of two, three and four literals.
Refutable ==
  <<{2,-4,-1,3}, {-4,3,2}, {3,4}, {-3,1,-4,5}, {-1,-3,5}, {2,4,-3}, {-5,-2},
    {5,-4}, {-4,1,-5}, {-3,-4,-1,-2}, {-3,5}, {3,4,-1}>>

\* One with lemmas of three literals, which can be deleted.
Forgetful ==
  <<{-2,5,-4}, {4,-2,1}, {-5,-2,4,-3}, {2,-3,-4}, {1,5}, {-3,1}, {-3,-1,-5},
    {-5,4}, {3,2,-5}, {5,-2,-1}, {-5,-3}, {2,5,3}, {1,3,-2}>>

\* One whose lemma has four literals.
Wide == <<{1,2,3,4,5}, {1,2,3,4,-5}>>

MCFormulas == {[clauses |-> Refutable, checks |-> 1],
               [clauses |-> Forgetful, checks |-> 2],
               [clauses |-> Wide, checks |-> 1]}
MCExtra       == {{5}, {-5}}
MCAssumptions == {<<-2>>}
MCPhases      == {-1}
=============================================================================
