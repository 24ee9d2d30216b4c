----------------------------- MODULE AneFinite -----------------------------
(***************************************************************************)
(* What the proofs use of finite sets.  The lemmas of a proof module have  *)
(* the facts they need as a hypothesis, FiniteFacts, and the module proves *)
(* it at its end from the theorems of the library: these are not in the    *)
(* way of the provers before that.                                         *)
(***************************************************************************)
EXTENDS Integers, FiniteSets

FsCardinality == \A S : IsFiniteSet(S) => Cardinality(S) \in Nat

FsEmpty ==
    /\ IsFiniteSet({}) /\ Cardinality({}) = 0
    /\ \A S : IsFiniteSet(S) => (Cardinality(S) = 0 <=> S = {})

FsSingleton == \A x : IsFiniteSet({x}) /\ Cardinality({x}) = 1

FsInterval == \A a, b \in Int :
    IsFiniteSet(a..b) /\ Cardinality(a..b) = IF a > b THEN 0 ELSE b - a + 1

FsSubset == \A S : IsFiniteSet(S) => \A T \in SUBSET S :
    /\ IsFiniteSet(T) /\ Cardinality(T) <= Cardinality(S)
    /\ Cardinality(S) = Cardinality(T) => S = T

FsAdd == \A S, x : IsFiniteSet(S) =>
    /\ IsFiniteSet(S \cup {x})
    /\ Cardinality(S \cup {x}) = IF x \in S THEN Cardinality(S) ELSE Cardinality(S) + 1

FsRemove == \A S, x : IsFiniteSet(S) =>
    /\ IsFiniteSet(S \ {x})
    /\ Cardinality(S \ {x}) = IF x \in S THEN Cardinality(S) - 1 ELSE Cardinality(S)

FsDifference == \A S, T : IsFiniteSet(S) =>
    /\ IsFiniteSet(S \ T)
    /\ Cardinality(S \ T) = Cardinality(S) - Cardinality(S \cap T)

FsUnion == \A S, T : IsFiniteSet(S) /\ IsFiniteSet(T) =>
    /\ IsFiniteSet(S \cup T)
    /\ Cardinality(S \cup T) = Cardinality(S) + Cardinality(T) - Cardinality(S \cap T)

FsUNION == \A S : IsFiniteSet(S) /\ (\A T \in S : IsFiniteSet(T)) => IsFiniteSet(UNION S)

FsProduct == \A S, T : IsFiniteSet(S) /\ IsFiniteSet(T) =>
    /\ IsFiniteSet(S \X T)
    /\ Cardinality(S \X T) = Cardinality(S) * Cardinality(T)

FsImage == \A S, f : IsFiniteSet(S) =>
    LET T == {f[x] : x \in S} IN IsFiniteSet(T) /\ Cardinality(T) <= Cardinality(S)
=============================================================================
