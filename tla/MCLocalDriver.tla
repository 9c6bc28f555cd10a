--------------------------- MODULE MCLocalDriver ---------------------------
EXTENDS LocalDriver, TLC

\* "a" is a key of its own, and the directory of another; so is "a/b".
MCKeys == {"a", "a/b", "a/b/c"}
MCParent == ("a" :> Root) @@ ("a/b" :> "a") @@ ("a/b/c" :> "a/b")
MCAbove == ("a" :> {}) @@ ("a/b" :> {"a"}) @@ ("a/b/c" :> {"a", "a/b"})
MCSymmetry == Permutations(Ops)
=============================================================================
