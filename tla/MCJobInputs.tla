---------------------------- MODULE MCJobInputs ----------------------------
(* Model checking of JobInputs: a script with a saved search and a text,    *)
(* which may hold the pattern that puts its own token back.                 *)
EXTENDS JobInputs, TLC

CONSTANTS c1, c2, a1, search, text

Script ==
  <<Literal("SELECT"), Token("MasterDatabasePrepend"), Token(search),
    Literal("AND"), Token(text), Token("CaseArtifactID"), Token(text)>>

TheDetails == <<search, text>>
TheKind == (search :> "SavedSearch") @@ (text :> "Text")
TheHoldable == (search :> {}) @@ (text :> {"$&"})

Symmetry == Permutations(Clients)
=============================================================================
