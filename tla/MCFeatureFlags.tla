--------------------------- MODULE MCFeatureFlags ---------------------------
(* FeatureFlags with four answers of the server: nothing, either value of  *)
(* the dark mode, and one that names a test setting as well.               *)
EXTENDS FeatureFlags

MCConfig ==
    {<<>>, [f \in {"DARK_MODE"} |-> TRUE], [f \in {"DARK_MODE"} |-> FALSE],
     [f \in {"DARK_MODE", "DEBUG_LOGGING"} |-> TRUE]}

=============================================================================
