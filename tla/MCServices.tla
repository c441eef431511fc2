----------------------------- MODULE MCServices -----------------------------
EXTENDS Services

\* plugins/a.jar, and .plugins/a.jar, which is no plugin
MCKindsOf == [f \in Files |-> IF f = "plugins" THEN {"plugins", "jars"} ELSE {"jars"}]
MCStripped == [f \in Files |-> "plugins"]
=============================================================================
