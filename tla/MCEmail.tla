-------------------------------- MODULE MCEmail --------------------------------
EXTENDS EmailIdentities, TLC

\* "a" and "A", "b" and "B" are the same to a login; nobody can log in with "!".
MCCanonical == "a" :> "a" @@ "A" :> "a" @@ "b" :> "b" @@ "B" :> "b"
=============================================================================
