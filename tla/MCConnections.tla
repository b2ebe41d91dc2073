---------------------------- MODULE MCConnections ----------------------------
EXTENDS Connections, TLC

MCType == ("k1" :> "rsa") @@ ("k2" :> "ed25519")
=============================================================================
