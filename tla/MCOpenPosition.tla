--------------------------- MODULE MCOpenPosition ---------------------------
EXTENDS OpenPosition

MCSplit == <<4, 6>>
MCTargets == <<5, 6>>
MCLadder == <<2>>
=============================================================================
