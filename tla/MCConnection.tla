----------------------------- MODULE MCConnection -----------------------------
EXTENDS Connection

CONSTANTS a, b, c, ch

MCCommands == {a, b, c}
TwoCommands == {a, b}
MCChannels == {ch}
=============================================================================
