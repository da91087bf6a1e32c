------------------------------ MODULE MCWindows ------------------------------
\* Constants for TLC: users of one or two windows, two keys and two files.
EXTENDS Windows
MCDesks == {{"keymanager"}, {"fileman", "cardman"}, {"clipboard"},
            {"keymanager", "clipboard"}, {"fileman", "clipboard"}}
MCKeys == {"own", "friend"}
MCPrivate == {"own"}
MCSigned == {"own"}
==============================================================================
