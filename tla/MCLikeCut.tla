------------------------------ MODULE MCLikeCut ------------------------------
EXTENDS LikeCut

\* A plain byte and the three that are special.
Plain == 97
MCPatternBytes == {Plain, Percent, Underscore, Backslash}
MCTextBytes == {Plain, Percent, Backslash}
MCUrlBytes == {Plain, Space, Plus, Ampersand, Equals, Question, Slash, 255}

=============================================================================
