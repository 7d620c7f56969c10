--------------------------- MODULE MCLiveManager ---------------------------
\* LiveManager for the model checker.
EXTENDS LiveManager

Setting(p, r, w) == [permanent |-> p, saveReplay |-> r, remote |-> w]

\* A permanent live and a normal one that save replays, and a permanent one
\* without replays that runners transcode.
MCSettings == {Setting(TRUE, TRUE, FALSE), Setting(FALSE, TRUE, FALSE),
               Setting(TRUE, FALSE, TRUE)}

MCAll == { Setting(p, r, w) : p, r, w \in BOOLEAN }
=============================================================================
