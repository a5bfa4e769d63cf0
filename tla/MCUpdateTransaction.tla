------------------------- MODULE MCUpdateTransaction --------------------------
EXTENDS UpdateTransaction

\* The first file is there; the second is there, new to the installation, or
\* the same in both releases.
MCInstalled == {f \in [File -> {"none", "old", "new"}] : f[1] = "old"}
=============================================================================
