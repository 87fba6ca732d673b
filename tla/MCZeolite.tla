------------------------------ MODULE MCZeolite ------------------------------
\* Small instances of Zeolite: a channel is full after two messages.
EXTENDS Zeolite

Msgs == <<2, 1>>
=============================================================================
