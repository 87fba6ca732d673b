---------------------------- MODULE MCKVRegistry -----------------------------
\* KVRegistry on a small instance: processes and names are model values.
EXTENDS KVRegistry
=============================================================================
