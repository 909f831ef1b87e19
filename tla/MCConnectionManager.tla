------------------------ MODULE MCConnectionManager ------------------------
EXTENDS ConnectionManager
=============================================================================
