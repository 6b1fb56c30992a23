------------------------------ MODULE MCXRLayers ------------------------------
EXTENDS XRLayers

MCEntries == Names \cup Motion \cup {Other}
===============================================================================
