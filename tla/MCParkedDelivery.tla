--------------------------- MODULE MCParkedDelivery ---------------------------
\* Small instances of ParkedDelivery.
EXTENDS ParkedDelivery
===============================================================================
