--------------------------- MODULE MCEventDelivery ----------------------------
EXTENDS EventDelivery, TLC

CONSTANTS c1, o1, o2
================================================================================
