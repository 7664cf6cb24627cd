------------------------------ MODULE MCEventBus ------------------------------
EXTENDS EventBus

CONSTANTS a, b

MCListeners == {a, b}
=============================================================================
