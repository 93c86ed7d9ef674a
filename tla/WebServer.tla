------------------------------ MODULE WebServer ------------------------------
\* What the requests of modules Otp, Registration and ApiKeys share.
EXTENDS FiniteSets

CONSTANT Workers   \* the worker processes of the web server

ASSUME WorkersAssumption == IsFiniteSet(Workers)
=============================================================================
