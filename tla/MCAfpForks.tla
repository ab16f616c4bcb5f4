---------------------------- MODULE MCAfpForks ----------------------------
EXTENDS AfpForks

OneRange == {<<0, 1>>}
=============================================================================
