-------------------------- MODULE MCFakeCNCController --------------------------
EXTENDS FakeCNCController

MCSteps == {-1, 2}
=============================================================================
